# Sekirei in TLA+

Specifications, model checking and proofs for Sekirei, a shogi engine in Rust:
its USI front end (`crates/sekirei-usi`), the multi-threaded search it drives
(`crates/sekirei-core`), the CSA network player (`crates/sekirei-csa`) and the
match runner that gates releases (`crates/sekirei-match-runner`).
Line numbers below are those of the repository the modules stand beside.

## 1. Inventory

### 1.1 Parts with state, and what they do to each other

| Part | State | Operations | Talks to |
|---|---|---|---|
| USI session: command loop (`sekirei-usi/src/main.rs`, `session.rs`) | `search_handle`, `search_abort`, `search_generation`, `active_ponder`, `ponder_go_args`, `ponder_result`, options | one handler per USI command; `abort_and_join`, `invalidate_and_join`, `mutate_after_join` | GUI (lines on stdin/stdout); worker (spawn, abort flag, join, generation, retained result) |
| USI search worker (closure in `go`) | its own generation, whether it ponders | search, test of the generation, print or retain | command loop; searcher |
| LazySMP searcher (`lazy_smp.rs`) | `search_active`, `external_abort`, `lifecycle_mutation`, shared table, observers | `search*`, `try_search*`, `reset_abort_flag`, `clear_tt`, `new_search`, `abort_flag` | any thread with a reference; a group of workers per call |
| Searcher (`search.rs`, `search/*.rs`) | position, killers/history, table, evaluation cache, budget | iterative deepening, PVS, quiescence, root split | table, budget, root-hint channel |
| Evaluation cache (`search.rs` 1181-1268) | slots of sequence, hash, score | `probe`, `store`, `clear` | every worker of a search |
| Root-hint channel (`search.rs` 1502-1758) | per-invocation generation, packed best hint | `begin_go`, `publish`, reading a hint | helpers publish, workers read |
| Transposition table (`tt.rs`) | buckets of two-word slots, generation | `probe`, `store`, `new_search`, `clear` | every worker and promoted task |
| Root split (`search/root_split.rs`) | gate and its quota, next move index, alpha, list of advice, owner's settled moves | claim, probe, publish, scan, confirm, drain, cancel, join | an owner and the helpers of one pass |
| Helper retirement (`search/helper_retirement.rs`) | per-worker progress word, count of iterations, retired flag | report an iteration, decide, reset | helpers of one search |
| Search budget (`budget.rs`) | nodes, deadline, stop flag, parent | `tick`, `should_abort`, batch flush, `child` | searcher, watchdog |
| Speculative search (`speculative.rs`) | per-task abort flag and result | spawn, promote, poll, abort on drop | rayon pool, table |
| CSA process loop (`sekirei-csa/src/main.rs`) | completed games, reconnect budget, recovery flag | connect, run, decide to reconnect or exit | one `CsaClient` at a time |
| CSA client (`protocol.rs`, `protocol/*`) | status, active game, header fields, ply count, record, receive windows | `run`, `play_game`, `think_and_send`, receive with deadlines | server (lines over TCP); search; record, manifest and status files |
| Match runner (`sekirei-match-runner`) | two engine processes, game record, trials, invalid games | hand-shake, barrier, `go`, wait with deadline, kill and relaunch, persist, publish | engines over pipes; files the gate command and wrappers read |

Parts without interesting state: board, move generation, SFEN, Zobrist,
evaluation and NNUE, df-pn and mate search, MCTS, opening book, training,
benchmarks, scripts, WASM bindings. `PROJECT.json` lists all of them, with the
reason why each is left out.

### 1.2 Where it is hard

* **USI session.** Two threads and three shared atomics. `stop`, `ponderhit`,
  `go`, `position` and rebuilding options may arrive at any moment of a search,
  in particular between the worker's test of its generation and its output. A
  question may be lost or answered twice; the loop may wait for ever in `join`.
* **LazySMP lifecycle.** Between a mutation's failed compare-exchange and its
  store of the stop flag the search that was in the way may be gone and
  somebody else's reset done.
* **CSA client.** A server that sends any line at any time, connections that
  fail at any line, files that cannot be written, and a reconnect budget that
  two different failures charge. Which failures end the process, which
  reconnect and which go on to the next game is decided in four places.
* **Lock-free tables.** Seqlock and XOR-validated entries with relaxed accesses.
* **Root split.** Helpers search root moves behind the owner's back and publish
  what beat the alpha they saw. The owner raises alpha, cancels, stops scanning
  and joins meanwhile; a helper may panic or be cut off with a move in hand, and
  the gate that holds pre-started helpers back is park and unpark by hand.
* **Channels between workers.** The hint slot and the retirement board are words
  updated without a lock by workers of which some may belong to an earlier `go`.
* **Match runner.** Engines answer late, twice or never, and die; a game must not
  inherit an answer; wrappers kill the runner the moment it prints a result.
* **Cancellation.** Stop flags and deadlines are polled; results computed after
  the flag went up must not be taken for complete ones.

### 1.3 What makes each part correct

* Session: one worker at most; at most one `bestmove` per `go`; an accepted
  `go` is never forgotten; no output for a withdrawn question; a `ponderhit`
  answers only from a completed search; shared state changes only while no
  worker runs; every handler returns.
* LazySMP: invocations exclude each other; the table is only cleared while
  quiescent; a stop is neither erased while a worker needs it nor brought back
  after a reset; a mutation behind an unlimited search returns.
* CSA: play starts only for the game agreed to; a batch is bounded; recovery is
  bounded and only at game boundaries; a client error is final; requests are
  never doubled; the record is complete; a game ends whatever the server sends.
* Evaluation cache: a hit never combines two stores; a slot has one writer.
* Speculation: what an aborted call returned is not stored; tasks end after the
  search that spawned them.
* Budget: a node limit is exact; every node is counted once; a deadline is seen
  within a batch; cancelling a helper never stops the invocation.
* Transposition table: a hit is made of entries of its own position, whatever
  words are torn; after a clear nothing is found that was not stored since it began.
* Root split: a pass returns what one thread would have found; no move is
  settled twice; the gate keeps its quota; the join returns.
* Root hints and retirement: a worker of an earlier `go` neither publishes,
  counts nor uses a hint; the best publication is retained; the deepest helper
  goes on.
* Match runner: nothing carries over between games; a published result is on
  disk; the gate accepts only one clean run; no engine is left running; a match
  ends.

## 2. Modules

| Module | What it is |
|---|---|
| `UsiAnswers` | abstract promise of a session to the GUI: questions and answers, no threads |
| `UsiSession` | command loop and worker, one action per atomic access they race on |
| `MCUsiSession` | instances for TLC |
| `UsiSessionProofs` | inductive invariant, safety theorems, refinement of `UsiAnswers` |
| `LazySmpLifecycle` | guard, mutex, stop flag and worker group of one `LazySmpSearcher` |
| `MCLazySmpLifecycle` | instance for TLC |
| `LazySmpProofs` | inductive invariant and safety theorems |
| `CsaBatch` | abstract promise of the CSA player: connections, games, an exit code |
| `CsaClient` | process loop, connection and game protocol of the CSA player |
| `MCCsaClient` | instances for TLC |
| `CsaClientProofs` | the dialogue with the server, limits, record, late results, refinement of `CsaBatch` |
| `EvalCache` | one slot of the evaluation cache, every atomic access a step |
| `MCEvalCache` | instance for TLC with late claims |
| `Speculative` | foreground loop, speculative tasks, their three flags and the pool |
| `MCSpeculative` | instances for TLC, symmetry of the candidates |
| `SpeculativeProofs` | what may reach the shared table |
| `Budget` | the node, deadline and stop accounting of an invocation and its passes |
| `MCSearchThreads` | instance for TLC of the budget and of the cache, symmetry of threads and positions |
| `SearchThreadsProofs` | the cache and the budget: hits that combine nothing, every node charged, limits |
| `RootSplit` | one pass of the cooperative root search: owner, helpers, gate, advice |
| `MCRootSplit` | instance for TLC |
| `RootSplitProofs` | the verdict of a pass, settling, the gate |
| `TranspositionTable` | one bucket of the table, every word a step, in both layouts |
| `MCTranspositionTable` | instance for TLC, symmetry of the threads |
| `RootHint` | the hint slot and the statistics words of `RootHintChannel` |
| `HelperRetirement` | the retirement board and its decisions |
| `WorkerIterations` | composes the two: workers deepening over several invocations |
| `MCWorkerIterations` | instance for TLC |
| `SharedMemoryProofs` | the channels between the workers and the table: own hints, exact statistics, retirement, hits of one position, clears |
| `EngineLink` | two engine processes, their pipes and the reader with its deadline |
| `MatchEvidence` | the files of a match and what the gate accepts |
| `MatchRunner` | composes the two: launch, games, retirement of engines, evidence |
| `MCMatchRunner` | instance for TLC |
| `MatchRunnerProofs` | engine processes, separation of games, durability of results, what the gate reads |

Operators whose comment begins with "Mutant of" are deliberate errors, used to
show that a property fails when the code is changed; no specification uses them.

### 2.1 UsiSession and UsiAnswers

The variables carry the names of the locals of `main`: `generation` is
`search_generation`, `abort` the flag behind the current backend's
`abort_flag()`, `handle` the worker in `search_handle`, and so on. A worker is
named by the generation it was spawned with.

A command takes three steps: `Receive` (the handler up to its abort; an
invalidating command bumps the generation here, and `ponderhit` samples
`is_finished`), `RequestAbort` (take `search_abort` and raise the flag) and,
once `join` returns, the rest of the handler: `Go`, `Supersede` (`position`,
`usinewgame`), `Quit`, `SetOption`, `IsReady`, `Stop`, `PonderhitAnswers`,
`PonderhitRestarts`. After the join no other thread is left, so the rest is one
step. A worker takes `Complete` or `CutOff`, then `CheckGeneration`, then
`Retain` or `Publish`, then `Exit`. The load of the generation and the output
that depends on it are two steps, because they are in the code.

`asked`, `current` and `answers` are history: which `go` is open and how many
`bestmove` lines it got. `UsiAnswers` states the promise in those terms, and
`ImplementsUsiAnswers` is the refinement with the mode read off the session.

Abstracted: the position, the move and the score; `info` lines; options that do
not rebuild the searcher; diagnostics. `suppress_bm` is never set in the
program and has no variable. A deadline timer that raises the backend's own
flag ends the search as its limits would, which is `Complete`.

### 2.2 LazySmpLifecycle

Clients call `search`, `try_search` or one of the mutations. `Lock`, `Acquire`,
`AcquireFails`, `Raise`, `Mutate`, `Release`, `Unlock` are the steps of
`acquire_after_requesting_abort` and the mutation behind it; `Enter`,
`TryFails`, `Prepare`, `WorkerReturns`, `Collect`, `Return` those of a search.
`Stop` is the store of any holder of `abort_flag()`. `armed` is history: no stop
has been asked for, and no mutation has begun, since the last reset. Atomics
are sequentially consistent here; the code's acquire/release pairs on
`search_active` order what the guard protects, and the stop flag is the only
relaxed location involved, on which every property is about a single location.

### 2.3 CsaClient

`Connect`, `ConnectFails` and `RunFailed` are the loop in `main.rs`;
`RequestGame`, `Rejected` and `GameOver` the loop in `CsaClient::run`; the
header actions, one per kind of line, are `play_game` up to `START`, and
`Think`, `AwaitOpponent`, `Remark`, `Result`, `Echo`, `OpponentMove`,
`Deadline` and `ReadFails` the game. A received line is handled in one step.
Every action that writes a file, sends or reads has the failing alternative the
code has. The server is unconstrained.

Abstracted: moves (legality is a choice), clocks, time control values, the text
of statuses and manifests. `agreed`, `started`, `queued`, `tries`, `ended`,
`consumed` and `lostRecord` are history the properties refer to.

`CsaBatch` is the promise to the server and to whoever started the player, in
eight modes without a single line: a game is requested, agreed to, begun and
finished, one after another; a connection is replaced between games only; every
attempt is counted once over all connections; exit code 0 means that all games
were played. `Mode`, `Game` and `Played` map the client to it. The mode comes from
what has passed between the two sides (`agreed`, `queued`), not from where the
client thinks it is, and `Game` is the set of ids by which they know the game, so
a client that plays a game under another id than the one agreed to takes a step
that no step of the batch allows. A request that is sent twice shows because a
client at the boundary with `request_game` set counts as `idle`. After a lost
record the batch is `astray`: games are counted, and nothing else is promised
until the connection is replaced.

### 2.4 EvalCache

`EvalCache::probe` is `Probe`, `ReadHash`, `ReadScore`, `Validate`; `store` is
`LoadSequence`, `Claim` or `ClaimFails`, `WriteHash`, `WriteScore`, `Publish`;
`Clear` is `clear` under the condition its callers give it, that no worker runs.
A worker evaluates one position after another: on a miss it stores what it
computed. The score of position `h` is `h`, so that a wrong hit can be seen.

The slot is sequentially consistent but for one thing. The claim is an `AcqRel`
compare-exchange followed by relaxed stores with no release fence, so that other
threads may see the payload before the claim. `LateClaim` switches this on: a
load of an odd sequence may then return the even value below it (`Loadable`) and
the two payload words may be stored in either order. Stale loads of other kinds
end in a failed compare-exchange or a miss and are left out.

### 2.5 Speculative

`Go`, `Install`, `Iterate`, `RootDone`, `Finish` are
`SpeculativeSearcher::search_with_history` as the USI loop calls it, `Watchdog`
its timer thread, `Stop` any holder of the abort flag. A task is queued by
`Iterate` and taken by an idle thread of the pool (`Start`) or by the
foreground's own thread while that waits at a split (`Steal`, from rayon's
documented behaviour). `NodeAborts`, `NodeReturns`, `Descend`, `Recheck`,
`RecheckExternal`, `Store` are the places of `spec_alpha_beta`; `frames` is the
depth of its recursion. `task_abort` and `budget.abort` are never cleared and
are tested in one step, `external_abort` is tested in another. `partial` and
`late` are history.

Abstracted: positions and scores, the aborted 0 apart; which move cuts off; the
splits inside the foreground's `root_search`, which is one step.

### 2.6 RootSplit

One call of `search_root_cooperative` on one iteration. A root move has a value
of its own, drawn from a small set; a search of it that is not aborted returns a
bound on the right side of its window, and a reduced one may in addition fail low
on a good move (`pruned` remembers those, since one thread loses them as well).
The owner's places are `Begin`, `FirstReturns`, `StartScan`, `ScanSlot`,
`ConfirmReturns`, `MainClaims`, `ScoutReturns`, `Drain`, `Join`, `Finish`; a
helper's `ClaimNext`, the gate (`Claim`, `Recheck`, `Wake`), `ProbeReturns`,
`Publish`. Each access to shared state is a step. `Stop` is the budget of the
invocation, `Panic` an unwinding probe whose guard cancels the pass. `Modes` are
the four tuned variants: ordinary, drain, priority, and pre-start with or without
a cap. Left out: telemetry, the reduction formulas, the pre-split of helpers.

### 2.7 TranspositionTable

A slot is the pair of words `key` and `data`, a word is the set of its fields,
and the XOR of two words is the symmetric difference: equal fields cancel as
equal bits do, and no two keys agree by luck. `probe`, `store` (both layouts,
with ageing and the move kept on a merge), `new_search` and `clear` are walks
over a bucket with one load or store per step. `recorded` is history: the
words stored for each position since a clear began.

### 2.8 RootHint, HelperRetirement, WorkerIterations

`RootHint` is the channel: `BeginGo`, `ResetCounter`, `ResetSlot` are
`begin_go`; `Publish`, `GiveWay`, `Exchange`, `ExchangeFails` the
compare-exchange loop; `Eligible` the load. `HelperRetirement` is the board:
`Completed` stores a progress word, `Decide`, `LookAtFlag`, `LookAtProgress`,
`Resolve` the decision with its reads of the others one by one.
`WorkerIterations` runs both from the loop of iterative deepening: every worker
takes a token when it starts, deepens, reads and re-reads hints, publishes,
counts and decides. What an iteration finds is a choice. A configuration with
`joins = FALSE` lets workers outlive the invocation, which the channel must
stand although `LazySmpSearcher` joins its workers; the retirement board relies
on the join and is checked with it. The sampling of contributions, which can
only forbid a retirement, is left open.

### 2.9 EngineLink, MatchEvidence, MatchRunner

`EngineLink` is `UsiEngine`: commands written, lines received before an absolute
deadline, kill. The engine is external; it reads its commands in order and may
answer late, more often than once, not at all, print `info` at any time and die
at any time. One thing is assumed of it, as the barrier between games assumes
it: nothing of a search follows the `readyok` of a later `isready`. Writes into a
pipe that block because the engine does not read are not modelled.

`MatchEvidence` is what is on disk: the trials, the summary and the manifest,
each replaced in one step, and the kifu and CSA files. `GateAccepts` is what the
gate command tests before it looks at the score. `MatchRunner` is `main`: launch
and handshake of both engines, per game `OpenGame` and `Barrier`, `Go` and what
comes back, `NotifyGameover`, `Retire`, the files in the order they are written,
`Publish`, and at the end `Quit` and `Reap`. Every wait may time out and every
write may fail. The runner may be killed at any step: the properties about files
are invariants of the disk, so that every state is a possible last one. An
engine's loss of interest for the runner is folded into the step that decides
(`Looking` lists the places where lines are read; elsewhere an engine's prints
commute with the runner's step and are left out).

Abstracted: moves (a legal move, an illegal one, resignation, win, repetition),
the transcript, openings, adjudication by score, Elo, LOS and SPRT arithmetic.

### 2.10 Budget

`nodes`, `abort` and `external` are the root `Budget` of an invocation; `local`,
`reported` and `batched` those of the child that each participant of a pass
ticks. A tick is a walk: `TickRoot`, or `TickChild` and then `TickParent` (exact)
or `Report` (batched), then `Latch` or `Poll` where the count says so, then
`Answer`, the value of `should_abort`. `FinishJob` and `LeaveJob` are
`finish_cooperative_job` in the guards of a job, `BeginPass`, `Dispatch`,
`Cancel` and `EndPass` the life of the children in `root_split.rs`. A plain
invocation has no passes and several threads at the root (the parallel splits),
with the watchdog of the speculative searcher or without. `T_COOP_BUDGET_BATCH`
is set without waiting for a search (main.rs:1537), so each child draws whether
it is batched. A thread may tick again after a refused tick: nothing is assumed
of the way the search unwinds. Left out: a child of a child, which only tests
make, telemetry, and the soft limit.

## 3. Runs

| Run | Instance | What it shows |
|---|---|---|
| `usi_session` | 3 `go` commands, generations up to 3, `FairSpec` | the safety properties of the session, the refinement, handlers return, a `go` with a limit is answered |
| `lazy_smp` | 3 clients, 2 workers, 4 calls, main worker stops its helper, `FairSpec` | exclusion, stop flag neither erased nor resurrected; a mutation returns behind an unlimited search nobody stops |
| `csa_client` | 2 game ids, limit up to 3 games, 2 reconnects, 3 plies, `FairSpec` | refinement of `CsaBatch`: one request at a time, boundary of reconnects, finality of client errors, exit code; handshake, bounds on batch, recovery and plies, record, trailing result; a started game ends |
| `csa_recording` | 1 id, 2 games, 1 reconnect, 1 ply | expected violation: a lost record is followed by another request (section 6) |
| `search_threads` | cache: 3 workers, 2 positions, sequence up to 4; budget: 3 threads, 5 ticks, 2 passes, batches of 2, clock read every 4, limit 3, every kind of invocation | no hit combines two stores; nodes are counted once, limits hold, an abort has a cause |
| `eval_cache_late` | 2 workers, late claims | expected violation: a mixed hit (section 6) |
| `speculative` | 2 searches of 1 iteration, recursion 3 deep, `FairSpec` | no store of an aborted value while its search runs; one late store; tasks end after their search |
| `spec_poison` | 2 searches, 1 candidate, recursion 2 deep | expected violation: an aborted value is stored after the next `go` (section 6) |
| `root_split` | 2 helpers, 3 moves, 3 values, quota 1, panics, `FairSpec` | the verdict of a pass, settling, the gate; a pass returns |
| `transposition_table` | 2 threads, 2 positions, 2 slots, 3 stores, 1 `new_search`, 1 clear | hits of the own position; what is found after a clear was stored since it began |
| `worker_iterations` | 3 workers; 3 invocations of depth 2 with hints, 1 of depth 3 and 2 moves, 2 of depth 3 with retirement | late workers are refused, best hint, statistics, retirement |
| `match_runner` | 2 games of 2 plies, 2 clock ticks, 2 answers to a `go`, 1 unread unsolicited line, `FairSpec` | the five properties of the match runner |

**Bounds.** Each bound is a constant. Three questions let one replace another
that replaced a third, and with two questions there is a generation left for a
`position` or a restarting `ponderhit` between them; workers of different generations never overlap by more
than one (`SingleWorker`, proved for every bound). Three clients are a search in
the way, a mutation waiting behind it and one more call waiting behind that; four
calls let one of them call again. In the CSA client two games on one connection
and a third after reconnecting distinguish the counters, two reconnects
distinguish "charged" from "refilled", two ids a wrong game from the right one,
and three plies reach the boundary from either side to move. `MaxGames` also
stops an unlimited loop; `Terminated` allows that state to have no successor. A
slot of the cache is written twice before its bound, so that a reader can meet
the value before, the value after and a cleared slot in between; a third worker
overwrites while a second validates. Two searches are what a task can outlive,
and a recursion three deep has a store above a store.

Three root moves are the owner's, one a helper advises and one that is still
unclaimed or claimed by the second helper; three values lie at, inside and above
the window, so alpha can rise between a probe and its advice. In the table, two
slots make a replacement choose, two positions collide, and the third store can
tear the second under a probe. Three invocations wrap a generation mask of 2
once; two helpers are a leader and a follower, and the main worker is the third.
Two games are what can carry over, and the `GateReadsOneCleanRun` of a match of
one game would not hold: over the files of a complete earlier one-game match, a
run killed between trials and summary leaves trials of its own under the earlier
summary, which the gate accepts if the tallies agree. With more games the first
snapshot has too few.

In the budget, a batch of 2 divides the 4 nodes between two readings of the clock
as 512 divides 4096; two batched children at once step over a multiple of 4; five
ticks leave nodes for the root before and after a pass of late children, and a
limit of 3 is met by all three threads at once. Cache and budget share no
variable, so an invariant of one holds in their composition exactly if it holds
while the other rests; `search_threads` moves one of them in each behaviour.

**Deadlock** is checked except in two runs. The only states without another step
are those `Terminated` names (the process has exited, every call, task or pass
has returned; `Over` in the budget) and, in the tables, those where the bound on stores or sequences
is reached. `worker_iterations` and `match_runner` have CHECK_DEADLOCK FALSE:
searches end, and so does a match (`MatchEnds` says that it does).

**Fairness.** The session: the operating system runs the loop inside a handler
and the worker outside its search; a search polls the abort flag every few
thousand nodes and stops at its limit when it has one. Nothing is assumed of the
GUI, and an unlimited search need not end by itself. LazySMP: every thread runs,
an unlimited worker ends only after it has seen the flag. A mutation needs the
guard `search_active` to be free when it looks; the search in the way ends
because it was asked to, and in the bounded instance no endless supply of other
searches overtakes it (the spin loop itself gives no such guarantee). CSA: the
search returns within its budget and an absolute deadline expires. Nothing is
assumed of the server, the network or the disk. Speculation: the pool runs its
threads and a root search is finite; a task need not end unless a flag stops it.
Root split: threads are scheduled, searches are finite, and a thread with a park
token wakes; nothing makes `park` return without one. Match runner: the runner
runs and time passes; the engines owe nothing.

## 4. Proofs

All theorems hold for every value of the constants their `ASSUME`s allow: the
bounds of the session are any naturals, and clients, workers and the number of
calls are arbitrary.

**UsiSessionProofs.** The inductive invariant is

    IInv == TypeOK /\ LoopInv /\ SingleWorker /\ HandleInv
            /\ AtMostOneAnswer /\ PendingInv /\ PartialInv /\ OwedInv

`SingleWorker` needs `HandleInv` (the handle names a spawned worker, of a
generation that is live unless the command in hand has just ended it).
`AtMostOneAnswer` is not inductive: it needs `PendingInv`, which says that a
worker that may still print searches the open question and that this question
has no answer yet. `PonderhitAnswersComplete` needs `PartialInv`: the flag goes
up only when the loop takes `search_abort`, so what `ponderhit` found finished
before was not cut off. `NoSilentEngine` is about states between commands;
`OwedInv` carries it through the handlers. Each conjunct is shown inductive in a
lemma of its own, with one step per action; the type lemma is split into loop,
worker and question variables. Theorems: `TypeCorrect`, `OneWorker`,
`OneAnswer`, `NeverSilent`, `InvalidationSilences`, `PonderhitComplete`,
`Quiescence`, and `Implements`, the refinement of `UsiAnswers`, where every step
is shown to be a step of the promise or to leave it unchanged.

**LazySmpProofs.** `IInv == TypeOK /\ Exclusive /\ MutexInv /\ ChannelInv /\
ArmedInv`. The interesting part is `ArmedInv`: `ResetSticks` fails if any client
may be on its way to raise the flag after a reset, and nobody is because the
reset still holds the mutex that such a client would have to hold (`MutexInv`)
until it has left the dangerous places. Theorems: `TypeCorrect`,
`MutualExclusion`, `ResetIsNotUndone`, `TableIsQuiescent`, `StopSurvives`,
`ObserversAreOwn`; the last and `TableIsQuiescent` follow from exclusion and are
stated for the reader, as `OneWorker` and `OneAnswer` of the session are.

**SearchThreadsProofs, the cache.** `WriterIsAlone` needs no assumption on the memory order:
`OwnerInv` adds to `OneWriter` that a claim is made from an even sequence and is
one more. `NoMixed` assumes `~LateClaim`, the case `eval_cache_late` shows to be
necessary. Its invariant says that an unclaimed slot holds the pair of one store
(`PairInv`) and that what a reader has loaded is still in the slot if the
sequence is still the one it loaded first (`ReaderInv`); the latter needs that
sequences only grow while somebody reads, which is why `Clear` must be quiescent.

**SearchThreadsProofs, the budget.** `BudgetSpec` is the budget alone, for any
number of searchers, any node limit, any poll interval and batch size. `Balance`
counts the nodes ticked once: those the root has, plus one for every pair of a
child and a node it holds back (`Held`, a finite set), so `NodesAreCharged` is a
bound on a cardinality (`HeldIsBounded`: a batched child holds less than one
batch, `NextBatch`). `CapInv` adds the ticks still under way: what was granted or
may still be was counted below the limit, and if the root has passed the limit
and the flag is down, those beyond it stand at the latch, from where nobody goes
on unrefused. `ClockInv` relates the nodes begun after the deadline to the
remainder of the root's count (`NextRemainder`): a report that jumps over a
multiple of the interval polls, because the test compares quotients. Theorems:
`RootCountsEachNodeOnce`, `LimitsAreKept`.

**CsaClientProofs.** Any limits on games, plies and reconnects, any lines.
`DialogueInv` says what the client has agreed to at each place, with the one way
around it by a lost record named in it; `HandshakeBeforePlay` is a conjunct.
`BatchInv` (a bounded batch has a game to play while it is at one), `RecoveryInv`
(the attempts since the last finished game are among those charged) give
`Bounded`; `RecordInv` says at each place by how much the record lags behind the
plies; `LateInv`, that a result may trail an aborted game only. The two action
properties are shown of each step from the same invariant, and so is the
refinement of `CsaBatch`, with `Counted` (a request is out while the header is
awaited; one that still stands is for a game to be played) added: each action is
one of two or three steps of the batch, or none (`Same`). Theorems:
`TypeCorrect`, `PlaysTheAgreedGame`, `StaysBounded`, `RecordsEveryMove`,
`StartsOverOnlyWhenDue` (which TLC checks as a consequence of the refinement),
`TakesLateResultOnce`, `ImplementsBatch`.

**SpeculativeProofs.** `Shape` is the part of the types that the arguments need;
the bound on the pool, a cardinality, is left to TLC. `Whole` rests on
`PartialInv`: while its search runs, the flag that aborted a call is still up
whenever its caller tests it. `LateOnce` rests on `LateInv`: a task that has made
its late store is back at a test it cannot pass. Both need that an iteration's
tasks are new (`SpawnedInv`, `FreshInv`).

**RootSplitProofs.** Any number of helpers, moves and scores. `Base` is `TypeOK`,
`Better` (alpha is the value of the best move or still the lower bound) and
`Stage` (who may be where in each phase of the owner). On it rest `HelpersGone`;
`OnePlace`, which says that a move is in one place only - unclaimed, in a
helper's hand, in the advice, in the owner's hand or settled - and gives
`SettledOnce`; and `Inv`, whose `NoneLost` says that every move is settled or in
one of those places unless the pass has a reason not to be trusted. At the end
all places but "settled" are empty (`Drained`), and `VerdictHolds` follows.
`GateInv` counts reservations against the quota.

**SharedMemoryProofs, the table.** Any number of threads, positions, results and slots.
`SlotsOK` says that a data word is empty or packed and that a key word is empty
or the XOR of the key of some position with a word packed for that position,
whatever data word stands beside it. If the probed key comes out of such a pair,
the two words were equal and the position was that one (`Decode`, `HitOwns`: the
only lemmas about sets). `ThreadsOK` carries the same through the words that
threads have loaded or are about to write; `HitsAreOwn` follows. `ClearInv`: a key
word that the clear has passed is empty or belongs to a word stored since the
clear began (`KeyRecorded`). With `Decode` a hit can only be such a word, which is
`HitsWereStored`. Stores may run beside the clear and leave a slot whose two words
are of two stores: such a slot is a miss.

**SharedMemoryProofs, the channels.** `HintInv`: the token of a running worker is the
current generation exactly if it belongs to the current invocation (`Tokens`),
and what a publication has seen is a lower bound of what the slot holds, because
the slot only improves within an invocation (`Publishing`). `RetirementInv`: what
a survey has read of its leader is a lower bound of the leader's progress
(`Surveys`), and a retired helper stays out of the loop (`Standing`). Masks and
widths are arbitrary. That a token is not handed out while a worker a full turn
of the generations late still holds it is a guard (`NotHeld`): the code's
generations have 28 bits, and joined workers hold none. `CallsInv` is about what
workers have read and are yet to count. While `begin_go` resets the counters
nobody holds the new token, so nobody counts into them (`Cleared`,
`NobodyCounts`); after it, the counter of publications and the calls still due
make up the exchanges (`Tally`), and an `applied` is counted only where an
`eligible_reads` was counted before it (`Room`, `Applying`). The hint with which a
root search began stays the main worker's own (`OwnHint`), because it was read
under the main worker's token. Theorems: `LateHintsAreRefused`,
`BestHintIsRetained`, `HintsAreUsedByTheirOwn`, `StatisticsAreExact`,
`RetirementIsAgreed`, `DeepestIsNeverRetired`.

**MatchRunnerProofs.** Any number of games and moves, any deadline, any number of
answers an engine prints for one `go`, any earlier files. `Phase` says in which
game the runner is at each place. `Owned` gives `NoOrphans`: a handle is replaced
only when its process is gone, and on the last way out the second engine is gone
before the first is waited for. `Talk` describes the links: an engine that is
asked has not read the request, or its reply is the last line in its channel and
it has nothing left to print, or it is gone (`Awaiting`). So the line a barrier
waits for leaves the link silent, and what arrives in a game is of that game
(`Current`); with `Fit`, which says that no process that has been at fault is
behind a handle at a place where it could be asked to move, `NothingCarriesOver`
follows. `Evidence` names the files that already contain the
game at each place between its end and its result line, and `PublishedIsOnDisk`
is inductive with it. `Readable` follows the summary: until the run has
written its own it is that of the earlier run, beside the earlier trials or those
of the first game (`Kept`); then it says `running`; and when it says `complete`
every trial is of this run and those that ended in a fault are on its list
(`Finished`, by `FaultsNoted`). `GateIsNotMisled` has a hypothesis on the earlier
files that `EarlierAssumption` does not make: the gate would accept none of them
wrongly as they are, and none is the complete record of a match of one game.
Section 6 says why the second part is needed. Theorems: `TypeCorrect`,
`NoEngineIsLeftBehind`, `GamesAreSeparate`, `ResultsAreDurable`,
`GateIsNotMisled`.

**Only model-checked.** The liveness properties (`HandlersReturn`,
`LimitedGoIsAnswered`, `MutationReturns`, `GameEnds`, `TasksEnd`, `PassReturns`,
`MatchEnds`), which rest on fairness and ENABLED and are out of the prover's
reach. Every safety and action property of the passing runs is a theorem.

## 5. Not modelled

The playing strength and correctness of the search tree, evaluation, move
generation and training are data a model checker cannot enumerate. The
selection of the best worker and the arithmetic of clocks, Elo and SPRT are
planned below. Of the weak memory order only the late
claim of the evaluation cache is modelled; the table's relaxed words are covered
by the steps of the model, because their validation does not depend on an order.
Inside a game the match runner looks for a second `bestmove` without waiting
(main.rs:897): one that arrives later is taken for the answer to the next `go` of
the same game, and no property says otherwise. Line framing, clocks and the files of
the CSA client are abstracted as described above.

## 6. Disagreements found

* **No exact command boundary** (seen in the model, no run). The comment at
  `crates/sekirei-usi/src/main.rs:1360` says the generation "gives publication an
  exact command boundary: a worker may only publish or retain ponder output for
  the `go` command that created it". The worker compares at 2027 or 2034 and
  publishes in a later step, so a `position` whose generation bump falls between
  the two does not stop the `bestmove`. What does hold, and is proved, is that a
  worker still searching when the invalidating command is received publishes
  nothing, and that nothing is published after the handler has joined it.
* **A lost record is not terminal** (`csa_recording`). The comment at
  `crates/sekirei-csa/src/protocol.rs:565` says a recording failure "is not
  retryable. In loop mode, requesting another game would repeat the same
  failure". The exits of `play_game` for a failed write in mid-game (1261, 1279,
  1291, 1330, 1338, 1375, 1384-1393, 1424, 1456) leave the status that makes it
  terminal unset, unlike the one at 1240, and with `--loop` another game is
  requested while the server still plays the old one. The mode `astray` of
  `CsaBatch`, and `lostRecord` in `StartsOverWhenDue`, name this one way around.

* **A mixed hit** (`eval_cache_late`). The comment at
  `crates/sekirei-core/src/search.rs:1189` says that the "sequence guard makes a
  concurrent overwrite a miss rather than a mixed hash/score hit". The reader's
  side has its fence; the writer's claim (1241-1248) is not followed by a
  release fence, so its relaxed payload stores may be seen first. x86-64 and
  single-instruction atomics on Arm keep the order.
* **A poisoned entry after the next `go`** (`spec_poison`). The comment at
  `crates/sekirei-core/src/speculative.rs:7` says that tasks "NEVER write to the
  shared TT if their abort flag has been set", which "prevents
  partially-computed 0-scores from poisoning entries". A nested call returns 0
  because of `external_abort`; its caller reads `budget.abort` before the search
  latches it and `external_abort` after the next `go` has cleared it, and
  stores. `WholeWithinSearch`, proved, is what does hold; so is `OneLateStore`.
* **Speculation is not isolated** (seen in the model, no run). The comments at
  `crates/sekirei-core/src/speculative.rs:48` and 88 say that a pool of its own
  makes it "structurally impossible" for a task to keep the foreground waiting
  and that the pool "must never" be shared with the foreground's parallel
  search. `search_with_history` installs the foreground on that same pool
  (`search.rs:4598`), whose waiting threads execute queued jobs.

* **Speculative nodes are not counted** (seen in the model, no run). The comment
  at `crates/sekirei-core/src/budget.rs:161` has `tick` called at the top of
  `spec_alpha_beta`; that function (`speculative.rs:185-192`) only tests
  `should_abort`, so the nodes of speculative tasks count towards no limit.

* **A one-game match run twice** (seen in the proof, no run). The comment at
  `crates/sekirei-match-runner/src/main.rs:1414` says that the comparison of
  counts "catches stale/truncated JSONL files". It does unless the counts agree:
  a match of one game over the paths of a finished match of one game replaces the
  JSONL before the summary, and if it is killed in between and the game had the
  same outcome, the new trial - possibly one that ended in an engine fault -
  stands beside the old complete summary and is accepted. With `NumGames = 1` and
  such a disk in `Earlier` TLC shows it; with two games or more the JSONL of the
  first game cannot have the counts of a whole match, and `GateIsNotMisled` is
  proved.

## 7. Plan

Done: the session and its promise (the part every other part serves), the
lifecycle it relies on, the network client, the shared tables, speculation, the
root split, the channels between workers, the match runner and the budget. Next:

1. The table as an atomic map from positions to entries that may forget, as an
   abstract module refined by the words of the slots (`HitsWereStored` states the
   part of it that concerns a reader).
2. Pure operators for the best-result selection, time arithmetic of `go` and the
   CSA clock, against reference definitions over bounded inputs.
3. Publication of artefacts and checkpoints by the training tools.

Small instances of related questions share a run (safety and liveness of one
component, as in `lazy_smp` and `csa_client`), so that new modules do not
multiply them.
