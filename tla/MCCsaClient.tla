---------------------------- MODULE MCCsaClient -----------------------------
(* Instances of CsaClient.  The server uses two game ids.                  *)
EXTENDS CsaClient

=============================================================================
