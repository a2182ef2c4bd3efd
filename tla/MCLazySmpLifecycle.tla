------------------------- MODULE MCLazySmpLifecycle -------------------------
(* Three clients: one search in the way, one mutation behind it and one    *)
(* more mutation or search behind that.                                    *)
EXTENDS LazySmpLifecycle

=============================================================================
