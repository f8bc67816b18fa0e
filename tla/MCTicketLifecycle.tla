------------------------- MODULE MCTicketLifecycle -------------------------
(* TicketLifecycle for TLC: the people and the threads are model values given *)
(* in the .cfg files; technicians and threads are interchangeable.            *)
EXTENDS TicketLifecycle, TLC

Interchangeable == Permutations(Technicians) \union Permutations(Requests)
=============================================================================
