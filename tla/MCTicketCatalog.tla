-------------------------- MODULE MCTicketCatalog --------------------------
(* Two concurrent requests on a catalogue of one sector and an option more,   *)
(* with a third name to rename to.                                            *)
EXTENDS TicketCatalog, TLC

CONSTANTS r1, r2, a, b, c

MCSeed == << [kind |-> "sector", name |-> a, active |-> TRUE] >>

\* The seed names a alone.
Symmetry == Permutations(Requests) \cup Permutations({b, c})
=============================================================================
