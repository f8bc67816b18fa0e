------------------------ MODULE MCMaintenanceNotices ------------------------
(* One notice, two concurrent requests and a reader of each role. *)
EXTENDS MaintenanceNotices, TLC

CONSTANTS r1, r2, s1

MCContents ==
  {[text |-> "old", audience |-> "all", sectors |-> {}],
   [text |-> "new", audience |-> "users", sectors |-> {s1}]}

Symmetry == Permutations(Requests)
=============================================================================
