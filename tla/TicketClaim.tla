---------------------------- MODULE TicketClaim ----------------------------
(***************************************************************************)
(* What the README promises about taking and cancelling: "uma solicitacao  *)
(* concorrente nao pode assumir um chamado cancelado nem cancelar um       *)
(* assumido".  A ticket is free, held by one operator for ever, or         *)
(* withdrawn by its owner until an administrator reinstates it.            *)
(***************************************************************************)
CONSTANTS Tickets, Operators

VARIABLE claim

Init == claim = [t \in Tickets |-> "free"]

Take(t, p) == claim[t] = "free" /\ claim' = [claim EXCEPT ![t] = p]

Withdraw(t) == claim[t] = "free" /\ claim' = [claim EXCEPT ![t] = "withdrawn"]

Reinstate(t) == claim[t] = "withdrawn" /\ claim' = [claim EXCEPT ![t] = "free"]

Next == \E t \in Tickets : \/ \E p \in Operators : Take(t, p)
                           \/ Withdraw(t)
                           \/ Reinstate(t)

Spec == Init /\ [][Next]_claim
=============================================================================
