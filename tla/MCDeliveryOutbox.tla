-------------------------- MODULE MCDeliveryOutbox --------------------------
(* DeliveryOutbox for TLC; the workers are model values of the .cfg files.    *)
(* They are not declared symmetric, as liveness is checked with the rest.     *)
EXTENDS DeliveryOutbox
=============================================================================
