------------------------- MODULE ExclusivePublisher -------------------------
(***************************************************************************)
(* What the lease primitive promises, whatever the clocks, the lost        *)
(* replies and the crashes: publications belong to numbered epochs, only   *)
(* the latest epoch can publish, and an epoch that was closed never        *)
(* publishes again.                                                        *)
(***************************************************************************)
EXTENDS Naturals

VARIABLES
  epoch,      \* the latest epoch granted, 0 before the first
  open,       \* whether that epoch may still publish
  published   \* the epoch of the latest durable publication, 0 if none

Init == epoch = 0 /\ open = FALSE /\ published = 0

(* A new owner is granted the next epoch; the previous one, open or not,   *)
(* is over.                                                                *)
Grant == epoch' = epoch + 1 /\ open' = TRUE /\ UNCHANGED published

(* The owner of the latest epoch gives it back.                            *)
Close == open /\ open' = FALSE /\ UNCHANGED <<epoch, published>>

(* A durable effect of the latest epoch.                                   *)
Publish == open /\ published' = epoch /\ UNCHANGED <<epoch, open>>

Next == Grant \/ Close \/ Publish

Spec == Init /\ [][Next]_<<epoch, open, published>>
=============================================================================
