--------------------------- MODULE DeliveryLedger ---------------------------
(***************************************************************************)
(* What the outbox of watched notifications promises, whoever posts them:  *)
(* each row counts its attempts one by one, is retried a bounded number of *)
(* times, and once it is sent or given up it stays so.                     *)
(***************************************************************************)
EXTENDS Naturals

CONSTANTS Rows, MaxAttempts
VARIABLES status, attempts

Init == status = [r \in Rows |-> "none"] /\ attempts = [r \in Rows |-> 0]

Enqueue(r) ==
  /\ status[r] = "none"
  /\ status' = [status EXCEPT ![r] = "pending"]
  /\ UNCHANGED attempts

\* One attempt is on record: the row is sent, given up, or waits for another.
Record(r) ==
  /\ status[r] = "pending"
  /\ attempts[r] < MaxAttempts
  /\ attempts' = [attempts EXCEPT ![r] = @ + 1]
  /\ \E s \in {"ok", "failed", "pending"} :
        /\ s = "pending" => attempts[r] + 1 < MaxAttempts
        /\ status' = [status EXCEPT ![r] = s]

Next == \E r \in Rows : Enqueue(r) \/ Record(r)
Spec == Init /\ [][Next]_<<status, attempts>>
=============================================================================
