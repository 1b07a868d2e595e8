------------------------------ MODULE LeaseRow ------------------------------
(***************************************************************************)
(* The durable row of `job_leases` for one resource, and the conditional   *)
(* statements both store backends run on it (sqlite/coordination.rs, and   *)
(* the same SQL replicated in hiqlite_coordination.rs).                    *)
(*                                                                         *)
(* The backend runs one statement at a time, so every operator below is    *)
(* one atomic step of the store.  The clocks are the callers': a statement *)
(* carries the `now` its caller sampled earlier, on its own machine.       *)
(***************************************************************************)
EXTENDS Integers

CONSTANTS
  Nodes,       \* node ids, the lease owners
  MaxCounter,  \* the largest fence or revision (i64::MAX in the code)
  MaxTime,     \* bound on the clocks, in lease-clock units
  TTL          \* time to live of a grant, already clamped by expiry_from

CONSTANT Nobody  \* the owner of a row that was never inserted

ASSUME LeaseAssumption ==
  /\ MaxCounter \in Nat
  /\ MaxTime \in Nat
  /\ TTL \in Nat \ {0}
  /\ Nobody \notin Nodes

Time == 0 .. MaxTime + TTL

(* A `Lease`: the token handed to the owner and the content of the row.    *)
Lease == [owner : Nodes, fence : 1 .. MaxCounter,
          revision : 1 .. MaxCounter, expires : Time]

(* No row yet, or no token: counters 0 and an expiry no clock precedes.    *)
NoLease == [owner |-> Nobody, fence |-> 0, revision |-> 0, expires |-> 0]

(* Plausible bug: the update asks for the fence and forgets the revision.  *)
PublishableByFence(row, lease, now) ==
  row.fence = lease.fence /\ row.owner = lease.owner /\ row.expires > now

(* ACQUIRE_SQL: the INSERT (counters 0 become 1) or the ON CONFLICT update *)
(* of an expired row whose counters are not exhausted.                     *)
Acquirable(row, now) ==
  /\ row.expires <= now
  /\ row.fence < MaxCounter
  /\ row.revision < MaxCounter

Acquired(row, node, now) ==
  [owner |-> node, fence |-> row.fence + 1,
   revision |-> row.revision + 1, expires |-> now + TTL]

(* validate_lease_renewal: refused before any statement is sent.           *)
RenewalIsLater(lease, now) == now + TTL > lease.expires

(* The CAS of renew_lease, and the row it leaves.                          *)
Renewable(row, lease, now) ==
  /\ row = lease
  /\ row.expires > now
  /\ row.revision < MaxCounter

Renewed(row, now) ==
  [owner |-> row.owner, fence |-> row.fence,
   revision |-> row.revision + 1, expires |-> now + TTL]

(* The CAS of release_lease compares the exact token but no clock, and     *)
(* never moves the expiry forward.                                         *)
Releasable(row, lease) == row = lease /\ row.revision < MaxCounter

Released(row, now) ==
  [owner |-> row.owner, fence |-> row.fence,
   revision |-> row.revision + 1,
   expires |-> IF row.expires < now THEN row.expires ELSE now]

(* The lease predicate that with_fenced_conn evaluates in the transaction  *)
(* of the publication itself.                                              *)
Publishable(row, lease, now) == row = lease /\ row.expires > now
=============================================================================
