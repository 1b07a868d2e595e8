---------------------------- MODULE ScanRequests ----------------------------
(***************************************************************************)
(* The scans of one library on one node: plurxd's JobManager (state.rs).   *)
(* A full scan (trigger) and the targeted scans that other applications    *)
(* ask for (request_scan) exclude each other through the lease of the      *)
(* library; a request that finds the library busy waits in `pending`,      *)
(* which the scan's task drains when it ends and a retry loop drains while *)
(* somebody else has the lease.  A request is a handler future, which its  *)
(* caller may drop at any await.                                           *)
(*                                                                         *)
(* The scan itself, the files it covers and the ring's 256 places are left *)
(* out: a targeted scan succeeds or fails.  Requests for one path share a  *)
(* scan; each is recorded by itself, as here.                              *)
(***************************************************************************)
EXTENDS Naturals, FiniteSets

CONSTANTS
  Requests,    \* calls of request_scan, each made once
  Tasks,       \* the tasks trigger spawns
  MaxPending,  \* MAX_PENDING_PER_LIBRARY
  MaxGrants,   \* how often a full scan, or another node, gets the lease
  Faults       \* "store": a store call fails; "abandon": a caller goes away

Loop == "retry loop"
Free == "free"
Elsewhere == "elsewhere"

ASSUME ScanAssumption ==
  /\ Requests \cap (Tasks \cup {Loop}) = {} /\ Loop \notin Tasks
  /\ {Free, Elsewhere} \cap (Requests \cup Tasks) = {}
  /\ MaxPending \in Nat /\ MaxGrants \in Nat
  /\ IsFiniteSet(Requests)

Drainers == Tasks \cup {Loop}

VARIABLES
  running,  \* statuses: a full scan of the library is running
  lease,    \* who has scan:library:N: Free, Elsewhere (another node, or an
            \* owner that is gone until the TTL ends), a drainer, a request
  pending,  \* the queue of the library
  task,     \* of a drainer, what it does next, see below
  hand,     \* what a drainer took from the queue
  stage,    \* of a request's handler, what it does next
  status,   \* of a request's record; "none" before it is made
  late,     \* history: what waits in the queue since nobody was there to drain it
  grants    \* how many of MaxGrants are used

vars == <<running, lease, pending, task, hand, stage, status, late, grants>>

Init ==
  /\ running = FALSE /\ lease = Free /\ pending = {}
  /\ task = [d \in Drainers |-> "idle"] /\ hand = [d \in Drainers |-> {}]
  /\ stage = [r \in Requests |-> "new"] /\ status = [r \in Requests |-> "none"]
  /\ late = {} /\ grants = 0

-----------------------------------------------------------------------------
Do(d, next) == task' = [task EXCEPT ![d] = next]
Step(r, next) == stage' = [stage EXCEPT ![r] = next]
Record(r, s) == status' = [status EXCEPT ![r] = s]

(* A release may fail, and the TTL recovers the lease; an owner that lost  *)
(* its lease has nothing to release.                                       *)
GiveBack(owner) == lease' \in IF lease = owner THEN {Free, Elsewhere} ELSE {lease}

(* Somebody will look at the queue after this step: a scan that is still   *)
(* to drain it, the retry loop, or those who are about to start that.      *)
Attended(do, at) ==
  \/ do[Loop] # "idle"
  \/ \E t \in Tasks : do[t] \in {"scanning", "finished", "drain", "requeue", "schedule"}
  \/ \E r \in Requests : at[r] \in {"contended", "schedule"}

-----------------------------------------------------------------------------
(* trigger: the lease, then the status under its lock.                     *)
Trigger(t) ==
  /\ task[t] = "idle" /\ lease = Free /\ grants < MaxGrants
  /\ grants' = grants + 1 /\ lease' = t
  /\ Do(t, "granted")
  /\ UNCHANGED <<running, pending, hand, stage, status, late>>

(* An earlier scan that lost its lease may not have ended yet.             *)
Refuse(t) ==
  /\ task[t] = "granted" /\ running
  /\ GiveBack(t) /\ Do(t, "idle")
  /\ UNCHANGED <<running, pending, hand, stage, status, late, grants>>

Scan(t) ==
  /\ task[t] = "granted" /\ ~running
  /\ running' = TRUE /\ Do(t, "scanning")
  /\ UNCHANGED <<lease, pending, hand, stage, status, late, grants>>

(* run_scan returns, or the lease was lost: finish(), then release().      *)
Finish(t) ==
  /\ task[t] = "scanning"
  /\ running' = FALSE /\ Do(t, "finished")
  /\ UNCHANGED <<lease, pending, hand, stage, status, late, grants>>

Release(t) ==
  /\ task[t] = "finished"
  /\ GiveBack(t) /\ Do(t, "drain")
  /\ UNCHANGED <<running, pending, hand, stage, status, late, grants>>

(* Another node's job, and the end of a lease: it was released there, or   *)
(* its owner is gone or could not renew it.                                *)
TakeElsewhere ==
  /\ grants < MaxGrants /\ lease = Free
  /\ grants' = grants + 1 /\ lease' = Elsewhere
  /\ UNCHANGED <<running, pending, task, hand, stage, status, late>>

Lapse ==
  /\ lease # Free /\ lease' = Free
  /\ UNCHANGED <<running, pending, task, hand, stage, status, late, grants>>

-----------------------------------------------------------------------------
(* drain_pending_once, by a scan's task (drain_pending) or, when it wakes  *)
(* from its sleep of two seconds, by the retry loop.                       *)

Due(d) == IF d = Loop THEN "sleep" ELSE "drain"
Over(d) == IF d = Loop THEN "check" ELSE "idle"

(* Plausible bug: what a drain left in the queue is left to the next scan. *)
AgainByTheNext(d) == IF d = Loop THEN "sleep" ELSE "idle"

Again(d) == IF d = Loop THEN "sleep" ELSE "schedule"

Take(d) ==
  /\ task[d] = Due(d)
  /\ hand' = [hand EXCEPT ![d] = pending] /\ pending' = {} /\ late' = {}
  /\ Do(d, IF pending = {} THEN Over(d) ELSE "acquire")
  /\ UNCHANGED <<running, lease, stage, status, grants>>

Granted(d) ==
  /\ task[d] = "acquire" /\ lease = Free
  /\ lease' = d /\ Do(d, "run")
  /\ UNCHANGED <<running, pending, hand, stage, status, late, grants>>

(* The lease is held, or could not be asked for.                           *)
Denied(d) ==
  /\ task[d] = "acquire" /\ (lease # Free \/ "store" \in Faults)
  /\ Do(d, "requeue")
  /\ UNCHANGED <<running, lease, pending, hand, stage, status, late, grants>>

Full == Cardinality(pending) >= MaxPending

(* queue_targeted, which fails the request when the queue is full.         *)
Enqueue(r, queued) ==
  IF Full THEN Record(r, "failed") /\ UNCHANGED pending
          ELSE pending' = pending \cup {r} /\ status' = queued

Requeue(d) ==
  /\ task[d] = "requeue"
  /\ \E r \in hand[d] :
       /\ hand' = [hand EXCEPT ![d] = @ \ {r}]
       /\ Enqueue(r, status)
  /\ UNCHANGED <<running, lease, task, stage, late, grants>>

Requeued(d) ==
  /\ task[d] = "requeue" /\ hand[d] = {}
  /\ Do(d, Again(d))
  /\ UNCHANGED <<running, lease, pending, hand, stage, status, late, grants>>

RunOne(d) ==
  /\ task[d] = "run"
  /\ \E r \in hand[d], s \in {"done", "failed"} :
       /\ hand' = [hand EXCEPT ![d] = @ \ {r}]
       /\ Record(r, s)
  /\ UNCHANGED <<running, lease, pending, task, stage, late, grants>>

Ran(d) ==
  /\ task[d] = "run" /\ hand[d] = {}
  /\ GiveBack(d) /\ Do(d, Over(d))
  /\ UNCHANGED <<running, pending, hand, stage, status, late, grants>>

(* schedule_pending_retry: one loop at a time.                             *)
StartLoop(d, next) ==
  task' = [task EXCEPT ![d] = next, ![Loop] = IF @ = "idle" THEN "sleep" ELSE @]

Schedule(t) ==
  /\ task[t] = "schedule" /\ StartLoop(t, "idle")
  /\ UNCHANGED <<running, lease, pending, hand, stage, status, late, grants>>

(* Plausible bug: a drain that found nothing to do ends the loop.          *)
CheckNothing ==
  /\ task[Loop] = "check" /\ Do(Loop, "idle")
  /\ UNCHANGED <<running, lease, pending, hand, stage, status, late, grants>>

(* The loop ends only on an empty queue, seen under the queue's lock.      *)
Check ==
  /\ task[Loop] = "check"
  /\ Do(Loop, IF pending = {} THEN "idle" ELSE "sleep")
  /\ UNCHANGED <<running, lease, pending, hand, stage, status, late, grants>>

-----------------------------------------------------------------------------
(* request_scan, one step from await to await.                             *)

(* The record is this handler's alone so far: making it and looking at     *)
(* `running` are one step.                                                 *)
Ask(r) ==
  /\ stage[r] = "new" /\ Record(r, "running")
  /\ Step(r, IF running THEN "busy" ELSE "acquire")
  /\ UNCHANGED <<running, lease, pending, task, hand, late, grants>>

Unattended == IF Attended(task, stage') THEN late ELSE late \cup pending'

(* The library was busy when it looked.                                    *)
QueueBusy(r) ==
  /\ stage[r] = "busy"
  /\ Enqueue(r, status) /\ Step(r, IF Full THEN "over" ELSE "mark")
  /\ late' = Unattended
  /\ UNCHANGED <<running, lease, task, hand, grants>>

Mark(r) ==
  /\ stage[r] = "mark" /\ Step(r, "over") /\ Record(r, "queued")
  /\ UNCHANGED <<running, lease, pending, task, hand, late, grants>>

Acquire(r) ==
  /\ stage[r] = "acquire"
  /\ \/ lease = Free /\ lease' = r /\ Step(r, "scanning")
     \/ lease # Free /\ UNCHANGED lease /\ Step(r, "refused")
     \/ "store" \in Faults /\ UNCHANGED lease /\ Step(r, "over")
  /\ UNCHANGED <<running, pending, task, hand, status, late, grants>>

(* Somebody else has the lease.                                            *)
QueueContended(r) ==
  /\ stage[r] = "refused"
  /\ Enqueue(r, status) /\ Step(r, IF Full THEN "over" ELSE "contended")
  /\ UNCHANGED <<running, lease, task, hand, late, grants>>

MarkContended(r) ==
  /\ stage[r] = "contended" /\ Step(r, "schedule") /\ Record(r, "queued")
  /\ UNCHANGED <<running, lease, pending, task, hand, late, grants>>

ScheduleRetry(r) ==
  /\ stage[r] = "schedule" /\ Step(r, "over")
  /\ task' = [task EXCEPT ![Loop] = IF @ = "idle" THEN "sleep" ELSE @]
  /\ UNCHANGED <<running, lease, pending, hand, status, late, grants>>

(* run_targeted returns, or the lease was lost; release(), then the record. *)
Ended(r) ==
  /\ stage[r] = "scanning" /\ GiveBack(r) /\ Step(r, "record")
  /\ UNCHANGED <<running, pending, task, hand, status, late, grants>>

Answer(r) ==
  /\ stage[r] = "record" /\ Step(r, "over")
  /\ \E s \in {"done", "failed"} : Record(r, s)
  /\ UNCHANGED <<running, lease, pending, task, hand, late, grants>>

(* The caller goes away: the future is dropped, and its lease with it,     *)
(* which nobody releases.                                                  *)
Abandon(r) ==
  /\ "abandon" \in Faults /\ stage[r] \notin {"new", "over"}
  /\ Step(r, "over")
  /\ lease' = IF lease = r THEN Elsewhere ELSE lease
  /\ late' = IF Attended(task, stage') THEN late ELSE late \cup pending
  /\ UNCHANGED <<running, pending, task, hand, status, grants>>

-----------------------------------------------------------------------------
ScanTask(t) == Refuse(t) \/ Scan(t) \/ Finish(t) \/ Release(t) \/ Schedule(t)

Drain(d) == \/ Take(d) \/ Granted(d) \/ Denied(d) \/ Requeue(d) \/ Requeued(d)
            \/ RunOne(d) \/ Ran(d)

Handle(r) == \/ Ask(r) \/ QueueBusy(r) \/ Mark(r) \/ Acquire(r)
             \/ QueueContended(r) \/ MarkContended(r) \/ ScheduleRetry(r)
             \/ Ended(r) \/ Answer(r)

Next ==
  \/ \E t \in Tasks : Trigger(t) \/ ScanTask(t)
  \/ \E d \in Drainers : Drain(d)
  \/ Check
  \/ \E r \in Requests : Handle(r) \/ Abandon(r)
  \/ TakeElsewhere \/ Lapse

Spec == Init /\ [][Next]_vars

(* Tasks and handlers run, a scan ends, a lease that is not renewed runs   *)
(* out, and the retry loop is not denied for ever.                         *)
Fairness ==
  /\ \A t \in Tasks : WF_vars(ScanTask(t) \/ Drain(t))
  /\ WF_vars(Check \/ Drain(Loop)) /\ SF_vars(Granted(Loop))
  /\ \A r \in Requests : WF_vars(stage[r] # "new" /\ Handle(r))
  /\ WF_vars(lease = Elsewhere /\ Lapse)

FairSpec == Spec /\ Fairness

-----------------------------------------------------------------------------
Final == {"done", "failed"}

(* The variables keep their types, the queue its MAX_PENDING_PER_LIBRARY.  *)
TypeOK ==
  /\ running \in BOOLEAN
  /\ lease \in {Free, Elsewhere} \cup Drainers \cup Requests
  /\ pending \subseteq Requests /\ Cardinality(pending) <= MaxPending
  /\ task \in [Drainers -> {"idle", "granted", "scanning", "finished", "drain", "acquire",
                            "requeue", "run", "schedule", "sleep", "check"}]
  /\ hand \in [Drainers -> SUBSET Requests]
  /\ stage \in [Requests -> {"new", "busy", "mark", "acquire", "refused",
                             "contended", "schedule", "scanning", "record", "over"}]
  /\ status \in [Requests -> {"none", "running", "queued"} \cup Final]
  /\ late \subseteq pending /\ grants \in 0 .. MaxGrants

(* A request in the queue is one somebody will come for, unless it was     *)
(* queued late: the drains, the retry loop and its end leave no gap        *)
(* (state.rs, schedule_pending_retry: "the empty-observation race").       *)
PendingIsServed == pending \subseteq late \/ Attended(task, stage)

(* A request waits in one place at a time, and has no answer while it      *)
(* waits: it is not run twice (drain_pending_once).                        *)
WaitsOnce ==
  \A r \in Requests :
    /\ \A d \in Drainers : r \in hand[d] =>
         /\ r \notin pending
         /\ \A e \in Drainers \ {d} : r \notin hand[e]
    /\ r \in pending \cup UNION {hand[d] : d \in Drainers} => status[r] \notin Final

(* At most one full scan of the library runs on the node, through lost     *)
(* leases too: that is what `running` is tested for (trigger).             *)
OneFullScan ==
  /\ \A t, u \in Tasks : task[t] = "scanning" /\ task[u] = "scanning" => t = u
  /\ running <=> \E t \in Tasks : task[t] = "scanning"

(* An answer is final, but for the handler that says "queued" after it.    *)
AnswerStays ==
  [][\A r \in Requests :
       status[r] \in Final /\ status'[r] # status[r] => stage[r] \in {"mark", "contended"}]_vars

(* A queued request is answered, unless it was queued late.                *)
PendingIsAnswered ==
  \A r \in Requests : r \in pending ~> status[r] \in Final \/ r \in late

(* ... always: "Requests are queued, never dropped" (state.rs).            *)
NeverDropped == \A r \in Requests : r \in pending ~> status[r] \in Final
=============================================================================
