------------------------- MODULE ScanRequests_proofs -------------------------
(***************************************************************************)
(* Proofs about ScanRequests, for any requests, tasks, cap and faults:     *)
(* type correctness with the cap of the queue, the queue is attended, no   *)
(* request waits twice, one full scan at a time, answers stay.             *)
(***************************************************************************)
EXTENDS ScanRequests, FiniteSetTheorems, TLAPS

Phases == {"idle", "granted", "scanning", "finished", "drain", "acquire",
           "requeue", "run", "schedule", "sleep", "check"}
Stages == {"new", "busy", "mark", "acquire", "refused", "contended",
           "schedule", "scanning", "record", "over"}

(* TypeOK without the cap of the queue.                                    *)
Types ==
  /\ running \in BOOLEAN
  /\ lease \in {Free, Elsewhere} \cup Drainers \cup Requests
  /\ pending \subseteq Requests
  /\ task \in [Drainers -> Phases] /\ hand \in [Drainers -> SUBSET Requests]
  /\ stage \in [Requests -> Stages]
  /\ status \in [Requests -> {"none", "running", "queued"} \cup Final]
  /\ late \subseteq pending /\ grants \in 0 .. MaxGrants

-----------------------------------------------------------------------------
(* What the small operators return, given the types.                       *)
LEMMA Names == /\ Tasks \subseteq Drainers /\ Loop \in Drainers
               /\ Loop \notin Tasks /\ Loop \notin Requests
               /\ Tasks \cap Requests = {}
               /\ Free # Elsewhere
               /\ \A d \in Drainers : d \notin Tasks => d = Loop
BY ScanAssumption DEF Drainers, Free, Elsewhere

LEMMA Phase == \A d \in Drainers : /\ Due(d) \in Phases /\ Over(d) \in Phases
                                   /\ Again(d) \in Phases
BY DEF Due, Over, Again, Phases

LEMMA Doing ==
  ASSUME Types, NEW d \in Drainers, NEW next \in Phases, Do(d, next)
  PROVE  /\ task' \in [Drainers -> Phases] /\ task'[d] = next
         /\ \A e \in Drainers \ {d} : task'[e] = task[e]
BY DEF Types, Do

LEMMA Stepping ==
  ASSUME Types, NEW r \in Requests, NEW next \in Stages, Step(r, next)
  PROVE  /\ stage' \in [Requests -> Stages] /\ stage'[r] = next
         /\ \A q \in Requests \ {r} : stage'[q] = stage[q]
BY DEF Types, Step

LEMMA Recording ==
  ASSUME Types, NEW r \in Requests, NEW s \in {"running", "queued"} \cup Final, Record(r, s)
  PROVE  /\ status' \in [Requests -> {"none", "running", "queued"} \cup Final] 
         /\ status'[r] = s
         /\ \A q \in Requests \ {r} : status'[q] = status[q]
BY DEF Types, Record

LEMMA Handing ==
  ASSUME Types, NEW d \in Drainers, NEW S \in SUBSET Requests,
         hand' = [hand EXCEPT ![d] = S]
  PROVE  /\ hand' \in [Drainers -> SUBSET Requests] /\ hand'[d] = S
         /\ \A e \in Drainers \ {d} : hand'[e] = hand[e]
BY DEF Types

LEMMA GivingBack ==
  ASSUME Types, NEW o, GiveBack(o)
  PROVE  lease' \in {Free, Elsewhere} \cup Drainers \cup Requests
BY DEF Types, GiveBack

LEMMA Enqueuing ==
  ASSUME Types, NEW r \in Requests, Enqueue(r, status)
  PROVE  /\ pending' \subseteq Requests /\ pending \subseteq pending'
         /\ pending' \subseteq pending \cup {r}
         /\ status' \in [Requests -> {"none", "running", "queued"} \cup Final]
         /\ \A q \in Requests \ {r} : status'[q] = status[q]
         /\ Full => pending' = pending /\ status'[r] = "failed"
         /\ ~Full => pending' = pending \cup {r} /\ status' = status
BY Recording DEF Types, Enqueue, Final, Record

-----------------------------------------------------------------------------
(* The types are preserved, by the scan's task, the other nodes, the       *)
(* drains and the handlers.                                                *)
LEMMA ScanTypes ==
  ASSUME Types, NEW t \in Tasks, Trigger(t) \/ ScanTask(t)
  PROVE  Types'
<1>0. t \in Drainers /\ Loop \in Drainers
  BY Names
<1>1. CASE Trigger(t)
  BY <1>0, <1>1, ScanAssumption, Doing DEF Types, Trigger, Phases
<1>2. CASE Refuse(t)
  BY <1>0, <1>2, Doing, GivingBack DEF Types, Refuse, Phases
<1>3. CASE Scan(t)
  BY <1>0, <1>3, Doing DEF Types, Scan, Phases
<1>4. CASE Finish(t)
  BY <1>0, <1>4, Doing DEF Types, Finish, Phases
<1>5. CASE Release(t)
  BY <1>0, <1>5, Doing, GivingBack DEF Types, Release, Phases
<1>6. CASE Schedule(t)
  BY <1>0, <1>6 DEF Types, Schedule, StartLoop, Phases
<1> QED
  BY <1>1, <1>2, <1>3, <1>4, <1>5, <1>6 DEF ScanTask

LEMMA OtherTypes ==
  ASSUME Types, TakeElsewhere \/ Lapse \/ Check
  PROVE  Types'
<1>1. CASE TakeElsewhere
  BY <1>1, ScanAssumption DEF Types, TakeElsewhere
<1>2. CASE Lapse
  BY <1>2 DEF Types, Lapse
<1>3. CASE Check
  BY <1>3, Names, Doing DEF Types, Check, Phases
<1> QED
  BY <1>1, <1>2, <1>3

LEMMA DrainTypes ==
  ASSUME Types, NEW d \in Drainers, Drain(d)
  PROVE  Types'
<1>0. Over(d) \in Phases /\ Again(d) \in Phases
  BY Phase
<1>1. CASE Take(d)
  <2>1. pending \in SUBSET Requests /\ {} \in SUBSET Requests
    BY DEF Types
  <2>2. (IF pending = {} THEN Over(d) ELSE "acquire") \in Phases
    BY <1>0 DEF Phases
  <2>3. task' \in [Drainers -> Phases] /\ hand' \in [Drainers -> SUBSET Requests]
    BY <1>1, <2>1, <2>2, Doing, Handing DEF Take
  <2> QED
    BY <1>1, <2>3 DEF Types, Take
<1>2. CASE Granted(d)
  BY <1>2, Doing DEF Types, Granted, Phases
<1>3. CASE Denied(d)
  BY <1>3, Doing DEF Types, Denied, Phases
<1>4. CASE Requeue(d)
  <2>1. PICK r \in hand[d] : /\ hand' = [hand EXCEPT ![d] = @ \ {r}]
                            /\ Enqueue(r, status)
    BY <1>4 DEF Requeue
  <2>2. r \in Requests /\ hand[d] \ {r} \in SUBSET Requests
    BY DEF Types
  <2>3. hand' \in [Drainers -> SUBSET Requests]
    BY <2>1, <2>2 DEF Types
  <2> QED
    BY <1>4, <2>1, <2>2, <2>3, Enqueuing DEF Types, Requeue
<1>5. CASE Requeued(d)
  BY <1>0, <1>5, Doing DEF Types, Requeued
<1>6. CASE RunOne(d)
  <2>1. PICK r \in hand[d], a \in {"done", "failed"} :
               hand' = [hand EXCEPT ![d] = @ \ {r}] /\ Record(r, a)
    BY <1>6 DEF RunOne
  <2>2. r \in Requests
    BY DEF Types
  <2> QED
    BY <1>6, <2>1, <2>2, Recording DEF Types, RunOne, Final
<1>7. CASE Ran(d)
  BY <1>0, <1>7, Doing, GivingBack DEF Types, Ran
<1> QED
  BY <1>1, <1>2, <1>3, <1>4, <1>5, <1>6, <1>7 DEF Drain

LEMMA HandlerTypes ==
  ASSUME Types, NEW r \in Requests, Handle(r) \/ Abandon(r)
  PROVE  Types'
<1>1. CASE Ask(r)
  <2>1. (IF running THEN "busy" ELSE "acquire") \in Stages
    BY DEF Stages
  <2> QED
    BY <1>1, <2>1, Stepping, Recording DEF Types, Ask
<1>2. CASE QueueBusy(r)
  <2>1. (IF Full THEN "over" ELSE "mark") \in Stages
    BY DEF Stages
  <2>2. late' \subseteq pending'
    BY <1>2, Enqueuing DEF Types, QueueBusy, Unattended
  <2> QED
    BY <1>2, <2>1, <2>2, Stepping, Enqueuing DEF Types, QueueBusy
<1>3. CASE Mark(r)
  BY <1>3, Stepping, Recording DEF Types, Mark, Stages
<1>4. CASE Acquire(r)
  BY <1>4, Stepping DEF Types, Acquire, Stages
<1>5. CASE QueueContended(r)
  <2>1. (IF Full THEN "over" ELSE "contended") \in Stages
    BY DEF Stages
  <2> QED
    BY <1>5, <2>1, Stepping, Enqueuing DEF Types, QueueContended
<1>6. CASE MarkContended(r)
  BY <1>6, Stepping, Recording DEF Types, MarkContended, Stages
<1>7. CASE ScheduleRetry(r)
  BY <1>7, Stepping, Names DEF Types, ScheduleRetry, Phases, Stages
<1>8. CASE Ended(r)
  BY <1>8, Stepping, GivingBack DEF Types, Ended, Stages
<1>9. CASE Answer(r)
  BY <1>9, Stepping, Recording DEF Types, Answer, Stages, Final
<1>10. CASE Abandon(r)
  <2>1. late' \subseteq pending'
    BY <1>10 DEF Types, Abandon
  <2> QED
    BY <1>10, <2>1, Stepping DEF Types, Abandon, Stages
<1> QED
  BY <1>1, <1>2, <1>3, <1>4, <1>5, <1>6, <1>7, <1>8, <1>9, <1>10 DEF Handle

LEMMA StepTypes ==
  ASSUME Types, [Next]_vars
  PROVE  Types'
<1>1. CASE Next
  BY <1>1, ScanTypes, OtherTypes, DrainTypes, HandlerTypes DEF Next
<1>2. CASE UNCHANGED vars
  BY <1>2 DEF Types, vars
<1> QED
  BY <1>1, <1>2

-----------------------------------------------------------------------------
(* The cap.  Only Enqueue adds to the queue, one request at a time.        *)
Capped == Cardinality(pending) <= MaxPending

LEMMA EnqueueCapped ==
  ASSUME Types, Capped, NEW r \in Requests, Enqueue(r, status)
  PROVE  Capped'
<1>1. IsFiniteSet(pending)
  BY ScanAssumption, FS_Subset DEF Types
<1>2. Cardinality(pending) \in Nat
  BY <1>1, FS_CardinalityType
<1>3. CASE Full
  BY <1>3, Enqueuing DEF Capped
<1>4. CASE ~Full
  <2>1. Cardinality(pending) < MaxPending
    BY <1>2, <1>4, ScanAssumption DEF Full
  <2>2. pending' = pending \cup {r}
    BY <1>4, Enqueuing
  <2>3. \/ Cardinality(pending') = Cardinality(pending)
        \/ Cardinality(pending') = Cardinality(pending) + 1
    BY <1>1, <1>2, <2>2, FS_AddElement
  <2>4. MaxPending \in Nat
    BY ScanAssumption
  <2> QED
    BY <1>2, <2>1, <2>3, <2>4 DEF Capped
<1> QED
  BY <1>3, <1>4

(* A step leaves the queue alone, empties it, or enqueues one request.     *)
LEMMA QueueSteps ==
  ASSUME Types, [Next]_vars
  PROVE  \/ pending' = pending \/ pending' = {}
         \/ \E r \in Requests : Enqueue(r, status)
<1>1. ASSUME NEW t \in Tasks, Trigger(t) \/ ScanTask(t)
      PROVE  pending' = pending
  BY <1>1 DEF Trigger, ScanTask, Refuse, Scan, Finish, Release, Schedule
<1>2. ASSUME TakeElsewhere \/ Lapse \/ Check
      PROVE  pending' = pending
  BY <1>2 DEF TakeElsewhere, Lapse, Check
<1>3. ASSUME NEW d \in Drainers, Drain(d)
      PROVE  \/ pending' = pending \/ pending' = {}
             \/ \E r \in Requests : Enqueue(r, status)
  <2>1. CASE Requeue(d)
    BY <2>1 DEF Requeue, Types
  <2>2. CASE ~Requeue(d)
    BY <1>3, <2>2 DEF Drain, Take, Granted, Denied, Requeued, RunOne, Ran
  <2> QED
    BY <2>1, <2>2
<1>4. ASSUME NEW r \in Requests, Handle(r) \/ Abandon(r)
      PROVE  \/ pending' = pending \/ pending' = {}
             \/ \E q \in Requests : Enqueue(q, status)
  <2>1. CASE QueueBusy(r) \/ QueueContended(r)
    BY <2>1 DEF QueueBusy, QueueContended
  <2>2. CASE ~(QueueBusy(r) \/ QueueContended(r))
    BY <1>4, <2>2 DEF Handle, Ask, Mark, Acquire, MarkContended, ScheduleRetry,
                      Ended, Answer, Abandon
  <2> QED
    BY <2>1, <2>2
<1> QED
  BY <1>1, <1>2, <1>3, <1>4 DEF Next, vars

LEMMA StepCapped ==
  ASSUME Types, Capped, [Next]_vars
  PROVE  Capped'
<1>1. CASE pending' = pending
  BY <1>1 DEF Capped
<1>2. CASE pending' = {}
  BY <1>2, FS_EmptySet, ScanAssumption DEF Capped
<1>3. CASE \E r \in Requests : Enqueue(r, status)
  BY <1>3, EnqueueCapped
<1> QED
  BY <1>1, <1>2, <1>3, QueueSteps

LEMMA InitTypes == Init => Types /\ Capped
<1> SUFFICES ASSUME Init PROVE Types /\ Capped
  OBVIOUS
<1>1. Types
  <2>1. /\ task \in [Drainers -> Phases] /\ hand \in [Drainers -> SUBSET Requests]
        /\ stage \in [Requests -> Stages]
    BY DEF Init, Phases, Stages
  <2>2. status \in [Requests -> {"none", "running", "queued"} \cup Final]
    BY DEF Init
  <2>3. grants \in 0 .. MaxGrants
    BY ScanAssumption DEF Init
  <2> QED
    BY <2>1, <2>2, <2>3 DEF Init, Types
<1>2. Capped
  <2>1. Cardinality(pending) = 0 /\ MaxPending \in Nat
    BY FS_EmptySet, ScanAssumption DEF Init
  <2> QED
    BY <2>1 DEF Capped
<1> QED
  BY <1>1, <1>2

LEMMA TypesAreTypeOK == TypeOK <=> Types /\ Capped
BY DEF TypeOK, Types, Capped, Phases, Stages

(* The variables keep their types and the queue of a library its cap, for  *)
(* any number of requests and scans (state.rs, queue_targeted).            *)
THEOREM TypeCorrect == Spec => []TypeOK
<1>1. Init => Types /\ Capped
  BY InitTypes
<1>2. (Types /\ Capped) /\ [Next]_vars => (Types /\ Capped)'
  BY StepTypes, StepCapped
<1> QED
  BY <1>1, <1>2, TypesAreTypeOK, PTL DEF Spec

-----------------------------------------------------------------------------
(* The queue is attended.  The invariant is inductive: a drain leaves its  *)
(* duty with an empty queue or to the retry loop, and only the busy branch *)
(* and a caller that goes away leave anything late.                        *)
LEMMA KeepsAttention ==
  ASSUME Types, PendingIsServed, pending' \subseteq pending, late' = late,
         Attended(task, stage) => Attended(task', stage')
  PROVE  PendingIsServed'
BY DEF PendingIsServed

LEMMA ScanServes ==
  ASSUME Types, PendingIsServed, NEW t \in Tasks, Trigger(t) \/ ScanTask(t)
  PROVE  PendingIsServed'
<1>0. t \in Drainers /\ Loop \in Drainers /\ t # Loop /\ Tasks \subseteq Drainers
  BY Names
<1>1. CASE Trigger(t)
  BY <1>0, <1>1, KeepsAttention, Doing DEF Trigger, Attended, Phases
<1>2. CASE Refuse(t)
  BY <1>0, <1>2, KeepsAttention, Doing DEF Refuse, Attended, Phases
<1>3. CASE Scan(t)
  BY <1>0, <1>3, KeepsAttention, Doing DEF Scan, Attended, Phases
<1>4. CASE Finish(t)
  BY <1>0, <1>4, KeepsAttention, Doing DEF Finish, Attended, Phases
<1>5. CASE Release(t)
  BY <1>0, <1>5, KeepsAttention, Doing DEF Release, Attended, Phases
<1>6. CASE Schedule(t)
  <2>1. task'[Loop] # "idle"
    BY <1>0, <1>6 DEF Types, Schedule, StartLoop
  <2> QED
    BY <2>1 DEF PendingIsServed, Attended
<1> QED
  BY <1>1, <1>2, <1>3, <1>4, <1>5, <1>6 DEF ScanTask

LEMMA DrainServes ==
  ASSUME Types, PendingIsServed, NEW d \in Drainers, Drain(d)
  PROVE  PendingIsServed'
<1>0. /\ Loop \in Drainers /\ Tasks \subseteq Drainers
      /\ d \in Tasks \/ d = Loop
      /\ Over(d) \in Phases /\ Again(d) \in Phases
  BY Names, Phase
<1>1. CASE Take(d)
  BY <1>1 DEF Take, PendingIsServed
<1>2. CASE Granted(d)
  BY <1>0, <1>2, KeepsAttention, Doing DEF Granted, Attended, Phases
<1>3. CASE Denied(d)
  BY <1>0, <1>3, KeepsAttention, Doing DEF Denied, Attended, Phases
<1>4. CASE Requeue(d)
  <2>1. Attended(task', stage')
    BY <1>0, <1>4 DEF Requeue, Attended
  <2> QED
    BY <2>1 DEF PendingIsServed
<1>5. CASE Requeued(d)
  <2>1. task'[d] = Again(d)
    BY <1>0, <1>5, Doing DEF Requeued
  <2>2. Attended(task', stage')
    BY <1>0, <2>1 DEF Again, Attended
  <2> QED
    BY <2>2 DEF PendingIsServed
<1>6. CASE RunOne(d)
  BY <1>6, KeepsAttention DEF RunOne
<1>7. CASE Ran(d)
  <2>1. /\ task[d] = "run" /\ task'[d] = Over(d)
        /\ \A e \in Drainers \ {d} : task'[e] = task[e]
        /\ stage' = stage /\ pending' = pending /\ late' = late
    BY <1>0, <1>7, Doing DEF Ran
  <2>2. d = Loop => task'[Loop] # "idle"
    BY <2>1 DEF Over
  <2>3. Attended(task, stage) => Attended(task', stage')
    BY <1>0, <2>1, <2>2 DEF Attended
  <2> QED
    BY <2>1, <2>3, KeepsAttention
<1> QED
  BY <1>1, <1>2, <1>3, <1>4, <1>5, <1>6, <1>7 DEF Drain

LEMMA HandlerServes ==
  ASSUME Types, PendingIsServed, NEW r \in Requests, Handle(r) \/ Abandon(r)
  PROVE  PendingIsServed'
<1>1. CASE Ask(r)
  BY <1>1, KeepsAttention DEF Ask, Attended, Step, Types
<1>2. CASE QueueBusy(r)
  BY <1>2 DEF QueueBusy, Unattended, PendingIsServed
<1>3. CASE Mark(r)
  BY <1>3, KeepsAttention DEF Mark, Attended, Step, Types
<1>4. CASE Acquire(r)
  <2>1. /\ stage[r] = "acquire" /\ task' = task /\ pending' = pending /\ late' = late
        /\ \A q \in Requests \ {r} : stage'[q] = stage[q]
    BY <1>4, Stepping DEF Acquire, Stages
  <2> QED
    BY <2>1, KeepsAttention DEF Attended
<1>5. CASE QueueContended(r)
  <2>1. CASE Full
    <3>1. /\ stage[r] = "refused" /\ task' = task /\ pending' = pending /\ late' = late
          /\ \A q \in Requests \ {r} : stage'[q] = stage[q]
      BY <1>5, <2>1, Stepping, Enqueuing DEF QueueContended, Stages
    <3> QED
      BY <3>1, KeepsAttention DEF Attended
  <2>2. CASE ~Full
    BY <1>5, <2>2, Stepping DEF QueueContended, Stages, Attended, PendingIsServed
  <2> QED
    BY <2>1, <2>2
<1>6. CASE MarkContended(r)
  BY <1>6, Stepping DEF MarkContended, Stages, Attended, PendingIsServed
<1>7. CASE ScheduleRetry(r)
  <2>1. task'[Loop] # "idle"
    BY <1>7, Names DEF Types, ScheduleRetry
  <2> QED
    BY <2>1 DEF Attended, PendingIsServed
<1>8. CASE Ended(r)
  BY <1>8, KeepsAttention DEF Ended, Attended, Step, Types
<1>9. CASE Answer(r)
  BY <1>9, KeepsAttention DEF Answer, Attended, Step, Types
<1>10. CASE Abandon(r)
  BY <1>10 DEF Abandon, PendingIsServed
<1> QED
  BY <1>1, <1>2, <1>3, <1>4, <1>5, <1>6, <1>7, <1>8, <1>9, <1>10 DEF Handle

LEMMA OthersServe ==
  ASSUME Types, PendingIsServed, TakeElsewhere \/ Lapse \/ Check
  PROVE  PendingIsServed'
<1>1. CASE TakeElsewhere \/ Lapse
  BY <1>1, KeepsAttention DEF TakeElsewhere, Lapse
<1>2. CASE Check /\ pending = {}
  BY <1>2 DEF Check, PendingIsServed
<1>3. CASE Check /\ pending # {}
  <2>1. task'[Loop] = "sleep"
    BY <1>3, Names, Doing DEF Check, Phases
  <2> QED
    BY <2>1 DEF PendingIsServed, Attended
<1> QED
  BY <1>1, <1>2, <1>3

(* A request waits in the queue only while a scan that is still to drain   *)
(* it, the retry loop or a handler about to start that loop attends to it, *)
(* unless it was queued late (state.rs, schedule_pending_retry).           *)
THEOREM QueueIsAttended == Spec => []PendingIsServed
<1>1. Init => Types /\ PendingIsServed
  BY InitTypes DEF Init, PendingIsServed
<1>2. (Types /\ PendingIsServed) /\ [Next]_vars => (Types /\ PendingIsServed)'
  <2> SUFFICES ASSUME Types, PendingIsServed, [Next]_vars
               PROVE  PendingIsServed'
    BY StepTypes
  <2>1. CASE Next
    BY <2>1, ScanServes, DrainServes, HandlerServes, OthersServe DEF Next
  <2>2. CASE UNCHANGED vars
    BY <2>2 DEF vars, PendingIsServed, Attended
  <2> QED
    BY <2>1, <2>2
<1> QED
  BY <1>1, <1>2, PTL DEF Spec

-----------------------------------------------------------------------------
(* No request waits twice.  WaitsOnce is not inductive: that a request     *)
(* which is queued has not been answered follows from where its handler    *)
(* is, so the invariant adds what a handler's stage says of its record.    *)
Parked == {"mark", "contended", "schedule", "over"}

Waiting(r) == r \in pending \/ \E d \in Drainers : r \in hand[d]

WaitsParked ==
  \A r \in Requests : Waiting(r) => stage[r] \in Parked /\ status[r] \notin Final

Unanswered == \A r \in Requests : stage[r] \notin Parked => status[r] \notin Final

OnePlace ==
  \A d \in Drainers : \A r \in hand[d] :
    r \notin pending /\ \A e \in Drainers \ {d} : r \notin hand[e]

Waits == WaitsParked /\ Unanswered /\ OnePlace

LEMMA WaitsAreOnce == ASSUME Types, Waits PROVE WaitsOnce
<1>1. \A r \in Requests : Waiting(r) => status[r] \notin Final
  BY DEF Waits, WaitsParked
<1> QED
  BY <1>1 DEF Waits, OnePlace, WaitsOnce, Waiting

(* A step that only moves the handler of r, or its record.                 *)
LEMMA HandlerMoves ==
  ASSUME Types, Waits, NEW r \in Requests, pending' = pending, hand' = hand,
         \A q \in Requests \ {r} : stage'[q] = stage[q] /\ status'[q] = status[q],
         stage'[r] \in Parked \/ status'[r] \notin Final,
         Waiting(r) => stage'[r] \in Parked /\ status'[r] \notin Final
  PROVE  Waits'
<1>1. \A q \in Requests : Waiting(q)' <=> Waiting(q)
  BY DEF Waiting
<1>2. WaitsParked'
  BY <1>1 DEF Waits, WaitsParked
<1>3. Unanswered'
  BY DEF Waits, Unanswered
<1>4. OnePlace'
  BY DEF Waits, OnePlace
<1> QED
  BY <1>2, <1>3, <1>4 DEF Waits

(* Nothing of it moves.                                                    *)
LEMMA NothingMoves ==
  ASSUME Waits, UNCHANGED <<pending, hand, stage, status>>
  PROVE  Waits'
BY DEF Waits, WaitsParked, Unanswered, OnePlace, Waiting

(* A handler queues its request.                                           *)
LEMMA HandlerQueues ==
  ASSUME Types, Waits, NEW r \in Requests, stage[r] \notin Parked,
         Enqueue(r, status), hand' = hand, stage'[r] \in Parked,
         \A q \in Requests \ {r} : stage'[q] = stage[q]
  PROVE  Waits'
<1>1. ~Waiting(r) /\ status[r] \notin Final
  BY DEF Waits, WaitsParked, Unanswered
<1>2. CASE Full
  <2>1. pending' = pending /\ \A q \in Requests \ {r} : status'[q] = status[q]
    BY <1>2, Enqueuing
  <2> QED
    BY <1>1, <2>1, HandlerMoves
<1>3. CASE ~Full
  <2>1. pending' = pending \cup {r} /\ status' = status
    BY <1>3, Enqueuing
  <2>2. \A q \in Requests \ {r} : Waiting(q)' => Waiting(q)
    BY <2>1 DEF Waiting
  <2>3. WaitsParked' /\ Unanswered'
    BY <1>1, <2>1, <2>2 DEF Waits, WaitsParked, Unanswered
  <2>4. OnePlace'
    BY <1>1, <2>1 DEF Waits, OnePlace, Waiting
  <2> QED
    BY <2>3, <2>4 DEF Waits
<1> QED
  BY <1>2, <1>3

LEMMA HandlerWaits ==
  ASSUME Types, Waits, NEW r \in Requests, Handle(r) \/ Abandon(r)
  PROVE  Waits'
<1>0. stage[r] \notin Parked => ~Waiting(r) /\ status[r] \notin Final
  BY DEF Waits, WaitsParked, Unanswered
<1>1. CASE Ask(r)
  <2>1. status'[r] = "running" /\ \A q \in Requests \ {r} : status'[q] = status[q]
    BY <1>1, Recording DEF Ask
  <2>2. \A q \in Requests \ {r} : stage'[q] = stage[q]
    BY <1>1 DEF Ask, Step, Types
  <2>3. ~Waiting(r)
    BY <1>0, <1>1 DEF Ask, Parked
  <2> QED
    BY <1>1, <2>1, <2>2, <2>3, HandlerMoves DEF Ask, Final
<1>2. CASE QueueBusy(r)
  <2>1. stage[r] \notin Parked /\ hand' = hand
    BY <1>2 DEF QueueBusy, Parked
  <2>2. stage'[r] \in Parked /\ \A q \in Requests \ {r} : stage'[q] = stage[q]
    BY <1>2 DEF QueueBusy, Step, Types, Parked
  <2> QED
    BY <1>2, <2>1, <2>2, HandlerQueues DEF QueueBusy
<1>3. CASE Mark(r)
  <2>1. status'[r] = "queued" /\ \A q \in Requests \ {r} : status'[q] = status[q]
    BY <1>3, Recording DEF Mark
  <2>2. stage'[r] \in Parked /\ \A q \in Requests \ {r} : stage'[q] = stage[q]
    BY <1>3 DEF Mark, Step, Types, Parked
  <2> QED
    BY <1>3, <2>1, <2>2, HandlerMoves DEF Mark, Final
<1>4. CASE Acquire(r)
  <2>1. \A q \in Requests \ {r} : stage'[q] = stage[q]
    BY <1>4, Stepping DEF Acquire, Stages
  <2>2. stage[r] \notin Parked
    BY <1>4 DEF Acquire, Parked
  <2> QED
    BY <1>0, <1>4, <2>1, <2>2, HandlerMoves DEF Acquire
<1>5. CASE QueueContended(r)
  <2>1. stage[r] \notin Parked /\ hand' = hand
    BY <1>5 DEF QueueContended, Parked
  <2>2. stage'[r] \in Parked /\ \A q \in Requests \ {r} : stage'[q] = stage[q]
    BY <1>5 DEF QueueContended, Step, Types, Parked
  <2> QED
    BY <1>5, <2>1, <2>2, HandlerQueues DEF QueueContended
<1>6. CASE MarkContended(r)
  <2>1. status'[r] = "queued" /\ \A q \in Requests \ {r} : status'[q] = status[q]
    BY <1>6, Recording DEF MarkContended
  <2>2. stage'[r] \in Parked /\ \A q \in Requests \ {r} : stage'[q] = stage[q]
    BY <1>6 DEF MarkContended, Step, Types, Parked
  <2> QED
    BY <1>6, <2>1, <2>2, HandlerMoves DEF MarkContended, Final
<1>7. CASE ScheduleRetry(r)
  <2>1. stage'[r] \in Parked /\ \A q \in Requests \ {r} : stage'[q] = stage[q]
    BY <1>7 DEF ScheduleRetry, Step, Types, Parked
  <2>2. Waiting(r) => status[r] \notin Final
    BY DEF Waits, WaitsParked
  <2> QED
    BY <1>7, <2>1, <2>2, HandlerMoves DEF ScheduleRetry
<1>8. CASE Ended(r)
  <2>1. \A q \in Requests \ {r} : stage'[q] = stage[q]
    BY <1>8 DEF Ended, Step, Types
  <2>2. stage[r] \notin Parked
    BY <1>8 DEF Ended, Parked
  <2> QED
    BY <1>0, <1>8, <2>1, <2>2, HandlerMoves DEF Ended
<1>9. CASE Answer(r)
  <2>1. \A q \in Requests \ {r} : status'[q] = status[q]
    BY <1>9, Recording DEF Answer, Final
  <2>2. stage'[r] \in Parked /\ \A q \in Requests \ {r} : stage'[q] = stage[q]
    BY <1>9 DEF Answer, Step, Types, Parked
  <2>3. ~Waiting(r)
    BY <1>0, <1>9 DEF Answer, Parked
  <2> QED
    BY <1>9, <2>1, <2>2, <2>3, HandlerMoves DEF Answer
<1>10. CASE Abandon(r)
  <2>1. stage'[r] \in Parked /\ \A q \in Requests \ {r} : stage'[q] = stage[q]
    BY <1>10 DEF Abandon, Step, Types, Parked
  <2>2. Waiting(r) => status[r] \notin Final
    BY DEF Waits, WaitsParked
  <2> QED
    BY <1>10, <2>1, <2>2, HandlerMoves DEF Abandon
<1> QED
  BY <1>1, <1>2, <1>3, <1>4, <1>5, <1>6, <1>7, <1>8, <1>9, <1>10 DEF Handle

LEMMA DrainWaits ==
  ASSUME Types, Waits, NEW d \in Drainers, Drain(d)
  PROVE  Waits'
<1>1. CASE Take(d)
  <2>1. /\ hand'[d] = pending /\ pending' = {} /\ stage' = stage /\ status' = status
        /\ \A e \in Drainers \ {d} : hand'[e] = hand[e]
    BY <1>1, Handing DEF Take, Types
  <2>2. \A r \in Requests : Waiting(r)' => Waiting(r)
    BY <2>1 DEF Waiting
  <2>3. WaitsParked' /\ Unanswered'
    BY <2>1, <2>2 DEF Waits, WaitsParked, Unanswered
  <2>4. OnePlace'
    BY <2>1 DEF Waits, OnePlace
  <2> QED
    BY <2>3, <2>4 DEF Waits
<1>2. CASE Requeue(d)
  <2>1. PICK r \in hand[d] : /\ hand' = [hand EXCEPT ![d] = @ \ {r}]
                            /\ Enqueue(r, status)
    BY <1>2 DEF Requeue
  <2>2. /\ r \in Requests /\ stage' = stage
        /\ hand'[d] = hand[d] \ {r} /\ \A e \in Drainers \ {d} : hand'[e] = hand[e]
    BY <1>2, <2>1 DEF Requeue, Types
  <2>3. Waiting(r) /\ r \notin pending /\ \A e \in Drainers : r \notin hand'[e]
    BY <2>1, <2>2 DEF Waits, OnePlace, Waiting
  <2>4. stage[r] \in Parked /\ status[r] \notin Final
    BY <2>2, <2>3 DEF Waits, WaitsParked
  <2>5. /\ pending' \subseteq pending \cup {r}
        /\ \A q \in Requests \ {r} : status'[q] = status[q]
        /\ r \in pending' => status'[r] = status[r]
    BY <2>1, <2>2, <2>3, Enqueuing
  <2>6. \A q \in Requests \ {r} : Waiting(q)' => Waiting(q)
    BY <2>2, <2>5 DEF Waiting
  <2>7. Waiting(r)' => r \in pending'
    BY <2>3 DEF Waiting
  <2>8. WaitsParked'
    BY <2>2, <2>4, <2>5, <2>6, <2>7 DEF Waits, WaitsParked
  <2>9. Unanswered'
    BY <2>2, <2>4, <2>5 DEF Waits, Unanswered
  <2>10. OnePlace'
    BY <2>2, <2>3, <2>5 DEF Waits, OnePlace
  <2> QED
    BY <2>8, <2>9, <2>10 DEF Waits
<1>3. CASE RunOne(d)
  <2>1. PICK r \in hand[d], a \in {"done", "failed"} :
               hand' = [hand EXCEPT ![d] = @ \ {r}] /\ Record(r, a)
    BY <1>3 DEF RunOne
  <2>2. /\ r \in Requests /\ stage' = stage /\ pending' = pending
        /\ hand'[d] = hand[d] \ {r} /\ \A e \in Drainers \ {d} : hand'[e] = hand[e]
    BY <1>3, <2>1 DEF RunOne, Types
  <2>3. Waiting(r) /\ r \notin pending /\ \A e \in Drainers : r \notin hand'[e]
    BY <2>1, <2>2 DEF Waits, OnePlace, Waiting
  <2>4. stage[r] \in Parked /\ \A q \in Requests \ {r} : status'[q] = status[q]
    BY <2>1, <2>2, <2>3, Recording DEF Waits, WaitsParked, Final
  <2>5. \A q \in Requests \ {r} : Waiting(q)' => Waiting(q)
    BY <2>2 DEF Waiting
  <2>6. ~Waiting(r)'
    BY <2>2, <2>3 DEF Waiting
  <2>7. WaitsParked'
    BY <2>2, <2>4, <2>5, <2>6 DEF Waits, WaitsParked
  <2>8. Unanswered'
    BY <2>2, <2>4 DEF Waits, Unanswered
  <2>9. OnePlace'
    BY <2>2 DEF Waits, OnePlace
  <2> QED
    BY <2>7, <2>8, <2>9 DEF Waits
<1>4. CASE Granted(d) \/ Denied(d) \/ Requeued(d) \/ Ran(d)
  BY <1>4, NothingMoves DEF Granted, Denied, Requeued, Ran
<1> QED
  BY <1>1, <1>2, <1>3, <1>4 DEF Drain

LEMMA StepWaits ==
  ASSUME Types, Waits, [Next]_vars
  PROVE  Waits'
<1>1. ASSUME NEW t \in Tasks, Trigger(t) \/ ScanTask(t)
      PROVE  Waits'
  BY <1>1, NothingMoves DEF Trigger, ScanTask, Refuse, Scan, Finish, Release, Schedule
<1>2. ASSUME TakeElsewhere \/ Lapse \/ Check
      PROVE  Waits'
  BY <1>2, NothingMoves DEF TakeElsewhere, Lapse, Check
<1>3. CASE UNCHANGED vars
  BY <1>3, NothingMoves DEF vars
<1> QED
  BY <1>1, <1>2, <1>3, DrainWaits, HandlerWaits DEF Next

LEMMA InitWaits == Init => Waits
BY DEF Init, Waits, WaitsParked, Unanswered, OnePlace, Waiting, Final

LEMMA WaitsAlways == Spec => [](Types /\ Waits)
<1>1. Init => Types /\ Waits
  BY InitTypes, InitWaits
<1>2. (Types /\ Waits) /\ [Next]_vars => (Types /\ Waits)'
  BY StepTypes, StepWaits
<1> QED
  BY <1>1, <1>2, PTL DEF Spec

(* A request waits in one place at a time and unanswered: no drain, and no *)
(* two of them, run it twice (state.rs, drain_pending_once).               *)
THEOREM NobodyWaitsTwice == Spec => []WaitsOnce
BY WaitsAlways, WaitsAreOnce, PTL

-----------------------------------------------------------------------------
(* One full scan.  OneFullScan is inductive: a task scans only after it    *)
(* has seen `running` FALSE, whoever has the lease.                        *)
LEMMA SameScans ==
  ASSUME OneFullScan, running' = running,
         \A t \in Tasks : task'[t] = "scanning" <=> task[t] = "scanning"
  PROVE  OneFullScan'
BY DEF OneFullScan

LEMMA ScanAlone ==
  ASSUME Types, OneFullScan, NEW t \in Tasks, Trigger(t) \/ ScanTask(t)
  PROVE  OneFullScan'
<1>0. t \in Drainers /\ Loop \in Drainers /\ Loop \notin Tasks /\ Tasks \subseteq Drainers
  BY Names
<1>1. CASE Trigger(t)
  BY <1>0, <1>1, Doing, SameScans DEF Trigger, Phases
<1>2. CASE Refuse(t)
  BY <1>0, <1>2, Doing, SameScans DEF Refuse, Phases
<1>3. CASE Scan(t)
  <2>1. /\ ~running /\ running' /\ task'[t] = "scanning"
        /\ \A u \in Tasks \ {t} : task'[u] = task[u]
    BY <1>0, <1>3, Doing DEF Scan, Phases
  <2> QED
    BY <2>1 DEF OneFullScan
<1>4. CASE Finish(t)
  <2>1. /\ task[t] = "scanning" /\ ~running' /\ task'[t] = "finished"
        /\ \A u \in Tasks \ {t} : task'[u] = task[u]
    BY <1>0, <1>4, Doing DEF Finish, Phases
  <2> QED
    BY <2>1 DEF OneFullScan
<1>5. CASE Release(t)
  BY <1>0, <1>5, Doing, SameScans DEF Release, Phases
<1>6. CASE Schedule(t)
  BY <1>0, <1>6, SameScans DEF Types, Schedule, StartLoop
<1> QED
  BY <1>1, <1>2, <1>3, <1>4, <1>5, <1>6 DEF ScanTask

LEMMA DrainAlone ==
  ASSUME Types, OneFullScan, NEW d \in Drainers, Drain(d)
  PROVE  OneFullScan'
<1>0. /\ Tasks \subseteq Drainers /\ Over(d) \in Phases /\ Again(d) \in Phases
      /\ Due(d) # "scanning" /\ Over(d) # "scanning" /\ Again(d) # "scanning"
  BY Names, Phase DEF Due, Over, Again
<1>1. CASE Take(d)
  <2>1. (IF pending = {} THEN Over(d) ELSE "acquire") \in Phases \ {"scanning"}
    BY <1>0 DEF Phases
  <2>2. task[d] # "scanning" /\ running' = running
    BY <1>0, <1>1 DEF Take
  <2>3. task'[d] # "scanning" /\ \A e \in Drainers \ {d} : task'[e] = task[e]
    BY <1>1, <2>1, Doing DEF Take
  <2> QED
    BY <1>0, <2>2, <2>3, SameScans
<1>2. CASE Granted(d)
  BY <1>0, <1>2, Doing, SameScans DEF Granted, Phases
<1>3. CASE Denied(d)
  BY <1>0, <1>3, Doing, SameScans DEF Denied, Phases
<1>4. CASE Requeue(d) \/ RunOne(d)
  BY <1>4, SameScans DEF Requeue, RunOne
<1>5. CASE Requeued(d)
  BY <1>0, <1>5, Doing, SameScans DEF Requeued
<1>6. CASE Ran(d)
  BY <1>0, <1>6, Doing, SameScans DEF Ran
<1> QED
  BY <1>1, <1>2, <1>3, <1>4, <1>5, <1>6 DEF Drain

LEMMA OthersAlone ==
  ASSUME Types, OneFullScan,
         \/ TakeElsewhere \/ Lapse \/ Check
         \/ \E r \in Requests : Handle(r) \/ Abandon(r)
  PROVE  OneFullScan'
<1>0. Tasks \subseteq Drainers /\ Loop \in Drainers /\ Loop \notin Tasks
  BY Names
<1>1. CASE TakeElsewhere \/ Lapse
  BY <1>1, SameScans DEF TakeElsewhere, Lapse
<1>2. CASE Check
  BY <1>0, <1>2, SameScans DEF Check, Do, Types
<1>3. ASSUME NEW r \in Requests, Handle(r) \/ Abandon(r)
      PROVE  OneFullScan'
  <2>1. CASE ScheduleRetry(r)
    BY <1>0, <2>1, SameScans DEF ScheduleRetry, Types
  <2>2. CASE ~ScheduleRetry(r)
    BY <1>3, <2>2, SameScans DEF Handle, Ask, QueueBusy, Mark, Acquire, QueueContended,
                                 MarkContended, Ended, Answer, Abandon
  <2> QED
    BY <2>1, <2>2
<1> QED
  BY <1>1, <1>2, <1>3

(* At most one full scan of the library runs on the node, and `running`    *)
(* says so, however leases are lost and granted anew (state.rs, trigger).  *)
THEOREM OneScanAtATime == Spec => []OneFullScan
<1>1. Init => Types /\ OneFullScan
  <2>1. Init => OneFullScan
    BY Names DEF Init, OneFullScan
  <2> QED
    BY <2>1, InitTypes
<1>2. (Types /\ OneFullScan) /\ [Next]_vars => (Types /\ OneFullScan)'
  <2> SUFFICES ASSUME Types, OneFullScan, [Next]_vars
               PROVE  OneFullScan'
    BY StepTypes
  <2>1. CASE Next
    BY <2>1, ScanAlone, DrainAlone, OthersAlone DEF Next
  <2>2. CASE UNCHANGED vars
    BY <2>2, SameScans DEF vars
  <2> QED
    BY <2>1, <2>2
<1> QED
  BY <1>1, <1>2, PTL DEF Spec

-----------------------------------------------------------------------------
(* Answers stay.                                                           *)
Stays == \A r \in Requests :
  status[r] \in Final /\ status'[r] # status[r] => stage[r] \in {"mark", "contended"}

LEMMA SameRecord ==
  ASSUME NEW r \in Requests,
         \A q \in Requests \ {r} : status'[q] = status[q],
         status[r] \notin Final \/ stage[r] \in {"mark", "contended"}
  PROVE  Stays
BY DEF Stays

LEMMA StepStays ==
  ASSUME Types, Waits, [Next]_vars
  PROVE  Stays
<1>1. CASE status' = status
  BY <1>1 DEF Stays
<1>2. ASSUME NEW d \in Drainers, Requeue(d) \/ RunOne(d)
      PROVE  Stays
  <2>1. PICK r \in hand[d] : \/ Enqueue(r, status)
                            \/ \E a \in {"done", "failed"} : Record(r, a)
    BY <1>2 DEF Requeue, RunOne
  <2>2. r \in Requests /\ \A q \in Requests \ {r} : status'[q] = status[q]
    BY <2>1, Enqueuing, Recording DEF Types, Final
  <2>3. status[r] \notin Final
    BY <2>2 DEF Waits, WaitsParked, Waiting
  <2> QED
    BY <2>2, <2>3, SameRecord
<1>3. ASSUME NEW r \in Requests, Handle(r)
      PROVE  Stays
  <2>1. CASE status' = status
    BY <2>1 DEF Stays
  <2>2. CASE Mark(r) \/ MarkContended(r)
    BY <2>2, Recording, SameRecord DEF Mark, MarkContended
  <2>3. CASE Ask(r) \/ QueueBusy(r) \/ QueueContended(r) \/ Answer(r)
    <3>1. status[r] \notin Final
      BY <2>3 DEF Ask, QueueBusy, QueueContended, Answer, Waits, Unanswered, Parked
    <3>2. \A q \in Requests \ {r} : status'[q] = status[q]
      BY <2>3, Recording, Enqueuing DEF Ask, QueueBusy, QueueContended, Answer, Final
    <3> QED
      BY <3>1, <3>2, SameRecord
  <2>4. CASE Acquire(r) \/ ScheduleRetry(r) \/ Ended(r)
    BY <2>1, <2>4 DEF Acquire, ScheduleRetry, Ended
  <2> QED
    BY <1>3, <2>1, <2>2, <2>3, <2>4 DEF Handle
<1>4. \/ status' = status
      \/ \E d \in Drainers : Requeue(d) \/ RunOne(d)
      \/ \E r \in Requests : Handle(r)
  <2>1. ASSUME NEW t \in Tasks, Trigger(t) \/ ScanTask(t)
        PROVE  status' = status
    BY <2>1 DEF Trigger, ScanTask, Refuse, Scan, Finish, Release, Schedule
  <2>2. ASSUME TakeElsewhere \/ Lapse \/ Check
        PROVE  status' = status
    BY <2>2 DEF TakeElsewhere, Lapse, Check
  <2>3. ASSUME NEW d \in Drainers, Drain(d), ~(Requeue(d) \/ RunOne(d))
        PROVE  status' = status
    BY <2>3 DEF Drain, Take, Granted, Denied, Requeued, Ran
  <2>4. ASSUME NEW r \in Requests, Abandon(r)
        PROVE  status' = status
    BY <2>4 DEF Abandon
  <2> QED
    BY <2>1, <2>2, <2>3, <2>4 DEF Next, vars
<1> QED
  BY <1>1, <1>2, <1>3, <1>4

(* An answer a request was given stays, but for the handler that says      *)
(* "queued" after it (state.rs, set_request_status).                       *)
THEOREM AnswersStay == Spec => AnswerStays
<1>1. Types /\ Waits /\ [Next]_vars => [Stays]_vars
  BY StepStays
<1>2. [][Stays]_vars => AnswerStays
  <2>1. [Stays]_vars => [\A r \in Requests :
          status[r] \in Final /\ status'[r] # status[r] => stage[r] \in {"mark", "contended"}]_vars
    BY DEF Stays
  <2> QED
    BY <2>1, PTL DEF AnswerStays
<1> QED
  BY <1>1, <1>2, WaitsAlways, PTL DEF Spec
=============================================================================
