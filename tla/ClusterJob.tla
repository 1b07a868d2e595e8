----------------------------- MODULE ClusterJob -----------------------------
(***************************************************************************)
(* Singleton background jobs (library scans, artwork, probe repair, cache  *)
(* production) on a cluster: plurxd's ActiveJobLease with its heartbeat    *)
(* task, the PublicationFence it shares with the job's writers, and the    *)
(* job_leases row of one resource in the store (module LeaseRow).          *)
(*                                                                         *)
(* A job is one ActiveJobLease slot of one process.  Its worker publishes  *)
(* through the fence (a read lock held across the backend call), its       *)
(* heartbeat renews through the fence (a write lock held across the        *)
(* backend call).  Requests to the store are in flight in `ops`: they      *)
(* outlive the future that sent them, may be executed late, may never be   *)
(* executed, and their reply may be lost.                                  *)
(***************************************************************************)
EXTENDS LeaseRow

CONSTANTS
  Jobs,      \* the ActiveJobLease slots of all processes
  NodeOf     \* the node each slot runs on

ASSUME JobAssumption == NodeOf \in [Jobs -> Nodes]

VARIABLES
  row,       \* the job_leases row, NoLease before the first INSERT
  ops,       \* requests sent to the store and not yet executed
  phase,     \* "idle" | "working" | "ending" (release() was entered)
  token,     \* PublicationFence.state, NoLease for None
  hb,        \* heartbeat task: "sleep" | "select" | "expiring" | "stopped"
  rn,        \* its renewal future: "none" | "queued" for the write lock |
             \* "sent" (write lock held) | "yes" | "no" (reply received)
  answer,    \* the lease a "yes" carries
  pub,       \* the worker's publication: "none" | "sent" (read lock held)
  lost,      \* the loss token: the worker's select is cancelled
  published, \* history: fence of the latest publication that committed
  open       \* history: the row's fence was granted and not released

fenceVars == <<token, hb, rn, answer>>
jobVars == <<phase, fenceVars, pub, lost>>
history == <<published, open>>
vars == <<row, ops, jobVars, history>>

Op == [kind : {"renew", "publish", "release"}, job : Jobs,
       lease : Lease, now : 0 .. MaxTime]

TypeOK ==
  /\ row \in Lease \cup {NoLease}
  /\ ops \subseteq Op
  /\ phase \in [Jobs -> {"idle", "working", "ending"}]
  /\ token \in [Jobs -> Lease \cup {NoLease}]
  /\ hb \in [Jobs -> {"sleep", "select", "expiring", "stopped"}]
  /\ rn \in [Jobs -> {"none", "queued", "sent", "yes", "no"}]
  /\ answer \in [Jobs -> Lease \cup {NoLease}]
  /\ pub \in [Jobs -> {"none", "sent"}]
  /\ lost \in [Jobs -> BOOLEAN]
  /\ published \in 0 .. MaxCounter
  /\ open \in BOOLEAN

Init ==
  /\ row = NoLease
  /\ ops = {}
  /\ phase = [j \in Jobs |-> "idle"]
  /\ token = [j \in Jobs |-> NoLease]
  /\ hb = [j \in Jobs |-> "stopped"]
  /\ rn = [j \in Jobs |-> "none"]
  /\ answer = [j \in Jobs |-> NoLease]
  /\ pub = [j \in Jobs |-> "none"]
  /\ lost = [j \in Jobs |-> FALSE]
  /\ published = 0
  /\ open = FALSE

(* The clocks are the nodes' wall clocks: not synchronised, and stepped    *)
(* forwards and back.  Nothing relates two readings, so every reading is   *)
(* any time at all.                                                        *)
Clock == 0 .. MaxTime

Request(kind, j, now) ==
  [kind |-> kind, job |-> j, lease |-> token[j], now |-> now]

(* The renewal future, from its place in the queue of the write lock to    *)
(* the end of the loop iteration, keeps every reader out.                  *)
Writing(j) == rn[j] # "none" \/ hb[j] = "expiring"

-----------------------------------------------------------------------------
(* Plausible bug: a node that already owns the live row is handed it again. *)
AcquireReentrant(j) ==
  /\ phase[j] = "idle"
  /\ \/ /\ row.owner = NodeOf[j] /\ UNCHANGED row
     \/ \E now \in Clock : /\ Acquirable(row, now)
                           /\ row' = Acquired(row, NodeOf[j], now)
  /\ open' = TRUE
  /\ phase' = [phase EXCEPT ![j] = "working"]
  /\ token' = [token EXCEPT ![j] = row']
  /\ hb' = [hb EXCEPT ![j] = "sleep"]
  /\ UNCHANGED <<ops, lost, rn, answer, pub, published>>

(* acquire_cluster_job: the upsert changes the row.  Either the reply      *)
(* arrives and ActiveJobLease::start spawns the heartbeat, or it is lost   *)
(* and the row stays granted to a node that runs no job.  A refusal (held, *)
(* or counters exhausted) changes nothing.                                 *)
Acquire(j) ==
  /\ phase[j] = "idle"
  /\ \E now \in Clock : /\ Acquirable(row, now)
                        /\ row' = Acquired(row, NodeOf[j], now)
  /\ open' = TRUE
  /\ \/ /\ phase' = [phase EXCEPT ![j] = "working"]
        /\ token' = [token EXCEPT ![j] = row']
        /\ hb' = [hb EXCEPT ![j] = "sleep"]
     \/ UNCHANGED <<phase, token, hb>>
  /\ UNCHANGED <<ops, lost, rn, answer, pub, published>>

-----------------------------------------------------------------------------
(* The worker.  PublicationStore::token takes the read lock, refuses when  *)
(* the fence was invalidated, and the call is sent with the token and the  *)
(* clock read now.                                                         *)
BeginPublish(j) ==
  /\ phase[j] = "working"
  /\ pub[j] = "none"
  /\ ~Writing(j)
  /\ token[j] # NoLease
  /\ pub' = [pub EXCEPT ![j] = "sent"]
  /\ \E now \in Clock : ops' = ops \cup {Request("publish", j, now)}
  /\ UNCHANGED <<row, phase, fenceVars, lost, history>>

(* The call returns, committed, rejected or failed with an unknown outcome *)
(* (the request may still be in flight): the read lock is dropped.         *)
EndPublish(j) ==
  /\ phase[j] = "working"
  /\ pub[j] = "sent"
  /\ pub' = [pub EXCEPT ![j] = "none"]
  /\ UNCHANGED <<row, ops, phase, fenceVars, lost, history>>

(* The job ends: its work returned, or its select saw the loss token and   *)
(* dropped the work, with the call it was awaiting.                        *)
Finish(j) ==
  /\ phase[j] = "working"
  /\ pub[j] = "none" \/ lost[j]
  /\ phase' = [phase EXCEPT ![j] = "ending"]
  /\ pub' = [pub EXCEPT ![j] = "none"]
  /\ UNCHANGED <<row, ops, fenceVars, lost, history>>

(* release(): the heartbeat has ended, and the token still held, if any,   *)
(* is given back.  A failed release is left to the TTL.                    *)
Release(j) ==
  /\ phase[j] = "ending"
  /\ hb[j] = "stopped"
  /\ IF token[j] = NoLease
     THEN UNCHANGED ops
     ELSE \E now \in Clock : ops' = ops \cup {Request("release", j, now)}
  /\ phase' = [phase EXCEPT ![j] = "idle"]
  /\ token' = [token EXCEPT ![j] = NoLease]
  /\ lost' = [lost EXCEPT ![j] = FALSE]
  /\ UNCHANGED <<row, hb, rn, answer, pub, history>>

(* The process dies, or the task that owns the ActiveJobLease is aborted   *)
(* and Drop aborts the heartbeat: nothing is released.                     *)
Crash(n) ==
  LET Gone(j) == NodeOf[j] = n IN
  /\ \E j \in Jobs : Gone(j) /\ phase[j] # "idle"
  /\ phase' = [j \in Jobs |-> IF Gone(j) THEN "idle" ELSE phase[j]]
  /\ token' = [j \in Jobs |-> IF Gone(j) THEN NoLease ELSE token[j]]
  /\ hb' = [j \in Jobs |-> IF Gone(j) THEN "stopped" ELSE hb[j]]
  /\ rn' = [j \in Jobs |-> IF Gone(j) THEN "none" ELSE rn[j]]
  /\ answer' = [j \in Jobs |-> IF Gone(j) THEN NoLease ELSE answer[j]]
  /\ pub' = [j \in Jobs |-> IF Gone(j) THEN "none" ELSE pub[j]]
  /\ lost' = [j \in Jobs |-> IF Gone(j) THEN FALSE ELSE lost[j]]
  /\ UNCHANGED <<row, ops, history>>

-----------------------------------------------------------------------------
(* The heartbeat task.  A beat snapshots the token and builds the renewal  *)
(* future; the select below polls it in no fixed order against the expiry. *)
Beat(j) ==
  /\ hb[j] = "sleep"
  /\ token[j] # NoLease
  /\ hb' = [hb EXCEPT ![j] = "select"]
  /\ UNCHANGED <<row, ops, phase, token, rn, answer, pub, lost, history>>

(* First poll of the renewal: it joins the queue of the write lock.        *)
QueueRenewal(j) ==
  /\ hb[j] = "select"
  /\ rn[j] = "none"
  /\ rn' = [rn EXCEPT ![j] = "queued"]
  /\ UNCHANGED <<row, ops, phase, token, hb, answer, pub, lost, history>>

(* Plausible bug: the renewal shares the lock with the publications.       *)
SendRenewalShared(j) ==
  /\ hb[j] = "select"
  /\ rn[j] = "queued"
  /\ \E now \in Clock : /\ RenewalIsLater(token[j], now)
                        /\ ops' = ops \cup {Request("renew", j, now)}
  /\ rn' = [rn EXCEPT ![j] = "sent"]
  /\ UNCHANGED <<row, phase, token, hb, answer, pub, lost, history>>

(* The write lock is granted once no publication holds the read lock.      *)
SendRenewal(j) ==
  /\ hb[j] = "select"
  /\ rn[j] = "queued"
  /\ pub[j] = "none"
  /\ \E now \in Clock : /\ RenewalIsLater(token[j], now)
                        /\ ops' = ops \cup {Request("renew", j, now)}
  /\ rn' = [rn EXCEPT ![j] = "sent"]
  /\ UNCHANGED <<row, phase, token, hb, answer, pub, lost, history>>

(* Ok(Some): the replacement becomes the token and the lock is dropped.    *)
RenewalAccepted(j) ==
  /\ hb[j] = "select"
  /\ rn[j] = "yes"
  /\ token' = [token EXCEPT ![j] = answer[j]]
  /\ rn' = [rn EXCEPT ![j] = "none"]
  /\ answer' = [answer EXCEPT ![j] = NoLease]
  /\ hb' = [hb EXCEPT ![j] = "sleep"]
  /\ UNCHANGED <<row, ops, phase, pub, lost, history>>

(* The fence is invalidated, the loss token cancelled, the loop left.      *)
SelfFence(j) ==
  /\ token' = [token EXCEPT ![j] = NoLease]
  /\ rn' = [rn EXCEPT ![j] = "none"]
  /\ answer' = [answer EXCEPT ![j] = NoLease]
  /\ hb' = [hb EXCEPT ![j] = "stopped"]
  /\ lost' = [lost EXCEPT ![j] = TRUE]
  /\ UNCHANGED <<row, ops, phase, pub, history>>

(* Ok(None), or an error: refused locally because the expiry would not     *)
(* advance, failed at the store, or failed on the way back.                *)
RenewalFailed(j) ==
  /\ hb[j] = "select"
  /\ \/ rn[j] \in {"sent", "yes", "no"}
     \/ /\ rn[j] = "queued"
        /\ pub[j] = "none"
        /\ \E now \in Clock : ~RenewalIsLater(token[j], now)
  /\ SelfFence(j)

(* The select takes the expiry branch: the sleep ran out while the renewal *)
(* was not ready.  The sleep counts monotonic time, so the wall clock does *)
(* not bound it.  The renewal future stays pinned to the end of the loop   *)
(* iteration: it is neither polled again nor dropped.                      *)
Expire(j) ==
  /\ hb[j] = "select"
  /\ hb' = [hb EXCEPT ![j] = "expiring"]
  /\ UNCHANGED <<row, ops, phase, token, rn, answer, pub, lost, history>>

(* The expiry arm: invalidate() takes the write lock, which it gets only   *)
(* when the renewal was never polled and no publication is in flight.      *)
Invalidate(j) ==
  /\ hb[j] = "expiring"
  /\ rn[j] = "none"
  /\ pub[j] = "none"
  /\ SelfFence(j)

(* release() cancelled the heartbeat: the select's cancelled branch leaves *)
(* the loop and drops the renewal future, whatever it was waiting for.     *)
StopHeartbeat(j) ==
  /\ phase[j] = "ending"
  /\ hb[j] \in {"sleep", "select"}
  /\ hb' = [hb EXCEPT ![j] = "stopped"]
  /\ rn' = [rn EXCEPT ![j] = "none"]
  /\ answer' = [answer EXCEPT ![j] = NoLease]
  /\ UNCHANGED <<row, ops, phase, token, pub, lost, history>>

-----------------------------------------------------------------------------
(* The store executes a request, however late.                             *)
Awaited(op) ==
  /\ rn[op.job] = "sent"
  /\ token[op.job] = op.lease

ExecRenew(op) ==
  LET ok == Renewable(row, op.lease, op.now) IN
  /\ op.kind = "renew"
  /\ ops' = ops \ {op}
  /\ row' = IF ok THEN Renewed(row, op.now) ELSE row
  /\ IF Awaited(op)
     THEN /\ rn' = [rn EXCEPT ![op.job] = IF ok THEN "yes" ELSE "no"]
          /\ answer' = [answer EXCEPT ![op.job] = IF ok THEN row' ELSE NoLease]
     ELSE UNCHANGED <<rn, answer>>
  /\ UNCHANGED <<phase, token, hb, pub, lost, history>>

ExecPublish(op) ==
  /\ op.kind = "publish"
  /\ ops' = ops \ {op}
  /\ published' = IF Publishable(row, op.lease, op.now)
                  THEN op.lease.fence ELSE published
  /\ UNCHANGED <<row, jobVars, open>>

ExecRelease(op) ==
  LET ok == Releasable(row, op.lease) IN
  /\ op.kind = "release"
  /\ ops' = ops \ {op}
  /\ row' = IF ok THEN Released(row, op.now) ELSE row
  /\ open' = IF ok THEN FALSE ELSE open
  /\ UNCHANGED <<jobVars, published>>

(* A request that never reaches the store.                                 *)
LoseOp(op) ==
  /\ ops' = ops \ {op}
  /\ UNCHANGED <<row, jobVars, history>>

Heartbeat(j) ==
  \/ Beat(j) \/ QueueRenewal(j) \/ SendRenewal(j) \/ RenewalAccepted(j)
  \/ RenewalFailed(j) \/ Expire(j) \/ Invalidate(j) \/ StopHeartbeat(j)

Worker(j) ==
  Acquire(j) \/ BeginPublish(j) \/ EndPublish(j) \/ Finish(j) \/ Release(j)

Exec(op) == ExecRenew(op) \/ ExecPublish(op) \/ ExecRelease(op)

Next ==
  \/ \E j \in Jobs : Worker(j) \/ Heartbeat(j)
  \/ \E op \in ops : Exec(op) \/ LoseOp(op)
  \/ \E n \in Nodes : Crash(n)

Spec == Init /\ [][Next]_vars

-----------------------------------------------------------------------------
(* Every token the job may still present to the store.                     *)
TokensOf(j) ==
  {token[j]} \cup {op.lease : op \in {o \in ops : o.job = j}}
             \cup (IF rn[j] = "yes" THEN {answer[j]} ELSE {})

(* No two jobs ever hold a token the store would accept: however the       *)
(* clocks step, whatever replies are lost, the owner the row names is      *)
(* alone (cluster/coordination.rs, "every stale writer fenced").           *)
SingleCurrentOwner ==
  \A j, k \in Jobs :
    (row # NoLease /\ row \in TokensOf(j) /\ row \in TokensOf(k)) => j = k

(* A publication that holds the read lock is never refused because of its  *)
(* own job's renewal: while its fence is the row's and was not released,   *)
(* it presents the row exactly.  (publication.rs: "releasing this write    *)
(* lock earlier would let a valid publication race with that response and  *)
(* present the just-stale token".)                                         *)
NoSelfStalePublication ==
  \A op \in ops :
    ( /\ op.kind = "publish"
      /\ pub[op.job] = "sent"
      /\ op.lease = token[op.job]
      /\ op.lease.fence = row.fence ) => op.lease = row

(* A released lease is over: none of its tokens is accepted again, even    *)
(* from a caller whose clock stepped back behind the old expiry.           *)
ReleasedStaysReleased ==
  ~open => \A j \in Jobs : row \notin TokensOf(j) \ {NoLease}

(* Publications commit in the order the leases were granted: a superseded  *)
(* owner never writes after its successor did.                             *)
PublishedInFenceOrder == [][published' >= published]_vars

(* The fence never goes back and the revision moves with every change of   *)
(* the row, so a token never becomes valid again after it was replaced.    *)
RowMovesForward ==
  [][row' # row => row'.revision > row.revision /\ row'.fence >= row.fence]_vars

(* The lease primitive implements the abstract publisher.                  *)
Publisher == INSTANCE ExclusivePublisher
  WITH epoch <- row.fence, open <- open, published <- published

PublisherSpec == Publisher!Spec

-----------------------------------------------------------------------------
(* Fairness: tokio polls every ready task, a store call returns, and a job *)
(* has finitely much work, so it is not refused its end for ever.          *)
Fairness ==
  /\ \A j \in Jobs :
       /\ WF_vars(EndPublish(j))
       /\ SF_vars(Finish(j))
       /\ WF_vars(Release(j))
       /\ WF_vars(QueueRenewal(j))
       /\ WF_vars(SendRenewal(j) \/ RenewalAccepted(j) \/ RenewalFailed(j))
       /\ WF_vars(Invalidate(j))
       /\ WF_vars(StopHeartbeat(j))
       /\ WF_vars(\E op \in ops : op.job = j /\ Exec(op))

FairSpec == Spec /\ Fairness

(* A job that was started ends, unless its heartbeat entered the expiry    *)
(* arm after the renewal had joined the queue of the fence's lock.         *)
JobEnds ==
  \A j \in Jobs :
    phase[j] = "working" ~> \/ phase[j] = "idle"
                            \/ hb[j] = "expiring" /\ rn[j] # "none"

(* state.rs says of the expiry arm that the job "exceeded its lease        *)
(* deadline and self-fenced": the fence is then invalid.                   *)
ExpirySelfFences ==
  \A j \in Jobs : hb[j] = "expiring" ~> token[j] = NoLease
=============================================================================
