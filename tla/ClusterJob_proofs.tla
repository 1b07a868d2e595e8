------------------------- MODULE ClusterJob_proofs --------------------------
(***************************************************************************)
(* Proofs about ClusterJob for any number of nodes and job slots, any      *)
(* clocks and any counter bound.                                           *)
(***************************************************************************)
EXTENDS ClusterJob, TLAPS

(* What every token in circulation has to do with the row: it is behind    *)
(* the row in both counters, it is the row when its revision is the row's, *)
(* and it is not the row once the row's lease was released.                *)
TokenInv ==
  \A j \in Jobs : \A l \in TokensOf(j) \ {NoLease} :
    /\ l \in Lease
    /\ l.fence <= row.fence
    /\ l.revision <= row.revision
    /\ l.revision = row.revision => l = row
    /\ ~open => l # row

(* A fence belongs to the job it was granted to.                           *)
FenceOwnerInv ==
  \A j, k \in Jobs :
    \A l \in TokensOf(j) \ {NoLease}, m \in TokensOf(k) \ {NoLease} :
      l.fence = m.fence => j = k

(* No publication is ahead of the fences granted so far.                   *)
HistoryInv == published <= row.fence

TokenFacts == TokenInv /\ FenceOwnerInv /\ HistoryInv

-----------------------------------------------------------------------------
(* The statements of LeaseRow keep the row a lease within its bounds, and  *)
(* move its counters as the invariant needs.                               *)
LEMMA AcquiredLease ==
  ASSUME NEW r \in Lease \cup {NoLease}, NEW n \in Nodes,
         NEW t \in 0 .. MaxTime, Acquirable(r, t)
  PROVE  /\ Acquired(r, n, t) \in Lease
         /\ Acquired(r, n, t).fence = r.fence + 1
         /\ Acquired(r, n, t).revision = r.revision + 1
  BY LeaseAssumption DEF Acquirable, Acquired, Lease, NoLease, Time

LEMMA RenewedLease ==
  ASSUME NEW r, NEW l \in Lease, NEW t \in 0 .. MaxTime, Renewable(r, l, t)
  PROVE  /\ r \in Lease
         /\ Renewed(r, t) \in Lease
         /\ Renewed(r, t).fence = r.fence
         /\ Renewed(r, t).revision = r.revision + 1
  BY LeaseAssumption DEF Renewable, Renewed, Lease, Time

LEMMA ReleasedLease ==
  ASSUME NEW r, NEW l \in Lease, NEW t \in 0 .. MaxTime, Releasable(r, l)
  PROVE  /\ r \in Lease
         /\ Released(r, t) \in Lease
         /\ Released(r, t).fence = r.fence
         /\ Released(r, t).revision = r.revision + 1
  BY LeaseAssumption DEF Releasable, Released, Lease, Time

LEMMA NoLeaseIsNoLease == NoLease \notin Lease
  BY DEF NoLease, Lease

LEMMA LeaseFields ==
  ASSUME NEW l \in Lease
  PROVE  l.fence \in Nat /\ l.revision \in Nat /\ l.fence > 0 /\ l.revision > 0
  BY LeaseAssumption DEF Lease

-----------------------------------------------------------------------------
(* A heartbeat that has not stopped has a token, and an accepted renewal   *)
(* brings one.                                                             *)
HeartbeatInv ==
  \A j \in Jobs : /\ hb[j] # "stopped" => token[j] # NoLease
                  /\ rn[j] = "yes" => answer[j] # NoLease

TInv == TypeOK /\ HeartbeatInv

LEMMA RequestType ==
  ASSUME TypeOK, NEW j \in Jobs, token[j] # NoLease,
         NEW kind \in {"renew", "publish", "release"}, NEW now \in Clock
  PROVE  Request(kind, j, now) \in Op
  BY JobAssumption DEF TypeOK, Request, Op, Clock

LEMMA TypeInit == Init => TInv
  <1> SUFFICES ASSUME Init PROVE TInv
    OBVIOUS
  <1>1. open \in BOOLEAN
    BY Zenon DEF Init
  <1>2. QED
    BY <1>1, LeaseAssumption DEF Init, TInv, TypeOK, HeartbeatInv

LEMMA TypeStep == TInv /\ [Next]_vars => TInv'
  <1> SUFFICES ASSUME TInv, [Next]_vars PROVE TInv'
    OBVIOUS
  <1> USE DEF TInv, TypeOK, HeartbeatInv
  <1>1. ASSUME NEW j \in Jobs, Acquire(j) PROVE TInv'
    <2>1. row' \in Lease
      BY <1>1, AcquiredLease, JobAssumption DEF Acquire, Clock
    <2>2. QED
      BY <1>1, <2>1, NoLeaseIsNoLease DEF Acquire, history
  <1>2. ASSUME NEW j \in Jobs, BeginPublish(j) PROVE TInv'
    BY <1>2, RequestType DEF BeginPublish, history, fenceVars
  <1>3. ASSUME NEW j \in Jobs, EndPublish(j) \/ Finish(j) PROVE TInv'
    BY <1>3 DEF EndPublish, Finish, history, fenceVars
  <1>4. ASSUME NEW j \in Jobs, Release(j) PROVE TInv'
    BY <1>4, RequestType DEF Release, history
  <1>6. ASSUME NEW n \in Nodes, Crash(n) PROVE TInv'
    BY <1>6 DEF Crash, history
  <1>7. ASSUME NEW j \in Jobs, SendRenewal(j) PROVE TInv'
    BY <1>7, RequestType DEF SendRenewal, history
  <1>8. ASSUME NEW j \in Jobs,
               Beat(j) \/ QueueRenewal(j) \/ Expire(j) \/ StopHeartbeat(j)
        PROVE TInv'
    BY <1>8 DEF Beat, QueueRenewal, Expire, StopHeartbeat, history
  <1>9. ASSUME NEW j \in Jobs, RenewalAccepted(j) PROVE TInv'
    BY <1>9 DEF RenewalAccepted, history
  <1>10. ASSUME NEW j \in Jobs, RenewalFailed(j) \/ Invalidate(j) PROVE TInv'
    BY <1>10 DEF RenewalFailed, Invalidate, SelfFence, history
  <1>11. ASSUME NEW op \in ops, ExecRenew(op) PROVE TInv'
    <2> DEFINE ok == Renewable(row, op.lease, op.now)
    <2>1. op.lease \in Lease /\ op.now \in 0 .. MaxTime /\ op.job \in Jobs
      BY DEF Op
    <2>2. ok => row' \in Lease
      BY <1>11, <2>1, RenewedLease DEF ExecRenew
    <2>3. ~ok => row' = row
      BY <1>11 DEF ExecRenew
    <2>4. QED
      BY <1>11, <2>1, <2>2, <2>3, NoLeaseIsNoLease DEF ExecRenew, history
  <1>12. ASSUME NEW op \in ops, ExecPublish(op) PROVE TInv'
    <2>1. op.lease.fence \in 0 .. MaxCounter
      BY DEF Op, Lease
    <2>2. QED
      BY <1>12, <2>1 DEF ExecPublish, jobVars, fenceVars
  <1>13. ASSUME NEW op \in ops, ExecRelease(op) PROVE TInv'
    <2>1. op.lease \in Lease /\ op.now \in 0 .. MaxTime
      BY DEF Op
    <2>2. op.lease.fence \in 0 .. MaxCounter
      BY <2>1 DEF Lease
    <2>3. Releasable(row, op.lease) => row' \in Lease
      BY <1>13, <2>1, ReleasedLease DEF ExecRelease
    <2>4. QED
      BY <1>13, <2>2, <2>3 DEF ExecRelease, jobVars, fenceVars
  <1>14. ASSUME NEW op \in ops, LoseOp(op) PROVE TInv'
    BY <1>14 DEF LoseOp, history, jobVars, fenceVars
  <1>15. CASE UNCHANGED vars
    BY <1>15 DEF vars, history, jobVars, fenceVars
  <1>16. QED
    BY <1>1, <1>2, <1>3, <1>4, <1>6, <1>7, <1>8, <1>9, <1>10, <1>11,
       <1>12, <1>13, <1>14, <1>15 DEF Next, Worker, Heartbeat, Exec

(* Every variable keeps its type: the counters stay within MaxCounter      *)
(* because acquire, renew and release refuse to pass it, every request in  *)
(* flight carries a well-formed token, and a heartbeat never runs without  *)
(* one.                                                                    *)
THEOREM TypeCorrect == Spec => []TypeOK
  <1>1. Spec => []TInv
    BY TypeInit, TypeStep, PTL DEF Spec
  <1>2. TInv => TypeOK
    BY DEF TInv
  <1>3. QED
    BY <1>1, <1>2, PTL

-----------------------------------------------------------------------------
(* A step that leaves the row and the releases alone and puts no new token *)
(* into circulation keeps the facts about tokens.                          *)
LEMMA NoNewToken ==
  ASSUME TokenFacts, UNCHANGED <<row, open>>,
         \A j \in Jobs : TokensOf(j)' \subseteq TokensOf(j) \cup {NoLease},
         published' <= row.fence
  PROVE  TokenFacts'
  <1>1. TokenInv'
    BY DEF TokenFacts, TokenInv
  <1>2. FenceOwnerInv'
    BY DEF TokenFacts, FenceOwnerInv
  <1>3. HistoryInv'
    BY DEF TokenFacts, HistoryInv
  <1>4. QED
    BY <1>1, <1>2, <1>3 DEF TokenFacts

(* A step that changes the row to one with a higher revision and the same  *)
(* fence, and puts at most that row into circulation, under the job that   *)
(* presented its predecessor.                                              *)
LEMMA RowReplaced ==
  ASSUME TInv, TInv', TokenFacts,
         NEW i \in Jobs, row \in TokensOf(i), row \in Lease, row' \in Lease,
         row'.fence = row.fence, row'.revision = row.revision + 1,
         \A j \in Jobs : TokensOf(j)' \subseteq
            TokensOf(j) \cup {NoLease} \cup (IF j = i THEN {row'} ELSE {}),
         published' = published,
         ~open' => \A j \in Jobs : row' \notin TokensOf(j)'
  PROVE  TokenFacts'
  <1> USE NoLeaseIsNoLease
  <1>1. row.fence \in Nat /\ row.revision \in Nat
    BY LeaseFields
  <1>2. TokenInv'
    <2> SUFFICES ASSUME NEW j \in Jobs, NEW l \in TokensOf(j)' \ {NoLease}
                 PROVE  /\ l \in Lease
                        /\ l.fence <= row'.fence
                        /\ l.revision <= row'.revision
                        /\ l.revision = row'.revision => l = row'
                        /\ ~open' => l # row'
      BY DEF TokenInv
    <2>1. CASE l = row'
      BY <2>1, LeaseFields
    <2>2. CASE l # row'
      <3>1. l \in TokensOf(j) \ {NoLease}
        BY <2>2
      <3>2. l \in Lease /\ l.fence <= row.fence /\ l.revision <= row.revision
        BY <3>1 DEF TokenFacts, TokenInv
      <3>3. l.revision \in Nat
        BY <3>2, LeaseFields
      <3>4. QED
        BY <1>1, <2>2, <3>2, <3>3
    <2>3. QED
      BY <2>1, <2>2
  <1>3. FenceOwnerInv'
    <2> SUFFICES ASSUME NEW j \in Jobs, NEW k \in Jobs,
                        NEW l \in TokensOf(j)' \ {NoLease},
                        NEW m \in TokensOf(k)' \ {NoLease},
                        l.fence = m.fence
                 PROVE  j = k
      BY DEF FenceOwnerInv
    <2>1. \A n \in Jobs : \A t \in TokensOf(n)' \ {NoLease} :
            \E u \in TokensOf(n) \ {NoLease} : u.fence = t.fence
      <3> SUFFICES ASSUME NEW n \in Jobs, NEW t \in TokensOf(n)' \ {NoLease}
                   PROVE  \E u \in TokensOf(n) \ {NoLease} : u.fence = t.fence
        OBVIOUS
      <3>1. CASE t \in TokensOf(n)
        BY <3>1
      <3>2. CASE t \notin TokensOf(n)
        <4>1. n = i /\ t = row'
          BY <3>2
        <4>2. row \in TokensOf(n) \ {NoLease}
          BY <4>1
        <4>3. QED
          BY <4>1, <4>2
      <3>3. QED
        BY <3>1, <3>2
    <2>2. PICK u \in TokensOf(j) \ {NoLease} : u.fence = l.fence
      BY <2>1
    <2>3. PICK v \in TokensOf(k) \ {NoLease} : v.fence = m.fence
      BY <2>1
    <2>4. QED
      BY <2>2, <2>3 DEF TokenFacts, FenceOwnerInv
  <1>4. HistoryInv'
    BY <1>1 DEF TokenFacts, HistoryInv
  <1>5. QED
    BY <1>2, <1>3, <1>4 DEF TokenFacts

(* A new grant: the row moves on in both counters, and only the job that   *)
(* was granted it holds it.                                                *)
LEMMA RowGranted ==
  ASSUME TInv, TInv', TokenFacts,
         NEW i \in Jobs, row' \in Lease,
         row'.fence = row.fence + 1, row'.revision = row.revision + 1,
         \A j \in Jobs : TokensOf(j)' \subseteq
            TokensOf(j) \cup (IF j = i THEN {row'} ELSE {}),
         open' = TRUE, published' = published
  PROVE  TokenFacts'
  <1> USE NoLeaseIsNoLease
  <1>1. row.fence \in Nat /\ row.revision \in Nat
    BY LeaseFields DEF TInv, TypeOK, NoLease
  <1>2. \A j \in Jobs : \A l \in TokensOf(j) \ {NoLease} :
          l # row' /\ l.fence # row'.fence
    BY <1>1, LeaseFields DEF TokenFacts, TokenInv
  <1>3. TokenInv'
    <2> SUFFICES ASSUME NEW j \in Jobs, NEW l \in TokensOf(j)' \ {NoLease}
                 PROVE  /\ l \in Lease
                        /\ l.fence <= row'.fence
                        /\ l.revision <= row'.revision
                        /\ l.revision = row'.revision => l = row'
                        /\ ~open' => l # row'
      BY DEF TokenInv
    <2>2. CASE l = row'
      BY <2>2, LeaseFields
    <2>3. CASE l # row'
      <3>1. l \in TokensOf(j) \ {NoLease}
        BY <2>3
      <3>2. l \in Lease /\ l.fence <= row.fence /\ l.revision <= row.revision
        BY <3>1 DEF TokenFacts, TokenInv
      <3>3. l.fence \in Nat /\ l.revision \in Nat
        BY <3>2, LeaseFields
      <3>4. QED
        BY <1>1, <2>3, <3>2, <3>3
    <2>4. QED
      BY <2>2, <2>3
  <1>4. FenceOwnerInv'
    BY <1>2 DEF TokenFacts, FenceOwnerInv
  <1>5. HistoryInv'
    BY <1>1 DEF TokenFacts, HistoryInv, TInv, TypeOK
  <1>6. QED
    BY <1>3, <1>4, <1>5 DEF TokenFacts

-----------------------------------------------------------------------------
LEMMA TokenInit == Init => TokenFacts
  <1> SUFFICES ASSUME Init PROVE TokenFacts
    OBVIOUS
  <1>1. \A j \in Jobs : TokensOf(j) = {NoLease}
    BY DEF Init, TokensOf
  <1>2. QED
    BY <1>1 DEF Init, TokenFacts, TokenInv, FenceOwnerInv, HistoryInv, NoLease

LEMMA TokenStep == TInv /\ TokenFacts /\ [Next]_vars => TokenFacts'
  <1> SUFFICES ASSUME TInv, TokenFacts, [Next]_vars PROVE TokenFacts'
    OBVIOUS
  <1> USE NoLeaseIsNoLease
  <1>t. TInv'
    BY TypeStep
  <1>h. published <= row.fence
    BY DEF TokenFacts, HistoryInv
  <1>1. ASSUME NEW i \in Jobs, Acquire(i) PROVE TokenFacts'
    <2>1. /\ row' \in Lease
          /\ row'.fence = row.fence + 1
          /\ row'.revision = row.revision + 1
      BY <1>1, AcquiredLease, JobAssumption DEF Acquire, Clock, TInv, TypeOK
    <2>2. \A j \in Jobs : TokensOf(j)' \subseteq
             TokensOf(j) \cup (IF j = i THEN {row'} ELSE {})
      BY <1>1 DEF Acquire, TokensOf, TInv, TypeOK
    <2>3. QED
      BY <1>1, <1>t, <2>1, <2>2, RowGranted DEF Acquire
  <1>2. ASSUME NEW i \in Jobs, BeginPublish(i) PROVE TokenFacts'
    <2>1. \A j \in Jobs : TokensOf(j)' \subseteq TokensOf(j) \cup {NoLease}
      BY <1>2 DEF BeginPublish, TokensOf, Request, fenceVars
    <2>2. QED
      BY <1>2, <1>h, <2>1, NoNewToken DEF BeginPublish, history
  <1>3. ASSUME NEW i \in Jobs, EndPublish(i) \/ Finish(i) PROVE TokenFacts'
    <2>1. \A j \in Jobs : TokensOf(j)' \subseteq TokensOf(j) \cup {NoLease}
      BY <1>3 DEF EndPublish, Finish, TokensOf, fenceVars
    <2>2. QED
      BY <1>3, <1>h, <2>1, NoNewToken DEF EndPublish, Finish, history
  <1>4. ASSUME NEW i \in Jobs, Release(i) PROVE TokenFacts'
    <2>1. \A j \in Jobs : TokensOf(j)' \subseteq TokensOf(j) \cup {NoLease}
      BY <1>4 DEF Release, TokensOf, Request, TInv, TypeOK
    <2>2. QED
      BY <1>4, <1>h, <2>1, NoNewToken DEF Release, history
  <1>6. ASSUME NEW n \in Nodes, Crash(n) PROVE TokenFacts'
    <2>1. \A j \in Jobs : TokensOf(j)' \subseteq TokensOf(j) \cup {NoLease}
      BY <1>6 DEF Crash, TokensOf
    <2>2. QED
      BY <1>6, <1>h, <2>1, NoNewToken DEF Crash, history
  <1>7. ASSUME NEW i \in Jobs, SendRenewal(i) PROVE TokenFacts'
    <2>1. \A j \in Jobs : TokensOf(j)' \subseteq TokensOf(j) \cup {NoLease}
      BY <1>7 DEF SendRenewal, TokensOf, Request, TInv, TypeOK
    <2>2. QED
      BY <1>7, <1>h, <2>1, NoNewToken DEF SendRenewal, history
  <1>8. ASSUME NEW i \in Jobs,
               Beat(i) \/ QueueRenewal(i) \/ Expire(i) \/ StopHeartbeat(i)
        PROVE TokenFacts'
    <2>1. \A j \in Jobs : TokensOf(j)' \subseteq TokensOf(j) \cup {NoLease}
      BY <1>8 DEF Beat, QueueRenewal, Expire, StopHeartbeat, TokensOf, TInv, TypeOK
    <2>2. QED
      BY <1>8, <1>h, <2>1, NoNewToken
         DEF Beat, QueueRenewal, Expire, StopHeartbeat, history
  <1>9. ASSUME NEW i \in Jobs, RenewalAccepted(i) PROVE TokenFacts'
    <2>1. \A j \in Jobs : TokensOf(j)' \subseteq TokensOf(j) \cup {NoLease}
      BY <1>9 DEF RenewalAccepted, TokensOf, TInv, TypeOK
    <2>2. QED
      BY <1>9, <1>h, <2>1, NoNewToken DEF RenewalAccepted, history
  <1>10. ASSUME NEW i \in Jobs, RenewalFailed(i) \/ Invalidate(i)
         PROVE TokenFacts'
    <2>1. \A j \in Jobs : TokensOf(j)' \subseteq TokensOf(j) \cup {NoLease}
      BY <1>10 DEF RenewalFailed, Invalidate, SelfFence, TokensOf, TInv, TypeOK
    <2>2. QED
      BY <1>10, <1>h, <2>1, NoNewToken
         DEF RenewalFailed, Invalidate, SelfFence, history
  <1>11. ASSUME NEW op \in ops, ExecRenew(op) PROVE TokenFacts'
    <2> DEFINE i == op.job
    <2>1. /\ op.lease \in Lease
          /\ op.now \in 0 .. MaxTime
          /\ i \in Jobs
          /\ op.lease \in TokensOf(i)
      BY DEF TInv, TypeOK, Op, TokensOf
    <2>2. CASE Renewable(row, op.lease, op.now)
      <3>1. row = op.lease
        BY <2>2 DEF Renewable
      <3>2. open
        BY <2>1, <3>1 DEF TokenFacts, TokenInv
      <3>3. /\ row' \in Lease
            /\ row'.fence = row.fence
            /\ row'.revision = row.revision + 1
        BY <1>11, <2>1, <2>2, RenewedLease DEF ExecRenew
      <3>4. \A j \in Jobs : TokensOf(j)' \subseteq
              TokensOf(j) \cup {NoLease} \cup (IF j = i THEN {row'} ELSE {})
        BY <1>11, <2>2 DEF ExecRenew, TokensOf, TInv, TypeOK
      <3>5. published' = published /\ open' = open
        BY <1>11 DEF ExecRenew, history
      <3>6. QED
        BY <1>t, <2>1, <3>1, <3>2, <3>3, <3>4, <3>5, RowReplaced
    <2>3. CASE ~Renewable(row, op.lease, op.now)
      <3>1. \A j \in Jobs : TokensOf(j)' \subseteq TokensOf(j) \cup {NoLease}
        BY <1>11, <2>3 DEF ExecRenew, TokensOf, TInv, TypeOK
      <3>2. UNCHANGED <<row, open, published>>
        BY <1>11, <2>3 DEF ExecRenew, history
      <3>3. QED
        BY <1>h, <3>1, <3>2, NoNewToken
    <2>4. QED
      BY <2>2, <2>3
  <1>12. ASSUME NEW op \in ops, ExecPublish(op) PROVE TokenFacts'
    <2>1. \A j \in Jobs : TokensOf(j)' \subseteq TokensOf(j) \cup {NoLease}
      BY <1>12 DEF ExecPublish, TokensOf, jobVars, fenceVars
    <2>2. published' <= row.fence
      <3>1. row \in Lease \/ row = NoLease
        BY DEF TInv, TypeOK
      <3>2. row.fence \in Nat
        BY <3>1, LeaseFields DEF NoLease
      <3>3. QED
        BY <1>12, <1>h, <3>2 DEF ExecPublish, Publishable
    <2>3. QED
      BY <1>12, <2>1, <2>2, NoNewToken DEF ExecPublish
  <1>13. ASSUME NEW op \in ops, ExecRelease(op) PROVE TokenFacts'
    <2> DEFINE i == op.job
    <2>1. /\ op.lease \in Lease
          /\ op.now \in 0 .. MaxTime
          /\ i \in Jobs
          /\ op.lease \in TokensOf(i)
      BY DEF TInv, TypeOK, Op, TokensOf
    <2>2. \A j \in Jobs : TokensOf(j)' \subseteq TokensOf(j) \cup {NoLease}
      BY <1>13 DEF ExecRelease, TokensOf, jobVars, fenceVars
    <2>3. CASE Releasable(row, op.lease)
      <3>1. row = op.lease
        BY <2>3 DEF Releasable
      <3>2. /\ row' \in Lease
            /\ row'.fence = row.fence
            /\ row'.revision = row.revision + 1
        BY <1>13, <2>1, <2>3, ReleasedLease DEF ExecRelease
      <3>3. row.revision \in Nat
        BY <2>1, <3>1, LeaseFields
      <3>4. \A j \in Jobs : \A l \in TokensOf(j) \ {NoLease} : l # row'
        BY <2>1, <3>1, <3>2, <3>3, LeaseFields DEF TokenFacts, TokenInv
      <3>5. \A j \in Jobs : row' \notin TokensOf(j)'
        BY <2>2, <3>2, <3>4
      <3>6. published' = published
        BY <1>13, <2>3, <3>1 DEF ExecRelease
      <3>7. QED
        BY <1>t, <2>1, <2>2, <3>1, <3>2, <3>5, <3>6, RowReplaced
    <2>4. CASE ~Releasable(row, op.lease)
      <3>1. UNCHANGED <<row, open, published>>
        BY <1>13, <2>4 DEF ExecRelease
      <3>2. QED
        BY <1>h, <2>2, <3>1, NoNewToken
    <2>5. QED
      BY <2>3, <2>4
  <1>14. ASSUME NEW op \in ops, LoseOp(op) PROVE TokenFacts'
    <2>1. \A j \in Jobs : TokensOf(j)' \subseteq TokensOf(j) \cup {NoLease}
      BY <1>14 DEF LoseOp, TokensOf, jobVars, fenceVars
    <2>2. QED
      BY <1>14, <1>h, <2>1, NoNewToken DEF LoseOp, history
  <1>15. CASE UNCHANGED vars
    <2>1. \A j \in Jobs : TokensOf(j)' \subseteq TokensOf(j) \cup {NoLease}
      BY <1>15 DEF vars, TokensOf, jobVars, fenceVars
    <2>2. QED
      BY <1>15, <1>h, <2>1, NoNewToken DEF vars, history
  <1>16. QED
    BY <1>1, <1>2, <1>3, <1>4, <1>6, <1>7, <1>8, <1>9, <1>10, <1>11,
       <1>12, <1>13, <1>14, <1>15 DEF Next, Worker, Heartbeat, Exec

(* The inductive invariant behind every theorem below.                     *)
IInv == TInv /\ TokenFacts

THEOREM Invariance == Spec => []IInv
  <1>1. Init => IInv
    BY TypeInit, TokenInit DEF IInv
  <1>2. IInv /\ [Next]_vars => IInv'
    BY TypeStep, TokenStep DEF IInv
  <1>3. QED
    BY <1>1, <1>2, PTL DEF Spec

(* However the clocks step, whatever requests are delayed, lost or         *)
(* answered to nobody, at most one job holds a token the store would       *)
(* accept.                                                                 *)
THEOREM SingleOwner == Spec => []SingleCurrentOwner
  <1>1. IInv => SingleCurrentOwner
    BY DEF IInv, TokenFacts, FenceOwnerInv, SingleCurrentOwner
  <1>2. QED
    BY <1>1, Invariance, PTL

(* No token of a released fence is ever accepted again.                    *)
THEOREM ReleaseIsFinal == Spec => []ReleasedStaysReleased
  <1>1. IInv => ReleasedStaysReleased
    BY DEF IInv, TokenFacts, TokenInv, ReleasedStaysReleased
  <1>2. QED
    BY <1>1, Invariance, PTL

-----------------------------------------------------------------------------
(* What one step does to the row, the histories and the abstract state.    *)
LEMMA StepEffect ==
  ASSUME IInv, [Next]_vars
  PROVE  \/ UNCHANGED <<row, published, open>>
         \/ \E n \in Nodes, t \in 0 .. MaxTime :
              /\ Acquirable(row, t) /\ row' = Acquired(row, n, t)
              /\ open' = TRUE /\ published' = published
         \/ \E op \in ops : ExecRenew(op) \/ ExecPublish(op) \/ ExecRelease(op)
  <1>1. ASSUME NEW j \in Jobs, Acquire(j)
        PROVE  \E n \in Nodes, t \in 0 .. MaxTime :
                 /\ Acquirable(row, t) /\ row' = Acquired(row, n, t)
                 /\ open' = TRUE /\ published' = published
    BY <1>1, JobAssumption DEF Acquire, Clock
  <1>2. ASSUME NEW j \in Jobs, Worker(j), ~Acquire(j)
        PROVE  UNCHANGED <<row, published, open>>
    BY <1>2 DEF Worker, BeginPublish, EndPublish, Finish, Release, history
  <1>3. ASSUME NEW j \in Jobs, Heartbeat(j)
        PROVE  UNCHANGED <<row, published, open>>
    BY <1>3 DEF Heartbeat, Beat, QueueRenewal, SendRenewal, RenewalAccepted,
       RenewalFailed, Expire, Invalidate, StopHeartbeat, SelfFence, history
  <1>4. ASSUME NEW n \in Nodes, Crash(n)
        PROVE  UNCHANGED <<row, published, open>>
    BY <1>4 DEF Crash, history
  <1>5. ASSUME NEW op \in ops, LoseOp(op)
        PROVE  UNCHANGED <<row, published, open>>
    BY <1>5 DEF LoseOp, history
  <1>6. CASE UNCHANGED vars
    BY <1>6 DEF vars, history
  <1>7. QED
    BY <1>1, <1>2, <1>3, <1>4, <1>5, <1>6 DEF Next, Exec

(* A request that the store accepts carries the row itself, and the row is *)
(* then a lease of an epoch that was not released.                         *)
LEMMA AcceptedRequest ==
  ASSUME IInv, NEW op \in ops, row = op.lease
  PROVE  /\ row \in Lease
         /\ op.now \in 0 .. MaxTime
         /\ open
         /\ row.fence \in Nat /\ row.revision \in Nat
         /\ published <= row.fence
  <1>1. /\ op.lease \in Lease
        /\ op.now \in 0 .. MaxTime
        /\ op.job \in Jobs
        /\ op.lease \in TokensOf(op.job) \ {NoLease}
    BY NoLeaseIsNoLease DEF IInv, TInv, TypeOK, Op, TokensOf
  <1>2. QED
    BY <1>1, LeaseFields DEF IInv, TokenFacts, TokenInv, HistoryInv

LEMMA RowCounters ==
  ASSUME IInv
  PROVE  row.fence \in Nat /\ row.revision \in Nat
  BY LeaseFields DEF IInv, TInv, TypeOK, NoLease

(* Publications commit in the order the leases were granted.               *)
THEOREM FenceOrder == Spec => PublishedInFenceOrder
  <1>1. IInv /\ [Next]_vars => [published' >= published]_vars
    <2> SUFFICES ASSUME IInv, [Next]_vars PROVE published' >= published
      OBVIOUS
    <2>0. published \in Nat
      BY LeaseAssumption DEF IInv, TInv, TypeOK
    <2>1. ASSUME NEW op \in ops, ExecPublish(op) PROVE published' >= published
      <3>1. CASE Publishable(row, op.lease, op.now)
        BY <2>0, <2>1, <3>1, AcceptedRequest DEF ExecPublish, Publishable
      <3>2. CASE ~Publishable(row, op.lease, op.now)
        BY <2>0, <2>1, <3>2 DEF ExecPublish
      <3>3. QED
        BY <3>1, <3>2
    <2>2. ASSUME NEW op \in ops, ExecRenew(op) \/ ExecRelease(op)
          PROVE  published' = published
      BY <2>2, Zenon DEF ExecRenew, ExecRelease, history
    <2>3. published' = published \/ \E op \in ops : ExecPublish(op)
      BY <2>2, StepEffect, Zenon
    <2>4. QED
      BY <2>0, <2>1, <2>3
  <1>2. QED
    BY <1>1, Invariance, PTL DEF Spec, PublishedInFenceOrder

(* The fence never goes back, and every change of the row moves its        *)
(* revision: a replaced token never becomes valid again.                   *)
THEOREM CountersMoveForward == Spec => RowMovesForward
  <1>1. ASSUME IInv, [Next]_vars, row' # row
        PROVE  row'.revision > row.revision /\ row'.fence >= row.fence
    <2>0. row.fence \in Nat /\ row.revision \in Nat
      BY <1>1, RowCounters
    <2>1. ASSUME NEW n \in Nodes, NEW t \in 0 .. MaxTime,
                 Acquirable(row, t), row' = Acquired(row, n, t)
          PROVE  row'.revision > row.revision /\ row'.fence >= row.fence
      BY <1>1, <2>0, <2>1, AcquiredLease DEF IInv, TInv, TypeOK
    <2>2. ASSUME NEW op \in ops, ExecRenew(op)
          PROVE  row'.revision > row.revision /\ row'.fence >= row.fence
      <3>1. Renewable(row, op.lease, op.now) /\ row' = Renewed(row, op.now)
        BY <1>1, <2>2 DEF ExecRenew
      <3>2. row = op.lease
        BY <3>1 DEF Renewable
      <3>3. QED
        BY <1>1, <2>0, <3>1, <3>2, AcceptedRequest, RenewedLease
    <2>3. ASSUME NEW op \in ops, ExecRelease(op)
          PROVE  row'.revision > row.revision /\ row'.fence >= row.fence
      <3>1. Releasable(row, op.lease) /\ row' = Released(row, op.now)
        BY <1>1, <2>3 DEF ExecRelease
      <3>2. row = op.lease
        BY <3>1 DEF Releasable
      <3>3. QED
        BY <1>1, <2>0, <3>1, <3>2, AcceptedRequest, ReleasedLease
    <2>4. ASSUME NEW op \in ops, ExecPublish(op) PROVE FALSE
      BY <1>1, <2>4 DEF ExecPublish
    <2>5. QED
      BY <1>1, <2>1, <2>2, <2>3, <2>4, StepEffect
  <1>2. IInv /\ [Next]_vars =>
          [row' # row => row'.revision > row.revision /\ row'.fence >= row.fence]_vars
    BY <1>1
  <1>3. QED
    BY <1>2, Invariance, PTL DEF Spec, RowMovesForward

-----------------------------------------------------------------------------
(* Why a publication never presents a token its own job's renewal replaced *)
(* underneath it: what is true of a job's locks, of the renewal it waits   *)
(* for, of its requests, and of the row, as long as it holds a token.      *)
Over(j) == phase[j] = "ending" /\ hb[j] = "stopped"

(* The read lock keeps the renewal in the queue, a heartbeat that stopped  *)
(* awaits no reply, and it has stopped when the slot is free.              *)
LocksInv(j) ==
  /\ pub[j] = "sent" => phase[j] = "working" /\ rn[j] \in {"none", "queued"}
  /\ hb[j] = "stopped" => rn[j] = "none"
  /\ phase[j] = "idle" => hb[j] = "stopped"

(* A reply that was not looked at yet renews the token it will replace.    *)
AnswerInv(j) ==
  rn[j] = "yes" => /\ answer[j].fence = token[j].fence
                   /\ answer[j].revision > token[j].revision

(* Every request of the token's fence is the job's own and not ahead of    *)
(* the token; there is at most one renewal of the very token, and the job  *)
(* awaits it or left it behind by ending; the token was not given back.    *)
RenewsToken(op, j) == op.kind = "renew" /\ op.lease = token[j]

RequestInv(j) ==
  \A op \in ops : token[j] # NoLease /\ op.lease.fence = token[j].fence =>
    /\ op.lease.revision <= token[j].revision
    /\ op.kind # "release"
    /\ RenewsToken(op, j) => /\ rn[j] = "sent" \/ Over(j)
                             /\ \A o \in ops : RenewsToken(o, j) => o = op

(* The token is the row, unless the row is the reply or the job is over.   *)
RowInv(j) ==
  token[j] # NoLease /\ token[j].fence = row.fence =>
    \/ token[j] = row
    \/ rn[j] = "yes" /\ answer[j] = row
    \/ Over(j)

SelfInv == \A j \in Jobs : LocksInv(j) /\ AnswerInv(j) /\ RequestInv(j) /\ RowInv(j)

LEMMA SelfInit == Init => SelfInv
  BY DEF Init, SelfInv, LocksInv, AnswerInv, RequestInv, RowInv

(* What the token facts say of one job and of one request.                 *)
LEMMA TokenBounds ==
  ASSUME IInv, NEW j \in Jobs, token[j] # NoLease
  PROVE  /\ token[j] \in Lease
         /\ token[j].fence \in Nat /\ token[j].revision \in Nat
         /\ token[j].fence <= row.fence /\ token[j].revision <= row.revision
  <1>1. token[j] \in TokensOf(j) \ {NoLease}
    BY DEF TokensOf
  <1>2. QED
    BY <1>1, LeaseFields DEF IInv, TokenFacts, TokenInv

LEMMA RequestBounds ==
  ASSUME IInv, NEW op \in ops
  PROVE  /\ op.job \in Jobs /\ op.lease \in Lease /\ op.lease # NoLease
         /\ op.now \in 0 .. MaxTime
         /\ op.lease.fence \in Nat /\ op.lease.revision \in Nat
         /\ op.lease.fence <= row.fence /\ op.lease.revision <= row.revision
         /\ \A j \in Jobs : token[j] # NoLease /\ token[j].fence = op.lease.fence => j = op.job
  <1>1. /\ op.job \in Jobs /\ op.now \in 0 .. MaxTime
        /\ op.lease \in Lease /\ op.lease \in TokensOf(op.job) \ {NoLease}
    BY NoLeaseIsNoLease DEF IInv, TInv, TypeOK, Op, TokensOf
  <1>2. \A j \in Jobs : token[j] # NoLease => token[j] \in TokensOf(j) \ {NoLease}
    BY DEF TokensOf
  <1>3. \A j \in Jobs : token[j] # NoLease /\ token[j].fence = op.lease.fence => j = op.job
    BY <1>1, <1>2 DEF IInv, TokenFacts, FenceOwnerInv
  <1>4. QED
    BY <1>1, <1>3, LeaseFields, NoLeaseIsNoLease DEF IInv, TokenFacts, TokenInv

(* Two jobs never hold tokens of one fence.                                *)
LEMMA TokensApart ==
  ASSUME IInv, NEW j \in Jobs, NEW k \in Jobs,
         token[j] # NoLease, token[k] # NoLease, token[j].fence = token[k].fence
  PROVE  j = k
  BY DEF IInv, TokenFacts, FenceOwnerInv, TokensOf

LEMMA SelfStep == IInv /\ SelfInv /\ [Next]_vars => SelfInv'
  <1> SUFFICES ASSUME IInv, SelfInv, [Next]_vars, NEW j \in Jobs
               PROVE  (LocksInv(j) /\ AnswerInv(j) /\ RequestInv(j) /\ RowInv(j))'
    BY DEF SelfInv
  <1> DEFINE Goal == (LocksInv(j) /\ AnswerInv(j) /\ RequestInv(j) /\ RowInv(j))'
  <1>a. LocksInv(j) /\ AnswerInv(j) /\ RequestInv(j) /\ RowInv(j)
    BY DEF SelfInv
  <1>r. row.fence \in Nat /\ row.revision \in Nat
    BY RowCounters
  <1> USE NoLeaseIsNoLease DEF IInv, TInv, TypeOK, LocksInv, AnswerInv, RequestInv, RenewsToken, RowInv,
                                 Over
  <1>1. ASSUME NEW i \in Jobs, Acquire(i) PROVE Goal
    <2>1. /\ row' \in Lease
          /\ row'.fence = row.fence + 1
          /\ row'.revision = row.revision + 1
      BY <1>1, AcquiredLease, JobAssumption DEF Acquire, Clock
    <2>2. \A op \in ops : op.lease.fence # row'.fence
      BY <1>r, <2>1, RequestBounds
    <2>3. token[j] # NoLease => token[j].fence # row'.fence
      BY <1>r, <2>1, TokenBounds
    <2>4. CASE token'[j] = token[j] /\ phase'[j] = phase[j] /\ hb'[j] = hb[j]
      BY <1>1, <1>a, <2>1, <2>3, <2>4 DEF Acquire
    <2>5. CASE /\ token'[j] = row' /\ phase[j] = "idle"
               /\ phase'[j] = "working" /\ hb'[j] = "sleep"
      <3>1. /\ UNCHANGED <<ops, rn, pub>> /\ phase'[j] = "working" /\ hb'[j] = "sleep"
            /\ rn[j] = "none" /\ pub[j] = "none"
        BY <1>1, <1>a, <2>5 DEF Acquire
      <3>2. LocksInv(j)' /\ AnswerInv(j)' /\ RowInv(j)'
        BY <2>5, <3>1
      <3>3. RequestInv(j)'
        BY <2>2, <2>5, <3>1
      <3>4. QED
        BY <3>2, <3>3
    <2>6. QED
      BY <1>1, <2>4, <2>5 DEF Acquire
  <1>2. ASSUME NEW i \in Jobs, BeginPublish(i) PROVE Goal
    BY <1>2, <1>a, TokensApart, TokenBounds DEF BeginPublish, Request, Writing, fenceVars, history
  <1>3. ASSUME NEW i \in Jobs, EndPublish(i) \/ Finish(i) PROVE Goal
    BY <1>3, <1>a DEF EndPublish, Finish, fenceVars, history
  <1>4. ASSUME NEW i \in Jobs, Release(i) PROVE Goal
    BY <1>4, <1>a, TokensApart, TokenBounds DEF Release, Request, history
  <1>5. ASSUME NEW n \in Nodes, Crash(n) PROVE Goal
    BY <1>5, <1>a DEF Crash, history
  <1>6. ASSUME NEW i \in Jobs, SendRenewal(i) PROVE Goal
    <2> DEFINE i_op(now) == Request("renew", i, now)
    <2>1. PICK now \in Clock : ops' = ops \cup {i_op(now)}
      BY <1>6 DEF SendRenewal
    <2>2. /\ rn[i] = "queued" /\ rn' = [rn EXCEPT ![i] = "sent"] /\ hb[i] = "select"
          /\ pub[i] = "none" /\ token[i] # NoLease
          /\ UNCHANGED <<row, phase, token, hb, answer, pub>>
      BY <1>6 DEF SendRenewal, HeartbeatInv
    <2>3. i_op(now).kind = "renew" /\ i_op(now).lease = token[i]
      BY DEF Request
    <2> HIDE DEF i_op
    <2>4. LocksInv(j)' /\ AnswerInv(j)' /\ RowInv(j)'
      BY <1>a, <2>2
    <2>5. RequestInv(j)'
      <3>1. CASE i = j
        <4>1. \A op \in ops : ~RenewsToken(op, j)
          BY <1>a, <2>2, <3>1
        <4>2. QED
          BY <1>a, <2>1, <2>2, <2>3, <3>1, <4>1, TokenBounds
      <3>2. CASE i # j
        <4>1. token[j] # NoLease => token[i].fence # token[j].fence
          BY <2>2, <3>2, TokensApart
        <4>2. QED
          BY <1>a, <2>1, <2>2, <2>3, <3>2, <4>1
      <3>3. QED
        BY <3>1, <3>2
    <2>6. QED
      BY <2>4, <2>5
  <1>7. ASSUME NEW i \in Jobs,
               Beat(i) \/ QueueRenewal(i) \/ Expire(i) \/ StopHeartbeat(i)
        PROVE Goal
    BY <1>7, <1>a DEF Beat, QueueRenewal, Expire, StopHeartbeat, history
  <1>8. ASSUME NEW i \in Jobs, RenewalAccepted(i) PROVE Goal
    <2>1. CASE i = j
      <3>1. token[j] # NoLease /\ token[j] \in Lease /\ answer[j] \in Lease
        BY <1>8, <2>1 DEF RenewalAccepted, HeartbeatInv
      <3>2. token[j].revision \in Nat /\ answer[j].revision \in Nat
        BY <3>1, LeaseFields
      <3>3. answer[j].fence = token[j].fence /\ answer[j].revision > token[j].revision
        BY <1>8, <1>a, <2>1 DEF RenewalAccepted
      <3>4. /\ token'[j] = answer[j] /\ rn'[j] = "none" /\ hb'[j] = "sleep" /\ rn[j] = "yes"
            /\ hb[j] = "select" /\ UNCHANGED <<row, ops, phase, pub>>
        BY <1>8, <2>1 DEF RenewalAccepted
      <3>5. \A op \in ops : op.lease.fence = token[j].fence =>
              op.lease.revision < answer[j].revision /\ op.lease # answer[j] /\ op.kind # "release"
        BY <1>a, <3>1, <3>2, <3>3, RequestBounds
      <3>6. LocksInv(j)' /\ AnswerInv(j)'
        BY <1>a, <3>4
      <3>7. RequestInv(j)'
        BY <3>2, <3>3, <3>4, <3>5, RequestBounds
      <3>8. RowInv(j)'
        <4>1. token[j] # row \/ token[j].fence # row.fence
          <5>1. answer[j] \in TokensOf(j) \ {NoLease}
            BY <3>1, <3>4 DEF TokensOf
          <5>2. answer[j].revision <= row.revision
            BY <5>1 DEF TokenFacts, TokenInv
          <5>3. QED
            BY <1>r, <3>2, <3>3, <5>2
        <4>2. token[j].fence = row.fence => answer[j] = row
          BY <1>a, <3>1, <3>4, <4>1
        <4>3. token'[j].fence = row'.fence => token'[j] = row'
          BY <3>3, <3>4, <4>2
        <4>4. QED
          BY <4>3
      <3>9. QED
        BY <3>6, <3>7, <3>8
    <2>2. CASE i # j
      BY <1>8, <1>a, <2>2 DEF RenewalAccepted, history
    <2>3. QED
      BY <2>1, <2>2
  <1>9. ASSUME NEW i \in Jobs, RenewalFailed(i) \/ Invalidate(i) PROVE Goal
    BY <1>9, <1>a DEF RenewalFailed, Invalidate, SelfFence, history
  <1>10. ASSUME NEW op \in ops, ExecRenew(op) PROVE Goal
    <2>1. /\ op.kind = "renew" /\ ops' = ops \ {op}
          /\ UNCHANGED <<phase, token, hb, pub>>
          /\ IF Awaited(op)
             THEN \/ rn' = [rn EXCEPT ![op.job] = "yes"] /\ Renewable(row, op.lease, op.now)
                                /\ answer' = [answer EXCEPT ![op.job] = row']
                  \/ rn' = [rn EXCEPT ![op.job] = "no"] /\ ~Renewable(row, op.lease, op.now)
                                /\ answer' = [answer EXCEPT ![op.job] = NoLease]
             ELSE UNCHANGED <<rn, answer>>
      BY <1>10 DEF ExecRenew
    <2>2. /\ op.job \in Jobs /\ op.lease \in Lease /\ op.now \in 0 .. MaxTime
          /\ op.lease # NoLease
          /\ token[j] # NoLease /\ token[j].fence = op.lease.fence => j = op.job
      BY RequestBounds
    <2>3. LocksInv(j)'
      BY <1>a, <2>1, <2>2 DEF Awaited
    <2>4. RequestInv(j)'
      <3>1. CASE Awaited(op) /\ j = op.job
        <4>1. \A o \in ops' : ~RenewsToken(o, j)
          BY <1>a, <2>1, <2>2, <3>1 DEF Awaited
        <4>2. QED
          BY <1>a, <2>1, <2>2, <4>1
      <3>2. CASE ~(Awaited(op) /\ j = op.job)
        <4>1. rn'[j] = rn[j]
          BY <2>1, <2>2, <3>2
        <4>2. QED
          BY <1>a, <2>1, <4>1
      <3>3. QED
        BY <3>1, <3>2
    <2>5. CASE Renewable(row, op.lease, op.now)
      <3>1. row = op.lease
        BY <2>5 DEF Renewable
      <3>2. /\ row' \in Lease /\ row'.fence = row.fence /\ row'.revision = row.revision + 1
        BY <1>10, <2>2, <2>5, RenewedLease DEF ExecRenew
      <3>3. AnswerInv(j)'
        BY <1>a, <1>r, <2>1, <2>2, <2>5, <3>1, <3>2 DEF Awaited
      <3>4. RowInv(j)'
        <4> SUFFICES ASSUME token'[j] # NoLease, token'[j].fence = row'.fence
                     PROVE  (rn'[j] = "yes" /\ answer'[j] = row') \/ Over(j)'
          OBVIOUS
        <4>1. /\ token[j] # NoLease /\ token[j].fence = op.lease.fence /\ j = op.job
          BY <2>1, <2>2, <3>1, <3>2
        <4>2. op.lease.revision <= token[j].revision /\ token[j].revision <= row.revision
          BY <1>a, <4>1, TokenBounds
        <4>t. token[j].revision \in Nat
          BY <4>1, TokenBounds
        <4>3. token[j].revision = row.revision
          BY <1>r, <3>1, <4>2, <4>t
        <4>4. token[j] = op.lease
          BY <3>1, <4>1, <4>3 DEF TokenFacts, TokenInv, TokensOf
        <4>5. rn[j] = "sent" \/ Over(j)
          BY <1>a, <2>1, <4>1, <4>4
        <4>6. QED
          BY <2>1, <2>2, <2>5, <4>1, <4>4, <4>5 DEF Awaited
      <3>5. QED
        BY <2>3, <2>4, <3>3, <3>4
    <2>6. CASE ~Renewable(row, op.lease, op.now)
      <3>1. row' = row
        BY <1>10, <2>6 DEF ExecRenew
      <3>2. CASE Awaited(op) /\ j = op.job
        BY <1>a, <2>1, <2>2, <2>3, <2>4, <2>6, <3>1, <3>2 DEF Awaited
      <3>3. CASE ~(Awaited(op) /\ j = op.job)
        <4>1. rn'[j] = rn[j] /\ (rn[j] = "yes" => answer'[j] = answer[j])
          BY <2>1, <2>2, <2>6, <3>3 DEF Awaited
        <4>2. QED
          BY <1>a, <2>1, <2>3, <2>4, <3>1, <4>1
      <3>4. QED
        BY <2>3, <2>4, <3>2, <3>3
    <2>7. QED
      BY <2>5, <2>6
  <1>11. ASSUME NEW op \in ops, ExecPublish(op) PROVE Goal
    BY <1>11, <1>a DEF ExecPublish, jobVars, fenceVars
  <1>12. ASSUME NEW op \in ops, ExecRelease(op) PROVE Goal
    <2>1. /\ op.kind = "release" /\ ops' = ops \ {op} /\ UNCHANGED jobVars
      BY <1>12 DEF ExecRelease
    <2>2. LocksInv(j)' /\ AnswerInv(j)' /\ RequestInv(j)'
      BY <1>a, <2>1 DEF jobVars, fenceVars
    <2>3. RowInv(j)'
      <3>1. CASE Releasable(row, op.lease)
        <4>1. row = op.lease
          BY <3>1 DEF Releasable
        <4>2. row'.fence = op.lease.fence
          BY <1>12, <3>1, <4>1, RequestBounds, ReleasedLease DEF ExecRelease
        <4>3. token[j] # NoLease => token[j].fence # op.lease.fence
          BY <1>a, <2>1
        <4>4. QED
          BY <2>1, <4>2, <4>3 DEF jobVars, fenceVars
      <3>2. CASE ~Releasable(row, op.lease)
        BY <1>a, <1>12, <2>1, <3>2 DEF ExecRelease, jobVars, fenceVars
      <3>3. QED
        BY <3>1, <3>2
    <2>4. QED
      BY <2>2, <2>3
  <1>13. ASSUME NEW op \in ops, LoseOp(op) PROVE Goal
    BY <1>13, <1>a DEF LoseOp, jobVars, fenceVars, history
  <1>14. CASE UNCHANGED vars
    BY <1>14, <1>a DEF vars, jobVars, fenceVars, history
  <1>15. QED
    BY <1>1, <1>2, <1>3, <1>4, <1>5, <1>6, <1>7, <1>8, <1>9, <1>10, <1>11,
       <1>12, <1>13, <1>14 DEF Next, Worker, Heartbeat, Exec

(* While a job's publication holds the read lock, its own renewal has not  *)
(* replaced the row underneath it: if the fence it presents is still the   *)
(* row's, its token is the row, to the revision.                           *)
THEOREM PublicationsStayFresh == Spec => []NoSelfStalePublication
  <1>1. IInv /\ SelfInv => NoSelfStalePublication
    <2> SUFFICES ASSUME IInv, SelfInv, NEW op \in ops,
                        pub[op.job] = "sent", op.lease = token[op.job],
                        op.lease.fence = row.fence
                 PROVE  op.lease = row
      BY DEF NoSelfStalePublication
    <2>1. op.job \in Jobs /\ token[op.job] # NoLease
      BY RequestBounds
    <2>2. LocksInv(op.job) /\ RowInv(op.job)
      BY <2>1 DEF SelfInv
    <2>3. QED
      BY <2>1, <2>2 DEF LocksInv, RowInv, Over
  <1>2. Spec => []SelfInv
    BY SelfInit, SelfStep, Invariance, PTL DEF Spec
  <1>3. QED
    BY <1>1, <1>2, Invariance, PTL

-----------------------------------------------------------------------------
(* The store, the fence and the heartbeat implement ExclusivePublisher:    *)
(* numbered epochs, only the latest of which publishes, and none after it  *)
(* was given back.                                                         *)
THEOREM ImplementsPublisher == Spec => PublisherSpec
  <1> DEFINE AbsVars == <<row.fence, open, published>>
  <1>1. Init => Publisher!Init
    BY DEF Init, Publisher!Init, NoLease
  <1>2. IInv /\ [Next]_vars => [Publisher!Next]_AbsVars
    <2> SUFFICES ASSUME IInv, [Next]_vars PROVE [Publisher!Next]_AbsVars
      OBVIOUS
    <2>0. row.fence \in Nat /\ row.revision \in Nat
      BY RowCounters
    <2>1. ASSUME NEW n \in Nodes, NEW t \in 0 .. MaxTime,
                 Acquirable(row, t), row' = Acquired(row, n, t),
                 open' = TRUE, published' = published
          PROVE  Publisher!Grant
      <3>1. row'.fence = row.fence + 1
        BY <2>1, AcquiredLease DEF IInv, TInv, TypeOK
      <3>2. QED
        BY <2>1, <3>1 DEF Publisher!Grant
    <2>2. ASSUME NEW op \in ops, ExecRenew(op) PROVE UNCHANGED AbsVars
      <3>1. CASE Renewable(row, op.lease, op.now)
        <4>1. row = op.lease
          BY <3>1 DEF Renewable
        <4>2. row'.fence = row.fence
          BY <2>2, <3>1, <4>1, AcceptedRequest, RenewedLease DEF ExecRenew
        <4>3. QED
          BY <2>2, <4>2 DEF ExecRenew, history
      <3>2. CASE ~Renewable(row, op.lease, op.now)
        BY <2>2, <3>2 DEF ExecRenew, history
      <3>3. QED
        BY <3>1, <3>2
    <2>3. ASSUME NEW op \in ops, ExecPublish(op)
          PROVE  Publisher!Publish \/ UNCHANGED AbsVars
      <3>1. CASE Publishable(row, op.lease, op.now)
        <4>1. row = op.lease
          BY <3>1 DEF Publishable
        <4>2. open
          BY <4>1, AcceptedRequest
        <4>3. QED
          BY <2>3, <3>1, <4>1, <4>2 DEF ExecPublish, Publisher!Publish
      <3>2. CASE ~Publishable(row, op.lease, op.now)
        BY <2>3, <3>2 DEF ExecPublish
      <3>3. QED
        BY <3>1, <3>2
    <2>4. ASSUME NEW op \in ops, ExecRelease(op)
          PROVE  Publisher!Close \/ UNCHANGED AbsVars
      <3>1. CASE Releasable(row, op.lease)
        <4>1. row = op.lease
          BY <3>1 DEF Releasable
        <4>2. row'.fence = row.fence
          BY <2>4, <3>1, <4>1, AcceptedRequest, ReleasedLease DEF ExecRelease
        <4>3. open
          BY <4>1, AcceptedRequest
        <4>4. ~open'
          BY <2>4, <3>1, <4>1 DEF ExecRelease
        <4>5. QED
          BY <2>4, <4>2, <4>3, <4>4 DEF ExecRelease, Publisher!Close
      <3>2. CASE ~Releasable(row, op.lease)
        BY <2>4, <3>2 DEF ExecRelease
      <3>3. QED
        BY <3>1, <3>2
    <2>5. CASE UNCHANGED <<row, published, open>>
      BY <2>5
    <2>6. QED
      BY <2>1, <2>2, <2>3, <2>4, <2>5, StepEffect DEF Publisher!Next
  <1>3. QED
    BY <1>1, <1>2, Invariance, PTL DEF Spec, PublisherSpec, Publisher!Spec
=============================================================================
