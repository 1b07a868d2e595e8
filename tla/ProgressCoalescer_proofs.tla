---------------------- MODULE ProgressCoalescer_proofs ----------------------
(***************************************************************************)
(* Proofs about ProgressCoalescer for any streams, calls and entries, any  *)
(* cap of the map, and any bounds.                                         *)
(***************************************************************************)
EXTENDS ProgressCoalescer, TLAPS

(* A worker that runs has a try left.                                      *)
AttemptInv == \A e \in Entries : worker[e] # "off" => attempts[e] < MaxAttempts

(* A call in progress carries a beat, and an entry while it waits for one  *)
(* or holds it.                                                            *)
CallInv ==
  \A r \in Requests :
    /\ pc[r] # "idle" => beat[r] \in Beat
    /\ pc[r] \in {"waiting", "holding"} <=> at[r] # NoEntry

TInv == TypeOK /\ AttemptInv /\ CallInv

-----------------------------------------------------------------------------
LEMMA RowType ==
  ASSUME TypeOK, NEW k \in Keys, NEW b \in Beat, NEW w \in BOOLEAN
  PROVE  /\ WithBeat(k, b, w) \in Row
         /\ WithBeat(k, b, w).id = ids[k] + 1
         /\ WithBeat(k, b, w).beat = b.n
  <1>1. (row[k].watched \/ w) \in BOOLEAN
    OBVIOUS
  <1>2. ids[k] + 1 \in Nat /\ b.n \in Nat
    BY DEF TypeOK, Beat
  <1>3. QED
    BY <1>1, <1>2 DEF WithBeat, Row

(* What a write of a beat makes of its row, whatever the store's test says.*)
Carries(k, b) ==
  /\ row'[k] \in Row
  /\ row'[k].id = ids[k] + 1
  /\ row'[k].beat = b.n

LEMMA WriteType ==
  ASSUME TypeOK, NEW k \in Keys, NEW b \in Beat, WriteBeat(k, b)
  PROVE  /\ row' \in [Keys -> Row]
         /\ ids' \in [Keys -> Nat]
         /\ moves' = moves
         /\ ids'[k] = ids[k] + 1
         /\ Carries(k, b)
         /\ \A j \in Keys : j # k => row'[j] = row[j] /\ ids'[j] = ids[j]
  <1>1. PICK w \in BOOLEAN : row' = [row EXCEPT ![k] = WithBeat(k, b, w)]
    BY DEF WriteBeat
  <1>2. row'[k] = WithBeat(k, b, w)
    BY <1>1 DEF TypeOK
  <1>3. QED
    BY <1>1, <1>2, RowType DEF TypeOK, WriteBeat, Carries

LEMMA SweptType ==
  ASSUME TypeOK
  PROVE  /\ Swept \in [Keys -> Entries \cup {NoEntry}]
         /\ \A k \in Keys : \/ Swept[k] = map[k]
                            \/ /\ Swept[k] = NoEntry
                               /\ map[k] \in Entries /\ Reclaimable(map[k])
  BY DEF TypeOK, Swept

LEMMA TypeInit == Init => TInv
  <1> SUFFICES ASSUME Init PROVE TInv
    OBVIOUS
  <1>1. late \in BOOLEAN /\ running \in [Entries -> BOOLEAN]
    BY Zenon DEF Init
  <1>2. QED
    BY <1>1, CoalescerAssumption
    DEF Init, TInv, TypeOK, AttemptInv, CallInv, Row, NoRow

LEMMA CallType ==
  ASSUME TInv, NEW r \in Requests, NEW k \in Keys, NEW e \in Entries \cup {NoEntry},
         NEW state \in {"waiting", "through"}, Call(r, k, state, e),
         (state = "waiting") <=> (e # NoEntry)
  PROVE  /\ beats' \in 0 .. MaxBeats
         /\ pc' \in [Requests -> {"idle", "through", "waiting", "holding"}]
         /\ beat' \in [Requests -> Beat \cup {NoBeat}]
         /\ at' \in [Requests -> Entries \cup {NoEntry}]
         /\ CallInv'
  <1>1. PICK c \in BOOLEAN :
          beat' = [beat EXCEPT ![r] = [n |-> beats + 1, key |-> k, complete |-> c, seen |-> 0]]
    BY DEF Call
  <1>2. [n |-> beats + 1, key |-> k, complete |-> c, seen |-> 0] \in Beat
    BY DEF Beat, TInv, TypeOK
  <1>3. QED
    BY <1>1, <1>2, CoalescerAssumption DEF Call, TInv, TypeOK, CallInv

LEMMA ReturnType ==
  ASSUME TInv, NEW r \in Requests, Return(r)
  PROVE  /\ pc' \in [Requests -> {"idle", "through", "waiting", "holding"}]
         /\ beat' \in [Requests -> Beat \cup {NoBeat}]
         /\ at' \in [Requests -> Entries \cup {NoEntry}]
         /\ base' \in [Requests -> Row]
         /\ CallInv'
  BY DEF Return, TInv, TypeOK, CallInv, Row, NoRow

(* The beat a holding call carries, and the entry it holds.                *)
LEMMA Holder ==
  ASSUME TInv, NEW r \in Requests, pc[r] \in {"waiting", "holding"}
  PROVE  at[r] \in Entries /\ beat[r] \in Beat /\ beat[r].key \in Keys
  BY DEF TInv, TypeOK, CallInv, Beat

(* The beat a pending entry holds.                                         *)
LEMMA Waiting ==
  ASSUME TypeOK, NEW e \in Entries, pending[e] # NoBeat
  PROVE  pending[e] \in Beat /\ pending[e].key \in Keys
  BY DEF TypeOK, Beat

-----------------------------------------------------------------------------
(* One step per group of actions that change the same variables.           *)
LEMMA PutType ==
  ASSUME TInv, NEW r \in Requests, Put(r)
  PROVE  TInv'
  <1> USE DEF TInv, TypeOK, AttemptInv
  <1>1. ASSUME NEW k \in Keys, Find(r, k) PROVE TInv'
    <2>1. map[k] \in Entries /\ Call(r, k, "waiting", map[k])
      BY <1>1 DEF Find
    <2>2. map[k] # NoEntry
      BY <1>1 DEF Find
    <2>3. CallInv' /\ beats' \in 0 .. MaxBeats
          /\ pc' \in [Requests -> {"idle", "through", "waiting", "holding"}]
          /\ beat' \in [Requests -> Beat \cup {NoBeat}]
          /\ at' \in [Requests -> Entries \cup {NoEntry}]
      BY <2>1, <2>2, CallType
    <2>4. UNCHANGED <<store, base, exit, map, entry, worker>>
      BY <1>1, <2>1 DEF Find, Call
    <2>5. QED
      BY <2>3, <2>4 DEF store, entry, exit
  <1>2. ASSUME NEW k \in Keys, Insert(r, k) PROVE TInv'
    <2>1. PICK e \in Entries :
            /\ ~Shared(e)
            /\ Call(r, k, "waiting", e)
            /\ map' = [Swept EXCEPT ![k] = e]
            /\ last' = [last EXCEPT ![e] = "none"]
            /\ committed' = [committed EXCEPT ![e] = NoRow]
            /\ pending' = [pending EXCEPT ![e] = NoBeat]
            /\ running' = [running EXCEPT ![e] = FALSE]
            /\ attempts' = [attempts EXCEPT ![e] = 0]
            /\ worker' = worker
      BY <1>2 DEF Insert
    <2>2. e # NoEntry /\ NoRow \in Row
      BY CoalescerAssumption DEF NoRow, Row
    <2>3. AttemptInv'
      BY <2>1, CoalescerAssumption
    <2>4. CallInv' /\ beats' \in 0 .. MaxBeats
          /\ pc' \in [Requests -> {"idle", "through", "waiting", "holding"}]
          /\ beat' \in [Requests -> Beat \cup {NoBeat}]
          /\ at' \in [Requests -> Entries \cup {NoEntry}]
      BY <2>1, <2>2, CallType
    <2>5. running' \in [Entries -> BOOLEAN]
      BY <2>1, Zenon
    <2>6. /\ map' \in [Keys -> Entries \cup {NoEntry}]
          /\ last' \in [Entries -> {"none", "recent", "old"}]
          /\ committed' \in [Entries -> Row]
          /\ pending' \in [Entries -> Beat \cup {NoBeat}]
          /\ attempts' \in [Entries -> 0 .. MaxAttempts]
      BY <2>1, <2>2, SweptType, CoalescerAssumption
    <2>7. UNCHANGED <<store, base, exit, worker>>
      BY <2>1 DEF Call
    <2>8. QED
      BY <2>3, <2>4, <2>5, <2>6, <2>7 DEF store, exit
  <1>3. ASSUME NEW k \in Keys, Bypass(r, k) PROVE TInv'
    <2>1. Call(r, k, "through", NoEntry) /\ map' = Swept
      BY <1>3 DEF Bypass
    <2>2. CallInv' /\ beats' \in 0 .. MaxBeats
          /\ pc' \in [Requests -> {"idle", "through", "waiting", "holding"}]
          /\ beat' \in [Requests -> Beat \cup {NoBeat}]
          /\ at' \in [Requests -> Entries \cup {NoEntry}]
      BY <2>1, CallType
    <2>3. map' \in [Keys -> Entries \cup {NoEntry}]
      BY <2>1, SweptType
    <2>4. UNCHANGED <<store, base, exit, entry, worker>>
      BY <1>3, <2>1 DEF Bypass, Call
    <2>5. QED
      BY <2>2, <2>3, <2>4 DEF store, entry, exit
  <1>4. ASSUME WriteThrough(r) PROVE TInv'
    <2>1. beat[r] \in Beat /\ beat[r].key \in Keys
      BY <1>4 DEF WriteThrough, CallInv, Beat
    <2>2. QED
      BY <1>4, <2>1, WriteType, ReturnType DEF WriteThrough, entry, exit
  <1>5. ASSUME ReadBaseline(r) PROVE TInv'
    <2>1. at[r] \in Entries /\ beat[r] \in Beat /\ beat[r].key \in Keys
      BY <1>5, Holder DEF ReadBaseline
    <2>2. [beat[r] EXCEPT !.seen = moves[beat[r].key]] \in Beat
      BY <2>1, CoalescerAssumption DEF Beat
    <2>3. CallInv'
      BY <1>5, <2>1, <2>2 DEF ReadBaseline, CallInv
    <2>4. QED
      BY <1>5, <2>1, <2>2, <2>3 DEF ReadBaseline, store, entry, exit
  <1>6. ASSUME Abandon(r) PROVE TInv'
    BY <1>6, ReturnType DEF Abandon, store, entry, exit
  <1>7. ASSUME WriteNow(r) PROVE TInv'
    <2>1. at[r] \in Entries /\ beat[r] \in Beat /\ beat[r].key \in Keys
      BY <1>7, Holder DEF WriteNow
    <2>2. QED
      BY <1>7, <2>1, RowType, WriteType, ReturnType, CoalescerAssumption
      DEF WriteNow, exit
  <1>8. ASSUME WriteFails(r) PROVE TInv'
    <2>1. at[r] \in Entries /\ beat[r] \in Beat /\ beat[r].key \in Keys
      BY <1>8, Holder DEF WriteFails
    <2>2. row' \in [Keys -> Row] /\ ids' \in [Keys -> Nat] /\ moves' = moves
      BY <1>8, <2>1, WriteType DEF WriteFails, store
    <2>3. QED
      BY <1>8, <2>1, <2>2, ReturnType, CoalescerAssumption DEF WriteFails, exit
  <1>9. ASSUME Accept(r) PROVE TInv'
    <2>1. at[r] \in Entries /\ beat[r] \in Beat
      BY <1>9, Holder DEF Accept
    <2>2. running' \in [Entries -> BOOLEAN]
      BY <1>9 DEF Accept
    <2>3. AttemptInv'
      BY <1>9, <2>1, CoalescerAssumption DEF Accept
    <2>4. QED
      BY <1>9, <2>1, <2>2, <2>3, ReturnType, CoalescerAssumption DEF Accept, store, exit
  <1>10. QED
    BY <1>1, <1>2, <1>3, <1>4, <1>5, <1>6, <1>7, <1>8, <1>9 DEF Put, Serve

LEMMA WorkType ==
  ASSUME TInv, NEW e \in Entries, Work(e) \/ Elapse(e)
  PROVE  TInv'
  <1> USE DEF TInv, TypeOK, AttemptInv, CallInv
  <1>1. ASSUME Check(e) PROVE TInv'
    <2>1. running' \in [Entries -> BOOLEAN]
      BY <1>1, Zenon DEF Check, entry
    <2>2. /\ worker' \in [Entries -> {"off", "check", "sleep", "backoff"}]
          /\ \A f \in Entries : worker'[f] # "off" => worker[f] # "off"
      BY <1>1 DEF Check
    <2>3. UNCHANGED <<store, map, last, committed, pending, attempts, beats, request, exit>>
      BY <1>1 DEF Check
    <2>4. QED
      BY <2>1, <2>2, <2>3 DEF store, request, exit
  <1>2. ASSUME Recheck(e) \/ Retry(e) PROVE TInv'
    BY <1>2 DEF Recheck, Retry, store, entry, request, exit
  <1>3. ASSUME Elapse(e) PROVE TInv'
    BY <1>3 DEF Elapse, store, request, exit
  <1>4. ASSUME FlushLands(e) PROVE TInv'
    <2>1. pending[e] \in Beat /\ pending[e].key \in Keys
      BY <1>4, Waiting DEF FlushLands, Awake
    <2>2. QED
      BY <1>4, <2>1, RowType, WriteType, CoalescerAssumption
      DEF FlushLands, Flushed, request, exit
  <1>5. ASSUME FlushIsStale(e) PROVE TInv'
    <2>1. pending[e] \in Beat /\ pending[e].key \in Keys /\ worker[e] # "off"
      BY <1>5, Waiting DEF FlushIsStale, Awake
    <2>2. QED
      BY <1>5, <2>1 DEF FlushIsStale, Adopts, store, request, exit
  <1>6. ASSUME FlushFails(e) PROVE TInv'
    <2>1. pending[e] \in Beat /\ pending[e].key \in Keys /\ worker[e] # "off"
      BY <1>6, Waiting DEF FlushFails, Awake
    <2>2. row' \in [Keys -> Row] /\ ids' \in [Keys -> Nat] /\ moves' = moves
      BY <1>6, <2>1, WriteType DEF FlushFails, store
    <2>3. running' \in [Entries -> BOOLEAN]
      BY <1>6, Zenon DEF FlushFails
    <2>4. attempts' = [attempts EXCEPT ![e] = attempts[e] + 1] /\ attempts[e] < MaxAttempts
      BY <1>6, <2>1 DEF FlushFails
    <2>5. /\ pending' \in [Entries -> Beat \cup {NoBeat}]
          /\ worker' \in [Entries -> {"off", "check", "sleep", "backoff"}]
          /\ AttemptInv'
      BY <1>6, <2>1, <2>4, CoalescerAssumption DEF FlushFails, GivesUp, PutsBack
    <2>6. attempts' \in [Entries -> 0 .. MaxAttempts]
      BY <2>4, CoalescerAssumption
    <2>7. QED
      BY <1>6, <2>2, <2>3, <2>5, <2>6 DEF FlushFails, request, exit
  <1>7. QED
    BY <1>1, <1>2, <1>3, <1>4, <1>5, <1>6 DEF Work

LEMMA DrainType ==
  ASSUME TInv, Drain
  PROVE  TInv'
  <1> USE DEF TInv, TypeOK, AttemptInv, CallInv
  <1>1. ASSUME Stop PROVE TInv'
    BY <1>1 DEF Stop, store, entry, request
  <1>2. ASSUME StartDrain PROVE TInv'
    <2>1. late' \in BOOLEAN
      BY <1>2 DEF StartDrain
    <2>2. todo' \subseteq Entries /\ shutdown' = "draining"
      BY <1>2 DEF StartDrain, Mapped
    <2>3. UNCHANGED <<store, map, entry, worker, beats, request>>
      BY <1>2 DEF StartDrain
    <2>4. QED
      BY <2>1, <2>2, <2>3 DEF store, entry, request
  <1>3. ASSUME EndDrain PROVE TInv'
    BY <1>3 DEF EndDrain, store, entry, request
  <1>4. ASSUME NEW e \in Entries, DrainSkips(e) PROVE TInv'
    BY <1>4 DEF DrainSkips, Draining, store, request
  <1>5. ASSUME NEW e \in Entries, DrainLands(e) PROVE TInv'
    <2>1. pending[e] \in Beat /\ pending[e].key \in Keys
      BY <1>5, Waiting DEF DrainLands
    <2>2. QED
      BY <1>5, <2>1, RowType, WriteType DEF DrainLands, Draining, Flushed, request
  <1>6. ASSUME NEW e \in Entries, DrainIsStale(e) PROVE TInv'
    <2>1. pending[e] \in Beat /\ pending[e].key \in Keys
      BY <1>6, Waiting DEF DrainIsStale
    <2>2. QED
      BY <1>6, <2>1 DEF DrainIsStale, Draining, Adopts, store, request
  <1>7. ASSUME NEW e \in Entries, DrainFails(e) PROVE TInv'
    <2>1. pending[e] \in Beat /\ pending[e].key \in Keys
      BY <1>7, Waiting DEF DrainFails
    <2>2. row' \in [Keys -> Row] /\ ids' \in [Keys -> Nat] /\ moves' = moves
      BY <1>7, <2>1, WriteType DEF DrainFails, store
    <2>3. QED
      BY <1>7, <2>2 DEF DrainFails, Draining, request
  <1>8. QED
    BY <1>1, <1>2, <1>3, <1>4, <1>5, <1>6, <1>7 DEF Drain

LEMMA CompeteType ==
  ASSUME TInv, NEW k \in Keys, Compete(k)
  PROVE  TInv'
  <1> USE DEF TInv, TypeOK, AttemptInv, CallInv
  <1>1. ids' \in [Keys -> Nat]
    BY DEF Compete
  <1>2. row' \in [Keys -> Row]
    <2>1. ASSUME NEW w \in BOOLEAN
          PROVE  [id |-> ids[k] + 1, watched |-> w, beat |-> 0] \in Row
      BY DEF Row
    <2>2. NoRow \in Row
      BY DEF Row, NoRow
    <2>3. PICK v \in Row : row' = [row EXCEPT ![k] = v]
      BY <2>1, <2>2 DEF Compete
    <2>4. QED
      BY <2>3
  <1>3. moves' \in [Keys -> 0 .. MaxMoves]
    BY CoalescerAssumption DEF Compete
  <1>4. QED
    BY <1>1, <1>2, <1>3 DEF Compete, entry, request, exit

LEMMA TypeStep == TInv /\ [Next]_vars => TInv'
  <1> SUFFICES ASSUME TInv, [Next]_vars PROVE TInv'
    OBVIOUS
  <1>1. ASSUME UNCHANGED vars PROVE TInv'
    BY <1>1 DEF TInv, TypeOK, AttemptInv, CallInv, vars, store, entry, request, exit
  <1>2. QED
    BY <1>1, PutType, WorkType, DrainType, CompeteType DEF Next

(* Type correctness for every instance.                                    *)
THEOREM TypeCorrect == Spec => []TypeOK
  <1>1. TInv => TypeOK
    BY DEF TInv
  <1>2. QED
    BY <1>1, TypeInit, TypeStep, PTL DEF Spec

-----------------------------------------------------------------------------
(* Nobody is detached: the map is injective, and what a call or a pending  *)
(* beat refers to is what the map has for its key.                         *)
MapInv ==
  /\ \A j, k \in Keys : map[j] = map[k] /\ map[j] # NoEntry => j = k
  /\ \A r \in Requests : at[r] # NoEntry => map[beat[r].key] = at[r]
  /\ \A e \in Entries : pending[e] # NoBeat => map[pending[e].key] = e

(* What the fields of an entry owe each other.                             *)
EntryInv ==
  \A e \in Entries :
    /\ running[e] <=> worker[e] # "off"
    /\ committed[e] = NoRow => last[e] = "none"
    /\ pending[e] # NoBeat =>
         committed[e] # NoRow /\ last[e] # "none" /\ worker[e] # "off"
    /\ pending[e] # NoBeat /\ pending[e].complete => committed[e].watched

SInv == TInv /\ MapInv /\ EntryInv

LEMMA StructInit == Init => SInv
  <1>1. Init => MapInv
    BY CoalescerAssumption DEF Init, MapInv, NoBeat
  <1>2. ASSUME Init PROVE EntryInv
    <2>1. \A e \in Entries : ~running[e]
      BY <1>2, Zenon DEF Init
    <2>2. QED
      BY <1>2, <2>1 DEF Init, EntryInv
  <1>3. QED
    BY <1>1, <1>2, TypeInit DEF SInv

(* What a sweep dropped had nobody and nothing on it.                      *)
LEMMA SweptMap ==
  ASSUME SInv, NEW k \in Keys, Swept[k] # map[k]
  PROVE  /\ Swept[k] = NoEntry
         /\ map[k] \in Entries
         /\ worker[map[k]] = "off" /\ pending[map[k]] = NoBeat
         /\ \A r \in Requests : at[r] # map[k]
  BY SweptType DEF SInv, TInv, Reclaimable, Shared

(* Steps that leave the map alone, keep or clear what calls refer to, and  *)
(* keep, clear or accept pending beats.                                    *)
LEMMA MapKept ==
  ASSUME SInv,
         map' = map,
         \A r \in Requests : \/ at'[r] = NoEntry
                             \/ at'[r] = at[r] /\ beat'[r].key = beat[r].key,
         \A e \in Entries : \/ pending'[e] = NoBeat
                            \/ pending'[e] = pending[e]
                            \/ \E r \in Requests : at[r] = e /\ pending'[e] = beat[r]
  PROVE  MapInv'
  BY CoalescerAssumption DEF SInv, MapInv

LEMMA MapStep == SInv /\ [Next]_vars => MapInv'
  <1> SUFFICES ASSUME SInv, [Next]_vars PROVE MapInv'
    OBVIOUS
  <1> USE DEF SInv, TInv, TypeOK
  <1>1. ASSUME NEW r \in Requests, NEW k \in Keys, Find(r, k) PROVE MapInv'
    <2>1. beat'[r].key = k
      BY <1>1 DEF Find, Call
    <2>2. QED
      BY <1>1, <2>1 DEF Find, Call, MapInv, entry
  <1>2. ASSUME NEW r \in Requests, NEW k \in Keys, Insert(r, k) PROVE MapInv'
    <2>1. PICK e \in Entries :
            /\ ~Shared(e)
            /\ \A j \in Keys : Swept[j] # e
            /\ Call(r, k, "waiting", e)
            /\ map' = [Swept EXCEPT ![k] = e]
            /\ pending' = [pending EXCEPT ![e] = NoBeat]
      BY <1>2 DEF Insert
    <2>2. map[k] = NoEntry /\ pc[r] = "idle"
      BY <1>2 DEF Insert
    <2>3. Swept \in [Keys -> Entries \cup {NoEntry}]
      BY SweptType
    <2>4. \A i, j \in Keys : map'[i] = map'[j] /\ map'[i] # NoEntry => i = j
      BY <2>1, <2>3, SweptMap, CoalescerAssumption DEF MapInv
    <2>5. beat'[r].key = k /\ at'[r] = e
      BY <2>1 DEF Call
    <2>6. ASSUME NEW q \in Requests, q # r, at'[q] # NoEntry
          PROVE  map'[beat'[q].key] = at'[q]
      <3>1. at'[q] = at[q] /\ beat'[q] = beat[q]
        BY <2>1, <2>6 DEF Call
      <3>2. beat[q].key \in Keys
        BY <3>1, <2>6 DEF CallInv, Beat
      <3>3. Swept[beat[q].key] = at[q] /\ beat[q].key # k
        BY <3>1, <3>2, <2>6, <2>2, SweptMap, CoalescerAssumption DEF MapInv
      <3>4. QED
        BY <2>1, <2>3, <3>1, <3>2, <3>3
    <2>7. ASSUME NEW f \in Entries, pending'[f] # NoBeat
          PROVE  map'[pending'[f].key] = f
      <3>1. f # e /\ pending'[f] = pending[f]
        BY <2>1, <2>7
      <3>2. pending[f].key \in Keys
        BY <3>1, <2>7, Waiting
      <3>3. Swept[pending[f].key] = f /\ pending[f].key # k
        BY <3>1, <3>2, <2>7, <2>2, SweptMap, CoalescerAssumption DEF MapInv
      <3>4. QED
        BY <2>1, <2>3, <3>1, <3>2, <3>3
    <2>8. QED
      BY <2>1, <2>3, <2>4, <2>5, <2>6, <2>7 DEF MapInv
  <1>3. ASSUME NEW r \in Requests, NEW k \in Keys, Bypass(r, k) PROVE MapInv'
    <2>1. Call(r, k, "through", NoEntry) /\ map' = Swept /\ pending' = pending
      BY <1>3 DEF Bypass, entry
    <2>2. \A i, j \in Keys : map'[i] = map'[j] /\ map'[i] # NoEntry => i = j
      BY <2>1, SweptMap DEF MapInv
    <2>3. ASSUME NEW q \in Requests, at'[q] # NoEntry
          PROVE  map'[beat'[q].key] = at'[q]
      <3>1. at'[q] = at[q] /\ beat'[q] = beat[q] /\ q # r
        BY <2>1, <2>3 DEF Call
      <3>2. beat[q].key \in Keys
        BY <3>1, <2>3 DEF CallInv, Beat
      <3>3. QED
        BY <2>1, <3>1, <3>2, <2>3, SweptMap, CoalescerAssumption DEF MapInv
    <2>4. ASSUME NEW f \in Entries, pending'[f] # NoBeat
          PROVE  map'[pending'[f].key] = f
      <3>1. pending'[f] = pending[f] /\ pending[f].key \in Keys
        BY <2>1, <2>4, Waiting
      <3>2. QED
        BY <2>1, <3>1, <2>4, SweptMap, CoalescerAssumption DEF MapInv
    <2>5. QED
      BY <2>2, <2>3, <2>4 DEF MapInv
  <1>4. ASSUME NEW r \in Requests, Serve(r) \/ Abandon(r) PROVE MapInv'
    <2>1. map' = map
      BY <1>4 DEF Serve, Abandon, WriteThrough, ReadBaseline, WriteNow, WriteFails, Accept
    <2>2. \A q \in Requests : \/ at'[q] = NoEntry
                              \/ at'[q] = at[q] /\ beat'[q].key = beat[q].key
      <3>1. CASE ReadBaseline(r)
        <4>1. beat[r] \in Beat
          BY <3>1, Holder DEF ReadBaseline
        <4>2. QED
          BY <3>1, <4>1 DEF ReadBaseline, Beat
      <3>2. CASE Return(r)
        BY <3>2 DEF Return
      <3>3. QED
        BY <1>4, <3>1, <3>2 DEF Serve, Abandon, WriteThrough, WriteNow, WriteFails, Accept
    <2>3. \A e \in Entries : \/ pending'[e] = NoBeat
                             \/ pending'[e] = pending[e]
                             \/ \E q \in Requests : at[q] = e /\ pending'[e] = beat[q]
      BY <1>4 DEF Serve, Abandon, WriteThrough, ReadBaseline, WriteNow, WriteFails,
                  Accept, entry
    <2>4. QED
      BY <2>1, <2>2, <2>3, MapKept
  <1>5. ASSUME NEW e \in Entries, Work(e) \/ Elapse(e) PROVE MapInv'
    <2>1. map' = map /\ UNCHANGED request
      BY <1>5 DEF Work, Check, Recheck, Retry, FlushLands, FlushIsStale, FlushFails, Elapse
    <2>2. \A f \in Entries : pending'[f] = NoBeat \/ pending'[f] = pending[f]
      BY <1>5 DEF Work, Check, Recheck, Retry, FlushLands, FlushIsStale, FlushFails,
                  Elapse, entry, Flushed, Adopts, PutsBack
    <2>3. QED
      BY <2>1, <2>2, MapKept DEF request
  <1>6. ASSUME Drain PROVE MapInv'
    <2>1. map' = map /\ UNCHANGED request
      BY <1>6 DEF Drain, Stop, StartDrain, EndDrain, DrainSkips, DrainLands,
                  DrainIsStale, DrainFails, Draining
    <2>2. \A f \in Entries : pending'[f] = NoBeat \/ pending'[f] = pending[f]
      BY <1>6 DEF Drain, Stop, StartDrain, EndDrain, DrainSkips, DrainLands,
                  DrainIsStale, DrainFails, Draining, Flushed, Adopts, entry
    <2>3. QED
      BY <2>1, <2>2, MapKept DEF request
  <1>7. ASSUME NEW k \in Keys, Compete(k) PROVE MapInv'
    BY <1>7, MapKept DEF Compete, entry, request
  <1>8. CASE UNCHANGED vars
    BY <1>8, MapKept DEF vars, entry, request
  <1>9. QED
    BY <1>1, <1>2, <1>3, <1>4, <1>5, <1>6, <1>7, <1>8 DEF Next, Put

LEMMA EntryStep == SInv /\ [Next]_vars => EntryInv'
  <1> SUFFICES ASSUME SInv, [Next]_vars PROVE EntryInv'
    OBVIOUS
  <1> USE DEF SInv, TInv, TypeOK
  <1>1. ASSUME NEW r \in Requests, NEW k \in Keys, Find(r, k) \/ Bypass(r, k)
        PROVE  EntryInv'
    BY <1>1 DEF Find, Bypass, entry, EntryInv
  <1>2. ASSUME NEW r \in Requests, NEW k \in Keys, Insert(r, k) PROVE EntryInv'
    <2>1. PICK e \in Entries :
            /\ ~Shared(e)
            /\ last' = [last EXCEPT ![e] = "none"]
            /\ committed' = [committed EXCEPT ![e] = NoRow]
            /\ pending' = [pending EXCEPT ![e] = NoBeat]
            /\ running' = [running EXCEPT ![e] = FALSE]
            /\ worker' = worker
      BY <1>2 DEF Insert
    <2>2. ~running'[e] /\ \A f \in Entries : f # e => (running'[f] <=> running[f])
      BY <2>1, Zenon
    <2>3. worker[e] = "off"
      BY <2>1 DEF Shared
    <2>4. QED
      BY <2>1, <2>2, <2>3 DEF EntryInv
  <1>3. ASSUME NEW r \in Requests, WriteThrough(r) \/ ReadBaseline(r) \/ Abandon(r)
        PROVE  EntryInv'
    BY <1>3 DEF WriteThrough, ReadBaseline, Abandon, entry, EntryInv
  <1>4. ASSUME NEW r \in Requests, WriteNow(r) PROVE EntryInv'
    <2>1. at[r] \in Entries /\ beat[r] \in Beat /\ beat[r].key \in Keys
      BY <1>4, Holder DEF WriteNow
    <2>2. row'[beat[r].key] # NoRow
      BY <1>4, <2>1, WriteType DEF WriteNow, Carries, NoRow
    <2>3. QED
      BY <1>4, <2>1, <2>2 DEF WriteNow, EntryInv
  <1>5. ASSUME NEW r \in Requests, WriteFails(r) PROVE EntryInv'
    <2>1. at[r] \in Entries
      BY <1>5, Holder DEF WriteFails
    <2>2. QED
      BY <1>5, <2>1 DEF WriteFails, EntryInv, Diverged
  <1>6. ASSUME NEW r \in Requests, Accept(r) PROVE EntryInv'
    <2>1. at[r] \in Entries /\ beat[r] \in Beat
      BY <1>6, Holder DEF Accept
    <2>2. /\ last[at[r]] = "recent" /\ committed[at[r]] = base[r]
          /\ beat[r].complete => base[r].watched
      BY <1>6, <2>1 DEF Accept, Due, Diverged
    <2>3. committed[at[r]] # NoRow
      BY <2>1, <2>2 DEF EntryInv
    <2>4. running'[at[r]] /\ worker'[at[r]] # "off"
      BY <1>6, <2>1, <2>3 DEF Accept, EntryInv
    <2>5. \A f \in Entries : f # at[r] =>
            (running'[f] <=> running[f]) /\ worker'[f] = worker[f]
      BY <1>6, <2>1 DEF Accept
    <2>6. \A f \in Entries : f # at[r] => pending'[f] = pending[f]
      BY <1>6, <2>1 DEF Accept
    <2>7. UNCHANGED <<last, committed>> /\ pending'[at[r]] = beat[r]
      BY <1>6, <2>1 DEF Accept
    <2>8. QED
      BY <2>1, <2>2, <2>3, <2>4, <2>5, <2>6, <2>7 DEF EntryInv
  <1>7. ASSUME NEW e \in Entries, Check(e) PROVE EntryInv'
    <2>1. CASE pending[e] = NoBeat
      <3>1. /\ running' = [running EXCEPT ![e] = FALSE]
            /\ worker' = [worker EXCEPT ![e] = "off"]
            /\ UNCHANGED <<last, committed, pending>>
        BY <1>7, <2>1 DEF Check
      <3>2. ~running'[e] /\ \A f \in Entries : f # e => (running'[f] <=> running[f])
        BY <3>1, Zenon
      <3>3. QED
        BY <2>1, <3>1, <3>2 DEF EntryInv
    <2>2. CASE pending[e] # NoBeat
      BY <1>7, <2>2 DEF Check, EntryInv
    <2>3. QED
      BY <2>1, <2>2
  <1>8. ASSUME NEW e \in Entries, Recheck(e) \/ Retry(e) \/ Elapse(e)
        PROVE  EntryInv'
    BY <1>8 DEF Recheck, Retry, Elapse, entry, EntryInv
  <1>9. ASSUME NEW e \in Entries, FlushLands(e) \/ DrainLands(e) PROVE EntryInv'
    <2>1. pending[e] \in Beat /\ pending[e].key \in Keys
      BY <1>9, Waiting DEF FlushLands, DrainLands, Awake
    <2>2. row'[pending[e].key] # NoRow
      BY <1>9, <2>1, WriteType DEF FlushLands, DrainLands, Flushed, Carries, NoRow
    <2>3. /\ running' = running
          /\ \A f \in Entries : worker'[f] # "off" <=> worker[f] # "off"
      BY <1>9 DEF FlushLands, DrainLands, Draining, Awake
    <2>4. QED
      BY <1>9, <2>1, <2>2, <2>3 DEF FlushLands, DrainLands, Flushed, EntryInv
  <1>10. ASSUME NEW e \in Entries, FlushIsStale(e) \/ DrainIsStale(e) PROVE EntryInv'
    <2>1. /\ running' = running
          /\ \A f \in Entries : worker'[f] # "off" <=> worker[f] # "off"
      BY <1>10 DEF FlushIsStale, DrainIsStale, Draining, Awake
    <2>2. QED
      BY <1>10, <2>1 DEF FlushIsStale, DrainIsStale, Adopts, EntryInv
  <1>11. ASSUME NEW e \in Entries, FlushFails(e) PROVE EntryInv'
    <2>1. UNCHANGED <<last, committed>> /\ worker[e] = "sleep"
      BY <1>11 DEF FlushFails, Awake
    <2>2. CASE GivesUp(e)
      <3>1. /\ pending' = [pending EXCEPT ![e] = NoBeat]
            /\ running' = [running EXCEPT ![e] = FALSE]
            /\ worker' = [worker EXCEPT ![e] = "off"]
        BY <1>11, <2>2 DEF FlushFails
      <3>2. ~running'[e] /\ \A f \in Entries : f # e => (running'[f] <=> running[f])
        BY <3>1, Zenon
      <3>3. QED
        BY <2>1, <3>1, <3>2 DEF EntryInv
    <2>3. CASE ~GivesUp(e)
      <3>1. /\ pending' = pending /\ running' = running
            /\ worker' = [worker EXCEPT ![e] = "backoff"]
        BY <1>11, <2>3 DEF FlushFails, PutsBack
      <3>2. QED
        BY <2>1, <3>1 DEF EntryInv
    <2>4. QED
      BY <2>2, <2>3
  <1>12. ASSUME NEW e \in Entries, DrainSkips(e) \/ DrainFails(e) PROVE EntryInv'
    BY <1>12 DEF DrainSkips, DrainFails, Draining, EntryInv
  <1>13. CASE Stop \/ StartDrain \/ EndDrain \/ UNCHANGED vars
    BY <1>13 DEF Stop, StartDrain, EndDrain, vars, entry, EntryInv
  <1>14. ASSUME NEW k \in Keys, Compete(k) PROVE EntryInv'
    BY <1>14 DEF Compete, entry, EntryInv
  <1>15. QED
    BY <1>1, <1>2, <1>3, <1>4, <1>5, <1>6, <1>7, <1>8, <1>9, <1>10, <1>11, <1>12,
       <1>13, <1>14
    DEF Next, Put, Serve, Work, Drain

LEMMA StructInvariant == Spec => []SInv
  <1>1. SInv /\ [Next]_vars => SInv'
    BY TypeStep, MapStep, EntryStep DEF SInv
  <1>2. QED
    BY <1>1, StructInit, PTL DEF Spec

(* A waiting beat always has the row, the clock and the worker it needs.   *)
THEOREM WaitingBeatIsServed == Spec => []PendingIsServed
  <1>1. SInv => PendingIsServed
    BY DEF SInv, EntryInv, PendingIsServed
  <1>2. QED
    BY <1>1, StructInvariant, PTL

(* Sweeps detach no call, no worker and no pending beat.                   *)
THEOREM NobodyIsDetached == Spec => []OneEntryPerKey
  <1>1. SInv => OneEntryPerKey
    BY DEF SInv, MapInv, OneEntryPerKey
  <1>2. QED
    BY <1>1, StructInvariant, PTL

-----------------------------------------------------------------------------
(* Every write gives its row an id no call and no entry has seen,          *)
IdInv ==
  /\ \A k \in Keys : row[k].id <= ids[k]
  /\ \A k \in Keys : map[k] # NoEntry => committed[map[k]].id <= ids[k]
  /\ \A r \in Requests : pc[r] = "holding" => base[r].id <= ids[beat[r].key]

(* so a row that is still what a beat was judged by has not been touched.  *)
SeenInv ==
  /\ \A e \in Entries :
       pending[e] # NoBeat /\ row[pending[e].key] = committed[e]
       => moves[pending[e].key] = pending[e].seen
  /\ \A r \in Requests :
       pc[r] = "holding" /\ base[r] # NoRow /\ row[beat[r].key] = base[r]
       => moves[beat[r].key] = beat[r].seen

(* A beat is at one place: with its call or in an entry.                   *)
NumberInv ==
  /\ \A r \in Requests : pc[r] # "idle" => beat[r].n \in 1 .. beats
  /\ \A e \in Entries : pending[e] # NoBeat => pending[e].n \in 1 .. beats
  /\ \A r, q \in Requests :
       pc[r] # "idle" /\ pc[q] # "idle" /\ beat[r].n = beat[q].n => r = q
  /\ \A e, f \in Entries :
       pending[e] # NoBeat /\ pending[f] # NoBeat /\ pending[e].n = pending[f].n => e = f
  /\ \A e \in Entries, r \in Requests :
       pending[e] # NoBeat /\ pc[r] # "idle" => pending[e].n # beat[r].n

IInv == SInv /\ IdInv /\ SeenInv /\ NumberInv

LEMMA IInit == Init => IInv
  <1>1. ASSUME Init PROVE IdInv /\ SeenInv /\ NumberInv
    BY <1>1 DEF Init, IdInv, SeenInv, NumberInv, NoRow, NoBeat
  <1>2. QED
    BY <1>1, StructInit DEF IInv

(* Who writes a row, and what the row becomes.                             *)
ByOther(k) ==
  /\ moves'[k] = moves[k] + 1
  /\ row'[k].beat = 0
  /\ \/ ids'[k] = ids[k] + 1 /\ row'[k].id = ids[k] + 1
     \/ ids'[k] = ids[k] /\ row'[k] = NoRow

ByCall(k, r) ==
  /\ pc[r] # "idle" /\ beat[r] \in Beat /\ beat[r].key = k
  /\ Carries(k, beat[r])
  /\ ids'[k] = ids[k] + 1

ByFlush(k, e) ==
  /\ pending[e] # NoBeat /\ pending[e] \in Beat /\ pending[e].key = k
  /\ Current(e)
  /\ Carries(k, pending[e])
  /\ ids'[k] = ids[k] + 1

LEMMA RowWriter ==
  ASSUME SInv, [Next]_vars, NEW k \in Keys
  PROVE  \/ row'[k] = row[k] /\ ids'[k] = ids[k] /\ moves'[k] = moves[k]
         \/ ByOther(k)
         \/ \E r \in Requests : ByCall(k, r)
         \/ \E e \in Entries : ByFlush(k, e)
  <1> DEFINE Goal == \/ row'[k] = row[k] /\ ids'[k] = ids[k] /\ moves'[k] = moves[k]
                     \/ ByOther(k)
                     \/ \E r \in Requests : ByCall(k, r)
                     \/ \E e \in Entries : ByFlush(k, e)
  <1> SUFFICES Goal
    OBVIOUS
  <1> USE DEF SInv, TInv, TypeOK
  <1>1. CASE UNCHANGED store
    BY <1>1 DEF store
  <1>2. ASSUME NEW j \in Keys, Compete(j) PROVE Goal
    <2>1. CASE j # k
      BY <1>2, <2>1 DEF Compete
    <2>2. ASSUME j = k, ids' = [ids EXCEPT ![j] = @ + 1], NEW w \in BOOLEAN,
                 row' = [row EXCEPT ![j] = [id |-> ids[j] + 1, watched |-> w, beat |-> 0]]
          PROVE  ByOther(k)
      <3>1. row'[k].id = ids[k] + 1 /\ row'[k].beat = 0
        BY <2>2
      <3>2. ids'[k] = ids[k] + 1 /\ moves'[k] = moves[k] + 1
        BY <1>2, <2>2 DEF Compete
      <3>3. QED
        BY <3>1, <3>2 DEF ByOther
    <2>3. ASSUME j = k, row' = [row EXCEPT ![j] = NoRow], UNCHANGED ids
          PROVE  ByOther(k)
      BY <1>2, <2>3 DEF Compete, ByOther, NoRow
    <2>4. QED
      BY <1>2, <2>1, <2>2, <2>3 DEF Compete
  <1>3. ASSUME NEW r \in Requests, pc[r] # "idle", WriteBeat(beat[r].key, beat[r])
        PROVE  Goal
    <2>1. beat[r] \in Beat /\ beat[r].key \in Keys
      BY <1>3 DEF CallInv, Beat
    <2>2. CASE beat[r].key = k
      BY <1>3, <2>1, <2>2, WriteType DEF ByCall
    <2>3. CASE beat[r].key # k
      BY <1>3, <2>1, <2>3, WriteType
    <2>4. QED
      BY <2>2, <2>3
  <1>4. ASSUME NEW e \in Entries, pending[e] # NoBeat, Current(e),
               WriteBeat(pending[e].key, pending[e])
        PROVE  Goal
    <2>1. pending[e] \in Beat /\ pending[e].key \in Keys
      BY <1>4, Waiting
    <2>2. CASE pending[e].key = k
      BY <1>4, <2>1, <2>2, WriteType DEF ByFlush
    <2>3. CASE pending[e].key # k
      BY <1>4, <2>1, <2>3, WriteType
    <2>4. QED
      BY <2>2, <2>3
  <1>5. ASSUME NEW r \in Requests, Put(r) PROVE Goal
    BY <1>1, <1>3, <1>5
    DEF Put, Serve, Find, Insert, Bypass, Call, Abandon, WriteThrough, ReadBaseline,
        WriteNow, WriteFails, Accept
  <1>6. ASSUME NEW e \in Entries, Work(e) \/ Elapse(e) PROVE Goal
    BY <1>1, <1>4, <1>6
    DEF Work, Check, Recheck, Retry, FlushLands, FlushIsStale, FlushFails, Elapse,
        Flushed, Adopts, Awake
  <1>7. ASSUME Drain PROVE Goal
    BY <1>1, <1>4, <1>7
    DEF Drain, Stop, StartDrain, EndDrain, DrainSkips, DrainLands, DrainIsStale,
        DrainFails, Flushed, Adopts
  <1>8. QED
    BY <1>1, <1>2, <1>5, <1>6, <1>7 DEF Next, vars

(* What a step leaves of the beats that wait, and of the calls that hold.  *)
LEMMA PendingStep ==
  ASSUME SInv, [Next]_vars, NEW e \in Entries, pending'[e] # NoBeat
  PROVE  \/ pending'[e] = pending[e] /\ committed'[e] = committed[e]
         \/ \E r \in Requests : Accept(r) /\ at[r] = e
  <1> USE DEF SInv, TInv, TypeOK
  <1>1. ASSUME NEW r \in Requests, Put(r), ~Accept(r)
        PROVE  pending'[e] = pending[e] /\ committed'[e] = committed[e]
    <2>1. ASSUME NEW k \in Keys, Insert(r, k)
          PROVE  pending'[e] = pending[e] /\ committed'[e] = committed[e]
      BY <2>1 DEF Insert
    <2>2. CASE WriteNow(r) \/ WriteFails(r)
      BY <2>2, Holder DEF WriteNow, WriteFails
    <2>3. CASE UNCHANGED entry
      BY <2>3 DEF entry
    <2>4. QED
      BY <1>1, <2>1, <2>2, <2>3
      DEF Put, Serve, Find, Bypass, Abandon, WriteThrough, ReadBaseline
  <1>2. ASSUME NEW r \in Requests, Accept(r), at[r] # e
        PROVE  pending'[e] = pending[e] /\ committed'[e] = committed[e]
    BY <1>2, Holder DEF Accept
  <1>3. ASSUME NEW f \in Entries, Work(f) \/ Elapse(f)
        PROVE  pending'[e] = pending[e] /\ committed'[e] = committed[e]
    BY <1>3 DEF Work, Check, Recheck, Retry, FlushLands, FlushIsStale, FlushFails,
                Elapse, Flushed, Adopts, PutsBack, entry
  <1>4. ASSUME Drain
        PROVE  pending'[e] = pending[e] /\ committed'[e] = committed[e]
    BY <1>4 DEF Drain, Stop, StartDrain, EndDrain, DrainSkips, DrainLands,
                DrainIsStale, DrainFails, Flushed, Adopts, entry
  <1>5. ASSUME NEW k \in Keys, Compete(k)
        PROVE  pending'[e] = pending[e] /\ committed'[e] = committed[e]
    BY <1>5 DEF Compete, entry
  <1>6. CASE UNCHANGED vars
    BY <1>6 DEF vars, entry
  <1>7. QED
    BY <1>1, <1>2, <1>3, <1>4, <1>5, <1>6 DEF Next

LEMMA HoldingStep ==
  ASSUME SInv, [Next]_vars, NEW r \in Requests, pc'[r] = "holding"
  PROVE  \/ pc[r] = "holding" /\ base'[r] = base[r] /\ beat'[r] = beat[r]
         \/ ReadBaseline(r)
  <1> USE DEF SInv, TInv, TypeOK
  <1>1. ASSUME NEW q \in Requests, NEW k \in Keys, NEW state \in {"through", "waiting"},
               NEW f, Call(q, k, state, f)
        PROVE  pc[r] = "holding" /\ base'[r] = base[r] /\ beat'[r] = beat[r]
    BY <1>1 DEF Call
  <1>2. ASSUME NEW q \in Requests, Return(q)
        PROVE  pc[r] = "holding" /\ base'[r] = base[r] /\ beat'[r] = beat[r]
    BY <1>2 DEF Return
  <1>3. ASSUME NEW q \in Requests, ReadBaseline(q), q # r
        PROVE  pc[r] = "holding" /\ base'[r] = base[r] /\ beat'[r] = beat[r]
    BY <1>3 DEF ReadBaseline
  <1>4. ASSUME NEW q \in Requests, Put(q), ~ReadBaseline(r)
        PROVE  pc[r] = "holding" /\ base'[r] = base[r] /\ beat'[r] = beat[r]
    BY <1>1, <1>2, <1>3, <1>4
    DEF Put, Serve, Find, Insert, Bypass, Abandon, WriteThrough, WriteNow, WriteFails, Accept
  <1>5. CASE UNCHANGED request
    BY <1>5 DEF request
  <1>6. ASSUME NEW f \in Entries, Work(f) \/ Elapse(f) PROVE UNCHANGED request
    BY <1>6 DEF Work, Check, Recheck, Retry, FlushLands, FlushIsStale, FlushFails, Elapse
  <1>7. ASSUME Drain PROVE UNCHANGED request
    BY <1>7 DEF Drain, Stop, StartDrain, EndDrain, DrainSkips, DrainLands,
                DrainIsStale, DrainFails, Draining
  <1>8. QED
    BY <1>4, <1>5, <1>6, <1>7 DEF Next, Compete, vars

-----------------------------------------------------------------------------
(* A row that changed has an id nobody could have read, or is gone.        *)
LEMMA FreshRow ==
  ASSUME IInv, [Next]_vars, NEW k \in Keys
  PROVE  /\ ids'[k] \in Nat /\ ids[k] \in Nat /\ ids[k] <= ids'[k]
         /\ row'[k].id <= ids'[k]
         /\ \/ row'[k] = row[k] /\ moves'[k] = moves[k]
            \/ row'[k].id > ids[k]
            \/ row'[k] = NoRow
  <1> USE DEF IInv, SInv, TInv, TypeOK
  <1>1. row[k] \in Row /\ ids[k] \in Nat /\ row[k].id \in Nat /\ row[k].id <= ids[k]
    BY DEF IdInv, Row
  <1>2. CASE row'[k] = row[k] /\ ids'[k] = ids[k] /\ moves'[k] = moves[k]
    BY <1>1, <1>2
  <1>3. CASE ByOther(k)
    BY <1>1, <1>3 DEF ByOther, NoRow
  <1>4. ASSUME NEW b \in Beat, Carries(k, b), ids'[k] = ids[k] + 1
        PROVE  ids'[k] \in Nat /\ ids[k] <= ids'[k] /\ row'[k].id <= ids'[k]
               /\ row'[k].id > ids[k]
    BY <1>1, <1>4 DEF Carries
  <1>5. QED
    BY <1>1, <1>2, <1>3, <1>4, RowWriter DEF ByCall, ByFlush

LEMMA IdStep == IInv /\ [Next]_vars => IdInv'
  <1> SUFFICES ASSUME IInv, [Next]_vars PROVE IdInv'
    OBVIOUS
  <1> USE DEF IInv, SInv, TInv, TypeOK
  <1>1. \A k \in Keys : row'[k].id <= ids'[k]
    BY FreshRow
  <1>2. ASSUME NEW r \in Requests, pc'[r] = "holding"
        PROVE  base'[r].id <= ids'[beat'[r].key]
    <2>1. CASE pc[r] = "holding" /\ base'[r] = base[r] /\ beat'[r] = beat[r]
      <3>1. beat[r].key \in Keys /\ base[r].id \in Nat
        BY <2>1, Holder DEF Row
      <3>2. QED
        BY <2>1, <3>1, FreshRow DEF IdInv
    <2>2. CASE ReadBaseline(r)
      <3>1. beat[r] \in Beat /\ beat[r].key \in Keys
        BY <2>2, Holder DEF ReadBaseline
      <3>2. /\ base'[r] = row[beat[r].key] /\ beat'[r].key = beat[r].key
            /\ ids' = ids
        BY <2>2, <3>1 DEF ReadBaseline, store, Beat
      <3>3. QED
        BY <3>1, <3>2 DEF IdInv
    <2>3. QED
      BY <1>2, <2>1, <2>2, HoldingStep
  <1>3. \A k \in Keys : map'[k] # NoEntry => committed'[map'[k]].id <= ids'[k]
    <2> DEFINE Goal == \A k \in Keys : map'[k] # NoEntry => committed'[map'[k]].id <= ids'[k]
    <2>1. \A e \in Entries : committed[e].id \in Nat
      BY DEF Row
    <2>2. ASSUME map' = map, committed' = committed PROVE Goal
      BY <2>1, <2>2, FreshRow DEF IdInv
    <2>3. ASSUME NEW e \in Entries, NEW j \in Keys, map[j] = e, map' = map,
                 \A f \in Entries : f # e => committed'[f] = committed[f],
                 committed'[e].id <= ids'[j]
          PROVE  Goal
      <3>1. ASSUME NEW k \in Keys, map'[k] # NoEntry, k # j
            PROVE  committed'[map'[k]].id <= ids'[k]
        <4>1. map[k] # e /\ map[k] \in Entries
          BY <2>3, <3>1 DEF MapInv
        <4>2. QED
          BY <2>1, <2>3, <3>1, <4>1, FreshRow DEF IdInv
      <3>2. QED
        BY <2>3, <3>1
    <2>4. ASSUME NEW r \in Requests, NEW k \in Keys, Insert(r, k) PROVE Goal
      <3>1. PICK e \in Entries : /\ \A j \in Keys : Swept[j] # e
                                 /\ map' = [Swept EXCEPT ![k] = e]
                                 /\ committed' = [committed EXCEPT ![e] = NoRow]
        BY <2>4 DEF Insert
      <3>2. committed'[e].id = 0
        BY <3>1 DEF NoRow
      <3>3. ASSUME NEW j \in Keys, j # k, map'[j] # NoEntry
            PROVE  committed'[map'[j]].id <= ids'[j]
        <4>1. map'[j] = Swept[j] /\ Swept[j] = map[j]
          BY <3>1, <3>3, SweptType
        <4>2. map[j] \in Entries /\ map[j] # e /\ committed'[map[j]] = committed[map[j]]
          BY <3>1, <3>3, <4>1
        <4>3. QED
          BY <2>1, <3>3, <4>1, <4>2, FreshRow DEF IdInv
      <3>4. map'[k] = e
        BY <3>1, SweptType
      <3>5. QED
        BY <3>2, <3>3, <3>4, FreshRow
    <2>5. ASSUME NEW r \in Requests, NEW k \in Keys, Bypass(r, k) PROVE Goal
      <3>1. map' = Swept /\ committed' = committed
        BY <2>5 DEF Bypass, entry
      <3>2. ASSUME NEW j \in Keys, map'[j] # NoEntry
            PROVE  map'[j] = map[j] /\ map[j] \in Entries
        BY <3>1, <3>2, SweptType
      <3>3. QED
        BY <2>1, <3>1, <3>2, FreshRow DEF IdInv
    <2>6. ASSUME NEW r \in Requests, WriteNow(r) \/ WriteFails(r) PROVE Goal
      <3>1. /\ at[r] \in Entries /\ beat[r] \in Beat /\ beat[r].key \in Keys
            /\ pc[r] = "holding" /\ map[beat[r].key] = at[r] /\ map' = map
        BY <2>6, Holder, CoalescerAssumption DEF WriteNow, WriteFails, MapInv
      <3>2. \A f \in Entries : f # at[r] => committed'[f] = committed[f]
        BY <2>6 DEF WriteNow, WriteFails
      <3>3. CASE WriteNow(r)
        <4>1. committed'[at[r]].id = ids[beat[r].key] + 1 /\ ids'[beat[r].key] = ids[beat[r].key] + 1
          BY <3>1, <3>3, WriteType DEF WriteNow, Carries
        <4>2. QED
          BY <2>3, <3>1, <3>2, <4>1
      <3>4. CASE WriteFails(r)
        <4>1. committed'[at[r]] = base[r] /\ base[r].id <= ids[beat[r].key] /\ base[r].id \in Nat
          BY <3>1, <3>4 DEF WriteFails, IdInv, Row
        <4>2. committed'[at[r]].id <= ids'[beat[r].key]
          BY <3>1, <4>1, FreshRow
        <4>3. QED
          BY <2>3, <3>1, <3>2, <4>2
      <3>5. QED
        BY <2>6, <3>3, <3>4
    <2>7. ASSUME NEW e \in Entries, pending[e] # NoBeat, map' = map, Flushed(e) \/ Adopts(e)
          PROVE  Goal
      <3>1. pending[e] \in Beat /\ pending[e].key \in Keys /\ map[pending[e].key] = e
        BY <2>7, Waiting DEF MapInv
      <3>2. \A f \in Entries : f # e => committed'[f] = committed[f]
        BY <2>7 DEF Flushed, Adopts
      <3>3. committed'[e].id <= ids'[pending[e].key]
        <4>1. CASE Flushed(e)
          BY <3>1, <4>1, WriteType DEF Flushed, Carries
        <4>2. CASE Adopts(e)
          BY <3>1, <4>2 DEF Adopts, store, IdInv
        <4>3. QED
          BY <2>7, <4>1, <4>2
      <3>4. QED
        BY <2>3, <2>7, <3>1, <3>2, <3>3
    <2>8. ASSUME NEW r \in Requests, Put(r) PROVE Goal
      BY <2>2, <2>4, <2>5, <2>6, <2>8
      DEF Put, Serve, Find, Abandon, WriteThrough, ReadBaseline, Accept, entry
    <2>9. ASSUME NEW e \in Entries, Work(e) \/ Elapse(e) PROVE Goal
      BY <2>2, <2>7, <2>9
      DEF Work, Check, Recheck, Retry, FlushLands, FlushIsStale, FlushFails, Elapse,
          Awake, entry
    <2>10. ASSUME Drain PROVE Goal
      BY <2>2, <2>7, <2>10
      DEF Drain, Stop, StartDrain, EndDrain, DrainSkips, DrainLands, DrainIsStale,
          DrainFails, Draining, entry
    <2>11. ASSUME NEW k \in Keys, Compete(k) PROVE Goal
      BY <2>2, <2>11 DEF Compete, entry
    <2>12. CASE UNCHANGED vars
      BY <2>2, <2>12 DEF vars, entry
    <2>13. QED
      BY <2>8, <2>9, <2>10, <2>11, <2>12 DEF Next
  <1>4. QED
    BY <1>1, <1>2, <1>3 DEF IdInv

LEMMA SeenStep == IInv /\ [Next]_vars => SeenInv'
  <1> SUFFICES ASSUME IInv, [Next]_vars PROVE SeenInv'
    OBVIOUS
  <1> USE DEF IInv, SInv, TInv, TypeOK
  <1>1. ASSUME NEW e \in Entries, pending'[e] # NoBeat,
               row'[pending'[e].key] = committed'[e]
        PROVE  moves'[pending'[e].key] = pending'[e].seen
    <2>1. CASE pending'[e] = pending[e] /\ committed'[e] = committed[e]
      <3> DEFINE k == pending[e].key
      <3>1. k \in Keys /\ map[k] = e /\ committed[e] # NoRow
        BY <1>1, <2>1, Waiting DEF MapInv, EntryInv
      <3>2. committed[e].id <= ids[k] /\ committed[e].id \in Nat /\ ids[k] \in Nat
        BY <3>1, CoalescerAssumption DEF IdInv, Row
      <3>3. row'[k] = row[k] /\ moves'[k] = moves[k]
        BY <1>1, <2>1, <3>1, <3>2, FreshRow
      <3>4. QED
        BY <1>1, <2>1, <3>1, <3>3 DEF SeenInv
    <2>2. ASSUME NEW r \in Requests, Accept(r), at[r] = e
          PROVE  moves'[pending'[e].key] = pending'[e].seen
      <3>1. pc[r] = "holding" /\ beat[r] \in Beat /\ beat[r].key \in Keys
        BY <2>2, Holder DEF Accept
      <3>2. last[e] = "recent" /\ committed[e] = base[r]
        BY <2>2 DEF Accept, Due, Diverged
      <3>3. base[r] # NoRow
        BY <3>2 DEF EntryInv
      <3>4. pending'[e] = beat[r] /\ committed' = committed /\ UNCHANGED store
        BY <2>2 DEF Accept
      <3>5. QED
        BY <1>1, <3>1, <3>2, <3>3, <3>4 DEF SeenInv, store
    <2>3. QED
      BY <1>1, <2>1, <2>2, PendingStep
  <1>2. ASSUME NEW r \in Requests, pc'[r] = "holding", base'[r] # NoRow,
               row'[beat'[r].key] = base'[r]
        PROVE  moves'[beat'[r].key] = beat'[r].seen
    <2>1. CASE pc[r] = "holding" /\ base'[r] = base[r] /\ beat'[r] = beat[r]
      <3> DEFINE k == beat[r].key
      <3>1. k \in Keys
        BY <2>1, Holder
      <3>2. base[r].id <= ids[k] /\ base[r].id \in Nat /\ ids[k] \in Nat
        BY <2>1, <3>1 DEF IdInv, Row
      <3>3. row'[k] = row[k] /\ moves'[k] = moves[k]
        BY <1>2, <2>1, <3>1, <3>2, FreshRow
      <3>4. QED
        BY <1>2, <2>1, <3>1, <3>3 DEF SeenInv
    <2>2. CASE ReadBaseline(r)
      <3>1. beat[r] \in Beat /\ beat[r].key \in Keys
        BY <2>2, Holder DEF ReadBaseline
      <3>2. /\ beat'[r] = [beat[r] EXCEPT !.seen = moves[beat[r].key]]
            /\ moves' = moves
        BY <2>2 DEF ReadBaseline, store
      <3>3. beat'[r].key = beat[r].key /\ beat'[r].seen = moves[beat[r].key]
        BY <3>1, <3>2 DEF Beat
      <3>4. QED
        BY <3>2, <3>3
    <2>3. QED
      BY <1>2, <2>1, <2>2, HoldingStep
  <1>3. QED
    BY <1>1, <1>2 DEF SeenInv

(* Where the beats of calls come from: a new call takes a new number.      *)
LEMMA CallStep ==
  ASSUME IInv, [Next]_vars
  PROVE  /\ beats' \in Nat /\ beats <= beats'
         /\ \A r \in Requests : pc'[r] # "idle" =>
              \/ pc[r] # "idle" /\ beat'[r].n = beat[r].n
              \/ /\ pc[r] = "idle" /\ beat'[r].n = beats + 1 /\ beats' = beats + 1
                 /\ \A q \in Requests : q # r => pc'[q] = pc[q] /\ beat'[q] = beat[q]
                 /\ \A e \in Entries : pending'[e] # NoBeat => pending'[e] = pending[e]
  <1> DEFINE Goal ==
        /\ beats' \in Nat /\ beats <= beats'
        /\ \A r \in Requests : pc'[r] # "idle" =>
             \/ pc[r] # "idle" /\ beat'[r].n = beat[r].n
             \/ /\ pc[r] = "idle" /\ beat'[r].n = beats + 1 /\ beats' = beats + 1
                /\ \A q \in Requests : q # r => pc'[q] = pc[q] /\ beat'[q] = beat[q]
                /\ \A e \in Entries : pending'[e] # NoBeat => pending'[e] = pending[e]
  <1> SUFFICES Goal
    OBVIOUS
  <1> USE DEF IInv, SInv, TInv, TypeOK
  <1>0. beats \in Nat
    BY CoalescerAssumption
  <1>1. ASSUME NEW r \in Requests, NEW k \in Keys, NEW state, NEW f, state # "idle",
               pc[r] = "idle", Call(r, k, state, f),
               \A e \in Entries : pending'[e] # NoBeat => pending'[e] = pending[e]
        PROVE  Goal
    <2>1. /\ beats' = beats + 1 /\ beat'[r].n = beats + 1
          /\ \A q \in Requests : q # r => pc'[q] = pc[q] /\ beat'[q] = beat[q]
      BY <1>1 DEF Call
    <2>2. QED
      BY <1>0, <1>1, <2>1
  <1>2. ASSUME NEW r \in Requests, Return(r), beats' = beats PROVE Goal
    BY <1>0, <1>2 DEF Return
  <1>3. ASSUME NEW r \in Requests, ReadBaseline(r) PROVE Goal
    <2>1. beat[r] \in Beat
      BY <1>3, Holder DEF ReadBaseline
    <2>2. /\ beat'[r].n = beat[r].n /\ pc[r] # "idle" /\ beats' = beats
          /\ \A q \in Requests : q # r => pc'[q] = pc[q] /\ beat'[q] = beat[q]
      BY <1>3, <2>1 DEF ReadBaseline, Beat
    <2>3. QED
      BY <1>0, <2>2
  <1>4. CASE UNCHANGED <<beats, request>>
    BY <1>0, <1>4 DEF request
  <1>5. ASSUME NEW r \in Requests, Put(r) PROVE Goal
    BY <1>1, <1>2, <1>3, <1>5
    DEF Put, Serve, Find, Insert, Bypass, Abandon, WriteThrough, WriteNow, WriteFails,
        Accept, entry
  <1>6. ASSUME NEW f \in Entries, Work(f) \/ Elapse(f) PROVE Goal
    BY <1>4, <1>6 DEF Work, Check, Recheck, Retry, FlushLands, FlushIsStale, FlushFails, Elapse
  <1>7. ASSUME Drain PROVE Goal
    BY <1>4, <1>7 DEF Drain, Stop, StartDrain, EndDrain, DrainSkips, DrainLands,
                DrainIsStale, DrainFails, Draining
  <1>8. QED
    BY <1>4, <1>5, <1>6, <1>7 DEF Next, Compete, vars

LEMMA NumberStep == IInv /\ [Next]_vars => NumberInv'
  <1> SUFFICES ASSUME IInv, [Next]_vars PROVE NumberInv'
    OBVIOUS
  <1> USE DEF IInv, SInv, TInv, TypeOK
  <1>0. beats \in Nat /\ beats' \in Nat /\ beats <= beats'
    BY CallStep, CoalescerAssumption
  <1>1. ASSUME NEW e \in Entries, pending'[e] # NoBeat
        PROVE  \/ pending[e] # NoBeat /\ pending'[e] = pending[e]
               \/ \E r \in Requests :
                    /\ Accept(r) /\ at[r] = e /\ pc[r] = "holding" /\ pc'[r] = "idle"
                    /\ pending'[e] = beat[r]
                    /\ \A f \in Entries : f # e => pending'[f] = pending[f]
    <2>1. ASSUME NEW r \in Requests, Accept(r), at[r] = e
          PROVE  /\ pc[r] = "holding" /\ pc'[r] = "idle" /\ pending'[e] = beat[r]
                 /\ \A f \in Entries : f # e => pending'[f] = pending[f]
      BY <2>1 DEF Accept, Return
    <2>2. QED
      BY <1>1, <2>1, PendingStep
  <1>2. ASSUME NEW r \in Requests, pc'[r] # "idle"
        PROVE  beat'[r].n \in 1 .. beats'
    BY <1>0, <1>2, CallStep DEF NumberInv
  <1>3. ASSUME NEW e \in Entries, pending'[e] # NoBeat
        PROVE  pending'[e].n \in 1 .. beats'
    BY <1>0, <1>1, <1>3 DEF NumberInv
  <1>4. ASSUME NEW r \in Requests, NEW q \in Requests, r # q,
               pc'[r] # "idle", pc'[q] # "idle"
        PROVE  beat'[r].n # beat'[q].n
    BY <1>0, <1>4, CallStep DEF NumberInv
  <1>5. ASSUME NEW e \in Entries, NEW f \in Entries, e # f,
               pending'[e] # NoBeat, pending'[f] # NoBeat
        PROVE  pending'[e].n # pending'[f].n
    BY <1>1, <1>5 DEF NumberInv
  <1>6. ASSUME NEW e \in Entries, NEW r \in Requests,
               pending'[e] # NoBeat, pc'[r] # "idle"
        PROVE  pending'[e].n # beat'[r].n
    <2>1. CASE pc[r] # "idle" /\ beat'[r].n = beat[r].n
      <3>1. CASE pending[e] # NoBeat /\ pending'[e] = pending[e]
        BY <1>6, <2>1, <3>1 DEF NumberInv
      <3>2. ASSUME NEW q \in Requests, pc[q] = "holding", pc'[q] = "idle",
                   pending'[e] = beat[q]
            PROVE  pending'[e].n # beat'[r].n
        <4>1. pc[q] # "idle" /\ q # r
          BY <1>6, <3>2
        <4>2. beat[q].n # beat[r].n
          BY <2>1, <4>1 DEF NumberInv
        <4>3. QED
          BY <2>1, <3>2, <4>2
      <3>3. QED
        BY <1>1, <1>6, <3>1, <3>2
    <2>2. CASE pc[r] = "idle" /\ beat'[r].n = beats + 1 /\ pending'[e] = pending[e]
      <3>1. pending[e].n \in 1 .. beats
        BY <1>6, <2>2 DEF NumberInv
      <3>2. QED
        BY <1>0, <2>2, <3>1
    <2>3. QED
      BY <1>6, <2>1, <2>2, CallStep
  <1>7. QED
    BY <1>2, <1>3, <1>4, <1>5, <1>6 DEF NumberInv

LEMMA Invariance == Spec => []IInv
  <1>1. IInv /\ [Next]_vars => IInv'
    BY TypeStep, MapStep, EntryStep, IdStep, SeenStep, NumberStep DEF IInv, SInv
  <1>2. QED
    BY <1>1, IInit, PTL DEF Spec

-----------------------------------------------------------------------------
(* A manual mark, an import or another node's write is never undone by a   *)
(* beat that was judged by an older row.                                   *)
THEOREM NoStaleBeat == Spec => StaleBeatNeverLands
  <1> DEFINE A == \A e \in Entries : \A k \in Keys :
                    /\ pending[e] # NoBeat
                    /\ row'[k] # row[k] /\ row'[k].beat = pending[e].n
                    => moves[k] = pending[e].seen
  <1>1. IInv /\ [Next]_vars => A
    <2> SUFFICES ASSUME IInv, [Next]_vars, NEW e \in Entries, NEW k \in Keys,
                        pending[e] # NoBeat, row'[k] # row[k],
                        row'[k].beat = pending[e].n
                 PROVE  moves[k] = pending[e].seen
      OBVIOUS
    <2> USE DEF IInv, SInv, TInv
    <2>1. pending[e].n \in Nat /\ pending[e].n > 0
      BY CoalescerAssumption DEF NumberInv, TypeOK
    <2>2. ~ByOther(k)
      BY <2>1 DEF ByOther
    <2>3. ASSUME NEW r \in Requests, ByCall(k, r) PROVE FALSE
      BY <2>3 DEF ByCall, Carries, NumberInv
    <2>4. ASSUME NEW f \in Entries, ByFlush(k, f) PROVE moves[k] = pending[e].seen
      <3>1. f = e
        BY <2>4 DEF ByFlush, Carries, NumberInv
      <3>2. QED
        BY <2>4, <3>1 DEF ByFlush, Current, SeenInv
    <2>5. QED
      BY <2>2, <2>3, <2>4, RowWriter
  <1>2. UNCHANGED vars => A
    BY DEF vars, store
  <1>3. QED
    BY <1>1, Invariance, PTL DEF Spec, StaleBeatNeverLands

(* A beat that put() found completing never waits for its watched mark.    *)
THEOREM CompletionIsNotDeferred == Spec => CompletingBeatDoesNotWait
  <1> DEFINE A == \A e \in Entries : \A k \in Keys :
                    /\ pending[e] # NoBeat /\ pending[e].complete
                    /\ row'[k] # row[k] /\ row'[k].beat = pending[e].n
                    => row[k].watched
  <1>1. IInv /\ [Next]_vars => A
    <2> SUFFICES ASSUME IInv, [Next]_vars, NEW e \in Entries, NEW k \in Keys,
                        pending[e] # NoBeat, pending[e].complete, row'[k] # row[k],
                        row'[k].beat = pending[e].n
                 PROVE  row[k].watched
      OBVIOUS
    <2> USE DEF IInv, SInv, TInv
    <2>1. pending[e].n \in Nat /\ pending[e].n > 0
      BY CoalescerAssumption DEF NumberInv, TypeOK
    <2>2. ~ByOther(k)
      BY <2>1 DEF ByOther
    <2>3. ASSUME NEW r \in Requests, ByCall(k, r) PROVE FALSE
      BY <2>3 DEF ByCall, Carries, NumberInv
    <2>4. ASSUME NEW f \in Entries, ByFlush(k, f) PROVE row[k].watched
      <3>1. f = e
        BY <2>4 DEF ByFlush, Carries, NumberInv
      <3>2. committed[e].watched
        BY DEF EntryInv
      <3>3. QED
        BY <2>4, <3>1, <3>2 DEF ByFlush, Current
    <2>5. QED
      BY <2>2, <2>3, <2>4, RowWriter
  <1>2. UNCHANGED vars => A
    BY DEF vars, store
  <1>3. QED
    BY <1>1, Invariance, PTL DEF Spec, CompletingBeatDoesNotWait

(* An accepted beat never vanishes from its entry without a reason.        *)
THEOREM NoBeatVanishes == Spec => AcceptedBeatAccounted
  <1> DEFINE Reason(e) ==
        LET k == pending[e].key IN
        \/ row'[k] # row[k] /\ row'[k].beat # 0
        \/ pending'[e] # NoBeat
        \/ row[k] # committed[e]
        \/ attempts'[e] = MaxAttempts
        \/ FailsOver(e)
  <1>1. IInv /\ [Next]_vars =>
          \A e \in Entries : pending[e] # NoBeat /\ pending'[e] # pending[e] => Reason(e)
    <2> SUFFICES ASSUME IInv, [Next]_vars, NEW e \in Entries,
                        pending[e] # NoBeat, pending'[e] # pending[e]
                 PROVE  Reason(e)
      OBVIOUS
    <2> DEFINE k == pending[e].key
    <2> USE DEF IInv, SInv, TInv
    <2>1. k \in Keys /\ map[k] = e /\ committed[e] # NoRow /\ worker[e] # "off"
      BY Waiting DEF MapInv, EntryInv
    <2>2. row[k].id \in Nat /\ ids[k] \in Nat /\ row[k].id <= ids[k]
      BY <2>1 DEF TypeOK, Row, IdInv
    <2>3. ASSUME NEW b \in Beat, b.n # 0, WriteBeat(k, b)
          PROVE  row'[k] # row[k] /\ row'[k].beat # 0
      <3>1. Carries(k, b)
        BY <2>1, <2>3, WriteType
      <3>2. QED
        BY <2>1, <2>2, <2>3, <3>1 DEF Carries, Beat
    <2>4. ASSUME NEW r \in Requests, NEW j \in Keys, Insert(r, j) PROVE FALSE
      <3>1. PICK f \in Entries : ~Shared(f) /\ pending' = [pending EXCEPT ![f] = NoBeat]
        BY <2>4 DEF Insert
      <3>2. f = e
        BY <3>1 DEF TypeOK
      <3>3. QED
        BY <2>1, <3>1, <3>2 DEF Shared
    <2>5. ASSUME NEW r \in Requests, WriteNow(r) \/ WriteFails(r) PROVE Reason(e)
      <3>1. at[r] = e
        BY <2>5, Holder DEF WriteNow, WriteFails, TypeOK
      <3>2. pc[r] = "holding" /\ beat[r] \in Beat /\ beat[r].key \in Keys
        BY <2>5, Holder DEF WriteNow, WriteFails
      <3>3. pc'[r] = "idle"
        BY <2>5 DEF WriteNow, WriteFails, Return, TypeOK
      <3>4. FailsOver(e)
        BY <3>1, <3>2, <3>3 DEF FailsOver
      <3>5. QED
        BY <3>4
    <2>6. ASSUME NEW r \in Requests, Accept(r) PROVE Reason(e)
      <3>1. pending' = [pending EXCEPT ![at[r]] = beat[r]] /\ at[r] \in Entries
            /\ pc[r] # "idle"
        BY <2>6, Holder DEF Accept
      <3>2. pending'[e] = beat[r]
        BY <3>1 DEF TypeOK
      <3>3. beat[r].n # 0
        BY <3>1 DEF NumberInv
      <3>4. QED
        BY <3>2, <3>3 DEF NoBeat
    <2>7. ASSUME NEW r \in Requests, Put(r) PROVE Reason(e)
      BY <2>4, <2>5, <2>6, <2>7
      DEF Put, Serve, Find, Bypass, Abandon, WriteThrough, ReadBaseline, entry
    <2>8. ASSUME NEW f \in Entries, pending[f] # NoBeat, Flushed(f) PROVE Reason(e)
      <3>1. f = e
        BY <2>8 DEF Flushed, TypeOK
      <3>2. pending[e] \in Beat /\ pending[e].n # 0
        BY Waiting DEF NumberInv
      <3>3. QED
        BY <2>3, <2>8, <3>1, <3>2 DEF Flushed
    <2>9. ASSUME NEW f \in Entries, ~Current(f), Adopts(f) PROVE Reason(e)
      <3>1. f = e
        BY <2>9 DEF Adopts, TypeOK
      <3>2. QED
        BY <2>1, <2>9, <3>1 DEF Current
    <2>10. ASSUME NEW f \in Entries, FlushFails(f) PROVE Reason(e)
      <3>1. f = e /\ GivesUp(e)
        BY <2>10 DEF FlushFails, PutsBack, TypeOK
      <3>2. attempts'[e] = attempts[e] + 1 /\ attempts[e] < MaxAttempts
        BY <2>1, <2>10, <3>1 DEF FlushFails, AttemptInv, TypeOK
      <3>3. attempts'[e] = MaxAttempts
        BY <3>1, <3>2, CoalescerAssumption DEF GivesUp, TypeOK
      <3>4. QED
        BY <3>3
    <2>11. ASSUME NEW f \in Entries, Work(f) \/ Elapse(f) PROVE Reason(e)
      BY <2>8, <2>9, <2>10, <2>11
      DEF Work, Check, Recheck, Retry, FlushLands, FlushIsStale, Elapse, Awake, entry
    <2>12. ASSUME Drain PROVE Reason(e)
      BY <2>8, <2>9, <2>12
      DEF Drain, Stop, StartDrain, EndDrain, DrainSkips, DrainLands, DrainIsStale,
          DrainFails, entry
    <2>13. QED
      BY <2>7, <2>11, <2>12 DEF Next, Compete, vars, entry
  <1>2. UNCHANGED vars =>
          \A e \in Entries : pending[e] # NoBeat /\ pending'[e] # pending[e] => Reason(e)
    BY DEF vars, entry
  <1>3. QED
    BY <1>1, Invariance, PTL DEF Spec, AcceptedBeatAccounted

-----------------------------------------------------------------------------
(* From the signal on no call begins, and what waits is still to be        *)
(* visited, unless a visit failed.                                         *)
DrainInv ==
  /\ shutdown \in {"draining", "failing", "ok", "failed"} /\ ~late
       => \A r \in Requests : pc[r] = "idle"
  /\ shutdown \in {"draining", "ok"} /\ ~late
       => \A e \in Entries : pending[e] # NoBeat => e \in todo
  /\ shutdown = "ok" => todo = {}

LEMMA DrainStep == IInv /\ DrainInv /\ [Next]_vars => DrainInv'
  <1> SUFFICES ASSUME IInv, DrainInv, [Next]_vars PROVE DrainInv'
    OBVIOUS
  <1> USE DEF IInv, SInv, TInv, TypeOK, DrainInv
  <1>1. ASSUME NEW r \in Requests, Put(r), ~Exited PROVE DrainInv'
    <2>1. UNCHANGED exit
      BY <1>1 DEF Put, Serve, Find, Insert, Bypass, Call, Abandon, WriteThrough,
                  ReadBaseline, WriteNow, WriteFails, Accept
    <2>2. shutdown \in {"draining", "failing", "ok", "failed"} => late
      BY <1>1 DEF Put, Serve, Find, Insert, Bypass, Abandon, WriteThrough,
                  ReadBaseline, WriteNow, WriteFails, Accept
    <2>3. shutdown # "ok"
      BY <1>1 DEF Exited
    <2>4. QED
      BY <2>1, <2>2, <2>3 DEF exit
  <1>2. ASSUME NEW e \in Entries, Work(e) \/ Elapse(e) PROVE DrainInv'
    <2>1. UNCHANGED <<request, exit>>
      BY <1>2 DEF Work, Check, Recheck, Retry, FlushLands, FlushIsStale, FlushFails, Elapse
    <2>2. \A f \in Entries : pending'[f] = NoBeat \/ pending'[f] = pending[f]
      BY <1>2 DEF Work, Check, Recheck, Retry, FlushLands, FlushIsStale, FlushFails,
                  Elapse, entry, Flushed, Adopts, PutsBack
    <2>3. QED
      BY <2>1, <2>2 DEF request, exit
  <1>3. ASSUME Stop \/ EndDrain PROVE DrainInv'
    BY <1>3 DEF Stop, EndDrain, entry, request
  <1>4. ASSUME StartDrain PROVE DrainInv'
    <2>1. /\ shutdown' = "draining" /\ todo' = Mapped
          /\ late' = \E r \in Requests : pc[r] # "idle"
          /\ UNCHANGED <<entry, request, map>>
      BY <1>4 DEF StartDrain
    <2>2. \A e \in Entries : pending[e] # NoBeat => e \in Mapped
      BY Waiting, CoalescerAssumption DEF MapInv, Mapped
    <2>3. ~late' => \A r \in Requests : pc[r] = "idle"
      BY <2>1, Zenon
    <2>4. QED
      BY <2>1, <2>2, <2>3 DEF entry, request
  <1>5. ASSUME NEW e \in Entries, DrainSkips(e) \/ DrainLands(e) \/ DrainIsStale(e)
        PROVE  DrainInv'
    <2>1. /\ shutdown' = shutdown /\ late' = late /\ todo' = todo \ {e}
          /\ UNCHANGED request /\ shutdown # "ok"
      BY <1>5 DEF DrainSkips, DrainLands, DrainIsStale, Draining
    <2>2. /\ pending'[e] = NoBeat
          /\ \A f \in Entries : f # e => pending'[f] = pending[f]
      BY <1>5 DEF DrainSkips, DrainLands, DrainIsStale, Flushed, Adopts
    <2>3. QED
      BY <2>1, <2>2 DEF request
  <1>6. ASSUME NEW e \in Entries, DrainFails(e) PROVE DrainInv'
    BY <1>6 DEF DrainFails, Draining, request
  <1>7. CASE UNCHANGED <<entry, request, exit>>
    BY <1>7 DEF entry, request, exit
  <1>8. QED
    BY <1>1, <1>2, <1>3, <1>4, <1>5, <1>6, <1>7 DEF Next, Drain, Compete, vars

(* A drain that finds no call running and reports success flushed or       *)
(* resolved every accepted beat.                                           *)
THEOREM DrainIsComplete == Spec => []DrainLeavesNothing
  <1>1. Init => DrainInv
    BY DEF Init, DrainInv
  <1>2. DrainInv => DrainLeavesNothing
    BY DEF DrainInv, DrainLeavesNothing
  <1>3. QED
    BY <1>1, <1>2, DrainStep, Invariance, PTL DEF Spec

=============================================================================
