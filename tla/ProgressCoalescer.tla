-------------------------- MODULE ProgressCoalescer --------------------------
(***************************************************************************)
(* plurxd's write-behind for playback progress (progress.rs): the first    *)
(* beat of a stream and a completing one are written at once, the others   *)
(* replace one pending beat that a worker flushes by compare-and-set when  *)
(* the ten second window ends.  Other writers (manual watched marks,       *)
(* imports, offline replays, the coalescer of another node) move the same  *)
(* durable rows meanwhile.                                                 *)
(*                                                                         *)
(* Two tests decide whether a beat completes its item.  put() has one, on  *)
(* the row's duration and the longest file's: `complete`, which decides    *)
(* that the beat is not left to wait.  The store has another, on the files *)
(* it finds when it writes: that one sets the mark.                        *)
(*                                                                         *)
(* A key is one (user, item).  An entry is one Arc<Mutex<Entry>>: the map  *)
(* holds one, the requests and the worker that cloned it hold it too.  The *)
(* data of a row (position, duration, updated_at) is abstracted to an id:  *)
(* every write that changes a row gives it a new one.                      *)
(*                                                                         *)
(* A step that keeps an entry's mutex to its end and talks to the store    *)
(* once is one action.  put() talks to it twice under the mutex (baseline, *)
(* then write) and is two.  The second read of a failed compare-and-set    *)
(* sees a row no older than the one that refused it, so it stays with it.  *)
(***************************************************************************)
EXTENDS Naturals, FiniteSets

CONSTANTS
  Keys,         \* the (user, item) pairs
  Requests,     \* concurrent calls of put()
  Entries,      \* identities of Entry allocations
  NoEntry,
  SweepAt,      \* the cap of the map
  MaxAttempts,  \* MAX_FLUSH_ATTEMPTS
  MaxBeats,     \* bound: calls of put()
  MaxMoves      \* bound: writes of others, per key

ASSUME CoalescerAssumption ==
  /\ NoEntry \notin Entries
  /\ SweepAt \in Nat \ {0}
  /\ MaxAttempts \in Nat \ {0}
  /\ MaxBeats \in Nat
  /\ MaxMoves \in Nat
  /\ IsFiniteSet(Keys)

VARIABLES
  row,        \* the durable watch_state row of each key
  ids,        \* how many times each row was written
  moves,      \* history: how many of these writes were not the coalescer's
  map,        \* entries: key -> entry
  last,       \* Entry.last_commit: "none" | "recent" (within the window) | "old"
  committed,  \* Entry.committed, NoRow for None
  pending,    \* Entry.pending, NoBeat for None
  running,    \* Entry.worker_running
  attempts,   \* Entry.retry_attempts
  worker,     \* the flush task: "off" | "check" | "sleep" | "backoff"
  beats,      \* calls of put() so far
  pc,         \* a call: "idle" | "through" | "waiting" | "holding" the mutex
  beat,       \* the beat it carries
  at,         \* the entry it cloned
  base,       \* the row it read as its baseline
  shutdown,   \* "serving" | "stopping" | "draining" | "failing" (first_error
              \* is set) | "ok" | "failed"
  todo,       \* the entries drain() has not visited
  late        \* history: calls still ran when drain() began

store == <<row, ids, moves>>
entry == <<last, committed, pending, running, attempts>>
request == <<pc, beat, at, base>>
exit == <<shutdown, todo, late>>
vars == <<store, map, entry, worker, beats, request, exit>>

Row == [id : Nat, watched : BOOLEAN, beat : Nat]
NoRow == [id |-> 0, watched |-> FALSE, beat |-> 0]

(* complete: put()'s test of the beat.  seen: the writes of others its     *)
(* baseline already reflects.                                              *)
Beat == [n : Nat, key : Keys, complete : BOOLEAN, seen : Nat]
NoBeat == [n |-> 0]

TypeOK ==
  /\ row \in [Keys -> Row]
  /\ ids \in [Keys -> Nat]
  /\ moves \in [Keys -> 0 .. MaxMoves]
  /\ map \in [Keys -> Entries \cup {NoEntry}]
  /\ last \in [Entries -> {"none", "recent", "old"}]
  /\ committed \in [Entries -> Row]
  /\ pending \in [Entries -> Beat \cup {NoBeat}]
  /\ running \in [Entries -> BOOLEAN]
  /\ attempts \in [Entries -> 0 .. MaxAttempts]
  /\ worker \in [Entries -> {"off", "check", "sleep", "backoff"}]
  /\ beats \in 0 .. MaxBeats
  /\ pc \in [Requests -> {"idle", "through", "waiting", "holding"}]
  /\ beat \in [Requests -> Beat \cup {NoBeat}]
  /\ at \in [Requests -> Entries \cup {NoEntry}]
  /\ base \in [Requests -> Row]
  /\ shutdown \in {"serving", "stopping", "draining", "failing", "ok", "failed"}
  /\ todo \subseteq Entries
  /\ late \in BOOLEAN

Init ==
  /\ row = [k \in Keys |-> NoRow]
  /\ ids = [k \in Keys |-> 0]
  /\ moves = [k \in Keys |-> 0]
  /\ map = [k \in Keys |-> NoEntry]
  /\ last = [e \in Entries |-> "none"]
  /\ committed = [e \in Entries |-> NoRow]
  /\ pending = [e \in Entries |-> NoBeat]
  /\ running = [e \in Entries |-> FALSE]
  /\ attempts = [e \in Entries |-> 0]
  /\ worker = [e \in Entries |-> "off"]
  /\ beats = 0
  /\ pc = [r \in Requests |-> "idle"]
  /\ beat = [r \in Requests |-> NoBeat]
  /\ at = [r \in Requests |-> NoEntry]
  /\ base = [r \in Requests |-> NoRow]
  /\ shutdown = "serving"
  /\ todo = {}
  /\ late = FALSE

Mapped == {map[k] : k \in Keys} \ {NoEntry}

(* Arc::strong_count above the map's own.  drain() runs when no sweep can. *)
Shared(e) == worker[e] # "off" \/ \E r \in Requests : at[r] = e

(* The mutex: only put() keeps it between two of its steps.                *)
Unlocked(e) == \A r \in Requests : at[r] = e => pc[r] # "holding"

-----------------------------------------------------------------------------
(* The store.  A beat can set the watched mark but never clears it; w is   *)
(* the store's own test, whatever put() found.                             *)
WithBeat(k, b, w) ==
  [id |-> ids[k] + 1, watched |-> row[k].watched \/ w, beat |-> b.n]

WriteBeat(k, b) ==
  /\ \E w \in BOOLEAN : row' = [row EXCEPT ![k] = WithBeat(k, b, w)]
  /\ ids' = [ids EXCEPT ![k] = @ + 1]
  /\ UNCHANGED moves

(* Another writer moves the row: a mark or an un-mark, an import, another  *)
(* node; or the item is deleted and its row with it.                       *)
Compete(k) ==
  /\ moves[k] < MaxMoves
  /\ moves' = [moves EXCEPT ![k] = @ + 1]
  /\ \/ /\ ids' = [ids EXCEPT ![k] = @ + 1]
        /\ \E w \in BOOLEAN :
             row' = [row EXCEPT ![k] = [id |-> ids[k] + 1, watched |-> w, beat |-> 0]]
     \/ /\ row[k] # NoRow
        /\ row' = [row EXCEPT ![k] = NoRow]
        /\ UNCHANGED ids
  /\ UNCHANGED <<map, entry, worker, beats, request, exit>>

(* The window of an entry's last commit ends.                              *)
Elapse(e) ==
  /\ last[e] = "recent"
  /\ last' = [last EXCEPT ![e] = "old"]
  /\ UNCHANGED <<store, map, committed, pending, running, attempts, worker,
                 beats, request, exit>>

-----------------------------------------------------------------------------
(* Plausible bug: the sweep does not look at who else holds the entry.     *)
ReclaimableShared(e) ==
  ~running[e] /\ pending[e] = NoBeat /\ last[e] # "recent"

(* What the sweep of a full map drops: entries nobody else holds, with     *)
(* nothing to flush and no window open.                                    *)
Reclaimable(e) ==
  ~Shared(e) /\ ~running[e] /\ pending[e] = NoBeat /\ last[e] # "recent"

(* The map after entry() has looked for room for one more.                 *)
Swept ==
  IF Cardinality(Mapped) < SweepAt THEN map
  ELSE [k \in Keys |-> IF map[k] # NoEntry /\ Reclaimable(map[k])
                       THEN NoEntry ELSE map[k]]

Call(r, k, state, e) ==
  /\ beats < MaxBeats
  /\ beats' = beats + 1
  /\ \E c \in BOOLEAN :
       beat' = [beat EXCEPT ![r] = [n |-> beats + 1, key |-> k, complete |-> c, seen |-> 0]]
  /\ pc' = [pc EXCEPT ![r] = state]
  /\ at' = [at EXCEPT ![r] = e]
  /\ UNCHANGED <<store, base, exit>>

Return(r) ==
  /\ pc' = [pc EXCEPT ![r] = "idle"]
  /\ beat' = [beat EXCEPT ![r] = NoBeat]
  /\ at' = [at EXCEPT ![r] = NoEntry]
  /\ base' = [base EXCEPT ![r] = NoRow]

(* entry(), whole under the map's lock: the key has one,                   *)
Find(r, k) ==
  /\ shutdown = "serving" /\ pc[r] = "idle"
  /\ map[k] # NoEntry
  /\ Call(r, k, "waiting", map[k])
  /\ UNCHANGED <<map, entry, worker>>

(* or the map has room for a new one,                                      *)
Insert(r, k) ==
  /\ shutdown = "serving" /\ pc[r] = "idle"
  /\ map[k] = NoEntry
  /\ Cardinality({Swept[j] : j \in Keys} \ {NoEntry}) < SweepAt
  /\ \E e \in Entries :
       /\ ~Shared(e) /\ \A j \in Keys : Swept[j] # e
       /\ Call(r, k, "waiting", e)
       /\ map' = [Swept EXCEPT ![k] = e]
       /\ last' = [last EXCEPT ![e] = "none"]
       /\ committed' = [committed EXCEPT ![e] = NoRow]
       /\ pending' = [pending EXCEPT ![e] = NoBeat]
       /\ running' = [running EXCEPT ![e] = FALSE]
       /\ attempts' = [attempts EXCEPT ![e] = 0]
  /\ UNCHANGED worker

(* or even the swept map is full and the beat is written through.          *)
Bypass(r, k) ==
  /\ shutdown = "serving" /\ pc[r] = "idle"
  /\ map[k] = NoEntry
  /\ Cardinality({Swept[j] : j \in Keys} \ {NoEntry}) >= SweepAt
  /\ Call(r, k, "through", NoEntry)
  /\ map' = Swept
  /\ UNCHANGED <<entry, worker>>

(* The write of a bypassing beat lands; its caller may see an error still. *)
WriteThrough(r) ==
  /\ pc[r] = "through"
  /\ WriteBeat(beat[r].key, beat[r])
  /\ Return(r)
  /\ UNCHANGED <<map, entry, worker, beats, exit>>

(* put() gets the entry's mutex and reads the durable row.                 *)
ReadBaseline(r) ==
  /\ pc[r] = "waiting" /\ Unlocked(at[r])
  /\ pc' = [pc EXCEPT ![r] = "holding"]
  /\ base' = [base EXCEPT ![r] = row[beat[r].key]]
  /\ beat' = [beat EXCEPT ![r].seen = moves[beat[r].key]]
  /\ UNCHANGED <<store, map, entry, worker, beats, at, exit>>

(* A read fails, or the client is gone and its handler is dropped.         *)
Abandon(r) ==
  /\ pc[r] # "idle"
  /\ Return(r)
  /\ UNCHANGED <<store, map, entry, worker, beats, exit>>

(* The row is not the one this entry committed last: another writer moved  *)
(* it, and the entry starts over from the baseline.                        *)
Diverged(r) == committed[at[r]] # base[r]

Due(r) ==
  \/ Diverged(r)
  \/ last[at[r]] # "recent"
  \/ beat[r].complete /\ ~base[r].watched

(* The beat is due and put_progress, which is unconditional, succeeds.     *)
(* Pending goes before the write is known to succeed.                      *)
WriteNow(r) ==
  LET e == at[r] IN
  /\ pc[r] = "holding" /\ Due(r)
  /\ WriteBeat(beat[r].key, beat[r])
  /\ pending' = [pending EXCEPT ![e] = NoBeat]
  /\ last' = [last EXCEPT ![e] = "recent"]
  /\ committed' = [committed EXCEPT ![e] = row'[beat[r].key]]
  /\ attempts' = [attempts EXCEPT ![e] = IF Diverged(r) THEN 0 ELSE @]
  /\ Return(r)
  /\ UNCHANGED <<map, running, worker, beats, exit>>

(* It fails, or the handler is dropped: the row was written or was not.    *)
WriteFails(r) ==
  LET e == at[r] IN
  /\ pc[r] = "holding" /\ Due(r)
  /\ WriteBeat(beat[r].key, beat[r]) \/ UNCHANGED store
  /\ pending' = [pending EXCEPT ![e] = NoBeat]
  /\ last' = [last EXCEPT ![e] = IF Diverged(r) THEN "none" ELSE @]
  /\ committed' = [committed EXCEPT ![e] = base[r]]
  /\ attempts' = [attempts EXCEPT ![e] = IF Diverged(r) THEN 0 ELSE @]
  /\ Return(r)
  /\ UNCHANGED <<map, running, worker, beats, exit>>

(* The beat is accepted as the pending one, and a worker is started unless *)
(* one runs.  Without a committed row the call fails half-way.             *)
Accept(r) ==
  LET e == at[r]
      spawns == committed[e] # NoRow /\ ~running[e]
  IN
  /\ pc[r] = "holding" /\ ~Due(r)
  /\ pending' = [pending EXCEPT ![e] = beat[r]]
  /\ attempts' = [attempts EXCEPT ![e] = 0]
  /\ running' = [running EXCEPT ![e] = @ \/ spawns]
  /\ worker' = [worker EXCEPT ![e] = IF spawns THEN "check" ELSE @]
  /\ Return(r)
  /\ UNCHANGED <<store, map, last, committed, beats, exit>>

-----------------------------------------------------------------------------
(* Plausible bug: the worker leaves and the entry still counts one.        *)
CheckKeepsFlag(e) ==
  /\ worker[e] = "check" /\ Unlocked(e)
  /\ worker' = [worker EXCEPT ![e] = IF pending[e] = NoBeat THEN "off" ELSE "sleep"]
  /\ UNCHANGED running
  /\ UNCHANGED <<store, map, last, committed, pending, attempts, beats, request, exit>>

(* The worker.  At the top of its loop it leaves when nothing is pending,  *)
(* and otherwise sleeps to the end of the window it sees.                  *)
Check(e) ==
  /\ worker[e] = "check" /\ Unlocked(e)
  /\ IF pending[e] = NoBeat
     THEN /\ running' = [running EXCEPT ![e] = FALSE]
          /\ worker' = [worker EXCEPT ![e] = "off"]
     ELSE /\ worker' = [worker EXCEPT ![e] = "sleep"]
          /\ UNCHANGED running
  /\ UNCHANGED <<store, map, last, committed, pending, attempts, beats, request, exit>>

(* It wakes, and what it waited for is gone or was put off by a write.     *)
Recheck(e) ==
  /\ worker[e] = "sleep" /\ Unlocked(e)
  /\ last[e] # "old" \/ pending[e] = NoBeat
  /\ worker' = [worker EXCEPT ![e] = "check"]
  /\ UNCHANGED <<store, map, entry, beats, request, exit>>

Awake(e) ==
  /\ worker[e] = "sleep" /\ Unlocked(e)
  /\ last[e] = "old" /\ pending[e] # NoBeat

(* put_progress_if_current finds the row the entry committed last.         *)
Current(e) ==
  /\ row[pending[e].key] = committed[e]
  /\ committed[e] # NoRow

(* What the entry becomes once its pending beat is in the row,             *)
Flushed(e) ==
  /\ WriteBeat(pending[e].key, pending[e])
  /\ committed' = [committed EXCEPT ![e] = row'[pending[e].key]]
  /\ last' = [last EXCEPT ![e] = "recent"]
  /\ pending' = [pending EXCEPT ![e] = NoBeat]

(* Plausible bug: the row of the other writer is adopted and the beat kept *)
(* for the next round.                                                     *)
AdoptsAndKeeps(e) ==
  /\ committed' = [committed EXCEPT ![e] = row[pending[e].key]]
  /\ last' = [last EXCEPT ![e] = IF row[pending[e].key] = NoRow THEN "none" ELSE "recent"]
  /\ UNCHANGED <<store, pending>>

(* or once it adopted the row another writer left, and dropped the beat.   *)
Adopts(e) ==
  /\ committed' = [committed EXCEPT ![e] = row[pending[e].key]]
  /\ last' = [last EXCEPT ![e] = IF row[pending[e].key] = NoRow THEN "none" ELSE "recent"]
  /\ pending' = [pending EXCEPT ![e] = NoBeat]
  /\ UNCHANGED store

FlushLands(e) ==
  /\ Awake(e) /\ Current(e)
  /\ Flushed(e)
  /\ attempts' = [attempts EXCEPT ![e] = 0]
  /\ worker' = [worker EXCEPT ![e] = "check"]
  /\ UNCHANGED <<map, running, beats, request, exit>>

FlushIsStale(e) ==
  /\ Awake(e) /\ ~Current(e)
  /\ Adopts(e)
  /\ worker' = [worker EXCEPT ![e] = "check"]
  /\ UNCHANGED <<map, running, attempts, beats, request, exit>>

GivesUp(e) == attempts[e] + 1 >= MaxAttempts

(* Plausible bug: the beat taken from the entry is not put back.           *)
Forgets(e) == pending' = [pending EXCEPT ![e] = NoBeat]

PutsBack(e) == pending' = [pending EXCEPT ![e] = pending[e]]

(* The write fails, though the row may have been written, or the read of   *)
(* the row that refused it does: the beat is put back for another try, and *)
(* the last try gives it up.                                               *)
FlushFails(e) ==
  /\ Awake(e)
  /\ \/ Current(e) /\ WriteBeat(pending[e].key, pending[e])
     \/ UNCHANGED store
  /\ attempts' = [attempts EXCEPT ![e] = @ + 1]
  /\ IF GivesUp(e)
     THEN /\ pending' = [pending EXCEPT ![e] = NoBeat]
          /\ running' = [running EXCEPT ![e] = FALSE]
          /\ worker' = [worker EXCEPT ![e] = "off"]
     ELSE /\ PutsBack(e)
          /\ worker' = [worker EXCEPT ![e] = "backoff"]
          /\ UNCHANGED running
  /\ UNCHANGED <<map, last, committed, beats, request, exit>>

(* The retry delay ends.                                                   *)
Retry(e) ==
  /\ worker[e] = "backoff"
  /\ worker' = [worker EXCEPT ![e] = "check"]
  /\ UNCHANGED <<store, map, entry, beats, request, exit>>

-----------------------------------------------------------------------------
(* The signal arrives: no new call.                                        *)
Stop ==
  /\ shutdown = "serving"
  /\ shutdown' = "stopping"
  /\ UNCHANGED <<store, map, entry, worker, beats, request, todo, late>>

(* Plausible bug: entries whose worker runs are left to it.                *)
StartDrainIdle ==
  /\ shutdown = "stopping"
  /\ shutdown' = "draining"
  /\ todo' = {e \in Mapped : ~running[e]}
  /\ late' = \E r \in Requests : pc[r] # "idle"
  /\ UNCHANGED <<store, map, entry, worker, beats, request>>

(* The calls have returned, or SHUTDOWN_DRAIN_TIMEOUT is over and some     *)
(* still run: drain() lists the entries.                                   *)
StartDrain ==
  /\ shutdown = "stopping"
  /\ shutdown' = "draining"
  /\ todo' = Mapped
  /\ late' = \E r \in Requests : pc[r] # "idle"
  /\ UNCHANGED <<store, map, entry, worker, beats, request>>

Draining(e) ==
  /\ shutdown \in {"draining", "failing"}
  /\ e \in todo /\ Unlocked(e)
  /\ todo' = todo \ {e}
  /\ UNCHANGED <<late, map, running, attempts, worker, beats, request>>

DrainSkips(e) ==
  /\ Draining(e)
  /\ pending[e] = NoBeat
  /\ UNCHANGED <<store, last, committed, pending, shutdown>>

DrainLands(e) ==
  /\ Draining(e)
  /\ pending[e] # NoBeat /\ Current(e)
  /\ Flushed(e)
  /\ UNCHANGED shutdown

DrainIsStale(e) ==
  /\ Draining(e)
  /\ pending[e] # NoBeat /\ ~Current(e)
  /\ Adopts(e)
  /\ UNCHANGED shutdown

DrainFails(e) ==
  /\ Draining(e)
  /\ pending[e] # NoBeat
  /\ \/ Current(e) /\ WriteBeat(pending[e].key, pending[e])
     \/ UNCHANGED store
  /\ shutdown' = "failing"
  /\ UNCHANGED <<last, committed, pending>>

(* drain() returns, or PROGRESS_DRAIN_TIMEOUT is over.                     *)
EndDrain ==
  /\ \/ shutdown = "draining" /\ todo = {} /\ shutdown' = "ok"
     \/ shutdown = "failing" /\ todo = {} /\ shutdown' = "failed"
     \/ shutdown \in {"draining", "failing"} /\ todo # {} /\ shutdown' = "failed"
  /\ UNCHANGED <<store, map, entry, worker, beats, request, todo, late>>

-----------------------------------------------------------------------------
Serve(r) ==
  \/ WriteThrough(r) \/ ReadBaseline(r)
  \/ WriteNow(r) \/ WriteFails(r) \/ Accept(r)

Put(r) ==
  \/ \E k \in Keys : Find(r, k) \/ Insert(r, k) \/ Bypass(r, k)
  \/ Serve(r) \/ Abandon(r)

Work(e) ==
  \/ Check(e) \/ Recheck(e) \/ Retry(e)
  \/ FlushLands(e) \/ FlushIsStale(e) \/ FlushFails(e)

Drain ==
  \/ Stop \/ StartDrain \/ EndDrain
  \/ \E e \in Entries : DrainSkips(e) \/ DrainLands(e) \/ DrainIsStale(e) \/ DrainFails(e)

(* serve() returns after drain(), and the process exits.                   *)
Exited == shutdown \in {"ok", "failed"}

Next ==
  \/ \E k \in Keys : Compete(k)
  \/ Drain
  \/ /\ ~Exited
     /\ \/ \E e \in Entries : Elapse(e) \/ Work(e)
        \/ \E r \in Requests : Put(r)

Spec == Init /\ [][Next]_vars

(* Time passes, the runtime polls every woken task, the mutex serves its   *)
(* waiters in turn, and every call of the store ends, well or not.         *)
Fairness ==
  /\ \A e \in Entries : WF_vars(~Exited /\ Elapse(e)) /\ WF_vars(~Exited /\ Work(e))
  /\ \A r \in Requests :
       WF_vars(~Exited /\ Serve(r))

FairSpec == Spec /\ Fairness

-----------------------------------------------------------------------------
(* A beat that waits has what its flush needs: the committed row the       *)
(* compare-and-set expects (progress.rs calls expect() on it), the clock   *)
(* of its window, and a worker that will come for it.                      *)
PendingIsServed ==
  \A e \in Entries : pending[e] # NoBeat =>
    /\ committed[e] # NoRow
    /\ last[e] # "none"
    /\ running[e] /\ worker[e] # "off"

(* All that run for a key share the one entry the map has for it, so its   *)
(* mutex orders them and drain() reaches every pending beat: the sweep     *)
(* detaches nobody.                                                        *)
OneEntryPerKey ==
  /\ \A r \in Requests : at[r] # NoEntry => map[beat[r].key] = at[r]
  /\ \A e \in Entries : pending[e] # NoBeat => map[pending[e].key] = e

(* A beat that waited never lands on a write of another that came after    *)
(* the baseline it was judged by: a manual mark is not undone by a beat    *)
(* older than it.                                                          *)
StaleBeatNeverLands ==
  [][\A e \in Entries : \A k \in Keys :
       /\ pending[e] # NoBeat
       /\ row'[k] # row[k] /\ row'[k].beat = pending[e].n
       => moves[k] = pending[e].seen]_vars

(* The request of a newer beat, holding the entry, ends with an error.     *)
FailsOver(e) == \E r \in Requests : at[r] = e /\ pc[r] = "holding" /\ pc'[r] = "idle"

(* An accepted beat leaves its entry only for a reason: it or a newer beat *)
(* is put in the row, a newer one waits in its place, the row is no longer *)
(* the one it was to replace, the last try failed, or the write of a newer *)
(* beat did and its client was told.                                       *)
AcceptedBeatAccounted ==
  [][\A e \in Entries : pending[e] # NoBeat /\ pending'[e] # pending[e] =>
       LET k == pending[e].key IN
       \/ row'[k] # row[k] /\ row'[k].beat # 0
       \/ pending'[e] # NoBeat
       \/ row[k] # committed[e]
       \/ attempts'[e] = MaxAttempts
       \/ FailsOver(e)]_vars

(* A beat put() found completing is never left to a flush: what a flush    *)
(* lands of such a beat lands on a row that was watched when it was taken. *)
CompletingBeatDoesNotWait ==
  [][\A e \in Entries : \A k \in Keys :
       /\ pending[e] # NoBeat /\ pending[e].complete
       /\ row'[k] # row[k] /\ row'[k].beat = pending[e].n
       => row[k].watched]_vars

(* progress.rs says: "A newly completed item bypasses the wait so its      *)
(* watched transition and notification stay synchronous."                  *)
CompletionIsSynchronous ==
  [][\A k \in Keys :
       row'[k].watched /\ ~row[k].watched /\ row'[k].beat # 0
       => \E r \in Requests : beat[r] # NoBeat /\ beat[r].n = row'[k].beat]_vars

(* When the calls returned before drain() began and it reports success, no  *)
(* accepted beat is left behind.                                           *)
DrainLeavesNothing ==
  shutdown = "ok" /\ ~late => \A e \in Entries : pending[e] = NoBeat

(* progress.rs says of drain(): "Flush every accepted trailing beat        *)
(* immediately during graceful shutdown. Request draining stops new        *)
(* callers before this runs".                                              *)
DrainFlushesEveryBeat ==
  shutdown = "ok" => \A e \in Entries : pending[e] = NoBeat

(* While the process lives, every accepted beat leaves its entry in the    *)
(* end, whatever the store answers: it lands, makes way, or is given up    *)
(* after MaxAttempts.                                                      *)
PendingEnds ==
  \A e \in Entries : \A n \in 1 .. MaxBeats :
    pending[e].n = n ~> pending[e].n # n \/ Exited

=============================================================================
