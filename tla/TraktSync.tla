----------------------------- MODULE TraktSync -----------------------------
(***************************************************************************)
(* The two-way sync of one user's watched history with Trakt: sync_user    *)
(* (plurxd's trakt.rs) over the plan of plurx-core's trakt.rs.  The sync   *)
(* loop runs on every node; `syncing` keeps the passes of one node apart   *)
(* and nothing those of two.  Meanwhile the user marks items, plays them   *)
(* here (which is scrobbled) and on other devices, and links the account   *)
(* anew.                                                                   *)
(*                                                                         *)
(* A pass ends without a record at any failure of Trakt, the store, the    *)
(* token (TraktLink) or the process.  Of a watch_state row the sync tells  *)
(* apart `watched` and `updated_at`.  Of the last_activities strings it    *)
(* only tells whether two are equal, so a copy is TRUE while it equals     *)
(* what Trakt would answer; Trakt is taken to change it with every change. *)
(* Clocks count seconds and agree.                                         *)
(***************************************************************************)
EXTENDS Naturals, FiniteSets

CONSTANTS
  Nodes,
  Items,       \* the sync candidates
  NoRow,       \* no watch_state row
  Acts,        \* what users do: "mark", "unmark", "play", "replay" here;
               \* "watch", "pause", "forget" on another device; "link"
  MaxTime,     \* bound: seconds
  MaxChanges,  \* bound: what the user does
  MaxErrors    \* bound: passes that break off

ASSUME SyncAssumption ==
  MaxTime \in Nat \ {0} /\ MaxChanges \in Nat /\ MaxErrors \in Nat

Never == 0
Times == 0..MaxTime
Row == [watched: BOOLEAN, at: Times]
ASSUME NoRowAssumption == NoRow \notin Row

VARIABLES
  now,
  row,         \* watch_state: item -> Row or NoRow
  session,     \* the scrobble session: "none" | "open" | "stopped"
  stops,       \* items whose scrobble stop is on its way
  history,     \* Trakt: when each item was watched, or Never
  playback,    \* Trakt: when each item was paused, or Never
  link,        \* trakt_auth: last_sync_at, last_activities
  pc,          \* a pass: "idle" | "candidates" | "gate" | "watched" |
               \* "playback" | "pull" | "add" | "remove" | "reread" | "record"
  since,       \* the last_sync_at it read
  known,       \* the last_activities it read
  fresh,       \* the activities Trakt answered
  seen,        \* the rows it read
  remote,      \* the history it read
  plan,        \* what is left of its plan
  changes,
  errors,
  missed,      \* history: items changed since the pass began
  hidden       \* history: items changed while a pass ran, or with a date not
               \* after last_sync_at, and in no undisturbed pass since

local == <<row, session, stops>>
trakt == <<history, playback>>
reads == <<since, seen, remote>>
copies == <<known, fresh>>
vars == <<now, local, trakt, link, pc, reads, copies, plan, changes,
          errors, missed, hidden>>

Nothing == [x \in Items |-> NoRow]
None == [x \in Items |-> Never]
NoPlan == [mark |-> None, resume |-> None, add |-> None, remove |-> {}]
Running == {n \in Nodes : pc[n] /= "idle"}

TypeOK ==
  /\ now \in Times
  /\ row \in [Items -> Row \cup {NoRow}]
  /\ session \in [Items -> {"none", "open", "stopped"}] /\ stops \subseteq Items
  /\ history \in [Items -> Times] /\ playback \in [Items -> Times]
  /\ link \in [linked: BOOLEAN, sync: Times, acts: BOOLEAN]
  /\ pc \in [Nodes -> {"idle", "candidates", "gate", "watched", "playback",
                       "pull", "add", "remove", "reread", "record"}]
  /\ since \in [Nodes -> Times]
  /\ known \in [Nodes -> BOOLEAN] /\ fresh \in [Nodes -> BOOLEAN]
  /\ seen \in [Nodes -> [Items -> Row \cup {NoRow}]]
  /\ remote \in [Nodes -> [Items -> Times]]
  /\ plan \in [Nodes -> [mark: [Items -> Times], resume: [Items -> Times],
                        add: [Items -> Times], remove: SUBSET Items]]
  /\ changes \in 0..MaxChanges /\ errors \in 0..MaxErrors
  /\ missed \in [Nodes -> SUBSET Items] /\ hidden \subseteq Items

Watched(r) == r /= NoRow /\ r.watched
Unwatched(r) == r /= NoRow /\ ~r.watched

\* The account has just been linked, to a library and a history of their own.
Init ==
  /\ now = 1
  /\ row \in [Items -> [watched: BOOLEAN, at: {now}] \cup {NoRow}]
  /\ session = [x \in Items |-> "none"] /\ stops = {}
  /\ history \in [Items -> {Never, now}] /\ playback \in [Items -> {Never, now}]
  /\ link = [linked |-> TRUE, sync |-> Never, acts |-> FALSE]
  /\ pc = [n \in Nodes |-> "idle"]
  /\ since = [n \in Nodes |-> Never]
  /\ known = [n \in Nodes |-> FALSE] /\ fresh = [n \in Nodes |-> FALSE]
  /\ seen = [n \in Nodes |-> Nothing]
  /\ remote = [n \in Nodes |-> None]
  /\ plan = [n \in Nodes |-> NoPlan]
  /\ changes = 0 /\ errors = 0
  /\ missed = [n \in Nodes |-> {}] /\ hidden = {}

Go(n, to) == pc' = [pc EXCEPT ![n] = to]

\* What a change of item x, dated `at`, means for the passes that run and for
\* the next one.
Noticed(x) ==
  missed' = [n \in Nodes |-> IF n \in Running THEN missed[n] \cup {x} ELSE missed[n]]
Change(act, x, at) ==
  /\ act \in Acts /\ changes < MaxChanges
  /\ changes' = changes + 1
  /\ Noticed(x)
  /\ hidden' = IF Running /= {} \/ at =< link.sync THEN hidden \cup {x} ELSE hidden
  /\ UNCHANGED <<now, pc, reads, plan, errors>>

\* Every change at Trakt makes the copies of last_activities old.
TraktChanges ==
  /\ link' = [link EXCEPT !.acts = FALSE]
  /\ known' = [n \in Nodes |-> FALSE] /\ fresh' = [n \in Nodes |-> FALSE]
TraktRests == UNCHANGED <<trakt, link, copies>>

-----------------------------------------------------------------------------
(* The user here *)

\* set_watched_tree; a row that says so already is left alone.
Mark(x) ==
  /\ ~Watched(row[x])
  /\ row' = [row EXCEPT ![x] = [watched |-> TRUE, at |-> now]]
  /\ Change("mark", x, now)
  /\ TraktRests /\ UNCHANGED <<session, stops>>

Unmark(x) ==
  /\ row' = [row EXCEPT ![x] = [watched |-> FALSE, at |-> now]]
  /\ Change("unmark", x, now)
  /\ TraktRests /\ UNCHANGED <<session, stops>>

\* on_start opens a scrobble session.
Start(x) ==
  /\ "play" \in Acts /\ link.linked /\ changes < MaxChanges
  /\ session' = [session EXCEPT ![x] = "open"]
  /\ changes' = changes + 1
  /\ TraktRests
  /\ UNCHANGED <<now, row, stops, pc, reads, plan, errors, missed, hidden>>

\* Progress dated `at`: put_progress never clears `watched`, and on_progress
\* sends the stop on the first beat that finds the row watched.
Progress(x, at) ==
  /\ \E crosses \in BOOLEAN :
       row' = [row EXCEPT ![x] = [watched |-> crosses \/ Watched(row[x]), at |-> at]]
  /\ IF session[x] = "open" /\ row'[x].watched
     THEN /\ session' = [session EXCEPT ![x] = "stopped"]
          /\ stops' = stops \cup {x}
     ELSE UNCHANGED <<session, stops>>
  /\ TraktRests

Beat(x) == Progress(x, now) /\ Change("play", x, now)

\* put_progress_at: a player that was offline sends what it recorded then; a
\* row that is newer stands, and nothing else happens.
Replay(x) ==
  \E at \in 1..now :
    /\ row[x] /= NoRow => row[x].at =< at
    /\ Progress(x, at)
    /\ Change("replay", x, at)

\* The stop arrives and Trakt records the play; or it fails.
Stopped(x) ==
  /\ x \in stops
  /\ stops' = stops \ {x}
  /\ \/ /\ history' = [history EXCEPT ![x] = now]
        /\ TraktChanges
        /\ Noticed(x)
        /\ hidden' = IF Running /= {} THEN hidden \cup {x} ELSE hidden
     \/ UNCHANGED <<history, link, copies, missed, hidden>>
  /\ UNCHANGED <<now, row, session, playback, pc, reads, plan, changes, errors>>

\* sweep_loop: a session that went quiet ends with a pause, if it had no stop.
Sweep(x) ==
  /\ session[x] /= "none"
  /\ session' = [session EXCEPT ![x] = "none"]
  /\ \/ /\ session[x] = "open" /\ link.linked
        /\ playback' = [playback EXCEPT ![x] = now]
        /\ TraktChanges
        /\ Noticed(x)
        /\ hidden' = IF Running /= {} THEN hidden \cup {x} ELSE hidden
     \/ UNCHANGED <<playback, link, copies, missed, hidden>>
  /\ UNCHANGED <<now, row, stops, history, pc, reads, plan, changes, errors>>

-----------------------------------------------------------------------------
(* The user elsewhere, and the account *)

\* Trakt keeps every play of an item; the newest is the one that counts.
Later(s, t) == IF s > t THEN s ELSE t

\* A play may be entered with a date of the past.
DeviceWatch(x) ==
  \E at \in 1..now :
    /\ history' = [history EXCEPT ![x] = Later(@, at)]
    /\ Change("watch", x, at)
    /\ TraktChanges /\ UNCHANGED <<local, playback>>

DevicePause(x) ==
  /\ playback' = [playback EXCEPT ![x] = now]
  /\ Change("pause", x, now)
  /\ TraktChanges /\ UNCHANGED <<local, history>>

\* The newest plays are removed, up to one that is `left`, or all of them; no
\* list is kept of the older ones, so any may remain.
DeviceForget(x) ==
  \E left \in {t \in Times : t < history[x]} :
    /\ history' = [history EXCEPT ![x] = left]
    /\ Change("forget", x, IF left = Never THEN now ELSE left)
    /\ TraktChanges /\ UNCHANGED <<local, playback>>

\* unlink forgets the sessions too; link_start puts a row that was never synced.
Unlink ==
  /\ "link" \in Acts /\ link.linked /\ changes < MaxChanges
  /\ changes' = changes + 1
  /\ link' = [linked |-> FALSE, sync |-> Never, acts |-> FALSE]
  /\ session' = [x \in Items |-> "none"]
  /\ UNCHANGED <<now, row, stops, trakt, pc, reads, copies, plan, errors, missed, hidden>>

Link ==
  /\ ~link.linked
  /\ link' = [linked |-> TRUE, sync |-> Never, acts |-> FALSE]
  /\ UNCHANGED <<now, local, trakt, pc, reads, copies, plan, changes, errors, missed, hidden>>

-----------------------------------------------------------------------------
(* A pass *)

\* sync_user_inner up to get_trakt_auth.  Two passes that overlap may decide
\* differently on a hidden item, as they may have read another last_sync_at.
Begin(n) ==
  /\ pc[n] = "idle" /\ link.linked
  /\ since' = [since EXCEPT ![n] = link.sync]
  /\ known' = [known EXCEPT ![n] = link.acts]
  /\ missed' = IF Running = {} THEN missed
               ELSE [m \in Nodes |-> IF m \in Running \cup {n}
                                     THEN missed[m] \cup hidden ELSE missed[m]]
  /\ Go(n, "candidates")
  /\ UNCHANGED <<now, local, trakt, link, seen, remote, fresh, plan, changes, errors, hidden>>

ReadCandidates(n) ==
  /\ pc[n] = "candidates"
  /\ seen' = [seen EXCEPT ![n] = row]
  /\ Go(n, "gate")
  /\ UNCHANGED <<now, local, trakt, link, since, remote, copies, plan, changes, errors, missed, hidden>>

Dirty(rows, sync) == \E x \in Items : rows[x] /= NoRow /\ rows[x].at > sync

End(n) ==
  /\ since' = [since EXCEPT ![n] = Never]
  /\ seen' = [seen EXCEPT ![n] = Nothing]
  /\ remote' = [remote EXCEPT ![n] = None]
  /\ known' = [known EXCEPT ![n] = FALSE]
  /\ fresh' = [fresh EXCEPT ![n] = FALSE]
  /\ plan' = [plan EXCEPT ![n] = NoPlan]
  /\ missed' = [missed EXCEPT ![n] = {}]
  /\ Go(n, "idle")

\* Plausible bug: the gate does not look at this side.
SkipsBlind(same, rows, sync) == same /\ sync > Never

\* The change gate: "nothing changed on either side".
Skips(same, rows, sync) == same /\ ~Dirty(rows, sync) /\ sync > Never

Gate(n) ==
  /\ pc[n] = "gate"
  /\ IF Skips(known[n], seen[n], since[n])
     THEN End(n)
     ELSE /\ fresh' = [fresh EXCEPT ![n] = TRUE]
          /\ Go(n, "watched")
          /\ UNCHANGED <<reads, known, plan, missed>>
  /\ UNCHANGED <<now, local, trakt, link, changes, errors, hidden>>

ReadWatched(n) ==
  /\ pc[n] = "watched"
  /\ remote' = [remote EXCEPT ![n] = history]
  /\ Go(n, "playback")
  /\ UNCHANGED <<now, local, trakt, link, since, seen, copies, plan, changes, errors, missed, hidden>>

\* Plausible bug: the un-watch wins once it was seen by a sync.
WinsIfOld(r, at, sync) == Unwatched(r) /\ r.at > at /\ r.at =< sync

\* plan_sync.  An item watched there and unwatched here is marked here, unless
\* the row is newer than that watch and than the last sync: then the un-watch
\* wins, and the item is removed there.
Wins(r, at, sync) == Unwatched(r) /\ r.at > at /\ r.at > sync

\* Plausible bug: a resume point lands on a watched item too.
ResumesAnyway(r, marked, at) == ~marked /\ (r = NoRow \/ at > r.at)

\* A resume point lands on an item that is not (about to be) watched.
Resumes(r, marked, at) == ~marked /\ ~Watched(r) /\ (r = NoRow \/ at > r.at)

\* What to mark, to resume and to add, each with its time, and to remove.
Plan(rows, watched, paused, sync) ==
  LET there == {x \in Items : watched[x] /= Never}
      wins == {x \in there : Wins(rows[x], watched[x], sync)}
      mark == {x \in there \ wins : ~Watched(rows[x])}
  IN [mark |-> [x \in Items |-> IF x \in mark THEN watched[x] ELSE Never],
      resume |-> [x \in Items |-> IF Resumes(rows[x], x \in mark, paused[x])
                                 THEN paused[x] ELSE Never],
      add |-> [x \in Items |-> IF x \notin there /\ Watched(rows[x])
                              THEN rows[x].at ELSE Never],
      remove |-> wins]

\* The calls the plan still asks for, and the state that waits for them.
Waiting(p) ==
  IF p.mark /= None \/ p.resume /= None THEN "pull"
  ELSE IF p.add /= None THEN "add"
  ELSE IF p.remove /= {} THEN "remove" ELSE "record"

\* The rows and the history are not looked at again.
ReadPlayback(n) ==
  /\ pc[n] = "playback"
  /\ LET p == Plan(seen[n], remote[n], playback, since[n])
     IN plan' = [plan EXCEPT ![n] = p] /\ Go(n, Waiting(p))
  /\ seen' = [seen EXCEPT ![n] = Nothing]
  /\ remote' = [remote EXCEPT ![n] = None]
  /\ UNCHANGED <<now, local, trakt, link, since, copies, changes, errors, missed, hidden>>

\* What a pass writes on an item that changed under it is news to the others.
Spread(n, items) ==
  missed' = [m \in Nodes |-> IF m \in Running THEN missed[m] \cup (items \cap missed[n])
                             ELSE missed[m]]

\* apply_remote_watch, unconditional: the marks, then the resume points.
Pull(n) ==
  /\ pc[n] = "pull"
  /\ \E x \in Items :
        /\ \/ /\ plan[n].mark[x] /= Never
              /\ row' = [row EXCEPT ![x] = [watched |-> TRUE, at |-> plan[n].mark[x]]]
              /\ plan' = [plan EXCEPT ![n].mark[x] = Never]
           \/ /\ plan[n].mark = None /\ plan[n].resume[x] /= Never
              /\ row' = [row EXCEPT ![x] = [watched |-> FALSE, at |-> plan[n].resume[x]]]
              /\ plan' = [plan EXCEPT ![n].resume[x] = Never]
        /\ Spread(n, {x})
  /\ Go(n, Waiting(plan'[n]))
  /\ UNCHANGED <<now, session, stops, trakt, link, reads, copies, changes, errors, hidden>>

\* history_add, chunk by chunk.
Add(n) ==
  /\ pc[n] = "add"
  /\ \E chunk \in SUBSET {x \in Items : plan[n].add[x] /= Never} :
        /\ chunk /= {}
        /\ history' = [x \in Items |-> IF x \in chunk
                                       THEN Later(history[x], plan[n].add[x])
                                       ELSE history[x]]
        /\ plan' = [plan EXCEPT ![n].add = [x \in Items |-> IF x \in chunk THEN Never
                                                             ELSE @[x]]]
        /\ Spread(n, chunk)
  /\ Go(n, IF Waiting(plan'[n]) = "record" THEN "reread" ELSE Waiting(plan'[n]))
  /\ TraktChanges
  /\ UNCHANGED <<now, local, playback, reads, changes, errors, hidden>>

\* history_remove
Remove(n) ==
  /\ pc[n] = "remove"
  /\ history' = [x \in Items |-> IF x \in plan[n].remove THEN Never ELSE history[x]]
  /\ plan' = [plan EXCEPT ![n].remove = {}]
  /\ Spread(n, plan[n].remove)
  /\ Go(n, "reread")
  /\ TraktChanges
  /\ UNCHANGED <<now, local, playback, reads, changes, errors, hidden>>

\* The pass's own pushes are no foreign change; if the answer does not come,
\* the older copy stays.
Reread(n) ==
  /\ pc[n] = "reread"
  /\ \/ fresh' = [fresh EXCEPT ![n] = TRUE] /\ UNCHANGED errors
     \/ UNCHANGED fresh /\ errors < MaxErrors /\ errors' = errors + 1
  /\ Go(n, "record")
  /\ UNCHANGED <<now, local, trakt, link, reads, known, plan, changes, missed, hidden>>

\* set_trakt_sync, which finds no row if the account was unlinked.
Record(n) ==
  /\ pc[n] = "record"
  /\ link' = IF link.linked THEN [link EXCEPT !.sync = now, !.acts = fresh[n]] ELSE link
  /\ hidden' = UNION {missed[m] : m \in Running}
  /\ End(n)
  /\ UNCHANGED <<now, local, trakt, changes, errors>>

\* A call fails, or the process ends: nothing is recorded.
BreakOff(n) ==
  /\ pc[n] /= "idle"
  /\ errors < MaxErrors /\ errors' = errors + 1
  /\ End(n)
  /\ UNCHANGED <<now, local, trakt, link, changes, hidden>>

Tick ==
  /\ now < MaxTime
  /\ now' = now + 1
  /\ UNCHANGED <<local, trakt, link, pc, reads, copies, plan, changes, errors, missed, hidden>>

Step(n) ==
  \/ Begin(n) \/ ReadCandidates(n) \/ Gate(n) \/ ReadWatched(n) \/ ReadPlayback(n)
  \/ Pull(n) \/ Add(n) \/ Remove(n) \/ Reread(n) \/ Record(n)

User(x) ==
  \/ Mark(x) \/ Unmark(x) \/ Start(x) \/ Beat(x) \/ Replay(x)
  \/ Stopped(x) \/ Sweep(x) \/ DeviceWatch(x) \/ DevicePause(x) \/ DeviceForget(x)

Next ==
  \/ \E x \in Items : User(x)
  \/ Unlink \/ Link \/ Tick
  \/ \E n \in Nodes : Step(n) \/ BreakOff(n)

Spec == Init /\ [][Next]_vars

\* The sync loop comes back on every node, every hour and on demand.
FairSpec == Spec /\ \A n \in Nodes : WF_vars(Step(n))

-----------------------------------------------------------------------------
(* Properties *)

Agree(x) == Watched(row[x]) <=> history[x] /= Never

\* The gate never hides a difference: when the next pass would skip ("nothing
\* changed on either side"), Trakt and the library agree on every item, save
\* those that changed while a pass ran or with a date the last sync had passed.
SkipIsSafe ==
  link.linked /\ Skips(link.acts, row, link.sync)
    => \A x \in Items \ hidden : Agree(x)

\* "A matching failure on Trakt's side can never erase local history"
\* (plurx-core trakt.rs:156): a pass takes the mark of a watched item away only
\* if the item changed under it.
NothingErased ==
  [][\A n \in Nodes : \A x \in Items :
       Pull(n) /\ Watched(row[x]) /\ ~Watched(row'[x])
         => x \in missed[n]]_vars

\* "A local un-watch that's newer than the remote watch wins"
\* (FEATURES.md:576): a pass marks an unwatched item only with a watch that is
\* not older, save an item that changed under it, and an un-watch from before
\* the last sync it knows of an item that changed while another pass ran or
\* with an old date.
UnwatchStands ==
  [][\A n \in Nodes : \A x \in Items :
       Pull(n) /\ Unwatched(row[x]) /\ Watched(row'[x])
         => \/ x \in missed[n]
            \/ row'[x].at >= row[x].at
            \/ x \in hidden /\ row[x].at =< since[n]]_vars

\* Once the user rests, both sides come to agree on every item, save the
\* hidden ones.
ChangesArrive ==
  <>[](link.linked => \A x \in Items \ hidden : Agree(x))

\* The statements below do not hold.
\* "A local un-watch that's newer than the remote watch wins (and removes on
\* Trakt)" (FEATURES.md:576), "an *explicit un-watch*" (plurx-core
\* trakt.rs:153): where nobody un-watches or forgets an item, no step removes a
\* play from Trakt's history.  Stated for Acts = {"play"}.
HistoryKept ==
  [][\A x \in Items : history[x] /= Never => history'[x] /= Never]_vars

\* "A local un-watch that's newer than the remote watch wins"
\* (FEATURES.md:576), whenever the remote watch was entered: a pass marks an
\* unwatched item only with a watch that is not older, save an item that
\* changed under it.  Stated for Acts = {"watch"}.
UnwatchWins ==
  [][\A n \in Nodes : \A x \in Items :
       Pull(n) /\ Unwatched(row[x]) /\ Watched(row'[x])
         => x \in missed[n] \/ row'[x].at >= row[x].at]_vars

\* "An explicit un-watch removes on Trakt too" (http/watch.rs:134): both sides
\* agree in the end, whenever the changes were made.
EveryChangeArrives == <>[](link.linked => \A x \in Items : Agree(x))

\* Local history is never erased by a pass, whatever happens meanwhile.
LocalHistoryKept ==
  [][\A x \in Items : Watched(row[x]) => Watched(row'[x])]_vars

\* "Crossing plurx's 95% watched threshold -> scrobble/stop" (FEATURES.md:567):
\* a stop is sent by the beat that crosses it.
StopOnCrossing ==
  [][\A x \in Items : x \in stops' \ stops => ~Watched(row[x])]_vars
=============================================================================
