-------------------------- MODULE SessionRequests --------------------------
(***************************************************************************)
(* Session creation (plurxd's transcode.rs, create_session): the request   *)
(* ids a client may repeat, the reservation a create holds while it works, *)
(* the session it supersedes, and callers that go away in the middle, over *)
(* the sessions of SessionProducer.                                        *)
(***************************************************************************)
EXTENDS SessionProducer

VARIABLES
  step,      \* of each create
  doomed,    \* the sessions its supersession found, until each is dealt with
  requests,  \* request id -> the create that reserved it or its session
  seen,      \* the live sessions a finished create read
  answer     \* the session a create returned

requestVars == <<step, doomed, requests, seen, answer>>
sessionVars == <<producerVars, requestVars>>

Steps == {"idle", "claim", "recover", "forget", "normalize", "reap",
          "retire", "start", "spawned", "inserted", "record", "complete"}
Ends == {"done", "refused", "gone"}

Unused == [state |-> "unused"]
EntryType == {Unused} \cup [state : {"inflight", "ready"}, by : Creates]

SessionTypeOK ==
  /\ ProducerTypeOK
  /\ step \in [Creates -> Steps \cup Ends]
  /\ doomed \in [Creates -> SUBSET Creates] /\ seen \in [Creates -> SUBSET Creates]
  /\ requests \in [Keys -> EntryType]
  /\ answer \in [Creates -> Creates \cup {NoSession}]

SessionInit ==
  /\ ProducerInit
  /\ step = [c \in Creates |-> "idle"]
  /\ doomed = [c \in Creates |-> {}] /\ seen = [c \in Creates |-> {}]
  /\ requests = [k \in Keys |-> Unused]
  /\ answer = [c \in Creates |-> NoSession]

-----------------------------------------------------------------------------
Goes(c, from, to) == step[c] = from /\ step' = [step EXCEPT ![c] = to]
Key(c) == ask[c].key
Player(c) == ask[c].player
Keyed(c) == ask[c] # NotMade /\ Key(c) # NoKey
Entry(c) == requests[Key(c)]
Put(k, entry) == requests' = [requests EXCEPT ![k] = entry]

(* From the reservation to its end the create holds a RequestClaim.        *)
Works(c) == step[c] \in {"normalize", "reap", "retire", "start", "spawned",
                         "inserted", "record", "complete"}
Claims(c) == Keyed(c) /\ Works(c)

(* Plausible bug: nothing clears a reservation that was not completed.     *)
DropKeeps(c) == UNCHANGED requests

(* Drop for RequestClaim.                                                  *)
Drop(c) == IF Claims(c) /\ Entry(c).state = "inflight"
           THEN Put(Key(c), Unused) ELSE UNCHANGED requests

NoSessionChange == UNCHANGED producerVars
Only(c) == UNCHANGED <<doomed, seen, answer>> /\ NoSessionChange

-----------------------------------------------------------------------------
(* create_session and claim_request.                                       *)

Arrive(c) ==
  /\ ask[c] # NotMade
  /\ Goes(c, "idle", IF Keyed(c) THEN "claim" ELSE "reap")
  /\ UNCHANGED requests /\ Only(c)

(* intent_fingerprint: the user and what is asked for.                     *)
Intent(c) == <<Player(c), ask[c].previous>>
Conflict(c) == Entry(c) # Unused /\ Intent(Entry(c).by) # Intent(c)

RefuseConflict(c) ==
  /\ step[c] = "claim" /\ Conflict(c)
  /\ Goes(c, "claim", "refused") /\ UNCHANGED requests /\ Only(c)

(* Plausible bug: the request id is checked and not reserved.              *)
ReserveNothing(c) ==
  /\ step[c] = "claim" /\ Entry(c) = Unused
  /\ Goes(c, "claim", "normalize") /\ UNCHANGED requests /\ Only(c)

Reserve(c) ==
  /\ step[c] = "claim" /\ Entry(c) = Unused
  /\ Goes(c, "claim", "normalize")
  /\ Put(Key(c), [state |-> "inflight", by |-> c]) /\ Only(c)

(* A reservation makes the others wait.                                    *)
Recover(c) ==
  /\ step[c] = "claim" /\ ~Conflict(c) /\ Entry(c).state = "ready"
  /\ Goes(c, "claim", "recover")
  /\ answer' = [answer EXCEPT ![c] = Entry(c).by]
  /\ UNCHANGED <<requests, doomed, seen>> /\ NoSessionChange

(* recover: the session must be there, unfailed.                               *)
LookUp(c) ==
  /\ Goes(c, "recover", IF Live(answer[c]) /\ Is(answer[c]).failure = "none"
                        THEN "done" ELSE "forget")
  /\ UNCHANGED requests /\ Only(c)

(* Exactly the entry that was seen; a peer may have reserved the id since. *)
Forget(c) ==
  /\ Goes(c, "forget", "claim")
  /\ IF Entry(c) = [state |-> "ready", by |-> answer[c]]
     THEN Put(Key(c), Unused) ELSE UNCHANGED requests
  /\ answer' = [answer EXCEPT ![c] = NoSession]
  /\ UNCHANGED <<doomed, seen>> /\ NoSessionChange

(* A stall reopen needs its predecessor, of the same player, in the map.   *)
Bound(c) ==
  ask[c].previous # NoSession =>
    Live(ask[c].previous) /\ Player(ask[c].previous) = Player(c)

Normalize(c) ==
  /\ step[c] = "normalize"
  /\ IF Bound(c) THEN Goes(c, "normalize", "reap") /\ UNCHANGED requests
     ELSE Goes(c, "normalize", "refused") /\ Drop(c)
  /\ Only(c)

-----------------------------------------------------------------------------
(* reap_superseded: the player's sessions, one after the other.            *)

Reap(c) ==
  /\ Goes(c, "reap", "retire")
  /\ doomed' = [doomed EXCEPT ![c] =
                 {s \in Creates : Live(s) /\ Player(s) = Player(c)}]
  /\ UNCHANGED <<requests, seen, answer>> /\ NoSessionChange

RetireBegins(c) ==
  /\ step[c] = "retire" /\ \A s \in doomed[c] : Is(s).gate # c
  /\ \E s \in doomed[c] : RetireTakes(s, c)
  /\ UNCHANGED <<ask, flow, holds, requestVars>>

(* The gate is free again, or somebody else retired the session.           *)
Retired(c) ==
  /\ step[c] = "retire"
  /\ \E s \in doomed[c] :
       /\ Is(s).gate = "free" /\ ~Live(s)
       /\ doomed' = [doomed EXCEPT ![c] = @ \ {s}]
  /\ UNCHANGED <<step, requests, seen, answer>> /\ NoSessionChange

AllRetired(c) ==
  /\ step[c] = "retire" /\ doomed[c] = {}
  /\ Goes(c, "retire", "start") /\ UNCHANGED requests /\ Only(c)

-----------------------------------------------------------------------------
(* start_with_audio_offset and start_copy_with_audio_offset, after the     *)
(* lookups and the admission.                                              *)

Refuse(c) ==
  /\ "capacity" \in Faults /\ step[c] = "start"
  /\ Goes(c, "start", "refused") /\ Drop(c) /\ Only(c)

(* A live start has a directory and a producer before it is registered.    *)
SpawnProducer(c) ==
  /\ Kind(c) # "cached" /\ Goes(c, "start", "spawned")
  /\ Set(c, Spawned([Is(c) EXCEPT !.place = "starting", !.dir = "empty",
                                   !.permit = IF Kind(c) = "copy" THEN "none" ELSE Kind(c)]))
  /\ UNCHANGED <<ask, flow, holds, doomed, requests, seen, answer>>

Insert(c) ==
  /\ Goes(c, "spawned", "inserted") /\ Set(c, [Is(c) EXCEPT !.place = "live"])
  /\ UNCHANGED <<ask, flow, holds, doomed, requests, seen, answer>>

(* Its tasks are spawned after the event is sent, where the request may    *)
(* wait.                                                                   *)
SpawnTasks(c) ==
  /\ Goes(c, "inserted", "record")
  /\ Set(c, [Is(c) EXCEPT !.ladder = IF Kind(c) = "hardware" THEN "watching" ELSE "off",
                           !.reader = IF Kind(c) = "copy" THEN "reading" ELSE "off",
                           !.dog = IF Kind(c) = "hardware" THEN "off" ELSE "looking"])
  /\ UNCHANGED <<ask, flow, holds, doomed, requests, seen, answer>>

(* serve_cached registers a session without a producer.                    *)
ServeCached(c) ==
  /\ Kind(c) = "cached" /\ Goes(c, "start", "record")
  /\ Set(c, [Is(c) EXCEPT !.place = "live", !.dir = "made"])
  /\ UNCHANGED <<ask, flow, holds, doomed, requests, seen, answer>>

(* The live sessions are read under one lock, the requests under another.  *)
Record(c) ==
  /\ Goes(c, "record", IF Keyed(c) THEN "complete" ELSE "done")
  /\ seen' = [seen EXCEPT ![c] = IF Keyed(c) THEN {s \in Creates : Live(s)} ELSE {}]
  /\ answer' = [answer EXCEPT ![c] = c]
  /\ UNCHANGED <<requests, doomed>> /\ NoSessionChange

Pruned(c) == [k \in Keys |-> IF requests[k].state = "ready" /\ requests[k].by \notin seen[c]
                             THEN Unused ELSE requests[k]]

(* RequestClaim::complete                                                  *)
Complete(c) ==
  /\ Goes(c, "complete", "done")
  /\ requests' = IF Pruned(c)[Key(c)] = Unused THEN Pruned(c)
                 ELSE [Pruned(c) EXCEPT ![Key(c)] = [state |-> "ready", by |-> c]]
  /\ seen' = [seen EXCEPT ![c] = {}]
  /\ UNCHANGED <<doomed, answer>> /\ NoSessionChange

(* The client goes away and the request's future is dropped where it       *)
(* waits, with what it holds: its reservation, a producer not yet          *)
(* registered, a gate.                                                     *)
Abandon(c) ==
  /\ "abandon" \in Faults /\ step[c] \notin Ends \cup {"idle", "forget", "complete"}
  /\ LET cut == {s \in doomed[c] : Is(s).gate = c} IN
     /\ cut # {} => "cut" \in Faults
     /\ sess' = [s \in Creates |->
          IF s \in cut THEN [Is(s) EXCEPT !.gate = "free", !.ending = "no"]
          ELSE IF s = c /\ step[c] = "spawned" THEN Fresh ELSE Is(s)]
  /\ step' = [step EXCEPT ![c] = "gone"]
  /\ doomed' = [doomed EXCEPT ![c] = {}] /\ seen' = [seen EXCEPT ![c] = {}]
  /\ answer' = [answer EXCEPT ![c] = NoSession]
  /\ Drop(c) /\ UNCHANGED <<ask, flow, holds>>

Serve(c) ==
  \/ RefuseConflict(c) \/ Reserve(c) \/ Recover(c) \/ LookUp(c)
  \/ Forget(c) \/ Normalize(c) \/ Reap(c) \/ RetireBegins(c) \/ Retired(c)
  \/ AllRetired(c) \/ Refuse(c) \/ SpawnProducer(c) \/ Insert(c) \/ SpawnTasks(c) \/ ServeCached(c)
  \/ Record(c) \/ Complete(c)

Session(s) == (Process(s) \/ Task(s) \/ Stop(s)) /\ UNCHANGED <<ask, flow, holds, requestVars>>
(* reap_loop: nobody asks for a session whose client never learnt of it.   *)
ReapIdle(s) ==
  /\ step[s] = "gone" /\ RetireTakes(s, "stop")
  /\ UNCHANGED <<ask, flow, holds, requestVars>>

FlowControl(u) == Flow(u) /\ UNCHANGED <<ask, requestVars>>

SessionNext == \/ \E c \in Creates : Arrive(c) \/ Serve(c) \/ Abandon(c) \/ Session(c) \/ ReapIdle(c)
        \/ \E u \in Callers : FlowControl(u)

SessionSpec == SessionInit /\ [][SessionNext]_sessionVars

(* The runtime runs every task, every request and the idle reaper, a muxer *)
(* without its directory fails, and time passes.  Nobody need ask for a    *)
(* playlist, stop a session or go away, and no encoder need finish, fail   *)
(* or wedge.  A session has a ladder or a reader, and its gate one holder. *)
OfSession(action) == action /\ UNCHANGED <<ask, flow, holds, requestVars>>
SessionFairness ==
  /\ \A c \in Creates :
       /\ WF_sessionVars(Serve(c)) /\ WF_sessionVars(ReapIdle(c))
       /\ WF_sessionVars(OfSession(Ladder(c) \/ Reader(c)))
       /\ WF_sessionVars(OfSession(Watchdog(c)))
       /\ WF_sessionVars(OfSession(RetireGoesOn(c) \/ PlaylistTakes(c) \/ PlaylistJudges(c)))
       /\ WF_sessionVars(OfSession(FailWithoutDir(c) \/ ClockRuns(c)))
  /\ \A u \in Callers : WF_sessionVars(FlowGoesOn(u) /\ UNCHANGED <<ask, requestVars>>)

SessionFairSpec == SessionSpec /\ SessionFairness

-----------------------------------------------------------------------------
(* A request id is reserved anew only when no create of the same intent is *)
(* at work with it and none that finished has a session that still runs    *)
(* unfailed: a repeated create returns the same session                    *)
(* (transcode.rs:4749, create_session).                                    *)
ReplayFindsItsSession ==
  [][\A c, d \in Creates :
       /\ step[c] = "claim" /\ step'[c] = "normalize"
       /\ d # c /\ Keyed(d) /\ Key(d) = Key(c) /\ Intent(d) = Intent(c)
       => /\ ~Works(d)
          /\ ~(step[d] = "done" /\ answer[d] = d /\ Live(d) /\ Is(d).failure = "none")]_sessionVars

(* A copy or a software session whose retirement is over never encodes     *)
(* again, whatever its tasks had decided before (transcode.rs:6853,        *)
(* retire_session; begin_copy_child_replacement).                          *)
RetiredIsQuiet ==
  \A s \in Creates :
    Is(s).place = "retired" /\ Is(s).ending = "no" /\ Kind(s) # "hardware" => ~Encodes(s)

(* The same of every session: "a late replacement sees `retired`"          *)
(* (transcode.rs:6858).                                                    *)
LateReplacementSeesRetired ==
  \A s \in Creates : Is(s).place = "retired" /\ Is(s).ending = "no" => ~Encodes(s)

(* A session is failed for a producer's exit only when it exited by itself *)
(* and for a stall only when its output cannot advance: never for being    *)
(* replaced, held or ended by the server itself, unless the server has     *)
(* given its renderer up (transcode.rs:1341, child_transition;             *)
(* playlist_producer_failed; apply_ahead_window).                          *)
VerdictsAreTrue ==
  [][\A s \in Creates :
       Is(s).failure = "none" =>
         /\ sess'[s].failure = "exited" => Is(s).proc = "failed" \/ Is(s).ladder = "refusing"
         /\ sess'[s].failure = "stalled" => Is(s).wedged]_sessionVars

(* The encoder of a live session that wedges does not stay: it is          *)
(* replaced, or its session failed, ended or held, also when its client    *)
(* went away before the tasks were spawned.  There are few sessions, so    *)
(* some time later none is stuck (watch_for_stall, downgrade_one_step).    *)
Stuck(s) == /\ Live(s) /\ Running(s) /\ Is(s).wedged
            /\ Is(s).failure = "none" /\ ~Is(s).suspended
StallIsNoticed == []<>(\A s \in Creates : Kind(s) # "copy" => ~Stuck(s))

(* The running producer of a live copy has a watchdog: "without leaving a  *)
(* scheduler-sized gap" (transcode.rs:1260, spawn_watch_for_stall).        *)
SuccessorIsWatched ==
  \A s \in Creates :
    /\ Kind(s) = "copy" /\ step[s] \in {"record", "complete", "done"}
    /\ Live(s) /\ Running(s) /\ Is(s).failure = "none"
    => Is(s).dog # "off"

(* In the end every session that was retired is without an encoder and     *)
(* without a permit, also one whose child was replaced late                *)
(* (transcode.rs:1494, hw_slot: "every way a session can end").            *)
EndedIsReleased ==
  <>[](\A s \in Creates : Is(s).place = "retired" => ~Encodes(s) /\ ~Occupies(s))

(* Every create that arrives ends, without the deadline INFLIGHT_WAIT and  *)
(* whatever becomes of the create it waits behind (transcode.rs:2719,      *)
(* RequestClaim).                                                          *)
CreateEnds == <>[](\A c \in Creates : step[c] \in Ends \cup {"idle"})
=============================================================================
