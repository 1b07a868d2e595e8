-------------------------- MODULE SessionProducer --------------------------
(***************************************************************************)
(* The life of a transcode session and of the ffmpeg behind it (plurxd's   *)
(* transcode.rs, Session): the tasks that watch, replace, suspend, judge   *)
(* and end a producer, and the gate child_transition they share.  A        *)
(* session has the name of the create that makes it.  SessionRequests adds *)
(* the creates.                                                            *)
(***************************************************************************)
EXTENDS Naturals

CONSTANTS
  Creates,     \* the calls of create_session; each makes at most one session
  Callers,     \* concurrent runs of the flow control
  Keys,        \* request ids
  Players,     \* playback ids
  Scenes,      \* what the creates may ask for, and how often flow control may
               \* decide to hold a producer
  Faults       \* what may go wrong

(* A create asks for a kind of session, "cached" when the cache has it;    *)
(* its intent is its player; a stall reopen is bound to a predecessor.     *)
NotMade == [kind |-> "none"]
NoKey == "no key"
NoSession == "no session"
Ask == [kind : {"cached", "software", "hardware", "copy"}, key : Keys \cup {NoKey},
        player : Players, previous : Creates \cup {NoSession}]

ASSUME ProducerAssumption ==
  /\ Scenes \subseteq [ask : [Creates -> Ask \cup {NotMade}], holds : Nat]
  /\ \A scene \in Scenes : \A c \in Creates :
       LET a == scene.ask[c] IN
       a # NotMade /\ a.previous # NoSession => a.key # NoKey
  /\ NoKey \notin Keys /\ NoSession \notin Creates
  /\ Creates \cap {"free", "ladder", "reader", "dog", "playlist", "stop"} = {}
  /\ Faults \subseteq {"encoder", "wedge", "refuse", "spawn", "capacity",
                       "abandon", "cut", "stop"}

VARIABLES
  ask,    \* what each create asks for; it does not change
  sess,   \* the sessions
  flow,   \* what each run of the flow control is doing
  holds   \* how often one may still decide to hold a producer

producerVars == <<ask, sess, flow, holds>>

(* gate: child_transition.  proc: the child in the slot, and how it ended; *)
(* wedged: its output will not advance; frozen: SIGSTOP reached it.        *)
(* still: the motion clock spans PROGRESS_STALL.  ladder, reader, dog: the *)
(* tasks spawned with a hardware start, a copy and a watchdog's claim.     *)
(* polled: a playlist request found the session and no playlist; ending:   *)
(* how far retire_session is.                                              *)
Fresh ==
  [place |-> "none", gate |-> "free", proc |-> "none", wedged |-> FALSE,
   frozen |-> FALSE, still |-> FALSE, suspended |-> FALSE, failure |-> "none",
   permit |-> "none", dir |-> "gone", ladder |-> "off", reader |-> "off",
   dog |-> "off", polled |-> FALSE, ending |-> "no"]

SessionType ==
  [place : {"none", "starting", "live", "retired"},
   gate : {"free", "ladder", "reader", "dog", "playlist", "stop"} \cup Creates,
   proc : {"none", "running", "done", "failed", "killed"},
   wedged : BOOLEAN, frozen : BOOLEAN, still : BOOLEAN, suspended : BOOLEAN,
   failure : {"none", "exited", "stalled", "refused", "unspawned"},
   permit : {"none", "hardware", "software"}, dir : {"gone", "empty", "made"},
   ladder : {"off", "watching", "deciding", "refusing", "gate", "replacing"},
   reader : {"off", "reading", "gate", "replacing"},
   dog : {"off", "looking", "acting", "killing", "leaving"},
   polled : BOOLEAN, ending : {"no", "removed", "killed"}]

IdleFlow == [at |-> "idle"]
FlowType == {IdleFlow} \cup [at : {"signal", "touch", "store"}, of : Creates,
                             hold : BOOLEAN]

ProducerTypeOK ==
  /\ ask \in {scene.ask : scene \in Scenes}
  /\ sess \in [Creates -> SessionType]
  /\ flow \in [Callers -> FlowType]
  /\ \E scene \in Scenes : holds \in 0 .. scene.holds

ProducerInit ==
  /\ \E scene \in Scenes : ask = scene.ask /\ holds = scene.holds
  /\ sess = [s \in Creates |-> Fresh]
  /\ flow = [u \in Callers |-> IdleFlow]

-----------------------------------------------------------------------------
(* What a session and its producer are.                                    *)

Kind(s) == ask[s].kind
Is(s) == sess[s]
Live(s) == Is(s).place = "live"
Exited(s) == Is(s).proc \in {"done", "failed", "killed"}
Running(s) == Is(s).proc = "running"
Moving(s) == Running(s) /\ ~Is(s).wedged /\ ~Is(s).frozen

(* Tasks and callers keep a session that left the map; with the last of    *)
(* them go its permit and, by kill_on_drop, its child.                     *)
Referenced(s) ==
  \/ Is(s).place \in {"starting", "live"}
  \/ Is(s).ladder # "off" \/ Is(s).reader # "off" \/ Is(s).dog # "off"
  \/ Is(s).ending # "no" \/ Is(s).polled \/ Is(s).gate = "playlist"
  \/ \E u \in Callers : flow[u] # IdleFlow /\ flow[u].of = s

Encodes(s) == Running(s) /\ Referenced(s)
Occupies(s) == Is(s).permit # "none" /\ Referenced(s)

(* s becomes r; all other sessions stay.                                   *)
Set(s, r) == sess' = [sess EXCEPT ![s] = r]

(* Session::fail: the first verdict stays.                                 *)
Verdict(r, why) == [r EXCEPT !.failure = IF @ = "none" THEN why ELSE @]

(* kill_child leaves the handle, with the status, in its slot.             *)
Killed(r) == [r EXCEPT !.proc = IF @ = "running" THEN "killed" ELSE @]

(* clear_session_dir                                                       *)
Cleared(r) == [r EXCEPT !.dir = IF @ = "made" THEN "empty" ELSE @]

(* spawn_ffmpeg after begin_attempt, which restarts the motion clock.      *)
Spawned(r) ==
  [r EXCEPT !.proc = "running", !.wedged = FALSE, !.frozen = FALSE, !.still = FALSE]

-----------------------------------------------------------------------------
(* ffmpeg, and the time that passes.                                       *)

Publish(s) ==
  /\ Moving(s) /\ Is(s).dir = "empty"
  /\ Set(s, [Is(s) EXCEPT !.dir = "made"])

Finish(s) ==
  /\ Moving(s) /\ Is(s).dir = "made"
  /\ Set(s, [Is(s) EXCEPT !.proc = "done"])

Break(s) ==
  /\ Running(s) /\ "encoder" \in Faults
  /\ Set(s, [Is(s) EXCEPT !.proc = "failed"])

Wedge(s) ==
  /\ Moving(s) /\ "wedge" \in Faults
  /\ Set(s, [Is(s) EXCEPT !.wedged = TRUE])

(* A muxer without its directory cannot open its first segment.            *)
FailWithoutDir(s) ==
  /\ Running(s) /\ Is(s).dir = "gone"
  /\ Set(s, [Is(s) EXCEPT !.proc = "failed"])

(* PROGRESS_STALL passes; not between two statements of the flow control.  *)
ClockRuns(s) ==
  /\ Running(s) /\ ~Moving(s) /\ ~Is(s).still
  /\ \A u \in Callers : flow[u].at \in {"touch", "store"} => flow[u].of # s
  /\ Set(s, [Is(s) EXCEPT !.still = TRUE])

Advance(s) == Moving(s) /\ Is(s).still /\ Set(s, [Is(s) EXCEPT !.still = FALSE])

Process(s) == \/ Publish(s) \/ Finish(s) \/ Break(s) \/ Wedge(s)
              \/ FailWithoutDir(s) \/ ClockRuns(s) \/ Advance(s)

-----------------------------------------------------------------------------
(* The task of a hardware start: it watches for a first segment, and when  *)
(* the output stalls without one it replaces the producer once.            *)

LadderLooks(s) ==
  /\ Is(s).ladder = "watching"
  /\ \/ /\ Is(s).failure # "none" \/ (Is(s).dir # "made" /\ Exited(s))
        /\ Set(s, [Is(s) EXCEPT !.ladder = "off"])
     \/ /\ Is(s).failure = "none"
        /\ \/ Is(s).dir = "made"
           \/ ~Exited(s) /\ ~Is(s).suspended /\ Is(s).still
        /\ Set(s, [Is(s) EXCEPT !.ladder = "deciding"])

(* Out of the loop it asks again whether there are segments.               *)
LadderDecides(s) ==
  /\ Is(s).ladder = "deciding"
  /\ \/ /\ Is(s).dir = "made"
        /\ Set(s, [Is(s) EXCEPT !.ladder = "off", !.dog = "looking"])
     \/ Is(s).dir # "made" /\ Set(s, [Is(s) EXCEPT !.ladder = "gate"])
     \/ Is(s).dir # "made" /\ "refuse" \in Faults
          /\ Set(s, Killed([Is(s) EXCEPT !.ladder = "refusing"]))

(* A renderer without a colour-safe fallback: it killed without the gate.  *)
LadderRefuses(s) ==
  /\ Is(s).ladder = "refusing"
  /\ Set(s, Verdict([Is(s) EXCEPT !.ladder = "off"], "refused"))

LadderTakes(s) ==
  /\ Is(s).ladder = "gate" /\ Is(s).gate = "free"
  /\ Set(s, Killed(Cleared([Is(s) EXCEPT !.gate = "ladder", !.ladder = "replacing"])))

(* Plausible bug: the successor has no watchdog.                           *)
LadderReplacesUnwatched(s) ==
  /\ Is(s).ladder = "replacing"
  /\ \E permit \in {Is(s).permit, "software"} :
       Set(s, Spawned([Is(s) EXCEPT !.gate = "free", !.ladder = "off",
                                    !.permit = permit]))

(* A GPU graph goes and the encoder stays, or the software encoder takes   *)
(* over with a forced permit.  A failed session's successor is not watched.*)
LadderReplaces(s) ==
  /\ Is(s).ladder = "replacing"
  /\ \E permit \in {Is(s).permit, "software"} :
       \/ Set(s, Spawned([Is(s) EXCEPT !.gate = "free", !.ladder = "off", !.permit = permit,
                            !.dog = IF Is(s).failure = "none" THEN "looking" ELSE "off"]))
       \/ /\ "spawn" \in Faults
          /\ Set(s, Verdict([Is(s) EXCEPT !.gate = "free", !.ladder = "off", !.permit = permit,
                               !.still = FALSE], "unspawned"))

-----------------------------------------------------------------------------
(* The reader of a copy: a stream it cannot cut goes to ffmpeg's muxer.    *)

ReaderRan(s) ==
  /\ Is(s).reader = "reading" /\ Exited(s)
  /\ Set(s, [Is(s) EXCEPT !.reader = "off"])

ReaderGivesUp(s) ==
  /\ Is(s).reader = "reading" /\ Is(s).dir # "made"
  /\ Set(s, [Is(s) EXCEPT !.reader = IF Is(s).place = "retired" \/ Is(s).failure # "none"
                                         \/ Is(s).dir = "gone" THEN "off" ELSE "gate"])

(* Plausible bug: the lifetime verdicts are not read again under the gate. *)
ReaderTakesUnchecked(s) ==
  /\ Is(s).reader = "gate" /\ Is(s).gate = "free"
  /\ Set(s, Killed(Cleared([Is(s) EXCEPT !.gate = "reader", !.reader = "replacing"])))

ReaderTakes(s) ==
  /\ Is(s).reader = "gate" /\ Is(s).gate = "free"
  /\ IF Is(s).place = "retired" \/ Is(s).failure # "none" \/ Is(s).dir = "gone"
     THEN Set(s, [Is(s) EXCEPT !.reader = "off"])
     ELSE Set(s, Killed(Cleared([Is(s) EXCEPT !.gate = "reader",
                                              !.reader = "replacing"])))

(* A watchdog whose claim stands is left to watch the successor.           *)
ReaderReplaces(s) ==
  /\ Is(s).reader = "replacing"
  /\ \/ Set(s, Spawned([Is(s) EXCEPT !.gate = "free", !.reader = "off",
                                       !.dog = IF @ = "off" THEN "looking" ELSE @]))
     \/ /\ "spawn" \in Faults
        /\ Set(s, Verdict([Is(s) EXCEPT !.gate = "free", !.reader = "off",
                                        !.still = FALSE], "unspawned"))

-----------------------------------------------------------------------------
(* The watchdog.                                                           *)

Replacing(s) == Is(s).gate \in {"ladder", "reader"}
Over(s) == Is(s).failure # "none" \/ Exited(s)
Stalled(s) == ~Over(s) /\ ~Is(s).suspended /\ Is(s).still

DogLooks(s) ==
  /\ Is(s).dog = "looking" /\ ~Replacing(s) /\ (Over(s) \/ Stalled(s))
  /\ Set(s, [Is(s) EXCEPT !.dog = "acting"])

DogTakes(s) ==
  /\ Is(s).dog = "acting" /\ Is(s).gate = "free"
  /\ CASE Over(s) -> Set(s, [Is(s) EXCEPT !.dog = "leaving"])
       [] Stalled(s) -> Set(s, Killed([Is(s) EXCEPT !.gate = "dog", !.dog = "killing"]))
       [] OTHER -> Set(s, [Is(s) EXCEPT !.dog = "looking"])

DogFails(s) ==
  /\ Is(s).dog = "killing"
  /\ Set(s, Verdict([Is(s) EXCEPT !.gate = "free", !.dog = "leaving"], "stalled"))

(* The gate is dropped with the loop's frame, the claim after it.          *)
DogLeaves(s) == Is(s).dog = "leaving" /\ Set(s, [Is(s) EXCEPT !.dog = "off"])

-----------------------------------------------------------------------------
(* A playlist request that found no playlist judges the producer of a      *)
(* session it has seen in the map.  One request at a time.                 *)

PlaylistLooks(s) ==
  /\ Live(s) /\ ~Is(s).polled /\ Is(s).gate # "playlist" /\ Kind(s) # "cached"
  /\ Is(s).dir # "made" /\ Is(s).failure = "none"
  /\ Set(s, [Is(s) EXCEPT !.polled = TRUE])

(* It does not wait for the gate.                                          *)
PlaylistTakes(s) ==
  /\ Is(s).polled
  /\ Set(s, [Is(s) EXCEPT !.polled = FALSE,
                           !.gate = IF @ = "free" /\ Is(s).proc \in {"failed", "killed"}
                                    THEN "playlist" ELSE @])

PlaylistJudges(s) ==
  /\ Is(s).gate = "playlist"
  /\ LET r == [Is(s) EXCEPT !.gate = "free"] IN
     Set(s, IF Live(s) THEN Verdict(r, "exited") ELSE r)

-----------------------------------------------------------------------------
(* retire_session, by stop_session and the idle reaper ("stop") or by a    *)
(* create that supersedes the session.                                     *)

RetireTakes(s, by) ==
  /\ Is(s).gate = "free" /\ Live(s)
  /\ Set(s, [Is(s) EXCEPT !.gate = by, !.place = "retired", !.ending = "removed",
                           !.permit = "none"])

Stop(s) == "stop" \in Faults /\ RetireTakes(s, "stop")

RetireKills(s) ==
  /\ Is(s).ending = "removed"
  /\ Set(s, Killed([Is(s) EXCEPT !.ending = "killed"]))

(* Plausible bug: the directory stays, also for a late replacement.        *)
RetireEndsWithDir(s) ==
  /\ Is(s).ending = "killed"
  /\ Set(s, [Is(s) EXCEPT !.gate = "free", !.ending = "no"])

RetireEnds(s) ==
  /\ Is(s).ending = "killed"
  /\ Set(s, [Is(s) EXCEPT !.gate = "free", !.ending = "no",
                           !.dir = IF Kind(s) = "cached" THEN @ ELSE "gone"])

Ladder(s) == \/ LadderLooks(s) \/ LadderDecides(s) \/ LadderRefuses(s)
             \/ LadderTakes(s) \/ LadderReplaces(s)
Reader(s) == ReaderRan(s) \/ ReaderGivesUp(s) \/ ReaderTakes(s) \/ ReaderReplaces(s)
Watchdog(s) == DogLooks(s) \/ DogTakes(s) \/ DogFails(s) \/ DogLeaves(s)
RetireGoesOn(s) == RetireKills(s) \/ RetireEnds(s)

Task(s) == \/ Ladder(s) \/ Reader(s) \/ Watchdog(s) \/ RetireGoesOn(s)
           \/ PlaylistLooks(s) \/ PlaylistTakes(s) \/ PlaylistJudges(s)

-----------------------------------------------------------------------------
(* apply_ahead_window: a request or the repair loop finds that a producer  *)
(* has to be held, or need not be held any longer.                         *)

FlowReads(u, s) ==
  /\ flow[u] = IdleFlow /\ Live(s) /\ Is(s).dir = "made"
  /\ Is(s).suspended \/ holds > 0
  /\ holds' = IF Is(s).suspended THEN holds ELSE holds - 1
  /\ flow' = [flow EXCEPT ![u] = [at |-> "signal", of |-> s, hold |-> ~Is(s).suspended]]
  /\ UNCHANGED sess

FlowAt(u, at) == flow[u].at = at
FlowGoes(u, at) == flow' = [flow EXCEPT ![u].at = at] /\ UNCHANGED holds
FlowDone(u) == flow' = [flow EXCEPT ![u] = IdleFlow] /\ UNCHANGED holds

(* SIGSTOP or SIGCONT reaches a child that runs; one that has ended takes  *)
(* it too until it is reaped.                                              *)
FlowSignals(u) ==
  /\ FlowAt(u, "signal")
  /\ LET s == flow[u].of IN
     /\ IF Running(s) THEN Set(s, [Is(s) EXCEPT !.frozen = flow[u].hold])
                      ELSE UNCHANGED sess
     /\ \/ Is(s).proc \in {"running", "done", "failed"}
             /\ FlowGoes(u, IF flow[u].hold THEN "store" ELSE "touch")
        \/ ~Running(s) /\ FlowDone(u)

(* Plausible bug: the flag flips before the motion clock restarts.         *)
FlowTouchesLast(u) ==
  \/ FlowAt(u, "touch") /\ FlowGoes(u, "store")
       /\ Set(flow[u].of, [Is(flow[u].of) EXCEPT !.suspended = FALSE])
  \/ FlowAt(u, "store") /\ FlowDone(u)
       /\ Set(flow[u].of, [Is(flow[u].of) EXCEPT !.still = FALSE])

FlowTouches(u) ==
  /\ FlowAt(u, "touch") /\ FlowGoes(u, "store")
  /\ Set(flow[u].of, [Is(flow[u].of) EXCEPT !.still = FALSE])

FlowStores(u) ==
  /\ FlowAt(u, "store") /\ FlowDone(u)
  /\ Set(flow[u].of, [Is(flow[u].of) EXCEPT !.suspended = flow[u].hold])

FlowGoesOn(u) == FlowSignals(u) \/ FlowTouches(u) \/ FlowStores(u)
Flow(u) == (\E s \in Creates : FlowReads(u, s)) \/ FlowGoesOn(u)
=============================================================================
