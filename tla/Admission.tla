----------------------------- MODULE Admission -----------------------------
(***************************************************************************)
(* Who may run an encoder on one node: plurxd's admission.rs (the permit   *)
(* state, its guards and the live/background priority) together with what  *)
(* uses it in transcode.rs: a live start from its place in the queue to    *)
(* its session's teardown, the session's watchers with the one-step        *)
(* downgrade, and the background encoders (pre-transcode parts and the     *)
(* rate-control probe), which have the same shape.                         *)
(*                                                                         *)
(* Every step of PermitState happens under one mutex and is atomic here;   *)
(* everything between two of them is not.  Guards (LiveWait, HwSlot,       *)
(* SwPermit) are values that release on drop: waiting, slotted, sharing,   *)
(* forcing and held are the sets of those who hold one.                    *)
(***************************************************************************)
EXTENDS Naturals, FiniteSets, FiniteSetsExt

CONSTANTS
  Starts,      \* live session starts; each one happens at most once
  Wanted,      \* the encoders, "hardware" or "software", a start may choose
  Producers,   \* background encoders
  Pool,        \* "hardware" | "software": where each producer encodes
  Threads,     \* software_threads() of each start's and producer's work
  HwMax,       \* max_hw_sessions
  SwBudget     \* software_budget

ASSUME AdmissionAssumption ==
  /\ IsFiniteSet(Starts) /\ IsFiniteSet(Producers)
  /\ Starts \cap Producers = {}
  /\ Wanted \in [Starts -> SUBSET {"hardware", "software"}]
  /\ Pool \in [Producers -> {"hardware", "software"}]
  /\ \A x \in Starts \cup Producers : Threads[x] \in Nat \ {0}
  /\ HwMax \in Nat /\ SwBudget \in Nat

VARIABLES
  liveWaiting, hwLive, hwBackground,                  \* PermitState
  swLive, swBackground, swLiveUsed, swBackgroundUsed, \* PermitState
  stage,     \* of a start: "idle", "asking" for a slot, "classify" and
             \* "spill" after its last poll, "granted", "admitted",
             \* "spawned", "live" (registered), "releasing" and "killing"
             \* (retire_session), "retired", "over"
  waiting,   \* the starts that hold a LiveWait
  slotted,   \* those that hold, themselves or in their session, an HwSlot
  sharing,   \* ... a SwPermit
  forcing,   \* ... a SwPermit their downgrade has not handed over yet
  overdrawn, \* history: those whose SwPermit was taken by force
  encoder,   \* the process the session owns: "none" or its pool
  watch,     \* its watcher task: "unborn"; "hardware" and "software" until
             \* it is spawned for a start on that pool; "startup" | "stalled"
             \* | "swapping" | "forced" | "demoted" | "lifetime" | "done"
  gate,      \* child_transition: "free" | "watcher" | "retire"
  part,      \* of a producer: "idle" | "permitted" | "encoding" | "stopped"
  held       \* the producers that hold their permit

permits == <<liveWaiting, hwLive, hwBackground,
             swLive, swBackground, swLiveUsed, swBackgroundUsed>>
guards == <<waiting, slotted, sharing, forcing, overdrawn>>
session == <<stage, encoder, watch, gate>>
background == <<part, held>>
vars == <<permits, guards, session, background>>

Count == 0 .. Cardinality(Starts)
BackgroundCount == 0 .. Cardinality(Producers)

TypeOK ==
  /\ liveWaiting \in Count /\ hwLive \in Count /\ swLive \in Count
  /\ hwBackground \in BackgroundCount /\ swBackground \in BackgroundCount
  /\ swLiveUsed \in Nat /\ swBackgroundUsed \in Nat
  /\ stage \in [Starts -> {"idle", "asking", "classify", "spill", "granted",
                           "admitted", "spawned", "live", "releasing",
                           "killing", "retired", "over"}]
  /\ waiting \subseteq Starts /\ slotted \subseteq Starts
  /\ sharing \subseteq Starts /\ forcing \subseteq Starts
  /\ overdrawn \subseteq Starts
  /\ encoder \in [Starts -> {"none", "hardware", "software"}]
  /\ watch \in [Starts -> {"unborn", "hardware", "software", "startup",
                           "stalled", "swapping", "forced", "demoted",
                           "lifetime", "done"}]
  /\ gate \in [Starts -> {"free", "watcher", "retire"}]
  /\ part \in [Producers -> {"idle", "permitted", "encoding", "stopped"}]
  /\ held \subseteq Producers

Init ==
  /\ liveWaiting = 0 /\ hwLive = 0 /\ hwBackground = 0
  /\ swLive = 0 /\ swBackground = 0 /\ swLiveUsed = 0 /\ swBackgroundUsed = 0
  /\ stage = [s \in Starts |-> "idle"]
  /\ waiting = {}
  /\ slotted = {}
  /\ sharing = {}
  /\ forcing = {}
  /\ overdrawn = {}
  /\ encoder = [s \in Starts |-> "none"]
  /\ watch = [s \in Starts |-> "unborn"]
  /\ gate = [s \in Starts |-> "free"]
  /\ part = [p \in Producers |-> "idle"]
  /\ held = {}

-----------------------------------------------------------------------------
(* PermitState.                                                            *)
LiveActive == hwLive > 0 \/ swLive > 0
BackgroundActive == hwBackground > 0 \/ swBackground > 0
HardwareUsed == hwLive + hwBackground
SoftwareUsed == swLiveUsed + swBackgroundUsed

SaturatingSub(a, b) == IF a >= b THEN a - b ELSE 0

(* Plausible bug: a live start looks at numerical headroom only.           *)
LiveMayTakeAnyway == TRUE

(* The priority test both pools make before they look at capacity.         *)
LiveMayTake == ~BackgroundActive
(* Plausible bug: the live permits are forgotten: only waiters park the    *)
(* producers.                                                              *)
BackgroundMayTakeUnlessWaited == liveWaiting = 0

BackgroundMayTake == liveWaiting = 0 /\ ~LiveActive

(* Plausible bug: capacity is checked before the lock is taken.            *)
HardwareFreeUpTo == HardwareUsed <= HwMax

HardwareFree == HardwareUsed < HwMax
(* Plausible bug: any room at all is taken for enough.                     *)
SoftwareFitsSomehow(weight) == SoftwareUsed <= SwBudget

(* An empty pool grants whatever the weight.                               *)
SoftwareFits(weight) == SoftwareUsed = 0 \/ SoftwareUsed + weight <= SwBudget

TakeLiveShare(weight) ==
  /\ swLive' = swLive + 1
  /\ swLiveUsed' = swLiveUsed + weight

(* Drop of a live HwSlot, of a live SwPermit and of a LiveWait; a guard    *)
(* that is not there has nothing to drop.                                  *)
DropSlot(s) ==
  /\ hwLive' = IF s \in slotted THEN SaturatingSub(hwLive, 1) ELSE hwLive
  /\ slotted' = slotted \ {s}

DropShare(s) ==
  /\ swLive' = IF s \in sharing THEN SaturatingSub(swLive, 1) ELSE swLive
  /\ swLiveUsed' = IF s \in sharing THEN SaturatingSub(swLiveUsed, Threads[s])
                               ELSE swLiveUsed
  /\ sharing' = sharing \ {s}

DropWait(s) ==
  /\ liveWaiting' = SaturatingSub(liveWaiting, 1)
  /\ waiting' = waiting \ {s}

-----------------------------------------------------------------------------
(* A live start: admit_live, then the start's own steps.                   *)
At(s, here) == stage[s] = here
Goto(s, there) == stage' = [stage EXCEPT ![s] = there]

liveHw == <<hwLive, slotted>>
liveSw == <<swLive, swLiveUsed, sharing>>
waiter == <<liveWaiting, waiting>>
backgroundPermits == <<hwBackground, swBackground, swBackgroundUsed>>
process == <<encoder, watch, gate>>
downgrade == <<forcing, overdrawn>>

Queue(s) ==
  /\ At(s, "idle") /\ Goto(s, "asking")
  /\ liveWaiting' = liveWaiting + 1
  /\ waiting' = waiting \cup {s}
  /\ UNCHANGED <<liveHw, liveSw, backgroundPermits, downgrade, process, background>>

(* One poll that succeeds; one that fails changes nothing and is retried   *)
(* until the deadline.                                                     *)
AdmitHardware(s) ==
  /\ At(s, "asking") /\ "hardware" \in Wanted[s]
  /\ LiveMayTake /\ HardwareFree
  /\ hwLive' = hwLive + 1
  /\ slotted' = slotted \cup {s}
  /\ Goto(s, "granted")
  /\ UNCHANGED <<waiter, liveSw, backgroundPermits, downgrade, process, background>>

GrantShare(s) ==
  /\ LiveMayTake /\ SoftwareFits(Threads[s])
  /\ TakeLiveShare(Threads[s])
  /\ sharing' = sharing \cup {s}
  /\ Goto(s, "granted")
  /\ UNCHANGED <<waiter, liveHw, backgroundPermits, downgrade, process, background>>

AdmitSoftware(s) ==
  /\ At(s, "asking") /\ "software" \in Wanted[s]
  /\ GrantShare(s)

(* The start returns an error, or its caller went away: the LiveWait drops. *)
GiveUp(s) ==
  /\ DropWait(s) /\ Goto(s, "over")
  /\ UNCHANGED <<liveHw, liveSw, backgroundPermits, downgrade, process, background>>

Leave(s) == At(s, "asking") /\ GiveUp(s)

(* The poll at the deadline: try_acquire refuses, then admit() looks again *)
(* to say why, then the software pool is asked once.                       *)
LastPoll(s) ==
  /\ At(s, "asking") /\ "hardware" \in Wanted[s]
  /\ ~(LiveMayTake /\ HardwareFree)
  /\ Goto(s, "classify")
  /\ UNCHANGED <<permits, guards, process, background>>

WaitedForBackground(s) == At(s, "classify") /\ BackgroundActive /\ GiveUp(s)

(* What was measured of this class of work decides; both answers occur.    *)
RefusedBySpeed(s) == At(s, "classify") /\ ~BackgroundActive /\ GiveUp(s)

SoftwareWillDo(s) ==
  /\ At(s, "classify") /\ ~BackgroundActive
  /\ Goto(s, "spill")
  /\ UNCHANGED <<permits, guards, process, background>>

SpillToSoftware(s) == At(s, "spill") /\ GrantShare(s)

SoftwareSpent(s) ==
  /\ At(s, "spill")
  /\ ~(LiveMayTake /\ SoftwareFits(Threads[s]))
  /\ GiveUp(s)

(* admit_live returns: the permit exists, the LiveWait drops.              *)
Admitted(s) ==
  /\ At(s, "granted") /\ Goto(s, "admitted")
  /\ DropWait(s)
  /\ UNCHANGED <<liveHw, liveSw, backgroundPermits, downgrade, process, background>>

Granted(s) == IF s \in slotted THEN "hardware" ELSE "software"

Spawn(s) ==
  /\ At(s, "admitted") /\ Goto(s, "spawned")
  /\ encoder' = [encoder EXCEPT ![s] = Granted(s)]
  /\ watch' = [watch EXCEPT ![s] = Granted(s)]
  /\ UNCHANGED <<permits, guards, gate, background>>

(* No directory, no process, or the caller went away: everything drops,    *)
(* and the child is killed on drop.                                        *)
StartFails(s) ==
  /\ stage[s] \in {"admitted", "spawned"} /\ Goto(s, "over")
  /\ DropSlot(s) /\ DropShare(s)
  /\ encoder' = [encoder EXCEPT ![s] = "none"]
  /\ UNCHANGED <<waiter, backgroundPermits, downgrade, watch, gate, background>>

Register(s) ==
  /\ At(s, "spawned") /\ Goto(s, "live")
  /\ UNCHANGED <<permits, guards, process, background>>

(* The watcher is spawned after the session is registered and an event is  *)
(* written: a caller that goes away in between leaves none.                *)
StartWatcher(s) ==
  /\ stage[s] \in {"live", "releasing", "killing", "retired"}
  /\ watch[s] \in {"hardware", "software"}
  /\ \E w \in {IF watch[s] = "hardware" THEN "startup" ELSE "lifetime", "done"} :
       watch' = [watch EXCEPT ![s] = w]
  /\ UNCHANGED <<permits, guards, stage, encoder, gate, background>>

Start(s) ==
  \/ Queue(s) \/ AdmitHardware(s) \/ AdmitSoftware(s) \/ Leave(s)
  \/ LastPoll(s) \/ WaitedForBackground(s) \/ RefusedBySpeed(s)
  \/ SoftwareWillDo(s) \/ SpillToSoftware(s) \/ SoftwareSpent(s)
  \/ Admitted(s) \/ Spawn(s) \/ StartFails(s) \/ Register(s) \/ StartWatcher(s)

-----------------------------------------------------------------------------
(* The watchers of a registered session.                                   *)
Watching(s, from, to) == watch[s] = from /\ watch' = [watch EXCEPT ![s] = to]

EncoderExits(s) ==
  /\ encoder[s] # "none"
  /\ encoder' = [encoder EXCEPT ![s] = "none"]
  /\ UNCHANGED <<permits, guards, stage, watch, gate, background>>

(* Segments are landing, or they landed after the stall was seen: over to  *)
(* the lifetime watchdog.                                                  *)
Healthy(s) ==
  /\ Watching(s, "startup", "lifetime") \/ Watching(s, "stalled", "lifetime")
  /\ UNCHANGED <<permits, guards, stage, encoder, gate, background>>

DiedEarly(s) ==
  /\ encoder[s] = "none" /\ Watching(s, "startup", "done")
  /\ UNCHANGED <<permits, guards, stage, encoder, gate, background>>

(* No segment and no motion.  Nothing is locked after this look.           *)
Stalls(s) ==
  /\ encoder[s] # "none" /\ Watching(s, "startup", "stalled")
  /\ UNCHANGED <<permits, guards, stage, encoder, gate, background>>

(* downgrade_one_step: the renderer has no color-safe fallback.            *)
NoFallback(s) ==
  /\ Watching(s, "stalled", "done")
  /\ encoder' = [encoder EXCEPT ![s] = "none"]
  /\ UNCHANGED <<permits, guards, stage, gate, background>>

(* kill_child_for_replacement; what the session became while the gate was  *)
(* taken is not asked.                                                     *)
BeginSwap(s) ==
  /\ gate[s] = "free" /\ gate' = [gate EXCEPT ![s] = "watcher"]
  /\ Watching(s, "stalled", "swapping")
  /\ encoder' = [encoder EXCEPT ![s] = "none"]
  /\ UNCHANGED <<permits, guards, stage, background>>

TakeForced(s) ==
  /\ Watching(s, "swapping", "forced")
  /\ TakeLiveShare(Threads[s])
  /\ forcing' = forcing \cup {s}
  /\ UNCHANGED <<waiter, liveHw, sharing, overdrawn, backgroundPermits,
                 stage, encoder, gate, background>>

(* demote_to_software gives the slot back ...                              *)
Demote(s) ==
  /\ Watching(s, "forced", "demoted")
  /\ DropSlot(s)
  /\ UNCHANGED <<waiter, liveSw, backgroundPermits, downgrade,
                 stage, encoder, gate, background>>

(* ... and keeps the forced permit; the successor is spawned or is not.    *)
Succeed(s, pool) ==
  /\ gate' = [gate EXCEPT ![s] = "free"]
  /\ \/ /\ encoder' = [encoder EXCEPT ![s] = pool]
        /\ watch' = [watch EXCEPT ![s] = "lifetime"]
     \/ /\ encoder' = [encoder EXCEPT ![s] = "none"]
        /\ watch' = [watch EXCEPT ![s] = "done"]

(* Plausible bug: the hardware slot is returned and the forced permit goes *)
(* with it.                                                                *)
RespawnUnpaid(s) ==
  /\ watch[s] = "demoted" /\ Succeed(s, "software")
  /\ forcing' = forcing \ {s}
  /\ swLive' = SaturatingSub(swLive, 1)
  /\ swLiveUsed' = SaturatingSub(swLiveUsed, Threads[s])
  /\ UNCHANGED <<waiter, liveHw, sharing, overdrawn, backgroundPermits, stage, background>>

RespawnSoftware(s) ==
  /\ watch[s] = "demoted" /\ Succeed(s, "software")
  /\ forcing' = forcing \ {s}
  /\ sharing' = sharing \cup {s}
  /\ overdrawn' = overdrawn \cup {s}
  /\ UNCHANGED <<permits, waiting, slotted, stage, background>>

(* The GPU graph goes and the hardware encoder stays.                      *)
RespawnHardware(s) ==
  /\ watch[s] = "swapping" /\ Succeed(s, "hardware")
  /\ UNCHANGED <<permits, guards, stage, background>>

(* The lifetime watchdog's verdict, exit or stall, under the gate.         *)
LifetimeVerdict(s) ==
  /\ gate[s] = "free" /\ Watching(s, "lifetime", "done")
  /\ encoder' = [encoder EXCEPT ![s] = "none"]
  /\ UNCHANGED <<permits, guards, stage, gate, background>>

Watch(s) ==
  \/ EncoderExits(s) \/ Healthy(s) \/ DiedEarly(s) \/ Stalls(s) \/ NoFallback(s)
  \/ BeginSwap(s) \/ TakeForced(s) \/ Demote(s) \/ RespawnSoftware(s)
  \/ RespawnHardware(s) \/ LifetimeVerdict(s)

-----------------------------------------------------------------------------
(* retire_session: a stop, the reaper, a superseding start.                *)
Retire(s) ==
  /\ At(s, "live") /\ Goto(s, "releasing")
  /\ gate[s] = "free" /\ gate' = [gate EXCEPT ![s] = "retire"]
  /\ UNCHANGED <<permits, guards, encoder, watch, background>>

(* A session holds one of the two, so their order is not seen.             *)
ReleasePermits(s) ==
  /\ At(s, "releasing") /\ Goto(s, "killing")
  /\ DropSlot(s) /\ DropShare(s)
  /\ UNCHANGED <<waiter, backgroundPermits, downgrade, process, background>>

KillRetired(s) ==
  /\ At(s, "killing") /\ Goto(s, "retired")
  /\ encoder' = [encoder EXCEPT ![s] = "none"]
  /\ gate' = [gate EXCEPT ![s] = "free"]
  /\ UNCHANGED <<permits, guards, watch, background>>

(* The last Arc goes with the watcher: what the session still owns drops.  *)
DropSession(s) ==
  /\ At(s, "retired") /\ watch[s] = "done" /\ Goto(s, "over")
  /\ DropSlot(s) /\ DropShare(s)
  /\ encoder' = [encoder EXCEPT ![s] = "none"]
  /\ UNCHANGED <<waiter, backgroundPermits, downgrade, watch, gate, background>>

End(s) == Retire(s) \/ ReleasePermits(s) \/ KillRetired(s) \/ DropSession(s)

-----------------------------------------------------------------------------
(* A background encoder: produce_into and run_part, or the probe.          *)
PartGoes(p, from, to) == part[p] = from /\ part' = [part EXCEPT ![p] = to]

AcquireHardware(p) ==
  /\ Pool[p] = "hardware" /\ BackgroundMayTake /\ HardwareFree
  /\ hwBackground' = hwBackground + 1
  /\ UNCHANGED <<swBackground, swBackgroundUsed>>

AcquireSoftware(p) ==
  /\ Pool[p] = "software" /\ BackgroundMayTake /\ SoftwareFits(Threads[p])
  /\ swBackground' = swBackground + 1
  /\ swBackgroundUsed' = swBackgroundUsed + Threads[p]
  /\ UNCHANGED hwBackground

Acquire(p) ==
  /\ PartGoes(p, "idle", "permitted")
  /\ AcquireHardware(p) \/ AcquireSoftware(p)
  /\ held' = held \cup {p}
  /\ UNCHANGED <<liveHw, liveSw, waiter, downgrade, session>>

SpawnPart(p) ==
  /\ PartGoes(p, "permitted", "encoding") \/ PartGoes(p, "permitted", "stopped")
  /\ UNCHANGED <<permits, guards, session, held>>

(* Plausible bug: a producer makes room for live encoders, not for those   *)
(* who wait to become one.                                                 *)
YieldToActive(p) ==
  /\ PartGoes(p, "encoding", "stopped") /\ LiveActive
  /\ UNCHANGED <<permits, guards, session, held>>

(* run_part sees a live start queuing, kills the child and waits for it.   *)
Yield(p) ==
  /\ PartGoes(p, "encoding", "stopped") /\ liveWaiting > 0
  /\ UNCHANGED <<permits, guards, session, held>>

(* The part finishes, fails, is cancelled, runs out of time, or makes room *)
(* for an offline package.                                                 *)
PartEnds(p) ==
  /\ PartGoes(p, "encoding", "stopped")
  /\ UNCHANGED <<permits, guards, session, held>>

Release(p) ==
  /\ PartGoes(p, "stopped", "idle")
  /\ held' = held \ {p}
  /\ IF Pool[p] = "hardware"
     THEN /\ hwBackground' = SaturatingSub(hwBackground, 1)
          /\ UNCHANGED <<swBackground, swBackgroundUsed>>
     ELSE /\ swBackground' = SaturatingSub(swBackground, 1)
          /\ swBackgroundUsed' = SaturatingSub(swBackgroundUsed, Threads[p])
          /\ UNCHANGED hwBackground
  /\ UNCHANGED <<liveHw, liveSw, waiter, downgrade, session>>

Produce(p) == Acquire(p) \/ SpawnPart(p) \/ Yield(p) \/ PartEnds(p) \/ Release(p)

Next ==
  \/ \E s \in Starts : Start(s) \/ Watch(s) \/ End(s)
  \/ \E p \in Producers : Produce(p)

Spec == Init /\ [][Next]_vars

(* What the code schedules: a start goes through its steps, the watchers   *)
(* and retire_session run on, a producer polls and lets go.  How long a    *)
(* part or a film lasts is not promised, nor is that anybody stops one.  A *)
(* process left behind by a retired session writes to a directory that is  *)
(* gone: it exits, or its watchdog judges it stalled.                      *)
Fairness ==
  /\ \A s \in Starts :
       /\ WF_vars(stage[s] \notin {"idle", "asking"} /\ Start(s))
       /\ WF_vars(stage[s] = "retired" /\ Watch(s))
       /\ WF_vars(stage[s] # "live" /\ End(s))
       /\ WF_vars(TakeForced(s) \/ Demote(s) \/ RespawnSoftware(s) \/ RespawnHardware(s))
  /\ \A p \in Producers : WF_vars(Acquire(p) \/ SpawnPart(p) \/ Yield(p) \/ Release(p))

FairSpec == Spec /\ Fairness

-----------------------------------------------------------------------------
(* Every count is the number of guards alive, and every thread reserved    *)
(* belongs to one: whichever way a start, a session, a downgrade or a part *)
(* ends, nothing is leaked and nothing is given back twice (admission.rs,  *)
(* the Drop implementations and saturating_sub).                           *)
Reserved(S) == MapThenSumSet(LAMBDA x : Threads[x], S)
HeldIn(pool) == {p \in held : Pool[p] = pool}

PermitsMatchGuards ==
  /\ liveWaiting = Cardinality(waiting)
  /\ hwLive = Cardinality(slotted)
  /\ swLive = Cardinality(sharing) + Cardinality(forcing)
  /\ swLiveUsed = Reserved(sharing) + Reserved(forcing)
  /\ hwBackground = Cardinality(HeldIn("hardware"))
  /\ swBackground = Cardinality(HeldIn("software"))
  /\ swBackgroundUsed = Reserved(HeldIn("software"))

(* Racing starts and parts never run more hardware encoders than the cap,  *)
(* counting by the permits they hold (try_acquire).                        *)
HardwareWithinCap ==
  Cardinality(slotted) + Cardinality(HeldIn("hardware")) <= HwMax

(* Only a downgrade's forced permit takes the software pool over budget:   *)
(* the permits that were asked for fit it, or there is just one of them    *)
(* and the pool was empty when it came (try_take, take_forced).            *)
Negotiated == (sharing \ overdrawn) \cup HeldIn("software")

OnlyForceOvercommits ==
  Cardinality(Negotiated) > 1 => Reserved(Negotiated) <= SwBudget

(* The encoder of a session nobody has retired is paid for: its process    *)
(* runs only under the permit of its pool, through the downgrade too.      *)
InService(s) == stage[s] \in {"spawned", "live"}

EncodersArePaidFor ==
  \A s \in Starts : InService(s) =>
    /\ encoder[s] = "hardware" => s \in slotted
    /\ encoder[s] = "software" => s \in sharing

(* While a viewer's session is in service no background encoder runs: a    *)
(* live start waits until the producer's process is gone, and the live     *)
(* permit keeps producers parked until the session ends, also while the    *)
(* encoder is being replaced (admission.rs, PermitState).                  *)
ViewersEncodeAlone ==
  \A s \in Starts, p \in Producers : InService(s) => part[p] # "encoding"

(* No handoff gap: from the moment a live start queues until its session   *)
(* is retired or it gives up, no step gives a background encoder a permit  *)
(* (admit_live holds the LiveWait until the permit exists; demote takes    *)
(* the software permit before it returns the slot).                        *)
Served(s) == stage[s] \in {"asking", "classify", "spill", "granted",
                           "admitted", "spawned", "live"}

NoHandoffGap ==
  [][\A s \in Starts, p \in Producers :
       Served(s) /\ Served(s)' => (p \in held' => p \in held)]_vars

(* retire_session, transcode.rs:6855-6859: "Whichever wins is therefore    *)
(* complete before the other can act: a late replacement sees `retired`,   *)
(* while a late retirement kills the published successor."  So no session  *)
(* that has been retired runs an encoder.                                  *)
RetiredRunsNothing ==
  \A s \in Starts : stage[s] = "retired" => encoder[s] = "none"

(* A queued live start does not wait forever behind a background encoder:  *)
(* the producers let go, or the start stopped waiting (run_part's poll).   *)
ProducersYield ==
  \A s \in Starts : (s \in waiting) ~> (~BackgroundActive \/ s \notin waiting)

(* No guard is lost: once no start is in progress and no session is left,  *)
(* each producer gets its permit, again and again; a count left too high   *)
(* would park it for the life of the process (admission.rs, LiveWait).     *)
Quiet == \A s \in Starts : stage[s] \in {"idle", "over", "retired"}

ProducersComeBack ==
  <>[]Quiet => \A p \in Producers : []<>(p \in held)
=============================================================================
