-------------------------- MODULE OfflinePackages --------------------------
(***************************************************************************)
(* Offline packages on the node that owns them: the coordinator's loop     *)
(* (plurxd's offline.rs, OfflineCoordinator::run), the rows it moves       *)
(* (store/sqlite/offline.rs), the requests that cancel and release them,   *)
(* the kill switch, restarts, and all of TranscodeCache around it.  What   *)
(* may go wrong in a run is listed in Faults.                              *)
(***************************************************************************)
EXTENDS TranscodeCache

CONSTANTS
  UserOf,      \* the user of each package
  Faults,      \* what may happen besides normal operation
  MaxCrashes   \* how often the process dies

ASSUME PackageAssumption ==
  /\ Faults \subseteq {"encoder", "source", "lease", "age", "release", "switch", "expiry",
                "store"}
  /\ MaxCrashes \in Nat

VARIABLES
  step,      \* of the coordinator: "boot", "poll", "claim", "register",
             \* "prepare", "lock", "producing"
  current,   \* the package it claimed last
  dropped,   \* history: the packages a failed call of the store left preparing
  enabled,   \* the setting offline.enabled
  stopping,  \* the kill switch was written, cancel_all is still to come
  releasing, \* the packages whose token was cancelled and whose row is next
  crashes

coordinator == <<step, current, dropped>>
requests == <<enabled, stopping, releasing>>
cacheVars == <<rows, files, production, keepers, viewers, packages>>
vars == <<cacheVars, coordinator, requests, crashes>>

Init ==
  /\ CacheInit
  /\ step = "boot" /\ current = 1 /\ dropped = {}
  /\ enabled = TRUE /\ stopping = FALSE /\ releasing = {} /\ crashes = 0

-----------------------------------------------------------------------------
(* The rows of offline_packages.  Each is one conditional UPDATE.          *)

Move(p, from, to) ==
  package' = IF package[p] \in from THEN [package EXCEPT ![p] = to] ELSE package

Live(p) == package[p] \notin {"none", "gone"}

(* The user with the fewest rows out of the queue first, then by age.      *)
Taken(u) == Cardinality({p \in Packages : /\ UserOf[p] = u /\ Live(p)
                                          /\ package[p] # "queued"})
Before(p, q) == \/ Taken(UserOf[p]) < Taken(UserOf[q])
                \/ Taken(UserOf[p]) = Taken(UserOf[q]) /\ p <= q
Next1 == {p \in Packages : /\ package[p] = "queued"
                           /\ \A q \in Packages : package[q] = "queued" => Before(p, q)}

-----------------------------------------------------------------------------
(* The coordinator.                                                        *)

(* The token of the current package is in the map of active ones.          *)
Registered(p) == p = current /\ step \in {"prepare", "lock", "producing"}

(* Plausible bug: interrupted packages are not requeued.                   *)
BootForgetsInterrupted ==
  /\ step = "boot" /\ step' = "poll"
  /\ UNCHANGED <<current, dropped, cacheVars, requests, crashes>>

Boot ==
  /\ step = "boot" /\ step' = "poll"
  /\ package' = [p \in Packages |-> IF package[p] = "preparing" THEN "queued"
                                    ELSE package[p]]
  /\ dropped' = {}
  /\ UNCHANGED <<current, pins, rows, files, production, keepers, viewers, requests, crashes>>

ReadSetting ==
  /\ step = "poll" /\ enabled /\ step' = "claim"
  /\ UNCHANGED <<current, dropped, cacheVars, requests, crashes>>

ClaimNext ==
  /\ step = "claim"
  /\ \/ /\ Next1 = {} /\ step' = "poll" /\ UNCHANGED <<current, package>>
     \/ \E p \in Next1 : /\ current' = p /\ step' = "register"
                         /\ package' = [package EXCEPT ![p] = "preparing"]
  /\ UNCHANGED <<dropped, pins, rows, files, production, keepers, viewers, requests, crashes>>

Register ==
  /\ step = "register" /\ step' = "prepare"
  /\ cancelled' = cancelled \ {"offline"}
  /\ UNCHANGED <<current, dropped, producer, fence, outcome, rows, files, keepers, viewers,
                 packages, requests, crashes>>

(* prepare looks for the file; ensure_offline then waits for the producer. *)
Prepare ==
  /\ step = "prepare"
  /\ IF RecipeOf[current] \notin sources
     THEN step' = "producing" /\ outcome' = "error"
     ELSE IF "offline" \in cancelled
     THEN step' = "producing" /\ outcome' = "yielded"
     ELSE step' = "lock" /\ UNCHANGED outcome
  /\ UNCHANGED <<current, dropped, producer, cancelled, fence, rows, files, keepers,
                 viewers, packages, requests, crashes>>

Waiting == step = "lock"

Lock ==
  /\ step = "lock" /\ producer.who = NoOne
  /\ IF "offline" \in cancelled
     THEN step' = "producing" /\ outcome' = "yielded" /\ UNCHANGED producer
     ELSE /\ step' = "producing" /\ UNCHANGED outcome
          /\ producer' = Holds("offline", "recipe", RecipeOf[current], 0)
  /\ UNCHANGED <<current, dropped, cancelled, fence, rows, files, keepers, viewers,
                 packages, requests, crashes>>

(* The recipe pins the cache entry; it is written while still preparing.   *)
SetRecipe ==
  /\ At("recipe")
  /\ IF package[current] = "preparing"
     THEN pins' = pins \cup {current} /\ GoTo("lookup")
     ELSE Return(IF Cancelled THEN "yielded" ELSE "error") /\ UNCHANGED pins
  /\ UNCHANGED <<cancelled, fence, package, rows, files, keepers, viewers,
                 coordinator, requests, crashes>>

(* Plausible bug: a recipe somebody else produces counts as produced.      *)
SettleElsewhereAsReady ==
  /\ step = "producing" /\ outcome # "none"
  /\ CASE outcome \in {"done", "elsewhere"} ->
            Move(current, {"queued", "preparing"}, "ready")
       [] outcome = "error" -> Move(current, {"queued", "preparing"}, "failed")
       [] OTHER -> Move(current, {"preparing"}, "queued")
  /\ step' = "poll" /\ outcome' = "none"
  /\ UNCHANGED <<current, dropped, pins, producer, cancelled, fence, rows, files,
                 keepers, viewers, requests, crashes>>

(* publish_ready, requeue or fail, and the token leaves the map.           *)
Settle ==
  /\ step = "producing" /\ outcome # "none"
  /\ CASE outcome = "done" -> Move(current, {"queued", "preparing"}, "ready")
       [] outcome = "error" -> Move(current, {"queued", "preparing"}, "failed")
       [] OTHER -> Move(current, {"preparing"}, "queued")
  /\ step' = "poll" /\ outcome' = "none"
  /\ UNCHANGED <<current, dropped, pins, producer, cancelled, fence, rows, files,
                 keepers, viewers, requests, crashes>>

-----------------------------------------------------------------------------
(* A call of the store fails.  The coordinator logs it and goes on with    *)
(* its loop; what it asked for may have been done or not.  Where that      *)
(* makes no difference to what follows, the call that was done is the      *)
(* action above.                                                           *)
BootFails ==
  /\ step = "boot" /\ step' = "poll"
  /\ dropped' = {p \in Packages : package[p] = "preparing"}
  /\ UNCHANGED <<current, cacheVars, requests, crashes>>

(* A setting that cannot be read is not "off".                             *)
SettingFails ==
  /\ step = "poll" /\ step' = "claim"
  /\ UNCHANGED <<current, dropped, cacheVars, requests, crashes>>

ClaimFails ==
  /\ step = "claim" /\ step' = "poll"
  /\ \/ UNCHANGED <<package, dropped>>
     \/ \E p \in Next1 : /\ package' = [package EXCEPT ![p] = "preparing"]
                         /\ dropped' = dropped \cup {p}
  /\ UNCHANGED <<current, pins, rows, files, production, keepers, viewers, requests,
                 crashes>>

(* prepare cannot look its file up, and requeues.                          *)
PrepareFails ==
  /\ step = "prepare" /\ step' = "producing" /\ outcome' = "yielded"
  /\ UNCHANGED <<current, dropped, producer, cancelled, fence, rows, files, keepers,
                 viewers, packages, requests, crashes>>

(* A call of the producer fails, before or after it did what it was for.   *)
CallFails ==
  /\ producer.step \in {"recipe", "lookup", "claim", "forget", "complete"}
  /\ Return("error")
  /\ UNCHANGED <<cancelled, fence, rows, files, keepers, viewers, packages, coordinator,
                 requests, crashes>>

AnswerLost ==
  /\ ~(Fenced /\ Cancelled) /\ Return("error")
  /\ \/ /\ At("recipe") /\ package[current] = "preparing"
        /\ pins' = pins \cup {current} /\ UNCHANGED <<row, relDir, aged>>
     \/ /\ At("claim") /\ producer.recipe \in sources
        /\ ClaimRow(producer.recipe, producer.gen, Fenced) /\ UNCHANGED pins
     \/ /\ At("complete")
        /\ CompleteRow(producer.recipe, producer.gen, Fenced) /\ UNCHANGED pins
  /\ UNCHANGED <<sources, cancelled, fence, package, files, keepers, viewers, coordinator,
                 requests, crashes>>

SettleFails ==
  /\ step = "producing" /\ outcome # "none"
  /\ step' = "poll" /\ outcome' = "none"
  /\ dropped' = IF package[current] = "preparing" THEN dropped \cup {current} ELSE dropped
  /\ UNCHANGED <<current, producer, cancelled, fence, rows, files, keepers, viewers,
                 packages, requests, crashes>>

StoreFails == \/ BootFails \/ SettingFails \/ ClaimFails \/ PrepareFails
              \/ CallFails \/ AnswerLost \/ SettleFails

Coordinate == \/ Boot \/ ReadSetting \/ ClaimNext \/ Register \/ Prepare
              \/ Lock \/ SetRecipe \/ Settle

-----------------------------------------------------------------------------
(* Requests.                                                               *)

Create(p) ==
  /\ package[p] = "none" /\ \A q \in Packages : q < p => package[q] # "none"
  /\ package' = [package EXCEPT ![p] = "queued"]
  /\ UNCHANGED <<pins, rows, files, production, keepers, viewers, coordinator,
                 requests, crashes>>

Cancel(ps) == cancelled' = IF \E p \in ps : Registered(p)
                           THEN cancelled \cup {"offline"} ELSE cancelled

(* release_package and stop_offline_package: the token, then the row.      *)
CancelPackage(p) ==
  /\ Live(p) /\ p \notin releasing
  /\ Cancel({p})
  /\ releasing' = releasing \cup {p}
  /\ UNCHANGED <<enabled, stopping, producer, fence, outcome, rows, files, keepers,
                 viewers, packages, coordinator, crashes>>

DeletePackage(p) ==
  /\ p \in releasing
  /\ releasing' = releasing \ {p}
  /\ package' = [package EXCEPT ![p] = "gone"]
  /\ UNCHANGED <<enabled, stopping, pins, rows, files, production, keepers, viewers,
                 coordinator, crashes>>

(* The kill switch: the setting, then every active token.                  *)
SwitchOff ==
  /\ enabled /\ ~stopping
  /\ enabled' = FALSE /\ stopping' = TRUE
  /\ UNCHANGED <<releasing, cacheVars, coordinator, crashes>>

CancelAll ==
  /\ stopping /\ stopping' = FALSE
  /\ Cancel(Packages)
  /\ UNCHANGED <<enabled, releasing, producer, fence, outcome, rows, files, keepers,
                 viewers, packages, coordinator, crashes>>

SwitchOn ==
  /\ ~enabled /\ ~stopping /\ enabled' = TRUE
  /\ UNCHANGED <<stopping, releasing, cacheVars, coordinator, crashes>>

(* The coordinator's own sweep of packages past their seven days.          *)
Expire(p) ==
  /\ step = "poll" /\ Live(p)
  /\ package' = [package EXCEPT ![p] = "gone"]
  /\ UNCHANGED <<pins, rows, files, production, keepers, viewers, coordinator,
                 requests, crashes>>

Crash ==
  /\ crashes < MaxCrashes /\ crashes' = crashes + 1
  /\ CacheCrash
  /\ step' = "boot" /\ stopping' = FALSE /\ releasing' = {}
  /\ UNCHANGED <<current, dropped, enabled>>

-----------------------------------------------------------------------------
others == <<coordinator, requests, crashes>>

(* An encoder fails by itself, or for want of the parts it made.           *)
Fails == ("encoder" \in Faults \/ ~Whole) /\ EncodeFails

Cache ==
  /\ \/ PassStarts(Waiting) \/ Produce \/ Fails
     \/ "lease" \in Faults /\ LoseLease
     \/ "age" \in Faults /\ \E r \in Recipes : Age(r)
     \/ "source" \in Faults /\ \E r \in Recipes : LoseSource(r)
     \/ \E k \in Keepers : Sweep(k)
     \/ \E v \in Viewers : View(v)
  /\ UNCHANGED others

Request ==
  \/ \E p \in Packages : Create(p)
  \/ "release" \in Faults /\ \E p \in Packages : CancelPackage(p) \/ DeletePackage(p)
  \/ "switch" \in Faults /\ (SwitchOff \/ CancelAll \/ SwitchOn)
  \/ "expiry" \in Faults /\ \E p \in Packages : Expire(p)

Next == \/ Cache \/ Coordinate \/ Request \/ Crash
        \/ "store" \in Faults /\ StoreFails

Spec == Init /\ [][Next]_vars

(* The tasks of the node run, and a part that is encoded again and again   *)
(* is finished at last, or fails for what is missing: what was done stays. *)
(* The store does not refuse every claim and every look at a file.         *)
Fairness ==
  /\ WF_vars(Coordinate)
  /\ SF_vars(ClaimNext) /\ SF_vars(Prepare)
  /\ WF_vars(Produce /\ UNCHANGED others)
  /\ SF_vars((EncodeFinishes \/ (~Whole /\ EncodeFails)) /\ UNCHANGED others)

FairSpec == Spec /\ Fairness

-----------------------------------------------------------------------------
(* The variables keep their types.                                         *)
TypeOK ==
  /\ CacheTypeOK
  /\ step \in {"boot", "poll", "claim", "register", "prepare", "lock",
               "producing"}
  /\ current \in Packages /\ dropped \subseteq Packages /\ releasing \subseteq Packages
  /\ enabled \in BOOLEAN /\ stopping \in BOOLEAN
  /\ crashes \in 0 .. MaxCrashes

(* The bytes a viewer reads out of an unfenced directory stay until it     *)
(* leaves, whatever sweeps ran and rows vanished meanwhile                 *)
(* (cachekeep.rs, ActiveCacheReaders).                                     *)
PlainReadersKeepTheirBytes ==
  \A v \in Viewers : viewer[v] = "reading" /\ reading[v][2] = 0 => reading[v] \in final

(* ... and so do those of any other directory: what the orphan pass is     *)
(* said to respect.                                                        *)
ReadersKeepTheirBytes ==
  \A v \in Viewers : viewer[v] = "reading" => reading[v] \in final

(* A package is "preparing" only while the coordinator has it, or is about *)
(* to recover it.  The one other way there is a call of the store that     *)
(* failed since the last recovery: the claim, the settlement or the        *)
(* recovery itself (OfflineCoordinator::run).                              *)
Owned(p) == step = "boot" \/ (p = current /\ step \notin {"poll", "claim"})

PreparingIsOwned ==
  \A p \in Packages : package[p] = "preparing" => Owned(p) \/ p \in dropped

(* OFFLINE-VIEWING-PLAN.md: "On startup, rows left `preparing` by a process *)
(* death become `queued`".                                                 *)
StartupRequeues ==
  [][step = "boot" /\ step' = "poll" => \A p \in Packages : package'[p] # "preparing"]_vars

(* A row that is a hit has its directory, except while a sweep deletes the *)
(* entry under its guard (cachekeep.rs, forget).                           *)
HitHasBytes ==
  \A r \in Recipes : row[r] = "complete" =>
    <<r, relDir[r]>> \in final \/ Evicting(r) # {}

(* A ready package can be downloaded as long as its file is there: the row *)
(* of its recipe is complete and names a directory on the disk.            *)
ReadyIsServed ==
  \A p \in Packages :
    LET r == RecipeOf[p] IN
    package[p] = "ready" /\ r \in sources =>
      row[r] = "complete" /\ <<r, relDir[r]>> \in final

(* No sweep deletes the entry of a ready package.                          *)
SweepsSpareReady ==
  [][\A p \in Packages, k \in Keepers :
       package[p] = "ready" => ~(EvictNext(k) /\ \E g \in Gens :
         <<RecipeOf[p], g>> \in final \ final')]_vars

(* Once the kill switch has been thrown and cancel_all has run, the        *)
(* producer of a package has been told to stop.                            *)
SwitchStopsProducer ==
  ~enabled /\ ~stopping /\ producer.who = "offline" => "offline" \in cancelled

(* A queued package is some day ready, failed or gone.                     *)
Settled(p) == package[p] \in {"ready", "failed", "gone"}
QueueMoves == \A p \in Packages : package[p] = "queued" ~> Settled(p)

(* It is, unless the kill switch is thrown, an attempt finds the recipe    *)
(* claimed and nothing to resume, as a crash, a cancelled attempt or a     *)
(* failed call may leave it (offline.rs, run; prepare), or a call of the   *)
(* store failed that leaves it preparing.                                  *)
Stranded(p) ==
  LET r == RecipeOf[p] IN
  outcome = "elsewhere" /\ row[r] = "claimed" /\ staging[<<r, 0>>] = "absent"

QueueMovesUnlessClaimed ==
  \A p \in Packages : package[p] = "queued" ~> 
    Settled(p) \/ ~enabled \/ Stranded(p) \/ p \in dropped
=============================================================================
