----------------------- MODULE OfflinePackages_proofs -----------------------
(***************************************************************************)
(* A node's cache and its offline packages, for any number of recipes,     *)
(* packages, sweeps, viewers and passes, and any faults.                   *)
(*                                                                         *)
(* Readers: a sweep deletes what is published only under a guard that no   *)
(* reader of the recipe lets it have, and a reader never holds a plain     *)
(* directory without its guard.  The queue: only the coordinator makes a   *)
(* package "preparing", and it leaves the loop body through Settle, dies,  *)
(* or has a call of the store fail, which is what `dropped` notes.         *)
(*                                                                         *)
(* Downloads: without sweeps and scheduled passes the coordinator is the   *)
(* only producer (HeldInv), the row it works on is its own from the claim  *)
(* to the end (RowInv), a complete row stays until the file is gone, and   *)
(* an attempt succeeds only with a complete row (the last part of HeldInv).*)
(***************************************************************************)
EXTENDS OfflinePackages, TLAPS

Rows == {"none", "claimed", "complete"}
Stagings == {"absent", "empty", "parts", "torn", "flat"}
ProducerSteps == {"idle", "recipe", "lookup", "hit", "claim", "temp", "encode",
                  "forget", "place", "placing", "rename", "complete"}
Producers == [who : {NoOne, "pass", "offline"}, step : ProducerSteps,
              recipe : Recipes, gen : Gens, taken : BOOLEAN, made : BOOLEAN]
Outcomes == {"none", "done", "yielded", "elsewhere", "error"}
Phases == {"idle", "stale", "budget", "snapshot", "published", "staged"}
States == {"none", "queued", "preparing", "ready", "failed", "gone"}

RowTypes ==
  /\ row \in [Recipes -> Rows] /\ relDir \in [Recipes -> Gens]
  /\ aged \subseteq Recipes /\ sources \subseteq Recipes
FileTypes == staging \in [Dirs -> Stagings] /\ final \subseteq Dirs
ProductionTypes ==
  /\ producer \in Producers /\ cancelled \subseteq {"pass", "offline"}
  /\ fence \in Gens /\ outcome \in Outcomes
KeeperTypes ==
  /\ phase \in [Keepers -> Phases]
  /\ listed \in [Keepers -> SUBSET Dirs] /\ hand \in [Keepers -> SUBSET Dirs]
  /\ removed \in [Keepers -> SUBSET Recipes]
  /\ known \in [Keepers -> SUBSET Dirs] /\ claims \in [Keepers -> SUBSET Recipes]
ViewerTypes ==
  /\ viewer \in [Viewers -> {"idle", "looking", "reading"}]
  /\ reading \in [Viewers -> Dirs] /\ served \subseteq Recipes
PackageTypes == package \in [Packages -> States] /\ pins \subseteq Packages
CoordinatorTypes ==
  /\ step \in {"boot", "poll", "claim", "register", "prepare", "lock", "producing"}
  /\ current \in Packages /\ dropped \subseteq Packages /\ releasing \subseteq Packages
  /\ enabled \in BOOLEAN /\ stopping \in BOOLEAN
  /\ crashes \in 0 .. MaxCrashes

Types == /\ RowTypes /\ FileTypes /\ ProductionTypes /\ KeeperTypes /\ ViewerTypes
         /\ PackageTypes /\ CoordinatorTypes

-----------------------------------------------------------------------------
(* Types                                                                   *)

LEMMA SomeDir == NoDir \in Dirs /\ NoDir[1] \in Recipes /\ 0 \in Gens /\ Gens \subseteq Nat
<1>1. 0 \in Gens /\ Gens \subseteq Nat
      BY CacheAssumption DEF Gens
<1>2. PICK r \in Recipes : TRUE
      BY CacheAssumption
<1>3. <<r, 0>> \in Dirs
      BY <1>1, <1>2 DEF Dirs
<1>4. NoDir \in Dirs
      BY <1>3 DEF NoDir
<1> QED BY <1>1, <1>4 DEF Dirs

LEMMA HoldsTyped ==
  /\ Idle \in Producers
  /\ \A who \in {NoOne, "pass", "offline"}, s \in ProducerSteps, r \in Recipes, g \in Gens :
       Holds(who, s, r, g) \in Producers
BY SomeDir DEF Idle, Holds, Producers, ProducerSteps

LEMMA ProducerFields ==
  ASSUME producer \in Producers
  PROVE  /\ producer.recipe \in Recipes /\ producer.gen \in Gens /\ Dir \in Dirs
         /\ \A s \in ProducerSteps : [producer EXCEPT !.step = s] \in Producers
         /\ \A s \in ProducerSteps, g \in Gens :
              [producer EXCEPT !.step = s, !.gen = g] \in Producers
         /\ \A s \in ProducerSteps : \A b \in BOOLEAN :
              /\ [producer EXCEPT !.step = s, !.taken = b] \in Producers
              /\ [producer EXCEPT !.step = s, !.made = b] \in Producers
BY DEF Producers, Dir, Dirs

LEMMA TypesInit == Init => Types
<1> SUFFICES ASSUME Init PROVE Types
    OBVIOUS
<1> USE SomeDir, HoldsTyped DEF Init, CacheInit
<1>1. RowTypes /\ FileTypes
      BY DEF RowTypes, FileTypes, Rows, Stagings
<1>2. ProductionTypes
      BY DEF ProductionTypes, Outcomes
<1>3. KeeperTypes /\ ViewerTypes
      BY DEF KeeperTypes, ViewerTypes, Phases
<1>4. PackageTypes
      BY DEF PackageTypes, States
<1>5. CoordinatorTypes
  <2>1. 1 \in Packages /\ 0 \in 0 .. MaxCrashes
        BY CacheAssumption, PackageAssumption DEF Packages
  <2> QED BY <2>1 DEF CoordinatorTypes
<1> QED BY <1>1, <1>2, <1>3, <1>4, <1>5 DEF Types

LEMMA ReturnTyped ==
  ASSUME ProductionTypes, NEW result \in Outcomes, Return(result)
  PROVE  producer' \in Producers /\ outcome' \in Outcomes
BY HoldsTyped DEF ProductionTypes, Return

LEMMA GoToTyped ==
  ASSUME ProductionTypes, NEW s \in ProducerSteps, GoTo(s)
  PROVE  producer' \in Producers /\ outcome' \in Outcomes
BY ProducerFields DEF ProductionTypes, GoTo

LEMMA ForgetRowTyped ==
  ASSUME RowTypes, NEW r \in Recipes, ForgetRow(r)
  PROVE  row' \in [Recipes -> Rows] /\ relDir' \in [Recipes -> Gens] /\ aged' \subseteq Recipes
BY SomeDir DEF RowTypes, ForgetRow, Rows

\* The steps of a producer.
LEMMA ProduceTyped ==
  ASSUME Types, Produce \/ EncodeFails
  PROVE  RowTypes' /\ FileTypes' /\ ProductionTypes'
<1>t. RowTypes /\ FileTypes /\ ProductionTypes
      BY DEF Types
<1>p. /\ producer \in Producers /\ producer.recipe \in Recipes /\ producer.gen \in Gens
      /\ Dir \in Dirs
      BY <1>t, ProducerFields DEF ProductionTypes
<1>r. UNCHANGED rows => RowTypes'
      BY <1>t DEF RowTypes, rows
<1>f. UNCHANGED files => FileTypes'
      BY <1>t DEF FileTypes, files
<1>c. ASSUME producer' \in Producers, outcome' \in Outcomes, UNCHANGED <<cancelled, fence>>
      PROVE  ProductionTypes'
      BY <1>c, <1>t DEF ProductionTypes
<1>s. ASSUME NEW left \in Stagings, staging' = [staging EXCEPT ![Dir] = left], final' = final
      PROVE  FileTypes'
      BY <1>s, <1>t DEF FileTypes
<1>ret. ASSUME NEW result \in Outcomes, Return(result), UNCHANGED <<cancelled, fence>>
        PROVE  ProductionTypes'
        BY <1>ret, <1>t, <1>c, ReturnTyped
<1>go. ASSUME NEW s \in ProducerSteps, GoTo(s), UNCHANGED <<cancelled, fence>>
       PROVE  ProductionTypes'
       BY <1>go, <1>t, <1>c, GoToTyped
<1>l. /\ {"done", "yielded", "elsewhere", "error"} \subseteq Outcomes
      /\ {"claim", "temp", "encode", "place", "placing", "rename", "complete", "forget", "hit"}
           \subseteq ProducerSteps
      /\ {"absent", "empty", "parts", "torn", "flat"} \subseteq Stagings
      BY DEF Outcomes, ProducerSteps, Stagings
<1>1. CASE Lookup
  <2>1. UNCHANGED <<rows, files>> /\ UNCHANGED <<cancelled, fence>>
        BY <1>1 DEF Lookup
  <2>2. CASE Return("yielded")
        BY <2>1, <2>2, <1>r, <1>f, <1>ret, <1>l
  <2>3. CASE GoTo("claim")
        BY <2>1, <2>3, <1>r, <1>f, <1>go, <1>l
  <2>4. CASE /\ producer' = [producer EXCEPT !.step = "hit", !.gen = relDir[producer.recipe]]
             /\ UNCHANGED outcome
    <3>1. relDir[producer.recipe] \in Gens
          BY <1>p, <1>t DEF RowTypes
    <3>2. producer' \in Producers
          BY <2>4, <3>1, <1>p, <1>l, ProducerFields
    <3> QED BY <2>1, <2>4, <3>2, <1>r, <1>f, <1>c, <1>t DEF ProductionTypes
  <2> QED BY <1>1, <2>2, <2>3, <2>4 DEF Lookup
<1>2. CASE ReadHit
  <2>1. \E result \in Outcomes : Return(result)
        BY <1>2, <1>l DEF ReadHit
  <2> QED BY <1>2, <2>1, <1>r, <1>f, <1>ret DEF ReadHit
<1>3. CASE Claim
  <2>1. UNCHANGED <<cancelled, fence>> /\ UNCHANGED files
        BY <1>3 DEF Claim
  <2>2. CASE Return("error") /\ UNCHANGED rows
        BY <2>1, <2>2, <1>r, <1>f, <1>ret, <1>l
  <2>3. CASE /\ producer' =
                  [producer EXCEPT !.step = "temp",
                                   !.taken = MayClaim(producer.recipe, Fenced)]
             /\ ClaimRow(producer.recipe, producer.gen, Fenced)
             /\ UNCHANGED <<outcome, sources>>
    <3>1. MayClaim(producer.recipe, Fenced) \in BOOLEAN
          BY DEF MayClaim
    <3>2. producer' \in Producers
          BY <2>3, <3>1, <1>p, <1>l, ProducerFields
    <3>3. RowTypes'
          BY <2>3, <1>t, <1>p DEF ClaimRow, RowTypes, Rows
    <3> QED BY <2>1, <2>3, <3>2, <3>3, <1>f, <1>c, <1>t DEF ProductionTypes
  <2> QED BY <1>3, <2>2, <2>3 DEF Claim
<1>4. CASE MakeTemp
  <2>1. UNCHANGED <<final, cancelled, fence>> /\ UNCHANGED rows
        BY <1>4 DEF MakeTemp
  <2>2. CASE UNCHANGED staging /\ \E result \in {"yielded", "elsewhere"} : Return(result)
        BY <2>1, <2>2, <1>r, <1>f, <1>ret, <1>l DEF files
  <2>3. CASE /\ producer' = [producer EXCEPT !.step = "encode",
                                             !.made = staging[Dir] \in {"parts", "torn"}]
             /\ staging' = [staging EXCEPT ![Dir] = IF @ = "absent" THEN "empty" ELSE @]
             /\ UNCHANGED outcome
    <3>1. (staging[Dir] \in {"parts", "torn"}) \in BOOLEAN
          OBVIOUS
    <3>2. producer' \in Producers
          BY <2>3, <3>1, <1>p, <1>l, ProducerFields
    <3>3. staging' \in [Dirs -> Stagings]
          BY <2>3, <1>t, <1>p, <1>l DEF FileTypes
    <3> QED BY <2>1, <2>3, <3>2, <3>3, <1>r, <1>c, <1>t DEF ProductionTypes, FileTypes
  <2> QED BY <1>4, <2>2, <2>3 DEF MakeTemp
<1>5. CASE EncodeFinishes
      BY <1>5, <1>r, <1>s, <1>go, <1>l DEF EncodeFinishes
<1>6. CASE EncodeYields
  <2>1. \E left \in Stagings : staging' = [staging EXCEPT ![Dir] = left]
    <3>1. staging[Dir] \in Stagings
          BY <1>t, <1>p DEF FileTypes
    <3>2. Interrupted \in Stagings
          BY <1>l DEF Interrupted
    <3> QED BY <1>6, <3>1, <3>2 DEF EncodeYields
  <2>2. aged' \subseteq Recipes
        BY <1>6, <1>t DEF EncodeYields, TouchClaim, RowTypes
  <2>3. RowTypes'
        BY <1>6, <2>2, <1>t DEF EncodeYields, RowTypes
  <2> QED BY <1>6, <2>1, <2>3, <1>s, <1>ret, <1>l DEF EncodeYields
<1>d. CASE Discard
      BY <1>d, <1>r, <1>s, <1>go, <1>l DEF Discard
<1>7. CASE ForgetClaim
  <2>1. RowTypes'
    <3>1. CASE UNCHANGED <<row, relDir, aged>>
          BY <1>7, <3>1, <1>t DEF ForgetClaim, RowTypes
    <3>2. CASE ForgetRow(producer.recipe)
          BY <1>7, <3>2, <1>t, <1>p, ForgetRowTyped DEF ForgetClaim, RowTypes
    <3> QED BY <1>7, <3>1, <3>2 DEF ForgetClaim
  <2> QED BY <1>7, <2>1, <1>f, <1>ret, <1>l DEF ForgetClaim
<1>8. CASE PlaceBegins
  <2>1. UNCHANGED <<final, cancelled, fence>> /\ UNCHANGED rows
        BY <1>8 DEF PlaceBegins
  <2>2. CASE Return("yielded") /\ UNCHANGED staging
        BY <2>1, <2>2, <1>r, <1>f, <1>ret, <1>l DEF files
  <2>3. CASE GoTo("placing") /\ staging' = [staging EXCEPT ![Dir] = "torn"]
        BY <2>1, <2>3, <1>r, <1>s, <1>go, <1>l
  <2> QED BY <1>8, <2>2, <2>3 DEF PlaceBegins
<1>9. CASE PlaceEnds
      BY <1>9, <1>r, <1>s, <1>go, <1>l DEF PlaceEnds
<1>10. CASE Publish
  <2>1. UNCHANGED <<cancelled, fence>> /\ UNCHANGED rows
        BY <1>10 DEF Publish
  <2>2. CASE UNCHANGED files /\ \E result \in {"yielded", "error"} : Return(result)
        BY <2>1, <2>2, <1>r, <1>f, <1>ret, <1>l
  <2>3. CASE /\ staging' = [staging EXCEPT ![Dir] = "absent"]
             /\ final' = final \cup {Dir} /\ GoTo("complete")
    <3>1. FileTypes'
          BY <2>3, <1>t, <1>p, <1>l DEF FileTypes
    <3> QED BY <2>1, <2>3, <3>1, <1>r, <1>go, <1>l
  <2> QED BY <1>10, <2>2, <2>3 DEF Publish
<1>11. CASE Complete
  <2>1. UNCHANGED <<cancelled, fence>> /\ UNCHANGED files /\ sources' = sources
        BY <1>11 DEF Complete
  <2>2. \E result \in Outcomes : Return(result)
        BY <1>11, <1>l DEF Complete
  <2>3. RowTypes'
        BY <1>11, <2>1, <1>t, <1>p DEF Complete, CompleteRow, RowTypes, Rows
  <2> QED BY <2>1, <2>2, <2>3, <1>f, <1>ret
<1> QED BY <1>1, <1>2, <1>3, <1>4, <1>5, <1>6, <1>d, <1>7, <1>8, <1>9, <1>10, <1>11
        DEF Produce, PlaceFails, EncodeFails

\* Those of a sweep.
LEMMA SweepTyped ==
  ASSUME Types, NEW k \in Keepers, Sweep(k)
  PROVE  /\ RowTypes' /\ FileTypes' /\ KeeperTypes' /\ ViewerTypes'
         /\ UNCHANGED <<production, packages>>
<1>t. RowTypes /\ FileTypes /\ KeeperTypes /\ ViewerTypes
      BY DEF Types
<1>u. UNCHANGED <<production, packages>>
      BY DEF Sweep, SweepStarts, EvictNext, ForgetEvicted, BudgetStarts, ReadRows, WalkPublished,
             WalkStaging, RemoveOrphan, RemoveStaging, SweepEnds
<1>r. UNCHANGED rows => RowTypes'
      BY <1>t DEF RowTypes, rows
<1>f. UNCHANGED files => FileTypes'
      BY <1>t DEF FileTypes, files
<1>v. UNCHANGED viewers => ViewerTypes'
      BY <1>t DEF ViewerTypes, viewers
<1>d. \A S \in SUBSET Recipes : RowDirs(S) \in SUBSET Dirs
      BY <1>t DEF RowDirs, RowTypes, Dirs
<1>e. ASSUME NEW from, NEW to \in Phases, NEW work \in SUBSET Dirs, Enter(k, from, to, work)
      PROVE  phase' \in [Keepers -> Phases] /\ listed' \in [Keepers -> SUBSET Dirs]
      BY <1>e, <1>t DEF Enter, KeeperTypes
<1>p. Phases = {"idle", "stale", "budget", "snapshot", "published", "staged"}
      BY DEF Phases
<1>1. CASE SweepStarts(k)
  <2>1. RowDirs(StaleClaims) \in SUBSET Dirs
        BY <1>d DEF StaleClaims
  <2> QED BY <1>1, <2>1, <1>t, <1>u, <1>r, <1>f, <1>v, <1>e, <1>p DEF SweepStarts, KeeperTypes
<1>2. CASE EvictNext(k)
  <2>1. PICK d \in listed[k] :
           \/ /\ listed' = [listed EXCEPT ![k] = @ \ {d}]
              /\ hand' = [hand EXCEPT ![k] = {d}]
              /\ final' = final \ {d}
           \/ /\ \/ listed' = [listed EXCEPT ![k] = {}]
                 \/ listed' = [listed EXCEPT ![k] = @ \ {d}]
              /\ UNCHANGED <<hand, final>>
        BY <1>2, <1>t DEF EvictNext, KeeperTypes
  <2>2. listed[k] \in SUBSET Dirs /\ d \in Dirs
        BY <2>1, <1>t DEF KeeperTypes
  <2>3. listed' \in [Keepers -> SUBSET Dirs] /\ hand' \in [Keepers -> SUBSET Dirs] /\ final' \subseteq Dirs
        BY <2>1, <2>2, <1>t DEF KeeperTypes, FileTypes
  <2> QED BY <1>2, <2>3, <1>t, <1>u, <1>r, <1>v DEF EvictNext, KeeperTypes, FileTypes
<1>3. CASE ForgetEvicted(k)
  <2>1. PICK d \in hand[k] :
          /\ ForgetRow(d[1])
          /\ hand' = [hand EXCEPT ![k] = {}]
          /\ removed' = IF phase[k] = "stale"
                        THEN [removed EXCEPT ![k] = @ \cup {d[1]}] ELSE removed
          /\ served' = served \ {d[1]}
          /\ UNCHANGED <<phase, listed, known, claims, sources, files, production,
                         viewer, reading, packages>>
        BY <1>3 DEF ForgetEvicted
  <2>2. d[1] \in Recipes
        BY <1>t DEF KeeperTypes, Dirs
  <2>3. RowTypes'
        BY <2>1, <2>2, <1>t, ForgetRowTyped DEF RowTypes
  <2>4. KeeperTypes'
        BY <2>1, <2>2, <1>t DEF KeeperTypes
  <2>5. ViewerTypes'
        BY <2>1, <1>t DEF ViewerTypes
  <2> QED BY <2>1, <2>3, <2>4, <2>5, <1>u, <1>f
<1>4. CASE BudgetStarts(k)
  <2>1. RowDirs(Evictable) \in SUBSET Dirs
        BY <1>d DEF Evictable
  <2>2. \E cold \in SUBSET Dirs : Enter(k, "stale", "budget", cold)
        BY <1>4, <2>1 DEF BudgetStarts
  <2> QED BY <1>4, <2>2, <1>t, <1>u, <1>r, <1>f, <1>v, <1>e, <1>p DEF BudgetStarts, KeeperTypes
<1>5. CASE ReadRows(k)
  <2>1. RowDirs({r \in Recipes : row[r] # "none"}) \in SUBSET Dirs
        BY <1>d
  <2>2. known' \in [Keepers -> SUBSET Dirs] /\ claims' \in [Keepers -> SUBSET Recipes]
        BY <1>5, <2>1, <1>t DEF ReadRows, KeeperTypes
  <2>3. phase' \in [Keepers -> Phases] /\ listed' \in [Keepers -> SUBSET Dirs]
    <3>1. Enter(k, "budget", "snapshot", {})
          BY <1>5 DEF ReadRows
    <3>2. "snapshot" \in Phases /\ {} \in SUBSET Dirs
          BY <1>p
    <3> QED BY <3>1, <3>2, <1>e
  <2> QED BY <1>5, <2>2, <2>3, <1>t, <1>u, <1>r, <1>f, <1>v DEF ReadRows, KeeperTypes
<1>6. CASE WalkPublished(k)
  <2>1. (final \ known[k]) \in SUBSET Dirs
        BY <1>t DEF FileTypes
  <2> QED BY <1>6, <2>1, <1>t, <1>u, <1>r, <1>f, <1>v, <1>e, <1>p DEF WalkPublished, KeeperTypes
<1>7. CASE WalkStaging(k)
  <2>1. {d \in Dirs : staging[d] # "absent" /\ d[1] \notin claims[k]} \in SUBSET Dirs
        OBVIOUS
  <2> QED BY <1>7, <2>1, <1>t, <1>u, <1>r, <1>f, <1>v, <1>e, <1>p DEF WalkStaging, KeeperTypes
<1>l. ASSUME NEW d, listed' = [listed EXCEPT ![k] = @ \ {d}],
             UNCHANGED <<phase, hand, removed, known, claims>>
      PROVE  KeeperTypes'
      BY <1>l, <1>t DEF KeeperTypes
<1>8. CASE RemoveOrphan(k)
  <2>1. PICK d \in listed[k] :
          /\ listed' = [listed EXCEPT ![k] = @ \ {d}]
          /\ final' = final \ {d} \/ final' = final
          /\ served' = served \ {d[1]} \/ served' = served
        BY <1>8 DEF RemoveOrphan
  <2>2. FileTypes' /\ ViewerTypes'
        BY <1>8, <2>1, <1>t DEF RemoveOrphan, FileTypes, ViewerTypes
  <2> QED BY <1>8, <2>1, <2>2, <1>u, <1>r, <1>l DEF RemoveOrphan
<1>9. CASE RemoveStaging(k)
  <2>1. PICK d \in listed[k] :
          /\ listed' = [listed EXCEPT ![k] = @ \ {d}]
          /\ staging' = [staging EXCEPT ![d] = "absent"] \/ staging' = staging
          /\ served' = served \ {d[1]} \/ served' = served
        BY <1>9 DEF RemoveStaging
  <2>2. FileTypes' /\ ViewerTypes'
        BY <1>9, <2>1, <1>t DEF RemoveStaging, FileTypes, ViewerTypes, Stagings
  <2> QED BY <1>9, <2>1, <2>2, <1>u, <1>r, <1>l DEF RemoveStaging
<1>10. CASE SweepEnds(k)
  <2>1. phase' \in [Keepers -> Phases] /\ listed' \in [Keepers -> SUBSET Dirs]
        BY <1>10, <1>e, <1>p DEF SweepEnds
  <2>2. KeeperTypes'
        BY <1>10, <2>1, <1>t DEF SweepEnds, KeeperTypes
  <2> QED BY <1>10, <2>2, <1>u, <1>r, <1>f, <1>v DEF SweepEnds
<1> QED BY <1>1, <1>2, <1>3, <1>4, <1>5, <1>6, <1>7, <1>8, <1>9, <1>10 DEF Sweep

\* And a viewer's.
LEMMA ViewTyped ==
  ASSUME Types, NEW v \in Viewers, View(v)
  PROVE  ViewerTypes' /\ UNCHANGED <<rows, files, production, keepers, packages>>
<1>t. RowTypes /\ ViewerTypes
      BY DEF Types
<1>r. reading[v] \in Dirs /\ reading[v][1] \in Recipes
      BY <1>t DEF ViewerTypes, Dirs
<1>d. ASSUME DropRead(v) PROVE ViewerTypes'
      BY <1>d, <1>t, <1>r, SomeDir DEF DropRead, ViewerTypes
<1>1. CASE BeginRead(v)
  <2>1. PICK r \in Recipes : reading' = [reading EXCEPT ![v] = <<r, 0>>]
        BY <1>1 DEF BeginRead
  <2>2. <<r, 0>> \in Dirs
        BY SomeDir DEF Dirs
  <2> QED BY <1>1, <2>1, <2>2, <1>t DEF BeginRead, ViewerTypes
<1>2. CASE OpenEntry(v)
  <2>1. CASE DropRead(v)
        BY <1>2, <2>1, <1>d DEF OpenEntry
  <2>2. CASE ~DropRead(v)
    <3>1. <<reading[v][1], relDir[reading[v][1]]>> \in Dirs
          BY <1>t, <1>r DEF RowTypes, Dirs
    <3> QED BY <1>2, <2>2, <3>1, <1>t DEF OpenEntry, ViewerTypes
  <2> QED BY <2>1, <2>2
<1>3. CASE EndRead(v)
      BY <1>3, <1>d DEF EndRead
<1> QED BY <1>1, <1>2, <1>3 DEF View

\* The coordinator's, and what requests do to it.
LEMMA CoordinateTyped ==
  ASSUME Types, Coordinate
  PROVE  /\ ProductionTypes' /\ PackageTypes' /\ CoordinatorTypes'
         /\ UNCHANGED <<rows, files, keepers, viewers>>
<1>t. ProductionTypes /\ PackageTypes /\ CoordinatorTypes
      BY DEF Types
<1>u. UNCHANGED <<rows, files, keepers, viewers>>
      BY DEF Coordinate, Boot, ReadSetting, ClaimNext, Register, Prepare, Lock, SetRecipe, Settle,
             cacheVars
<1>1. CASE Boot
  <2>1. PackageTypes'
        BY <1>1, <1>t DEF Boot, PackageTypes, States
  <2> QED BY <1>1, <2>1, <1>u, <1>t DEF Boot, ProductionTypes, production, CoordinatorTypes, requests
<1>2. CASE ReadSetting
      BY <1>2, <1>u, <1>t DEF ReadSetting, PackageTypes, packages, ProductionTypes, production,
                              CoordinatorTypes, requests, cacheVars
<1>3. CASE ClaimNext
  <2>1. PackageTypes' /\ current' \in Packages /\ step' \in {"poll", "register"}
        BY <1>3, <1>t DEF ClaimNext, PackageTypes, States, Next1, CoordinatorTypes
  <2> QED BY <1>3, <2>1, <1>u, <1>t DEF ClaimNext, ProductionTypes, production, CoordinatorTypes, requests
<1>4. CASE Register
      BY <1>4, <1>u, <1>t DEF Register, PackageTypes, packages, ProductionTypes, CoordinatorTypes, requests
<1>5. CASE Prepare
      BY <1>5, <1>u, <1>t DEF Prepare, PackageTypes, packages, ProductionTypes, Outcomes,
                              CoordinatorTypes, requests
<1>6. CASE Lock
  <2>1. RecipeOf[current] \in Recipes
        BY <1>t, CacheAssumption DEF CoordinatorTypes
  <2>2. producer' \in Producers /\ outcome' \in Outcomes
        BY <1>6, <2>1, <1>t, HoldsTyped, SomeDir DEF Lock, ProductionTypes, Outcomes, ProducerSteps
  <2> QED BY <1>6, <2>2, <1>u, <1>t DEF Lock, PackageTypes, packages, ProductionTypes, CoordinatorTypes, requests
<1>7. CASE SetRecipe
  <2>1. pins' \subseteq Packages
        BY <1>7, <1>t DEF SetRecipe, PackageTypes, CoordinatorTypes
  <2>2. GoTo("lookup") \/ \E result \in {"yielded", "error"} : Return(result)
        BY <1>7 DEF SetRecipe
  <2>3. producer' \in Producers /\ outcome' \in Outcomes
        BY <2>2, <1>t, GoToTyped, ReturnTyped DEF Outcomes, ProducerSteps
  <2> QED BY <1>7, <2>1, <2>3, <1>u, <1>t DEF SetRecipe, PackageTypes, ProductionTypes,
             CoordinatorTypes, coordinator, requests
<1>8. CASE Settle
  <2>1. package' \in [Packages -> States]
    <3>1. \E from, to : to \in States /\ Move(current, from, to)
          BY <1>8 DEF Settle, States
    <3> QED BY <3>1, <1>t DEF Move, PackageTypes
  <2> QED BY <1>8, <2>1, <1>u, <1>t DEF Settle, PackageTypes, ProductionTypes, Outcomes,
             CoordinatorTypes, requests
<1> QED BY <1>1, <1>2, <1>3, <1>4, <1>5, <1>6, <1>7, <1>8 DEF Coordinate

LEMMA StoreFailsTyped ==
  ASSUME Types, StoreFails
  PROVE  /\ RowTypes' /\ ProductionTypes' /\ PackageTypes' /\ CoordinatorTypes'
         /\ UNCHANGED <<files, keepers, viewers>>
<1>t. /\ RowTypes /\ ProductionTypes /\ PackageTypes /\ CoordinatorTypes
      BY DEF Types
<1>r. UNCHANGED rows => RowTypes'
      BY <1>t DEF RowTypes, rows
<1>u. UNCHANGED <<files, keepers, viewers>>
      BY DEF StoreFails, BootFails, SettingFails, ClaimFails, PrepareFails, CallFails, AnswerLost,
             SettleFails, cacheVars
<1>e. ASSUME Return("error") PROVE producer' \in Producers /\ outcome' \in Outcomes
      BY <1>e, <1>t, ReturnTyped DEF Outcomes
<1>1. CASE BootFails \/ SettingFails
  <2>1. dropped' \subseteq Packages
        BY <1>1, <1>t DEF BootFails, SettingFails, CoordinatorTypes
  <2> QED BY <1>1, <2>1, <1>t, <1>r, <1>u DEF BootFails, SettingFails, PackageTypes, packages,
             ProductionTypes, production, CoordinatorTypes, requests, cacheVars
<1>2. CASE ClaimFails
  <2>1. PackageTypes' /\ dropped' \subseteq Packages
        BY <1>2, <1>t DEF ClaimFails, PackageTypes, States, Next1, CoordinatorTypes
  <2> QED BY <1>2, <2>1, <1>t, <1>r, <1>u DEF ClaimFails, ProductionTypes, production,
             CoordinatorTypes, requests
<1>3. CASE PrepareFails
      BY <1>3, <1>t, <1>r, <1>u DEF PrepareFails, PackageTypes, packages, ProductionTypes, Outcomes,
             CoordinatorTypes, requests
<1>4. CASE CallFails
      BY <1>4, <1>e, <1>t, <1>r, <1>u DEF CallFails, PackageTypes, packages, ProductionTypes,
             CoordinatorTypes, coordinator, requests
<1>5. CASE AnswerLost
  <2>1. pins' \subseteq Packages
        BY <1>5, <1>t DEF AnswerLost, PackageTypes, CoordinatorTypes
  <2>2. RowTypes'
    <3>1. producer.recipe \in Recipes /\ producer.gen \in Gens
          BY <1>t, ProducerFields DEF ProductionTypes
    <3>2. CASE UNCHANGED <<row, relDir, aged>>
          BY <1>5, <3>2, <1>t DEF AnswerLost, RowTypes
    <3>3. CASE ClaimRow(producer.recipe, producer.gen, Fenced)
          BY <1>5, <3>1, <3>3, <1>t DEF AnswerLost, ClaimRow, RowTypes, Rows
    <3>4. CASE CompleteRow(producer.recipe, producer.gen, Fenced)
          BY <1>5, <3>1, <3>4, <1>t DEF AnswerLost, CompleteRow, RowTypes, Rows
    <3> QED BY <1>5, <3>2, <3>3, <3>4 DEF AnswerLost
  <2>3. ProductionTypes' /\ CoordinatorTypes'
        BY <1>5, <1>e, <1>t DEF AnswerLost, ProductionTypes, CoordinatorTypes, coordinator, requests
  <2> QED BY <1>5, <2>1, <2>2, <2>3, <1>t, <1>u DEF AnswerLost, PackageTypes
<1>6. CASE SettleFails
  <2>1. dropped' \subseteq Packages
        BY <1>6, <1>t DEF SettleFails, CoordinatorTypes
  <2> QED BY <1>6, <2>1, <1>t, <1>r, <1>u DEF SettleFails, PackageTypes, packages, ProductionTypes,
             Outcomes, CoordinatorTypes, requests
<1> QED BY <1>1, <1>2, <1>3, <1>4, <1>5, <1>6 DEF StoreFails

LEMMA RequestTyped ==
  ASSUME Types, Request
  PROVE  /\ ProductionTypes' /\ PackageTypes' /\ CoordinatorTypes'
         /\ UNCHANGED <<rows, files, keepers, viewers, step, current, dropped, producer, outcome>>
<1>t. ProductionTypes /\ PackageTypes /\ CoordinatorTypes
      BY DEF Types
<1>1. ASSUME NEW p \in Packages, Create(p) \/ DeletePackage(p) \/ Expire(p)
      PROVE  /\ ProductionTypes' /\ PackageTypes' /\ CoordinatorTypes'
             /\ UNCHANGED <<rows, files, keepers, viewers, step, current, dropped, producer, outcome>>
  <2>1. PackageTypes'
        BY <1>1, <1>t DEF Create, DeletePackage, Expire, PackageTypes, States
  <2> QED BY <1>1, <2>1, <1>t DEF Create, DeletePackage, Expire, ProductionTypes, production,
             CoordinatorTypes, coordinator, requests
<1>2. ASSUME NEW p \in Packages, CancelPackage(p)
      PROVE  /\ ProductionTypes' /\ PackageTypes' /\ CoordinatorTypes'
             /\ UNCHANGED <<rows, files, keepers, viewers, step, current, dropped, producer, outcome>>
      BY <1>2, <1>t DEF CancelPackage, Cancel, ProductionTypes, PackageTypes, packages,
             CoordinatorTypes, coordinator
<1>3. CASE SwitchOff \/ CancelAll \/ SwitchOn
      BY <1>3, <1>t DEF SwitchOff, CancelAll, SwitchOn, Cancel, cacheVars, ProductionTypes, production,
             PackageTypes, packages, CoordinatorTypes, coordinator
<1> QED BY <1>1, <1>2, <1>3 DEF Request

LEMMA CrashTyped ==
  ASSUME Types, Crash
  PROVE  Types'
<1>t. /\ RowTypes /\ FileTypes /\ ProductionTypes /\ KeeperTypes /\ ViewerTypes
      /\ PackageTypes /\ CoordinatorTypes
      BY DEF Types
<1> USE DEF Crash, CacheCrash
<1>1. RowTypes' /\ FileTypes'
      BY <1>t DEF RowTypes, FileTypes, rows, files
<1>2. ProductionTypes'
      BY <1>t, HoldsTyped DEF ProductionTypes, Outcomes
<1>3. KeeperTypes' /\ ViewerTypes'
      BY SomeDir DEF KeeperTypes, ViewerTypes, Phases
<1>4. PackageTypes'
      BY <1>t DEF PackageTypes, packages
<1>5. CoordinatorTypes'
  <2>1. crashes' \in 0 .. MaxCrashes
        BY <1>t, PackageAssumption DEF CoordinatorTypes
  <2> QED BY <2>1, <1>t DEF CoordinatorTypes
<1> QED BY <1>1, <1>2, <1>3, <1>4, <1>5 DEF Types

LEMMA TypesStep == Types /\ [Next]_vars => Types'
<1> SUFFICES ASSUME Types, [Next]_vars PROVE Types'
    OBVIOUS
<1>t. /\ RowTypes /\ FileTypes /\ ProductionTypes /\ KeeperTypes /\ ViewerTypes
      /\ PackageTypes /\ CoordinatorTypes
      BY DEF Types
<1>r. UNCHANGED rows => RowTypes'
      BY <1>t DEF RowTypes, rows
<1>f. UNCHANGED files => FileTypes'
      BY <1>t DEF FileTypes, files
<1>p. UNCHANGED production => ProductionTypes'
      BY <1>t DEF ProductionTypes, production
<1>k. UNCHANGED keepers => KeeperTypes'
      BY <1>t DEF KeeperTypes, keepers
<1>v. UNCHANGED viewers => ViewerTypes'
      BY <1>t DEF ViewerTypes, viewers
<1>g. UNCHANGED packages => PackageTypes'
      BY <1>t DEF PackageTypes, packages
<1>o. UNCHANGED others => CoordinatorTypes'
      BY <1>t DEF CoordinatorTypes, others, coordinator, requests
<1>1. CASE UNCHANGED vars
  <2>1. UNCHANGED <<rows, files, production, keepers, viewers, packages>> /\ UNCHANGED others
        BY <1>1 DEF vars, cacheVars, others
  <2> QED BY <2>1, <1>r, <1>f, <1>p, <1>k, <1>v, <1>g, <1>o DEF Types
<1>2. CASE Cache
  <2>o. CoordinatorTypes'
        BY <1>2, <1>o DEF Cache
  <2>1. CASE PassStarts(Waiting)
    <3>1. ProductionTypes'
      <4>1. fence + 1 \in Gens
            BY <2>1, <1>t, CacheAssumption DEF PassStarts, ProductionTypes, Gens
      <4>2. sources \subseteq Recipes
            BY <1>t DEF RowTypes
      <4>3. producer' \in Producers
            BY <2>1, <4>1, <4>2, HoldsTyped DEF PassStarts, ProducerSteps
      <4> QED BY <2>1, <4>1, <4>3, <1>t DEF PassStarts, ProductionTypes
    <3> QED BY <2>1, <2>o, <3>1, <1>r, <1>f, <1>k, <1>v, <1>g DEF PassStarts, Types
  <2>2. CASE Produce \/ EncodeFails
    <3>1. RowTypes' /\ FileTypes' /\ ProductionTypes'
          BY <2>2, ProduceTyped
    <3>2. UNCHANGED <<keepers, viewers, packages>>
          BY <2>2 DEF Produce, Lookup, ReadHit, Claim, MakeTemp, EncodeFinishes, EncodeYields,
                 ForgetClaim, PlaceBegins, PlaceEnds, PlaceFails, Publish, Complete, EncodeFails, Discard
    <3> QED BY <2>o, <3>1, <3>2, <1>k, <1>v, <1>g DEF Types
  <2>3. CASE LoseLease
    <3>1. ProductionTypes'
          BY <2>3, <1>t DEF LoseLease, ProductionTypes
    <3> QED BY <2>3, <2>o, <3>1, <1>r, <1>f, <1>k, <1>v, <1>g DEF LoseLease, Types
  <2>4. ASSUME NEW r \in Recipes, Age(r) PROVE Types'
    <3>1. RowTypes'
          BY <2>4, <1>t DEF Age, RowTypes
    <3> QED BY <2>4, <2>o, <3>1, <1>f, <1>p, <1>k, <1>v, <1>g DEF Age, Types
  <2>5. ASSUME NEW r \in Recipes, LoseSource(r) PROVE Types'
    <3>1. RowTypes'
          BY <2>5, <1>t, ForgetRowTyped DEF LoseSource, RowTypes
    <3> QED BY <2>5, <2>o, <3>1, <1>f, <1>p, <1>k, <1>v, <1>g DEF LoseSource, Types
  <2>6. ASSUME NEW k \in Keepers, Sweep(k) PROVE Types'
        BY <2>6, <2>o, SweepTyped, <1>p, <1>g DEF Types
  <2>7. ASSUME NEW v \in Viewers, View(v) PROVE Types'
        BY <2>7, <2>o, ViewTyped, <1>r, <1>f, <1>p, <1>k, <1>g DEF Types
  <2> QED BY <1>2, <2>1, <2>2, <2>3, <2>4, <2>5, <2>6, <2>7 DEF Cache, Fails
<1>3. CASE Coordinate
      BY <1>3, CoordinateTyped, <1>r, <1>f, <1>k, <1>v DEF Types
<1>4. CASE Request
      BY <1>4, RequestTyped, <1>r, <1>f, <1>k, <1>v DEF Types
<1>5. CASE Crash
      BY <1>5, CrashTyped
<1>6. CASE StoreFails
      BY <1>6, StoreFailsTyped, <1>f, <1>k, <1>v DEF Types
<1> QED BY <1>1, <1>2, <1>3, <1>4, <1>5, <1>6 DEF Next

LEMMA TypesAlways == Spec => []Types
BY TypesInit, TypesStep, PTL DEF Spec

\* Types, for any recipes, packages, sweeps, viewers, passes and faults.
THEOREM TypesHold == Spec => []TypeOK
<1>1. Types => TypeOK
  <2> SUFFICES ASSUME Types PROVE TypeOK
      OBVIOUS
  <2>1. CacheTypeOK
        BY DEF Types, CacheTypeOK, RowTypes, FileTypes, ProductionTypes, KeeperTypes, ViewerTypes,
               PackageTypes, Rows, Stagings, Producers, ProducerSteps, Outcomes, Phases, States
  <2> QED BY <2>1 DEF Types, CoordinatorTypes, TypeOK, Packages
<1> QED BY <1>1, TypesAlways, PTL

-----------------------------------------------------------------------------
(* Readers                                                                 *)

LEMMA NobodyReads ==
  ASSUME NEW v \in Viewers, NEW d \in Dirs, Unguarded(d[1]), viewer[v] = "reading"
  PROVE  reading[v] # d
BY DEF Unguarded, Reading

LEMMA ReadersStep == Types /\ PlainReadersKeepTheirBytes /\ [Next]_vars => PlainReadersKeepTheirBytes'
<1> SUFFICES ASSUME Types, PlainReadersKeepTheirBytes, [Next]_vars,
                    NEW v \in Viewers, viewer'[v] = "reading", reading'[v][2] = 0
             PROVE  reading'[v] \in final'
    BY DEF PlainReadersKeepTheirBytes
<1>t. KeeperTypes /\ ViewerTypes /\ FileTypes /\ RowTypes
      BY DEF Types
<1>k. ASSUME UNCHANGED <<viewer, reading>>, final \subseteq final' PROVE reading'[v] \in final'
      BY <1>k DEF PlainReadersKeepTheirBytes
<1>1. CASE UNCHANGED vars
      BY <1>1, <1>k DEF vars, cacheVars, viewers, files
<1>2. CASE Cache
  <2>1. CASE PassStarts(Waiting) \/ LoseLease
        BY <2>1, <1>k DEF PassStarts, LoseLease, viewers, files
  <2>2. CASE Produce \/ EncodeFails
        BY <2>2, <1>k DEF Produce, Lookup, ReadHit, Claim, MakeTemp, EncodeFinishes, EncodeYields,
               ForgetClaim, PlaceBegins, PlaceEnds, PlaceFails, Publish, Complete, EncodeFails, Discard,
               viewers, files
  <2>3. ASSUME NEW r \in Recipes, Age(r) \/ LoseSource(r) PROVE reading'[v] \in final'
        BY <2>3, <1>k DEF Age, LoseSource, viewers, files
  <2>4. ASSUME NEW k \in Keepers, Sweep(k) PROVE reading'[v] \in final'
    <3>u. UNCHANGED <<viewer, reading>>
          BY <2>4 DEF Sweep, SweepStarts, EvictNext, ForgetEvicted, BudgetStarts, ReadRows,
                 WalkPublished, WalkStaging, RemoveOrphan, RemoveStaging, SweepEnds, viewers
    <3>v. viewer[v] = "reading" /\ reading[v] \in final /\ reading[v] \in Dirs
          BY <3>u, <1>t DEF PlainReadersKeepTheirBytes, ViewerTypes
    <3>1. CASE EvictNext(k)
      <4>1. PICK d \in listed[k] : final' = final \/ (final' = final \ {d} /\ Unguarded(d[1]))
            BY <3>1 DEF EvictNext
      <4>2. d \in Dirs
            BY <1>t DEF KeeperTypes
      <4> QED BY <4>1, <4>2, <3>u, <3>v, NobodyReads
    <3>2. CASE RemoveOrphan(k)
      <4>1. PICK d \in listed[k] : final' = final \/ (final' = final \ {d} /\ OrphanFree(d))
            BY <3>2 DEF RemoveOrphan
      <4>2. d \in Dirs
            BY <1>t DEF KeeperTypes
      <4> QED BY <4>1, <4>2, <3>u, <3>v, NobodyReads DEF OrphanFree
    <3>3. CASE ~EvictNext(k) /\ ~RemoveOrphan(k)
          BY <2>4, <3>3, <3>u, <1>k DEF Sweep, SweepStarts, ForgetEvicted, BudgetStarts, ReadRows,
                 WalkPublished, WalkStaging, RemoveStaging, SweepEnds, files
    <3> QED BY <3>1, <3>2, <3>3
  <2>5. ASSUME NEW w \in Viewers, View(w) PROVE reading'[v] \in final'
    <3>f. final' = final
          BY <2>5 DEF View, BeginRead, OpenEntry, EndRead, files
    <3>1. CASE w # v
      <4>1. viewer'[v] = viewer[v] /\ reading'[v] = reading[v]
            BY <2>5, <3>1, <1>t DEF View, BeginRead, OpenEntry, EndRead, DropRead, ViewerTypes
      <4> QED BY <4>1, <3>f DEF PlainReadersKeepTheirBytes
    <3>2. CASE w = v
      <4>1. viewer' = [viewer EXCEPT ![v] = "reading"] /\ OpenEntry(v)
            BY <2>5, <3>2, <1>t DEF View, BeginRead, OpenEntry, EndRead, DropRead, ViewerTypes
      <4>2. LET r == reading[v][1] IN
              <<r, relDir[r]>> \in final /\ reading' = [reading EXCEPT ![v] = <<r, relDir[r]>>]
            BY <4>1, <1>t DEF OpenEntry, DropRead, ViewerTypes
      <4> QED BY <4>2, <3>f, <1>t DEF ViewerTypes
    <3> QED BY <3>1, <3>2
  <2> QED BY <1>2, <2>1, <2>2, <2>3, <2>4, <2>5 DEF Cache, Fails
<1>3. CASE Coordinate
      BY <1>3, <1>k, CoordinateTyped DEF viewers, files
<1>4. CASE Request
      BY <1>4, <1>k, RequestTyped DEF viewers, files
<1>5. CASE Crash
      BY <1>5, <1>t DEF Crash, CacheCrash, ViewerTypes
<1>6. CASE StoreFails
      BY <1>6, <1>k, StoreFailsTyped DEF viewers, files
<1> QED BY <1>1, <1>2, <1>3, <1>4, <1>5, <1>6 DEF Next

\* The bytes a viewer reads out of an unfenced directory stay until it leaves,
\* for any number of sweeps, viewers and passes.
THEOREM ReadersAreServed == Spec => []PlainReadersKeepTheirBytes
<1>1. Init => PlainReadersKeepTheirBytes
      BY DEF Init, CacheInit, PlainReadersKeepTheirBytes
<1> QED BY <1>1, ReadersStep, TypesAlways, PTL DEF Spec

-----------------------------------------------------------------------------
(* The queue                                                               *)

LEMMA OwnedStep == Types /\ PreparingIsOwned /\ [Next]_vars => PreparingIsOwned'
<1> SUFFICES ASSUME Types, PreparingIsOwned, [Next]_vars,
                    NEW p \in Packages, package'[p] = "preparing"
             PROVE  Owned(p)' \/ p \in dropped'
    BY DEF PreparingIsOwned
<1> USE DEF PreparingIsOwned, Owned
<1>t. PackageTypes /\ CoordinatorTypes
      BY DEF Types
<1>k. ASSUME UNCHANGED <<step, current, dropped>>, package'[p] = package[p]
      PROVE  Owned(p)' \/ p \in dropped'
      BY <1>k
<1>1. CASE UNCHANGED vars
      BY <1>1, <1>k DEF vars, cacheVars, packages, coordinator
<1>2. CASE Cache
  <2>1. UNCHANGED packages
    <3>1. ASSUME NEW k \in Keepers, Sweep(k) PROVE UNCHANGED packages
          BY <3>1, SweepTyped
    <3>2. ASSUME NEW v \in Viewers, View(v) PROVE UNCHANGED packages
          BY <3>2, ViewTyped
    <3>3. CASE Produce \/ EncodeFails
          BY <3>3 DEF Produce, Lookup, ReadHit, Claim, MakeTemp, EncodeFinishes, EncodeYields,
                 ForgetClaim, PlaceBegins, PlaceEnds, PlaceFails, Publish, Complete, EncodeFails, Discard
    <3> QED BY <1>2, <3>1, <3>2, <3>3 DEF Cache, Fails, PassStarts, LoseLease, Age, LoseSource
  <2> QED BY <1>2, <2>1, <1>k DEF Cache, others, coordinator, packages
<1>3. CASE Coordinate
  <2>1. CASE Boot
        BY <2>1, <1>t DEF Boot, PackageTypes
  <2>2. CASE ClaimNext
        BY <2>2, <1>t DEF ClaimNext, PackageTypes
  <2>3. CASE ReadSetting \/ Register \/ Prepare \/ Lock \/ SetRecipe
        BY <2>3, <1>t DEF ReadSetting, Register, Prepare, Lock, SetRecipe, At, cacheVars, packages,
                      coordinator, CoordinatorTypes
  <2>4. CASE Settle
        BY <2>4, <1>t DEF Settle, Move, PackageTypes, CoordinatorTypes
  <2> QED BY <1>3, <2>1, <2>2, <2>3, <2>4 DEF Coordinate
<1>4. CASE Request
  <2>1. package'[p] = package[p]
        BY <1>4, <1>t DEF Request, Create, CancelPackage, DeletePackage, SwitchOff, CancelAll, SwitchOn,
                      Expire, PackageTypes, packages, cacheVars
  <2> QED BY <1>4, <2>1, <1>k, RequestTyped
<1>5. CASE Crash
      BY <1>5 DEF Crash
<1>6. CASE StoreFails
  <2>1. CASE BootFails
        BY <2>1 DEF BootFails, cacheVars, packages
  <2>2. CASE SettingFails
        BY <2>2 DEF SettingFails, cacheVars, packages
  <2>3. CASE ClaimFails
        BY <2>3, <1>t DEF ClaimFails, PackageTypes
  <2>4. CASE PrepareFails \/ CallFails \/ AnswerLost
    <3>1. UNCHANGED package
          BY <2>4 DEF PrepareFails, CallFails, AnswerLost, packages
    <3>2. UNCHANGED <<current, dropped>> /\ (UNCHANGED step \/ (step = "prepare" /\ step' = "producing"))
          BY <2>4 DEF PrepareFails, CallFails, AnswerLost, coordinator
    <3> QED BY <3>1, <3>2
  <2>5. CASE SettleFails
        BY <2>5 DEF SettleFails, packages
  <2> QED BY <1>6, <2>1, <2>2, <2>3, <2>4, <2>5 DEF StoreFails
<1> QED BY <1>1, <1>2, <1>3, <1>4, <1>5, <1>6 DEF Next

\* A package is in "preparing" only in the coordinator's hands, until it boots,
\* or after a failed call of the store on its claim, its settlement or its
\* recovery.
THEOREM NobodyIsForgotten == Spec => []PreparingIsOwned
<1>1. Init => PreparingIsOwned
      BY DEF Init, PreparingIsOwned, Owned
<1> QED BY <1>1, OwnedStep, TypesAlways, PTL DEF Spec

-----------------------------------------------------------------------------
(* Downloads                                                               *)

\* A node on which no sweep runs and no scheduled pass has run.
Alone == Keepers = {} /\ MaxFence = 0

\* The steps of a producer after its claim.
Claimed == {"temp", "encode", "forget", "place", "placing", "rename", "complete"}

Kept(r) == r \in sources => row[r] = "complete" /\ <<r, 0>> \in final

\* Who holds the producer, and what the coordinator is doing meanwhile.
HeldInv ==
  /\ producer.who \in {NoOne, "offline"}
  /\ producer.who = NoOne => producer.step = "idle"
  /\ producer.who = "offline" => /\ step = "producing" /\ outcome = "none"
                                 /\ producer.recipe = RecipeOf[current]
                                 /\ producer.gen = 0
  /\ outcome # "none" => step = "producing"
  /\ outcome = "done" => Kept(RecipeOf[current])

\* What the rows say of the disk, and how far the producer's own row is.
RowInv ==
  /\ \A r \in Recipes : /\ relDir[r] = 0
                        /\ r \notin sources => row[r] = "none"
                        /\ row[r] = "complete" => <<r, 0>> \in final
  /\ producer.step = "hit" => Kept(producer.recipe)
  /\ producer.step = "claim" => row[producer.recipe] # "complete"
  /\ producer.step \in Claimed => row[producer.recipe] # "complete"
  /\ producer.step \in Claimed /\ producer.recipe \in sources
       => row[producer.recipe] = "claimed"
  /\ producer.step = "complete" => Dir \in final

ReadyInv == \A p \in Packages : package[p] = "ready" => Kept(RecipeOf[p])

AloneInv == HeldInv /\ RowInv /\ ReadyInv

LEMMA AloneInit == Init => AloneInv
<1>1. NoDir[1] \in Recipes
      BY SomeDir
<1> QED BY <1>1 DEF Init, CacheInit, AloneInv, HeldInv, RowInv, ReadyInv, Idle, Holds, Claimed, NoOne

LEMMA OneGeneration == Alone => Gens = {0}
BY DEF Alone, Gens

\* A producer that goes on, with the rows and the published files as they were.
LEMMA GoesOn ==
  ASSUME Types, AloneInv, producer.who = "offline",
         producer'.who = "offline", producer'.recipe = producer.recipe, producer'.gen = 0,
         UNCHANGED <<step, current, outcome, package, row, relDir, sources, final>>,
         producer'.step = "hit" => Kept(producer.recipe),
         producer'.step = "claim" => row[producer.recipe] # "complete",
         producer'.step \in Claimed => producer.step \in Claimed,
         producer'.step # "complete"
  PROVE  AloneInv'
BY DEF AloneInv, HeldInv, RowInv, ReadyInv, Kept, NoOne

\* One that returns.
LEMMA Returns ==
  ASSUME AloneInv, producer.who = "offline", NEW result, Return(result),
         result = "done" => Kept(producer.recipe),
         UNCHANGED <<step, current, package, row, relDir, sources, final>>
  PROVE  AloneInv'
BY DEF AloneInv, HeldInv, RowInv, ReadyInv, Kept, NoOne, Return, Fenced, Idle, Holds, Claimed

LEMMA AloneProduces ==
  ASSUME Types, Alone, AloneInv, Produce \/ EncodeFails, UNCHANGED <<step, current, package>>
  PROVE  AloneInv'
<1>t. producer \in Producers /\ producer.recipe \in Recipes /\ row \in [Recipes -> Rows]
      /\ relDir \in [Recipes -> Gens]
      BY ProducerFields DEF Types, ProductionTypes, RowTypes
<1>o. producer.who = "offline" /\ producer.gen = 0 /\ ~Fenced
  <2>1. producer.step # "idle"
        BY DEF Produce, Lookup, ReadHit, Claim, MakeTemp, EncodeFinishes, EncodeYields,
               ForgetClaim, PlaceBegins, PlaceEnds, PlaceFails, Publish, Complete, EncodeFails, At
  <2> QED BY <2>1 DEF AloneInv, HeldInv, Fenced
<1>g. ASSUME NEW s \in ProducerSteps, GoTo(s)
      PROVE  /\ producer'.who = "offline" /\ producer'.recipe = producer.recipe
             /\ producer'.gen = 0 /\ producer'.step = s /\ outcome' = outcome
      BY <1>g, <1>t, <1>o DEF GoTo, Producers
<1>c. Claimed = {"temp", "encode", "forget", "place", "placing", "rename", "complete"}
      BY DEF Claimed
<1>d. \A s \in {"yielded", "elsewhere", "error"} : s # "done"
      OBVIOUS
<1>s. ProducerSteps = {"idle", "recipe", "lookup", "hit", "claim", "temp", "encode",
                       "forget", "place", "placing", "rename", "complete"}
      BY DEF ProducerSteps
<1>1. CASE Lookup
  <2>u. UNCHANGED <<row, relDir, sources, final>>
        BY <1>1 DEF Lookup, rows, files
  <2>1. CASE Return("yielded")
        BY <2>1, <2>u, <1>o, Returns
  <2>2. CASE GoTo("claim") /\ row[producer.recipe] # "complete"
    <3>1. UNCHANGED outcome /\ producer'.step = "claim" /\ producer'.who = "offline"
          /\ producer'.recipe = producer.recipe /\ producer'.gen = 0
          BY <2>2, <1>g, <1>s
    <3> QED BY <3>1, <2>2, <2>u, <1>o, <1>c, GoesOn
  <2>3. CASE /\ row[producer.recipe] = "complete"
             /\ producer' = [producer EXCEPT !.step = "hit", !.gen = relDir[producer.recipe]]
             /\ UNCHANGED outcome
    <3>1. relDir[producer.recipe] = 0 /\ Kept(producer.recipe)
          BY <2>3, <1>t DEF AloneInv, RowInv, Kept
    <3>2. /\ producer'.step = "hit" /\ producer'.who = "offline"
          /\ producer'.recipe = producer.recipe /\ producer'.gen = 0
          BY <2>3, <3>1, <1>t, <1>o DEF Producers
    <3> QED BY <3>1, <3>2, <2>3, <2>u, <1>o, <1>c, GoesOn
  <2> QED BY <1>1, <2>1, <2>2, <2>3 DEF Lookup
<1>2. CASE ReadHit
  <2>u. UNCHANGED <<row, relDir, sources, final>>
        BY <1>2 DEF ReadHit, rows, files
  <2>1. Kept(producer.recipe)
        BY <1>2 DEF ReadHit, At, AloneInv, RowInv
  <2> QED BY <1>2, <2>1, <2>u, <1>o, Returns DEF ReadHit
<1>3. CASE Claim
  <2>u. final' = final /\ producer.step = "claim"
        BY <1>3 DEF Claim, files, At
  <2>1. CASE producer.recipe \notin sources
        BY <2>1, <2>u, <1>3, <1>o, Returns DEF Claim, rows
  <2>2. CASE producer.recipe \in sources
    <3>1. /\ producer' = [producer EXCEPT !.step = "temp",
                                          !.taken = MayClaim(producer.recipe, Fenced)]
          /\ ClaimRow(producer.recipe, producer.gen, Fenced)
          /\ UNCHANGED <<outcome, sources>>
          BY <2>2, <1>3, <1>o DEF Claim
    <3>2. /\ producer'.step = "temp" /\ producer'.who = "offline"
          /\ producer'.recipe = producer.recipe /\ producer'.gen = 0
          BY <3>1, <1>t, <1>o DEF Producers
    <3>3. row[producer.recipe] # "complete"
          BY <2>u DEF AloneInv, RowInv
    <3>4. /\ row' = [row EXCEPT ![producer.recipe] = "claimed"]
          /\ \A r \in Recipes : relDir'[r] = 0
      <4>1. CASE row[producer.recipe] = "none"
            BY <4>1, <3>1, <1>t, <1>o DEF ClaimRow, MayClaim, AloneInv, RowInv
      <4>2. CASE row[producer.recipe] = "claimed"
            BY <4>2, <3>1, <1>t, <1>o DEF ClaimRow, MayClaim, AloneInv, RowInv
      <4> QED BY <4>1, <4>2, <3>3, <1>t DEF Rows
    <3>5. HeldInv'
          BY <3>1, <3>2, <1>o DEF AloneInv, HeldInv, NoOne
    <3>6. RowInv'
          BY <3>1, <3>2, <3>4, <2>2, <2>u, <1>t, <1>c DEF AloneInv, RowInv
    <3>7. ReadyInv'
          BY <3>1, <3>3, <3>4, <2>2, <2>u, <1>t DEF AloneInv, ReadyInv, Kept
    <3> QED BY <3>5, <3>6, <3>7 DEF AloneInv
  <2> QED BY <2>1, <2>2
<1>4. CASE MakeTemp
  <2>u. UNCHANGED <<row, relDir, sources, final>> /\ producer.step = "temp"
        BY <1>4 DEF MakeTemp, rows, At
  <2>1. CASE Return("yielded") \/ Return("elsewhere")
        BY <2>1, <2>u, <1>o, Returns
  <2>2. CASE /\ producer' = [producer EXCEPT !.step = "encode",
                                             !.made = staging[Dir] \in {"parts", "torn"}]
             /\ UNCHANGED outcome
    <3>1. /\ producer'.step = "encode" /\ producer'.who = "offline"
          /\ producer'.recipe = producer.recipe /\ producer'.gen = 0
          BY <2>2, <1>t, <1>o DEF Producers
    <3> QED BY <3>1, <2>2, <2>u, <1>o, <1>c, GoesOn
  <2> QED BY <1>4, <2>1, <2>2 DEF MakeTemp
<1>5. CASE EncodeYields
  <2>u. UNCHANGED <<row, relDir, sources, final>>
        BY <1>5 DEF EncodeYields
  <2> QED BY <1>5, <2>u, <1>o, Returns DEF EncodeYields
<1>6. CASE ForgetClaim
  <2>u. UNCHANGED <<sources, final>> /\ producer.step = "forget" /\ Return("error")
        BY <1>6 DEF ForgetClaim, files, At
  <2>1. row[producer.recipe] # "complete"
        BY <2>u, <1>c DEF AloneInv, RowInv
  <2>2. CASE UNCHANGED <<row, relDir>>
        BY <2>2, <2>u, <1>o, Returns
  <2>3. CASE ForgetRow(producer.recipe)
    <3>1. /\ row' = [row EXCEPT ![producer.recipe] = "none"]
          /\ relDir' = [relDir EXCEPT ![producer.recipe] = 0]
          BY <2>3 DEF ForgetRow
    <3>2. producer' = Idle /\ outcome' = "error" /\ producer'.who = NoOne /\ producer'.step = "idle"
          BY <2>u, <1>o DEF Return, Idle, Holds
    <3>3. HeldInv'
          BY <3>2, <1>o DEF AloneInv, HeldInv, NoOne
    <3>4. RowInv'
          BY <3>1, <3>2, <2>u, <1>t, <1>c DEF AloneInv, RowInv
    <3>5. ReadyInv'
          BY <3>1, <2>1, <2>u, <1>t DEF AloneInv, ReadyInv, Kept
    <3> QED BY <3>3, <3>4, <3>5 DEF AloneInv
  <2> QED BY <1>6, <2>2, <2>3 DEF ForgetClaim
<1>7. CASE EncodeFinishes \/ PlaceEnds \/ PlaceFails \/ EncodeFails
  <2>u. UNCHANGED <<row, relDir, sources, final>>
        BY <1>7 DEF EncodeFinishes, PlaceEnds, PlaceFails, EncodeFails, Discard, rows
  <2>1. PICK s \in {"place", "rename", "forget"} : GoTo(s)
        BY <1>7 DEF EncodeFinishes, PlaceEnds, PlaceFails, EncodeFails, Discard
  <2>2. producer.step \in Claimed
        BY <1>7, <1>c DEF EncodeFinishes, PlaceEnds, PlaceFails, EncodeFails, At
  <2>3. UNCHANGED outcome /\ producer'.step = s /\ producer'.who = "offline"
        /\ producer'.recipe = producer.recipe /\ producer'.gen = 0
        BY <2>1, <1>g, <1>s
  <2> QED BY <2>2, <2>3, <2>u, <1>o, <1>c, GoesOn
<1>8. CASE PlaceBegins
  <2>u. UNCHANGED <<row, relDir, sources, final>> /\ producer.step \in Claimed
        BY <1>8, <1>c DEF PlaceBegins, rows, At
  <2>1. CASE Return("yielded")
        BY <2>1, <2>u, <1>o, Returns
  <2>2. CASE GoTo("placing")
    <3>1. UNCHANGED outcome /\ producer'.step = "placing" /\ producer'.who = "offline"
          /\ producer'.recipe = producer.recipe /\ producer'.gen = 0
          BY <2>2, <1>g, <1>s
    <3> QED BY <3>1, <2>u, <1>o, <1>c, GoesOn
  <2> QED BY <1>8, <2>1, <2>2 DEF PlaceBegins
<1>9. CASE Publish
  <2>u. UNCHANGED <<row, relDir, sources>> /\ producer.step = "rename"
        BY <1>9 DEF Publish, rows, At
  <2>1. CASE UNCHANGED files /\ (Return("yielded") \/ Return("error"))
        BY <2>1, <2>u, <1>o, Returns DEF files
  <2>2. CASE GoTo("complete") /\ final' = final \cup {Dir}
    <3>1. UNCHANGED outcome /\ producer'.step = "complete" /\ producer'.who = "offline"
          /\ producer'.recipe = producer.recipe /\ producer'.gen = 0
          BY <2>2, <1>g, <1>s
    <3>2. HeldInv'
          BY <3>1, <2>2, <2>u, <1>o DEF AloneInv, HeldInv, NoOne, Kept
    <3>3. RowInv'
          BY <3>1, <2>2, <2>u, <1>o, <1>c DEF AloneInv, RowInv, Dir
    <3>4. ReadyInv'
          BY <2>2, <2>u DEF AloneInv, ReadyInv, Kept
    <3> QED BY <3>2, <3>3, <3>4 DEF AloneInv
  <2> QED BY <1>9, <2>1, <2>2 DEF Publish
<1>10. CASE Complete
  <2>u. UNCHANGED <<sources, final>> /\ producer.step = "complete" /\ Return("done")
        BY <1>10, <1>o DEF Complete, files, At
  <2>c. CompleteRow(producer.recipe, producer.gen, Fenced)
        BY <1>10, <1>o DEF Complete
  <2>1. Dir = <<producer.recipe, 0>> /\ Dir \in final
        BY <2>u, <1>o DEF AloneInv, RowInv, Dir
  <2>2. relDir' = relDir /\ IF row[producer.recipe] = "none" THEN row' = row
                            ELSE row' = [row EXCEPT ![producer.recipe] = "complete"]
        BY <2>c, <1>o DEF CompleteRow
  <2>3. producer' = Idle /\ outcome' = "done" /\ producer'.who = NoOne /\ producer'.step = "idle"
        BY <2>u, <1>o DEF Return, Idle, Holds
  <2>4. producer.recipe \in sources => row[producer.recipe] = "claimed"
        BY <2>u, <1>c DEF AloneInv, RowInv
  <2>5. producer.recipe \notin sources => row[producer.recipe] = "none"
        BY <1>t DEF AloneInv, RowInv
  <2>6. HeldInv'
    <3>1. producer.recipe = RecipeOf[current] /\ step = "producing"
          BY <1>o DEF AloneInv, HeldInv
    <3>2. RecipeOf[current] \in sources =>
            row'[RecipeOf[current]] = "complete" /\ <<RecipeOf[current], 0>> \in final
          BY <2>1, <2>2, <2>4, <3>1, <1>t
    <3> QED BY <3>1, <3>2, <2>3, <2>u DEF HeldInv, NoOne, Kept
  <2>7. RowInv'
        BY <2>1, <2>2, <2>3, <2>5, <2>u, <1>t, <1>c DEF AloneInv, RowInv
  <2>8. ReadyInv'
    <3>1. ASSUME NEW p \in Packages, Kept(RecipeOf[p]) PROVE Kept(RecipeOf[p])'
      <4>1. RecipeOf[p] \in Recipes
            BY CacheAssumption
      <4>2. CASE row' = row
            BY <4>2, <3>1, <2>u DEF Kept
      <4>3. CASE row' = [row EXCEPT ![producer.recipe] = "complete"]
            BY <4>1, <4>3, <3>1, <2>1, <2>u, <1>t DEF Kept
      <4> QED BY <4>2, <4>3, <2>2
    <3> QED BY <3>1 DEF AloneInv, ReadyInv
  <2> QED BY <2>6, <2>7, <2>8 DEF AloneInv
<1> QED BY <1>1, <1>2, <1>3, <1>4, <1>5, <1>6, <1>7, <1>8, <1>9, <1>10 DEF Produce

\* The coordinator: everything it does but Settle hands over nothing.
LEMMA AloneCoordinates ==
  ASSUME Types, Alone, AloneInv, Coordinate
  PROVE  AloneInv'
<1>t. /\ package \in [Packages -> States] /\ current \in Packages /\ RecipeOf[current] \in Recipes
      /\ producer \in Producers
      BY CacheAssumption DEF Types, PackageTypes, CoordinatorTypes, ProductionTypes
<1>u. UNCHANGED <<row, relDir, sources, final>>
      BY DEF Coordinate, Boot, ReadSetting, ClaimNext, Register, Prepare, Lock, SetRecipe, Settle,
             cacheVars, rows, files
\* Away from "producing" nobody holds the producer and no outcome is left.
<1>w. step # "producing" => producer.who = NoOne /\ producer.step = "idle" /\ outcome = "none"
      BY DEF AloneInv, HeldInv
<1>i. ASSUME UNCHANGED <<producer, outcome>>, step # "producing",
             \A p \in Packages : package'[p] = "ready" => package[p] = "ready"
      PROVE  AloneInv'
      BY <1>i, <1>u, <1>w DEF AloneInv, HeldInv, RowInv, ReadyInv, Kept, NoOne, Claimed, Dir
<1>1. CASE Boot
  <2>1. /\ UNCHANGED <<producer, outcome>> /\ step # "producing"
        /\ \A p \in Packages : package'[p] = "ready" => package[p] = "ready"
        BY <1>1, <1>t DEF Boot, production
  <2> QED BY <2>1, <1>i
<1>2. CASE ReadSetting
  <2>1. /\ UNCHANGED <<producer, outcome, package>> /\ step # "producing"
        BY <1>2 DEF ReadSetting, cacheVars, production, packages
  <2> QED BY <2>1, <1>i
<1>3. CASE ClaimNext
  <2>1. /\ UNCHANGED <<producer, outcome>> /\ step # "producing"
        /\ \A p \in Packages : package'[p] = "ready" => package[p] = "ready"
        BY <1>3, <1>t DEF ClaimNext, production
  <2> QED BY <2>1, <1>i
<1>4. CASE Register
  <2>1. /\ UNCHANGED <<producer, outcome, package>> /\ step # "producing"
        BY <1>4 DEF Register, packages
  <2> QED BY <2>1, <1>i
<1>5. CASE Prepare
  <2>1. /\ UNCHANGED <<producer, package, current>> /\ step # "producing"
        BY <1>5 DEF Prepare, packages
  <2>2. \/ outcome' = "none"
        \/ step' = "producing" /\ outcome' \in {"error", "yielded"}
        BY <1>5, <2>1, <1>w DEF Prepare
  <2>3. HeldInv'
        BY <2>1, <2>2, <1>w DEF HeldInv, NoOne
  <2>4. RowInv' /\ ReadyInv'
        BY <2>1, <1>u DEF AloneInv, RowInv, ReadyInv, Kept, Dir
  <2> QED BY <2>3, <2>4 DEF AloneInv
<1>6. CASE Lock
  <2>1. UNCHANGED <<package, current>> /\ step # "producing" /\ step' = "producing"
        BY <1>6 DEF Lock, packages
  <2>2. CASE outcome' = "yielded" /\ UNCHANGED producer
    <3>1. HeldInv'
          BY <2>1, <2>2, <1>w DEF HeldInv, NoOne
    <3>2. RowInv' /\ ReadyInv'
          BY <2>1, <2>2, <1>u DEF AloneInv, RowInv, ReadyInv, Kept, Dir
    <3> QED BY <3>1, <3>2 DEF AloneInv
  <2>3. CASE UNCHANGED outcome /\ producer' = Holds("offline", "recipe", RecipeOf[current], 0)
    <3>1. /\ producer'.who = "offline" /\ producer'.step = "recipe"
          /\ producer'.recipe = RecipeOf[current] /\ producer'.gen = 0
          BY <2>3 DEF Holds
    <3>2. HeldInv'
          BY <2>1, <2>3, <3>1, <1>w DEF HeldInv, NoOne
    <3>3. RowInv' /\ ReadyInv'
          BY <2>1, <3>1, <1>u DEF AloneInv, RowInv, ReadyInv, Kept, Claimed
    <3> QED BY <3>2, <3>3 DEF AloneInv
  <2> QED BY <1>6, <2>2, <2>3 DEF Lock
<1>7. CASE SetRecipe
  <2>1. UNCHANGED <<package, step, current>> /\ producer.step = "recipe"
        BY <1>7 DEF SetRecipe, coordinator, At
  <2>2. producer.who = "offline" /\ producer.gen = 0
        BY <2>1 DEF AloneInv, HeldInv
  <2>3. CASE Return("yielded") \/ Return("error")
        BY <2>1, <2>2, <2>3, <1>u, Returns
  <2>4. CASE GoTo("lookup")
    <3>1. UNCHANGED outcome /\ producer'.step = "lookup" /\ producer'.who = "offline"
          /\ producer'.recipe = producer.recipe /\ producer'.gen = 0
          BY <2>2, <2>4, <1>t DEF GoTo, Producers
    <3> QED BY <2>1, <2>2, <3>1, <1>u, GoesOn DEF Claimed
  <2> QED BY <1>7, <2>3, <2>4 DEF SetRecipe
<1>8. CASE Settle
  <2>1. /\ UNCHANGED <<producer, current>> /\ outcome # "none"
        /\ step' = "poll" /\ outcome' = "none"
        BY <1>8 DEF Settle
  <2>2. producer.who = NoOne
        BY <2>1 DEF AloneInv, HeldInv
  <2>3. \A p \in Packages : package'[p] = "ready" =>
          package[p] = "ready" \/ (p = current /\ outcome = "done")
        BY <1>8, <1>t DEF Settle, Move
  <2>4. HeldInv'
        BY <2>1, <2>2 DEF AloneInv, HeldInv, NoOne
  <2>5. RowInv'
        BY <2>1, <1>u DEF AloneInv, RowInv, Kept, Dir
  <2>6. ReadyInv'
        BY <2>1, <2>3, <1>u DEF AloneInv, HeldInv, ReadyInv, Kept
  <2> QED BY <2>4, <2>5, <2>6 DEF AloneInv
<1> QED BY <1>1, <1>2, <1>3, <1>4, <1>5, <1>6, <1>7, <1>8 DEF Coordinate

\* Nor does a call of the store that fails.
LEMMA AloneFails ==
  ASSUME Types, Alone, AloneInv, StoreFails
  PROVE  AloneInv'
<1>t. /\ package \in [Packages -> States] /\ current \in Packages /\ RecipeOf[current] \in Recipes
      /\ producer \in Producers /\ producer.recipe \in Recipes
      /\ row \in [Recipes -> Rows] /\ relDir \in [Recipes -> Gens]
      BY CacheAssumption, ProducerFields DEF Types, PackageTypes, CoordinatorTypes, ProductionTypes, RowTypes
<1>w. step # "producing" => producer.who = NoOne /\ producer.step = "idle" /\ outcome = "none"
      BY DEF AloneInv, HeldInv
<1>f. UNCHANGED <<sources, final>>
      BY DEF StoreFails, BootFails, SettingFails, ClaimFails, PrepareFails, CallFails, AnswerLost,
             SettleFails, cacheVars, rows, files
<1>1. CASE BootFails \/ SettingFails \/ ClaimFails
  <2>1. /\ UNCHANGED <<producer, outcome, row, relDir>> /\ step # "producing"
        /\ \A p \in Packages : package'[p] = "ready" => package[p] = "ready"
        BY <1>1, <1>t DEF BootFails, SettingFails, ClaimFails, cacheVars, rows, production, packages
  <2> QED BY <2>1, <1>f, <1>w DEF AloneInv, HeldInv, RowInv, ReadyInv, Kept, NoOne, Claimed, Dir
<1>2. CASE PrepareFails
  <2>1. /\ UNCHANGED <<producer, package, current, row, relDir>> /\ step # "producing"
        /\ step' = "producing" /\ outcome' = "yielded"
        BY <1>2 DEF PrepareFails, rows, packages
  <2>2. HeldInv'
        BY <2>1, <1>w DEF HeldInv, NoOne
  <2>3. RowInv' /\ ReadyInv'
        BY <2>1, <1>f DEF AloneInv, RowInv, ReadyInv, Kept, Dir
  <2> QED BY <2>2, <2>3 DEF AloneInv
<1>o. CASE CallFails \/ AnswerLost
  <2>o. producer.who = "offline" /\ producer.gen = 0 /\ ~Fenced
    <3>1. producer.step # "idle"
          BY <1>o DEF CallFails, AnswerLost, At
    <3> QED BY <3>1 DEF AloneInv, HeldInv, Fenced
  <2>u. Return("error") /\ UNCHANGED <<step, current, package>>
        BY <1>o DEF CallFails, AnswerLost, coordinator, packages
  <2>1. CASE UNCHANGED <<row, relDir>>
        BY <2>1, <2>o, <2>u, <1>f, Returns
  <2>p. producer' = Idle /\ outcome' = "error" /\ producer'.who = NoOne /\ producer'.step = "idle"
        BY <2>o, <2>u DEF Return, Idle, Holds
  <2>2. HeldInv'
        BY <2>o, <2>u, <2>p DEF AloneInv, HeldInv, NoOne
  <2>3. CASE /\ producer.step = "claim" /\ producer.recipe \in sources
             /\ ClaimRow(producer.recipe, producer.gen, Fenced)
    <3>1. row[producer.recipe] # "complete"
          BY <2>3 DEF AloneInv, RowInv
    <3>2. /\ row' = [row EXCEPT ![producer.recipe] = "claimed"]
          /\ \A r \in Recipes : relDir'[r] = 0
      <4>1. CASE row[producer.recipe] = "none"
            BY <4>1, <2>3, <2>o, <1>t DEF ClaimRow, MayClaim, AloneInv, RowInv
      <4>2. CASE row[producer.recipe] = "claimed"
            BY <4>2, <2>3, <2>o, <1>t DEF ClaimRow, MayClaim, AloneInv, RowInv
      <4> QED BY <4>1, <4>2, <3>1, <1>t DEF Rows
    <3>3. RowInv'
          BY <3>2, <2>3, <2>p, <1>f, <1>t DEF AloneInv, RowInv, Claimed
    <3>4. ReadyInv'
          BY <3>1, <3>2, <2>3, <2>u, <1>f, <1>t DEF AloneInv, ReadyInv, Kept
    <3> QED BY <2>2, <3>3, <3>4 DEF AloneInv
  <2>4. CASE producer.step = "complete" /\ CompleteRow(producer.recipe, producer.gen, Fenced)
    <3>1. Dir = <<producer.recipe, 0>> /\ Dir \in final
          BY <2>4, <2>o DEF AloneInv, RowInv, Dir
    <3>2. relDir' = relDir /\ IF row[producer.recipe] = "none" THEN row' = row
                              ELSE row' = [row EXCEPT ![producer.recipe] = "complete"]
          BY <2>4, <2>o DEF CompleteRow
    <3>3. producer.recipe \notin sources => row[producer.recipe] = "none"
          BY <1>t DEF AloneInv, RowInv
    <3>4. RowInv'
          BY <3>1, <3>2, <3>3, <2>p, <1>f, <1>t DEF AloneInv, RowInv, Claimed
    <3>5. ASSUME NEW p \in Packages, Kept(RecipeOf[p]) PROVE Kept(RecipeOf[p])'
      <4>1. RecipeOf[p] \in Recipes
            BY CacheAssumption
      <4>2. CASE row' = row
            BY <4>2, <3>5, <1>f DEF Kept
      <4>3. CASE row' = [row EXCEPT ![producer.recipe] = "complete"]
            BY <4>1, <4>3, <3>5, <3>1, <1>f, <1>t DEF Kept
      <4> QED BY <4>2, <4>3, <3>2
    <3> QED BY <2>2, <2>u, <3>4, <3>5 DEF AloneInv, ReadyInv
  <2> QED BY <1>o, <2>1, <2>3, <2>4 DEF CallFails, AnswerLost, At, rows
<1>8. CASE SettleFails
  <2>1. /\ UNCHANGED <<producer, current, package, row, relDir>> /\ outcome # "none"
        /\ step' = "poll" /\ outcome' = "none"
        BY <1>8 DEF SettleFails, rows, packages
  <2>2. producer.who = NoOne
        BY <2>1 DEF AloneInv, HeldInv
  <2>3. HeldInv' /\ RowInv' /\ ReadyInv'
        BY <2>1, <2>2, <1>f DEF AloneInv, HeldInv, RowInv, ReadyInv, Kept, Dir, NoOne
  <2> QED BY <2>3 DEF AloneInv
<1> QED BY <1>1, <1>2, <1>o, <1>8 DEF StoreFails

LEMMA AloneStep == Alone /\ Types /\ AloneInv /\ [Next]_vars => AloneInv'
<1> SUFFICES ASSUME Alone, Types, AloneInv, [Next]_vars PROVE AloneInv'
    OBVIOUS
<1>k. ASSUME UNCHANGED <<producer, outcome, step, current, row, relDir, sources, final>>,
             \A p \in Packages : package'[p] = "ready" => package[p] = "ready"
      PROVE  AloneInv'
      BY <1>k DEF AloneInv, HeldInv, RowInv, ReadyInv, Kept, Dir
<1>1. CASE UNCHANGED vars
      BY <1>1, <1>k DEF vars, cacheVars, rows, files, production, packages, coordinator
<1>2. CASE Cache
  <2>o. UNCHANGED <<step, current>>
        BY <1>2 DEF Cache, others, coordinator
  <2>1. CASE PassStarts(Waiting)
        BY <2>1 DEF PassStarts, Alone, Types, ProductionTypes, Gens
  <2>2. CASE Produce \/ EncodeFails
    <3>1. UNCHANGED package
          BY <2>2 DEF Produce, Lookup, ReadHit, Claim, MakeTemp, EncodeFinishes, EncodeYields,
                 ForgetClaim, PlaceBegins, PlaceEnds, PlaceFails, Publish, Complete, EncodeFails,
                 Discard, packages
    <3> QED BY <2>2, <2>o, <3>1, AloneProduces
  <2>3. CASE LoseLease
        BY <2>3, <2>o, <1>k DEF LoseLease, rows, files, packages
  <2>4. ASSUME NEW r \in Recipes, Age(r) PROVE AloneInv'
        BY <2>4, <2>o, <1>k DEF Age, files, production, packages
  <2>5. ASSUME NEW r \in Recipes, LoseSource(r) PROVE AloneInv'
    <3>t. row \in [Recipes -> Rows] /\ relDir \in [Recipes -> Gens] /\ producer.recipe \in Recipes
          BY ProducerFields DEF Types, RowTypes, ProductionTypes
    <3>1. /\ UNCHANGED <<producer, outcome, step, current, final, package>>
          /\ sources' = sources \ {r} /\ row' = [row EXCEPT ![r] = "none"]
          /\ relDir' = [relDir EXCEPT ![r] = 0]
          BY <2>5, <2>o DEF LoseSource, ForgetRow, production, files, packages
    <3>2. \A q \in Recipes : Kept(q) => Kept(q)'
          BY <3>1, <3>t DEF Kept
    <3>3. HeldInv'
      <4>1. RecipeOf[current] \in Recipes
            BY CacheAssumption DEF Types, CoordinatorTypes
      <4> QED BY <3>1, <3>2, <4>1 DEF AloneInv, HeldInv, Kept
    <3>4. RowInv'
          BY <3>1, <3>2, <3>t DEF AloneInv, RowInv, Kept, Dir
    <3>5. ReadyInv'
      <4>1. \A p \in Packages : RecipeOf[p] \in Recipes
            BY CacheAssumption
      <4> QED BY <3>1, <3>2, <4>1 DEF AloneInv, ReadyInv, Kept
    <3> QED BY <3>3, <3>4, <3>5 DEF AloneInv
  <2>6. ASSUME NEW k \in Keepers PROVE FALSE
        BY <2>6 DEF Alone
  <2>7. ASSUME NEW v \in Viewers, View(v) PROVE AloneInv'
        BY <2>7, <2>o, <1>k DEF View, BeginRead, OpenEntry, EndRead, rows, files, production, packages
  <2> QED BY <1>2, <2>1, <2>2, <2>3, <2>4, <2>5, <2>6, <2>7 DEF Cache, Fails
<1>3. CASE Coordinate
      BY <1>3, AloneCoordinates
<1>4. CASE Request
  <2>1. \A p \in Packages : package'[p] = "ready" => package[p] = "ready"
        BY <1>4 DEF Types, PackageTypes, Request, Create, CancelPackage, DeletePackage, SwitchOff,
                    CancelAll, SwitchOn, Expire, packages, cacheVars
  <2>2. UNCHANGED <<producer, outcome, step, current, row, relDir, sources, final>>
        BY <1>4 DEF Request, Create, CancelPackage, DeletePackage, SwitchOff,
                    CancelAll, SwitchOn, Expire, packages, cacheVars, rows, files, production, coordinator
  <2> QED BY <2>1, <2>2, <1>k
<1>5. CASE Crash
  <2>1. /\ UNCHANGED <<row, relDir, sources, final, package>>
        /\ producer'.who = NoOne /\ producer'.step = "idle" /\ outcome' = "none"
        BY <1>5 DEF Crash, CacheCrash, Idle, Holds, rows, files, packages
  <2> QED BY <2>1 DEF AloneInv, HeldInv, RowInv, ReadyInv, Kept, NoOne, Claimed
<1>6. CASE StoreFails
      BY <1>6, AloneFails
<1> QED BY <1>1, <1>2, <1>3, <1>4, <1>5, <1>6 DEF Next

\* On a node without sweeps and passes, a ready package can be downloaded as
\* long as its file is there, whatever crashes, fails or is cancelled.
THEOREM ReadyCanBeDownloaded == Keepers = {} /\ MaxFence = 0 => (Spec => []ReadyIsServed)
<1> SUFFICES ASSUME Alone PROVE Spec => []ReadyIsServed
    BY DEF Alone
<1>1. AloneInv => ReadyIsServed
  <2> SUFFICES ASSUME AloneInv, NEW p \in Packages, package[p] = "ready", RecipeOf[p] \in sources
               PROVE  row[RecipeOf[p]] = "complete" /\ <<RecipeOf[p], relDir[RecipeOf[p]]>> \in final
      BY DEF ReadyIsServed
  <2>1. RecipeOf[p] \in Recipes
        BY CacheAssumption
  <2> QED BY <2>1 DEF AloneInv, RowInv, ReadyInv, Kept
<1>2. Types /\ AloneInv /\ [Next]_vars => AloneInv'
      BY AloneStep
<1> QED BY <1>1, <1>2, AloneInit, TypesAlways, PTL DEF Spec
=============================================================================
