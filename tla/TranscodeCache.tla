--------------------------- MODULE TranscodeCache ---------------------------
(***************************************************************************)
(* One node's pre-transcode cache: the rows of transcode_cache_locations   *)
(* (store/sqlite/cache.rs and publication.rs), the directories they name,  *)
(* the producer that fills them (transcode.rs, produce_normalized and what *)
(* it calls), the keeper that deletes them (cachekeep.rs) and the viewers  *)
(* that read them.  A store call is one transaction and one step here; so  *)
(* is a rename or a removal of a directory; nothing else is atomic.        *)
(*                                                                         *)
(* A directory <<r, g>> belongs to recipe r and generation g: generation 0 *)
(* is the directory called HASH that an unfenced producer writes, and g is *)
(* HASH-fg, which a scheduled pass writes under the fence g of its lease.  *)
(* Only this node's rows and files are here, and one recipe per file.      *)
(* Offline packages pin rows; OfflinePackages says how packages move.      *)
(***************************************************************************)
EXTENDS Naturals, FiniteSets

CONSTANTS
  Recipes,
  NumPackages,\* the offline packages, in the order of their creation
  RecipeOf,   \* the recipe of each package
  Keepers,    \* sweeps that may overlap: the hourly job's, a pass's own
  Viewers,    \* HLS sessions over cached entries, package downloads
  MaxFence    \* how many scheduled passes there are

Packages == 1 .. NumPackages

ASSUME CacheAssumption ==
  /\ IsFiniteSet(Recipes) /\ Recipes # {}
  /\ NumPackages \in Nat \ {0}
  /\ RecipeOf \in [Packages -> Recipes]
  /\ MaxFence \in Nat

Gens == 0 .. MaxFence
Dirs == Recipes \X Gens

VARIABLES
  row,        \* of a recipe: "none", "claimed" (complete = 0), "complete"
  relDir,     \* the generation its relative_dir names
  aged,       \* the rows whose last_seen_at is over STALE_CLAIM_SECS ago
  sources,    \* the recipes whose file the library still has
  staging,    \* tmp/HASH[-fg]: "absent", "empty", "parts" (segments in part
              \* directories), "torn" (some moved out of them), "flat"
  final,      \* the published directories on the disk
  producer,   \* who holds background_producer, and how far it has come
  cancelled,  \* the producers, "pass" or "offline", whose token is cancelled
  fence,      \* the fence of the last scheduled pass
  outcome,    \* what ensure_offline returned; "none" while it has not
  phase, listed, hand, removed, known, claims, \* of a keeper, see below
  viewer,     \* "idle", "looking" (has its guard), "reading"
  reading,    \* the directory a viewer looks up or reads
  served,     \* the recipes a viewer was served and left: IdleReader
  package,    \* "none", "queued", "preparing", "ready", "failed", "gone"
  pins        \* the packages whose recipe_hash is set

rows == <<row, relDir, aged, sources>>
files == <<staging, final>>
production == <<producer, cancelled, fence, outcome>>
keepers == <<phase, listed, hand, removed, known, claims>>
viewers == <<viewer, reading, served>>
packages == <<package, pins>>

NoOne == "nobody"
NoDir == CHOOSE d \in Dirs : TRUE
Holds(who, step, r, g) == [who |-> who, step |-> step, recipe |-> r, gen |-> g,
                           taken |-> FALSE, made |-> FALSE]
Idle == Holds(NoOne, "idle", NoDir[1], 0)

CacheInit ==
  /\ row = [r \in Recipes |-> "none"] /\ relDir = [r \in Recipes |-> 0]
  /\ aged = {} /\ sources = Recipes
  /\ staging = [d \in Dirs |-> "absent"] /\ final = {}
  /\ producer = Idle
  /\ cancelled = {} /\ fence = 0 /\ outcome = "none"
  /\ phase = [k \in Keepers |-> "idle"]
  /\ listed = [k \in Keepers |-> {}] /\ hand = [k \in Keepers |-> {}]
  /\ removed = [k \in Keepers |-> {}]
  /\ known = [k \in Keepers |-> {}] /\ claims = [k \in Keepers |-> {}]
  /\ viewer = [v \in Viewers |-> "idle"]
  /\ reading = [v \in Viewers |-> NoDir]
  /\ served = {}
  /\ package = [p \in Packages |-> "none"] /\ pins = {}

-----------------------------------------------------------------------------
(* The rows.                                                               *)

Wanted(r, states) ==
  {p \in Packages : RecipeOf[p] = r /\ package[p] \in states}

(* stale_cache_claims: a claim nobody touched for a day, unless a package  *)
(* of the file is still to be prepared.                                    *)
StaleClaims == {r \in Recipes : /\ row[r] = "claimed" /\ r \in aged
                                /\ Wanted(r, {"queued", "preparing"}) = {}}

(* cache_by_age and cache_bytes: the complete rows no package pins.        *)
Evictable ==
  {r \in Recipes : /\ row[r] = "complete"
                   /\ Wanted(r, {"queued", "preparing", "ready"}) \cap pins = {}}

ForgetRow(r) ==
  /\ row' = [row EXCEPT ![r] = "none"]
  /\ relDir' = [relDir EXCEPT ![r] = 0]
  /\ aged' = aged \ {r}

(* claim_cache_entry does nothing where a row exists; the fenced one takes *)
(* over an incomplete row, its directory and its age.                      *)
MayClaim(r, fenced) == row[r] = "none" \/ (fenced /\ row[r] = "claimed")
ClaimRow(r, g, fenced) ==
  IF MayClaim(r, fenced)
  THEN /\ row' = [row EXCEPT ![r] = "claimed"]
       /\ relDir' = [relDir EXCEPT ![r] = g]
       /\ aged' = aged \ {r}
  ELSE UNCHANGED <<row, relDir, aged>>

TouchClaim(r) == aged' = IF row[r] = "claimed" THEN aged \ {r} ELSE aged

(* complete_cache_entry updates the row if there is one; only the fenced   *)
(* one writes the directory too.                                           *)
CompleteRow(r, g, fenced) ==
  IF row[r] = "none"
  THEN UNCHANGED <<row, relDir, aged>>
  ELSE /\ row' = [row EXCEPT ![r] = "complete"]
       /\ relDir' = IF fenced THEN [relDir EXCEPT ![r] = g] ELSE relDir
       /\ aged' = aged \ {r}

(* A day passes over a claim.  A pass lasts at most PRODUCE_WINDOW (six    *)
(* hours) and refreshes its claim when it begins.                          *)
Age(r) ==
  /\ row[r] = "claimed" /\ r \notin aged
  /\ ~(producer.who = "pass" /\ producer.recipe = r)
  /\ aged' = aged \cup {r}
  /\ UNCHANGED <<row, relDir, sources, files, production, keepers, viewers, packages>>

(* A scan finds the file gone: the recipe and its row cascade away.        *)
LoseSource(r) ==
  /\ r \in sources
  /\ sources' = sources \ {r}
  /\ ForgetRow(r)
  /\ UNCHANGED <<files, production, keepers, viewers, packages>>

-----------------------------------------------------------------------------
(* The producer.  background_producer admits one at a time.                *)

Dir == <<producer.recipe, producer.gen>>
Fenced == producer.who = "pass"
Cancelled == producer.who \in cancelled
At(step) == producer.step = step

GoTo(step) == /\ producer' = [producer EXCEPT !.step = step]
              /\ UNCHANGED outcome

(* produce_normalized returns, and its caller drops the mutex.             *)
Return(result) ==
  /\ producer' = Idle
  /\ outcome' = IF Fenced THEN outcome ELSE result

(* produce_cancelled: one candidate of a pass, under the pass's fence.     *)
PassStarts(waiting) ==
  /\ producer.who = NoOne /\ ~waiting /\ fence < MaxFence
  /\ \E r \in sources :
       producer' = Holds("pass", "lookup", r, fence + 1)
  /\ fence' = fence + 1
  /\ cancelled' = cancelled \ {"pass"}
  /\ UNCHANGED <<outcome, rows, files, keepers, viewers, packages>>

(* The pass's lease is lost: its token is cancelled and its fenced calls   *)
(* are refused.                                                            *)
LoseLease ==
  /\ producer.who = "pass" /\ "pass" \notin cancelled
  /\ cancelled' = cancelled \cup {"pass"}
  /\ UNCHANGED <<producer, fence, outcome, rows, files, keepers, viewers, packages>>

Lookup ==
  /\ At("lookup")
  /\ \/ Cancelled /\ Return("yielded")
     \/ /\ ~Cancelled /\ row[producer.recipe] = "complete"
        /\ producer' = [producer EXCEPT !.step = "hit",
                                        !.gen = relDir[producer.recipe]]
        /\ UNCHANGED outcome
     \/ ~Cancelled /\ row[producer.recipe] # "complete" /\ GoTo("claim")
  /\ UNCHANGED <<cancelled, fence, rows, files, keepers, viewers, packages>>

(* A hit is verified against the disk.                                     *)
ReadHit ==
  /\ At("hit")
  /\ Return(IF Cancelled THEN "yielded"
            ELSE IF Dir \in final THEN "done" ELSE "error")
  /\ UNCHANGED <<cancelled, fence, rows, files, keepers, viewers, packages>>

(* The claim is refused to a lost lease and, by its foreign key, without   *)
(* the file.                                                               *)
Claim ==
  /\ At("claim")
  /\ IF (Fenced /\ Cancelled) \/ producer.recipe \notin sources
     THEN Return("error") /\ UNCHANGED rows
     ELSE /\ producer' =
               [producer EXCEPT !.step = "temp",
                                !.taken = MayClaim(producer.recipe, Fenced)]
          /\ ClaimRow(producer.recipe, producer.gen, Fenced)
          /\ UNCHANGED <<outcome, sources>>
  /\ UNCHANGED <<cancelled, fence, files, keepers, viewers, packages>>

(* Plausible bug: a claim is never resumed.                                *)
MakeTempNoResume ==
  /\ At("temp")
  /\ IF Cancelled \/ ~producer.taken
     THEN Return(IF Cancelled THEN "yielded" ELSE "elsewhere") /\ UNCHANGED staging
     ELSE /\ producer' = [producer EXCEPT !.step = "encode",
                                          !.made = staging[Dir] \in {"parts", "torn"}]
          /\ staging' = [staging EXCEPT ![Dir] = IF @ = "absent" THEN "empty" ELSE @]
          /\ UNCHANGED outcome
  /\ UNCHANGED <<final, cancelled, fence, rows, keepers, viewers, packages>>

(* A recipe claimed before is resumed if this generation has a staging     *)
(* directory, and somebody else's otherwise.                               *)
MakeTemp ==
  /\ At("temp")
  /\ \/ Cancelled /\ Return("yielded") /\ UNCHANGED staging
     \/ /\ ~Cancelled /\ ~producer.taken /\ staging[Dir] = "absent"
        /\ Return("elsewhere") /\ UNCHANGED staging
     \/ /\ ~Cancelled /\ (producer.taken \/ staging[Dir] # "absent")
        /\ producer' = [producer EXCEPT !.step = "encode",
                                        !.made = staging[Dir] \in {"parts", "torn"}]
        /\ staging' = [staging EXCEPT ![Dir] = IF @ = "absent" THEN "empty" ELSE @]
        /\ UNCHANGED outcome
  /\ UNCHANGED <<final, cancelled, fence, rows, keepers, viewers, packages>>

(* The encoder writes into a part directory, which it makes if it has to;  *)
(* the parts it made before must still be there to be placed.              *)
Whole == staging[Dir] \in {"empty", "parts", "flat"}
           \/ (staging[Dir] = "absent" /\ ~producer.made)

(* What a part that was stopped after its first segments leaves.           *)
Interrupted == IF Whole THEN "parts"
               ELSE IF staging[Dir] = "absent" THEN "empty" ELSE "torn"

EncodeFinishes ==
  /\ At("encode") /\ Whole /\ ~Cancelled
  /\ staging' = [staging EXCEPT ![Dir] = "parts"]
  /\ GoTo("place")
  /\ UNCHANGED <<final, cancelled, fence, rows, keepers, viewers, packages>>

(* The deadline, a viewer in the queue, a waiting download, the token: the *)
(* parts stay, and the claim is touched unless the token was cancelled.    *)
EncodeYields ==
  /\ At("encode")
  /\ \E left \in {staging[Dir], Interrupted} : staging' = [staging EXCEPT ![Dir] = left]
  /\ IF Cancelled THEN UNCHANGED aged ELSE TouchClaim(producer.recipe)
  /\ Return("yielded")
  /\ UNCHANGED <<row, relDir, sources, final, cancelled, fence, keepers, viewers, packages>>

(* A part fails, or its segments cannot be moved: the attempt is removed,  *)
(* then, unless the token was cancelled, its claim.                        *)
Discard ==
  /\ staging' = [staging EXCEPT ![Dir] = "absent"]
  /\ GoTo("forget")
  /\ UNCHANGED <<final, cancelled, fence, rows, keepers, viewers, packages>>

EncodeFails == At("encode") /\ Discard

ForgetClaim ==
  /\ At("forget")
  /\ IF Cancelled THEN UNCHANGED <<row, relDir, aged>>
                  ELSE ForgetRow(producer.recipe)
  /\ Return("error")
  /\ UNCHANGED <<sources, cancelled, fence, files, keepers, viewers, packages>>

(* publish_from moves the segments out of their parts one by one, writes   *)
(* the playlist and removes the parts.                                     *)
PlaceBegins ==
  /\ At("place")
  /\ \/ Cancelled /\ Return("yielded") /\ UNCHANGED staging
     \/ /\ ~Cancelled /\ staging[Dir] = "parts"
        /\ staging' = [staging EXCEPT ![Dir] = "torn"]
        /\ GoTo("placing")
  /\ UNCHANGED <<final, cancelled, fence, rows, keepers, viewers, packages>>

PlaceEnds ==
  /\ At("placing") /\ staging[Dir] = "torn"
  /\ staging' = [staging EXCEPT ![Dir] = "flat"]
  /\ GoTo("rename")
  /\ UNCHANGED <<final, cancelled, fence, rows, keepers, viewers, packages>>

PlaceFails ==
  /\ \/ At("place") /\ ~Cancelled /\ staging[Dir] # "parts"
     \/ At("placing") /\ staging[Dir] # "torn"
  /\ Discard

(* A rename needs its source and does not replace a directory.             *)
Publish ==
  /\ At("rename")
  /\ IF Cancelled \/ staging[Dir] # "flat" \/ Dir \in final
     THEN /\ Return(IF Cancelled THEN "yielded" ELSE "error")
          /\ UNCHANGED files
     ELSE /\ staging' = [staging EXCEPT ![Dir] = "absent"]
          /\ final' = final \cup {Dir}
          /\ GoTo("complete")
  /\ UNCHANGED <<cancelled, fence, rows, keepers, viewers, packages>>

Complete ==
  /\ At("complete")
  /\ IF Fenced /\ Cancelled
     THEN Return("error") /\ UNCHANGED <<row, relDir, aged>>
     ELSE /\ CompleteRow(producer.recipe, producer.gen, Fenced)
          /\ Return("done")
  /\ UNCHANGED <<sources, cancelled, fence, files, keepers, viewers, packages>>

Produce == \/ Lookup \/ ReadHit \/ Claim \/ MakeTemp
           \/ EncodeFinishes \/ EncodeYields \/ ForgetClaim
           \/ PlaceBegins \/ PlaceEnds \/ PlaceFails \/ Publish \/ Complete

-----------------------------------------------------------------------------
(* The guards of ActiveCacheReaders.  Its map is keyed by name: a recipe,  *)
(* or the name of a fenced directory, which no reader ever claims.         *)

Reading(r) == {v \in Viewers : viewer[v] # "idle" /\ reading[v][1] = r}
Evicting(r) == {k \in Keepers : \E d \in hand[k] : d[1] = r}
Knows(r) == r \in served \/ Reading(r) # {} \/ Evicting(r) # {}

(* Plausible bug: an eviction only minds other evictions.                  *)
UnguardedByReaders(r) == Evicting(r) = {}

(* begin_eviction(r) succeeds.                                             *)
Unguarded(r) == Reading(r) = {} /\ Evicting(r) = {}

BeginRead(v) ==
  /\ viewer[v] = "idle"
  /\ \E r \in Recipes : /\ Evicting(r) = {}
                        /\ reading' = [reading EXCEPT ![v] = <<r, 0>>]
  /\ viewer' = [viewer EXCEPT ![v] = "looking"]
  /\ UNCHANGED <<served, rows, files, production, keepers, packages>>

DropRead(v) ==
  /\ viewer' = [viewer EXCEPT ![v] = "idle"]
  /\ reading' = [reading EXCEPT ![v] = NoDir]
  /\ served' = served \cup {reading[v][1]}

(* serve_cached and package_dir: the row, then the directory behind it.    *)
OpenEntry(v) ==
  LET r == reading[v][1] IN
  /\ viewer[v] = "looking"
  /\ IF row[r] = "complete" /\ <<r, relDir[r]>> \in final
     THEN /\ viewer' = [viewer EXCEPT ![v] = "reading"]
          /\ reading' = [reading EXCEPT ![v] = <<r, relDir[r]>>]
          /\ UNCHANGED served
     ELSE DropRead(v)
  /\ UNCHANGED <<rows, files, production, keepers, packages>>

EndRead(v) ==
  /\ viewer[v] = "reading" /\ DropRead(v)
  /\ UNCHANGED <<rows, files, production, keepers, packages>>

-----------------------------------------------------------------------------
(* The keeper: sweep_with_readers.  phase: "idle", "stale", "budget",      *)
(* "snapshot", "published", "staged".  listed: what this phase has still   *)
(* to visit.  hand: the entry it is deleting, under its eviction guard.    *)
(* removed: removed_claims.  known, claims: the rows' directories and the  *)
(* claimed recipes when the orphan pass took them.                         *)

Enter(k, from, to, work) ==
  /\ phase[k] = from /\ hand[k] = {}
  /\ phase' = [phase EXCEPT ![k] = to]
  /\ listed' = [listed EXCEPT ![k] = work]

RowDirs(recipes) == {<<r, relDir[r]>> : r \in recipes}

SweepStarts(k) ==
  /\ Enter(k, "idle", "stale", RowDirs(StaleClaims))
  /\ UNCHANGED <<hand, removed, known, claims, rows, files, production, viewers, packages>>

(* The next entry of the list: its directory goes first.  One with readers *)
(* is skipped; one another sweep deletes is too, and ends a budget pass.   *)
EvictNext(k) ==
  /\ phase[k] \in {"stale", "budget"} /\ hand[k] = {}
  /\ \E d \in listed[k] :
       IF Unguarded(d[1])
       THEN /\ listed' = [listed EXCEPT ![k] = @ \ {d}]
            /\ hand' = [hand EXCEPT ![k] = {d}]
            /\ final' = final \ {d}
       ELSE /\ listed' = [listed EXCEPT ![k] =
                 IF phase[k] = "budget" /\ Reading(d[1]) = {} THEN {} ELSE @ \ {d}]
            /\ UNCHANGED <<hand, final>>
  /\ UNCHANGED <<phase, removed, known, claims, staging, rows, production, viewers, packages>>

(* ... and its row after it, whatever the row says by now.                 *)
ForgetEvicted(k) ==
  \E d \in hand[k] :
    /\ ForgetRow(d[1])
    /\ hand' = [hand EXCEPT ![k] = {}]
    /\ removed' = IF phase[k] = "stale"
                  THEN [removed EXCEPT ![k] = @ \cup {d[1]}] ELSE removed
    /\ served' = served \ {d[1]}
    /\ UNCHANGED <<phase, listed, known, claims, sources, files, production,
                   viewer, reading, packages>>

(* Over the ceiling or not: the budget pass has the cold rows to visit or  *)
(* none, and stops as soon as enough is freed.                             *)
BudgetStarts(k) ==
  /\ listed[k] = {}
  /\ \E cold \in {{}, RowDirs(Evictable)} : Enter(k, "stale", "budget", cold)
  /\ UNCHANGED <<hand, removed, known, claims, rows, files, production, viewers, packages>>

ReadRows(k) ==
  /\ Enter(k, "budget", "snapshot", {})
  /\ known' = [known EXCEPT ![k] = RowDirs({r \in Recipes : row[r] # "none"})]
  /\ claims' = [claims EXCEPT ![k] = {r \in Recipes : row[r] = "claimed"}]
  /\ UNCHANGED <<hand, removed, rows, files, production, viewers, packages>>

(* The published directories are walked after the rows were read, and the  *)
(* staging directories after those.                                        *)
WalkPublished(k) ==
  /\ Enter(k, "snapshot", "published", final \ known[k])
  /\ UNCHANGED <<hand, removed, known, claims, rows, files, production, viewers, packages>>

WalkStaging(k) ==
  /\ listed[k] = {}
  /\ Enter(k, "published", "staged",
           {d \in Dirs : staging[d] # "absent" /\ d[1] \notin claims[k]})
  /\ UNCHANGED <<hand, removed, known, claims, rows, files, production, viewers, packages>>

(* Without a single row only names this process has seen are deleted.      *)
Disposable(k, r, plain) ==
  known[k] # {} \/ (plain /\ (Knows(r) \/ r \in removed[k]))

(* The guard of a published directory is its own file name.                *)
OrphanFree(d) == d[2] = 0 => Unguarded(d[1])

RemoveOrphan(k) ==
  /\ phase[k] = "published"
  /\ \E d \in listed[k] :
       /\ listed' = [listed EXCEPT ![k] = @ \ {d}]
       /\ IF Disposable(k, d[1], d[2] = 0) /\ OrphanFree(d)
          THEN /\ final' = final \ {d}
               /\ served' = IF d[2] = 0 THEN served \ {d[1]} ELSE served
          ELSE UNCHANGED <<final, served>>
  /\ UNCHANGED <<phase, hand, removed, known, claims, staging, rows, production,
                 viewer, reading, packages>>

(* ... and that of a staging directory its recipe: staging_recipe.         *)
RemoveStaging(k) ==
  /\ phase[k] = "staged"
  /\ \E d \in listed[k] :
       /\ listed' = [listed EXCEPT ![k] = @ \ {d}]
       /\ IF Disposable(k, d[1], TRUE) /\ Unguarded(d[1])
          THEN /\ staging' = [staging EXCEPT ![d] = "absent"]
               /\ served' = served \ {d[1]}
          ELSE UNCHANGED <<staging, served>>
  /\ UNCHANGED <<phase, hand, removed, known, claims, final, rows, production,
                 viewer, reading, packages>>

SweepEnds(k) ==
  /\ listed[k] = {}
  /\ Enter(k, "staged", "idle", {})
  /\ removed' = [removed EXCEPT ![k] = {}]
  /\ known' = [known EXCEPT ![k] = {}] /\ claims' = [claims EXCEPT ![k] = {}]
  /\ UNCHANGED <<hand, rows, files, production, viewers, packages>>

Sweep(k) == \/ SweepStarts(k) \/ EvictNext(k) \/ ForgetEvicted(k)
            \/ BudgetStarts(k) \/ ReadRows(k) \/ WalkPublished(k)
            \/ WalkStaging(k) \/ RemoveOrphan(k) \/ RemoveStaging(k) \/ SweepEnds(k)

View(v) == BeginRead(v) \/ OpenEntry(v) \/ EndRead(v)

(* The process dies: what is in memory is lost, rows and files stay.       *)
CacheCrash ==
  /\ producer' = Idle
  /\ cancelled' = {} /\ outcome' = "none" /\ served' = {}
  /\ phase' = [k \in Keepers |-> "idle"]
  /\ listed' = [k \in Keepers |-> {}] /\ hand' = [k \in Keepers |-> {}]
  /\ removed' = [k \in Keepers |-> {}]
  /\ known' = [k \in Keepers |-> {}] /\ claims' = [k \in Keepers |-> {}]
  /\ viewer' = [v \in Viewers |-> "idle"]
  /\ reading' = [v \in Viewers |-> NoDir]
  /\ UNCHANGED <<rows, files, fence, packages>>

-----------------------------------------------------------------------------
CacheTypeOK ==
  /\ row \in [Recipes -> {"none", "claimed", "complete"}]
  /\ relDir \in [Recipes -> Gens]
  /\ aged \subseteq Recipes /\ sources \subseteq Recipes
  /\ staging \in [Dirs -> {"absent", "empty", "parts", "torn", "flat"}]
  /\ final \subseteq Dirs
  /\ producer \in [who : {NoOne, "pass", "offline"},
                   step : {"idle", "recipe", "lookup", "hit", "claim", "temp", "encode",
                           "forget", "place", "placing", "rename", "complete"},
                   recipe : Recipes, gen : Gens, taken : BOOLEAN, made : BOOLEAN]
  /\ cancelled \subseteq {"pass", "offline"} /\ fence \in Gens
  /\ outcome \in {"none", "done", "yielded", "elsewhere", "error"}
  /\ phase \in [Keepers -> {"idle", "stale", "budget", "snapshot",
                            "published", "staged"}]
  /\ listed \in [Keepers -> SUBSET Dirs] /\ hand \in [Keepers -> SUBSET Dirs]
  /\ removed \in [Keepers -> SUBSET Recipes]
  /\ known \in [Keepers -> SUBSET Dirs] /\ claims \in [Keepers -> SUBSET Recipes]
  /\ viewer \in [Viewers -> {"idle", "looking", "reading"}]
  /\ reading \in [Viewers -> Dirs] /\ served \subseteq Recipes
  /\ package \in [Packages -> {"none", "queued", "preparing", "ready", "failed", "gone"}]
  /\ pins \subseteq Packages
=============================================================================
