----------------------------- MODULE NodeRemoval -----------------------------
(* What happens to a node's offline packages when its Raft voter is removed:   *)
(* remove_voter, leave_voter and the source probes of                          *)
(* crates/plurx-core/src/cluster/membership.rs over the statements of          *)
(* store/hiqlite_durable.rs, beside the clients and producers of every node.   *)
(*                                                                             *)
(* Each statement or transaction on the replicated store is one step, and the  *)
(* handler of a removal may be interrupted between any two.  Raft is external: *)
(* a set of voters that a change of membership replaces or refuses, under a    *)
(* leader that may be any of them.                                             *)
EXTENDS Naturals, FiniteSets

CONSTANTS
  Nodes,       \* the nodes, in the order of their node_ids
  Founders,    \* the voters in the beginning
  NoNode,      \* no node
  Packages,    \* offline packages
  NoPackage,   \* no package
  Recipe,      \* the recipe a node's encoder gives a package
  NoRecipe,    \* recipe_hash IS NULL
  Removals,    \* concurrent calls of remove_voter and leave_voter
  Rounds,      \* OFFLINE_RESOLVE_ROUNDS
  Faults,      \* which faults happen
  MaxFaults    \* how many

ASSUME NodesAreOrdered == Nodes \subseteq Nat /\ Founders \subseteq Nodes
ASSUME NoNodeIsNone    == NoNode \notin Nodes
ASSUME NoPackageIsNone == NoPackage \notin Packages
ASSUME RecipeType      == NoRecipe \notin {Recipe[n] : n \in Nodes} /\ DOMAIN Recipe = Nodes
ASSUME BoundsAreNaturals == Rounds \in Nat \ {0} /\ MaxFaults \in Nat

Movable    == {"queued", "preparing"}
Unresolved == Movable \cup {"ready"}
States     == Unresolved \cup {"none", "failed"}

Recipes == {Recipe[n] : n \in Nodes} \cup {NoRecipe}

(* The steps of a removal, in their order. *)
Settling == {"read", "transfers", "ask", "verify", "resolve", "count"}
Kinds    == {"remove", "leave"}
Leaving  == {"handoff", "commit", "tombstone", "left", "fail"}

VARIABLES
  package,   \* offline_packages: the state, owner and recipe of each row
  probe,     \* offline_source_probes: what each node was asked, and said
  proved,    \* the answers whose reading began after the last question
  look,      \* the package whose source each node is reading, to answer
  fresh,     \* the nodes that began to read after the last question
  work,      \* the package each node's producer prepares
  bytes,     \* the packages whose bytes a node has
  transfers, \* the packages a client is downloading
  late,      \* those whose download began when a removal had looked already
  voters,    \* the Raft membership
  removed,   \* nodes with removed_at in cluster_nodes
  up,        \* nodes whose daemon runs
  call,      \* the calls of remove_voter and leave_voter
  faults     \* faults so far

vars == <<package, probe, proved, look, fresh, work, bytes, transfers, late, voters, removed,
          up, call, faults>>

asking  == <<probe, proved, look, fresh>>
making  == <<work, bytes>>
clients == <<transfers, late>>
cluster == <<voters, removed, up>>

Row  == [state : States, owner : Nodes \cup {NoNode}, recipe : Recipes]
Work == [package : Packages \cup {NoPackage}, stage : {"idle", "claimed", "encoding", "failing"}]

Idle   == [package |-> NoPackage, stage |-> "idle"]

NoGoal == [p \in Packages |-> NoNode]
NoCall == [step |-> "none", kind |-> "remove", target |-> NoNode, remaining |-> {},
           seen |-> {}, movable |-> {}, asked |-> {},
           goal |-> NoGoal, round |-> 0]

(* unresolved_offline_packages *)
Owned(n) == {p \in Packages : package[p].owner = n /\ package[p].state \in Unresolved}

(* MembershipManager::status: the members without a tombstone.  Learners, and  *)
(* whether a member was seen lately, are left out: a node that is not asked is *)
(* a node that does not answer.                                                *)
Roster == voters \ removed

Fault(kind) == kind \in Faults /\ faults < MaxFaults /\ faults' = faults + 1

Goto(c, step) == call' = [call EXCEPT ![c].step = step]
Return(c)     == call' = [call EXCEPT ![c] = NoCall]

-----------------------------------------------------------------------------
(* The removal. *)

(* The checks before anything is touched.  The voters are read here, once.     *)
Begin(c, n, kind) ==
  /\ call[c].step = "none"
  /\ n \in Roster
  /\ Cardinality(voters) >= 3
  /\ kind # "remove" => n \in up
  /\ call' = [call EXCEPT ![c] = [NoCall EXCEPT !.step = "read", !.kind = kind, !.target = n,
                !.remaining = voters \ {n}]]
  /\ UNCHANGED <<package, asking, making, clients, cluster, faults>>

(* resolve_offline_work reads what there is to resolve. *)
ReadWork(c) ==
  /\ call[c].step = "read"
  /\ LET seen == Owned(call[c].target) IN
     call' = [call EXCEPT
       ![c].step    = IF seen = {} THEN "count" ELSE "transfers",
       ![c].seen    = seen,
       ![c].movable = {p \in seen : package[p].state \in Movable}]
  /\ UNCHANGED <<package, asking, making, clients, cluster, faults>>

(* Plausible bug: a removal that goes another round does not look again. *)
CheckTransfersOnce(c) ==
  /\ call[c].step = "transfers"
  /\ IF call[c].round = 0 /\ \E p \in transfers : package[p].owner = call[c].target
     THEN Return(c)
     ELSE Goto(c, IF call[c].movable = {} THEN "resolve" ELSE "ask")
  /\ UNCHANGED <<package, asking, making, clients, cluster, faults>>

(* Refused while a client downloads from the node. *)
CheckTransfers(c) ==
  /\ call[c].step = "transfers"
  /\ IF \E p \in transfers : package[p].owner = call[c].target
     THEN Return(c)
     ELSE Goto(c, IF call[c].movable = {} THEN "resolve" ELSE "ask")
  /\ UNCHANGED <<package, asking, making, clients, cluster, faults>>

Asked(c) == call[c].movable \X (Roster \ {call[c].target})

(* request_offline_source_probes: asking again drops an earlier answer. *)
Ask(c) ==
  /\ call[c].step = "ask"
  /\ probe' = [a \in DOMAIN probe |-> IF a \in Asked(c) THEN "asked" ELSE probe[a]]
  /\ proved' = proved \ Asked(c)
  /\ fresh' = {n \in fresh : <<look[n], n>> \notin Asked(c)}
  /\ call' = [call EXCEPT ![c].step = "verify", ![c].asked = Roster \ {call[c].target}]
  /\ UNCHANGED <<package, look, making, clients, cluster, faults>>

(* verified_offline_source_nodes, of those this removal asked. *)
Verified(c, p) == {n \in call[c].asked : probe[<<p, n>>] = "yes"}

(* The first of them by node_id takes the package; without one it is failed.    *)
Takes(c, p, n) ==
  IF p \in call[c].movable /\ Verified(c, p) # {}
  THEN n \in Verified(c, p) /\ \A m \in Verified(c, p) : n <= m
  ELSE n = NoNode

(* await_source_probes: any moment until PROBE_WAIT is over. *)
Verify(c) ==
  /\ call[c].step = "verify"
  /\ \E goal \in [Packages -> Nodes \cup {NoNode}] :
       /\ \A p \in Packages : Takes(c, p, goal[p])
       /\ call' = [call EXCEPT ![c].step = "resolve", ![c].goal = goal]
  /\ UNCHANGED <<package, asking, making, clients, cluster, faults>>

(* The statement of one entry of the plan still has a row. *)
Applies(c, p) ==
  /\ package[p].owner = call[c].target
  /\ package[p].state \in IF call[c].goal[p] = NoNode THEN Unresolved ELSE Movable

Resolved(c, p) ==
  IF call[c].goal[p] = NoNode THEN [package[p] EXCEPT !.state = "failed"]
  ELSE [state |-> "queued", owner |-> call[c].goal[p], recipe |-> NoRecipe]

(* resolve_offline_packages_for_removal: one transaction. *)
ApplyPlan(c) ==
  LET changed == {p \in call[c].seen : Applies(c, p)} IN
  /\ package' = [p \in Packages |-> IF p \in changed THEN Resolved(c, p) ELSE package[p]]
  /\ transfers' = transfers \ {p \in changed : call[c].goal[p] = NoNode}
  /\ late' = late \cap transfers'

(* A row that moved refuses the removal; what did apply stays. *)
Resolve(c) ==
  /\ call[c].step = "resolve"
  /\ ApplyPlan(c)
  /\ IF \A p \in call[c].seen : Applies(c, p) THEN Goto(c, "count") ELSE Return(c)
  /\ UNCHANGED <<asking, making, cluster, faults>>

NextRound(c, step, round) ==
  call' = [call EXCEPT ![c] = [@ EXCEPT !.step = step, !.round = round,
             !.seen = {}, !.movable = {}, !.asked = {}, !.goal = NoGoal]]

Settled(c) == NextRound(c, IF call[c].kind = "leave" THEN "handoff" ELSE "commit", 0)

(* settle_offline_work: another round while there is new work, but not for ever. *)
Count(c) ==
  /\ call[c].step = "count"
  /\ LET round == call[c].round + 1 IN
     \/ Owned(call[c].target) = {} /\ Settled(c)
     \/ Owned(call[c].target) # {} /\ round < Rounds /\ NextRound(c, "read", round)
     \/ Owned(call[c].target) # {} /\ round >= Rounds /\ Return(c)
  /\ UNCHANGED <<package, asking, making, clients, cluster, faults>>

(* trigger_election and await_survivor_leader, of a node that leaves and leads, *)
(* until another leads.                                                        *)
Handoff(c) ==
  /\ call[c].step = "handoff"
  /\ Goto(c, "commit")
  /\ UNCHANGED <<package, asking, making, clients, cluster, faults>>

(* Hiqlite's change of membership, to nodes it knows. *)
Commit(c) ==
  /\ call[c].step = "commit"
  /\ IF call[c].remaining \subseteq voters
     THEN voters' = call[c].remaining /\ Goto(c, "tombstone")
     ELSE Return(c) /\ UNCHANGED voters
  /\ UNCHANGED <<package, asking, making, clients, removed, up, faults>>

Tombstone(c) ==
  /\ call[c].step = "tombstone"
  /\ removed' = removed \cup {call[c].target}
  /\ Goto(c, "left")
  /\ UNCHANGED <<package, asking, making, clients, voters, up, faults>>

(* fail_offline_work_left_behind reads what came after the last count ... *)
ReadLeft(c) ==
  /\ call[c].step = "left"
  /\ call' = [call EXCEPT ![c].step = "fail", ![c].seen = Owned(call[c].target)]
  /\ UNCHANGED <<package, asking, making, clients, cluster, faults>>

(* ... and fails it.  A node that left stops its daemon. *)
FailLeft(c) ==
  /\ call[c].step = "fail"
  /\ ApplyPlan(c)
  /\ up' = IF call[c].kind # "remove" THEN up \ {call[c].target} ELSE up
  /\ Return(c)
  /\ UNCHANGED <<asking, making, voters, removed, faults>>

(* The handler's future is dropped, its process dies, a statement fails, no    *)
(* survivor leads in time or the leader refuses the change: before anything is *)
(* committed ...                                                               *)
Interrupted(c) ==
  /\ call[c].step \in Settling \cup {"handoff", "commit"} /\ Fault("drop")
  /\ Return(c)
  /\ UNCHANGED <<package, asking, making, clients, cluster>>

(* ... or after it.                                                            *)
HalfDone(c) ==
  /\ call[c].step \in {"tombstone", "left", "fail"} /\ Fault("drop")
  /\ Return(c)
  /\ UNCHANGED <<package, asking, making, clients, cluster>>

(* The change is committed, and its answer is lost. *)
CommitUnanswered(c) ==
  /\ call[c].step = "commit" /\ call[c].remaining \subseteq voters /\ Fault("reply")
  /\ voters' = call[c].remaining
  /\ Return(c)
  /\ UNCHANGED <<package, asking, making, clients, removed, up>>

(* The tombstone cannot be written: remove_voter gives up, leave_voter goes on. *)
TombstoneFails(c) ==
  /\ call[c].step = "tombstone" /\ Fault("store")
  /\ IF call[c].kind # "remove" THEN Goto(c, "left") ELSE Return(c)
  /\ UNCHANGED <<package, asking, making, clients, cluster>>

-----------------------------------------------------------------------------
(* answer_offline_source_probes, on every node all the time. *)

(* The node takes up a question that is open, and begins to read the source. *)
Read(n, p) ==
  /\ n \in up /\ look[n] = NoPackage /\ probe[<<p, n>>] = "asked"
  /\ look' = [look EXCEPT ![n] = p]
  /\ fresh' = fresh \cup {n}
  /\ UNCHANGED <<package, probe, proved, making, clients, cluster, call, faults>>

(* It says whether the source was readable, unless the question is answered.   *)
Answer(n) ==
  /\ n \in up /\ look[n] # NoPackage
  /\ LET a == <<look[n], n>> IN
     \/ \E answer \in {"yes", "no"} :
          /\ probe[a] = "asked"
          /\ probe' = [probe EXCEPT ![a] = answer]
          /\ proved' = IF answer = "yes" /\ n \in fresh THEN proved \cup {a} ELSE proved
     \/ probe[a] # "asked" /\ UNCHANGED <<probe, proved>>
  /\ look' = [look EXCEPT ![n] = NoPackage]
  /\ fresh' = fresh \ {n}
  /\ UNCHANGED <<package, making, clients, cluster, call, faults>>

-----------------------------------------------------------------------------
(* The clients. *)

NoRow == [state |-> "none", owner |-> NoNode, recipe |-> NoRecipe]

(* A package that is deleted may be requested anew.  Its id is another one: the *)
(* name is taken again when nobody remembers the package it stood for.         *)
Forgotten(p) ==
  /\ \A n \in Nodes : work[n].package # p /\ look[n] # p
  /\ \A c \in Removals : p \notin call[c].seen

Insert(p, n) ==
  /\ package[p].state = "none" /\ Forgotten(p)
  /\ package' = [package EXCEPT ![p] = [state |-> "queued", owner |-> n, recipe |-> NoRecipe]]
  /\ bytes' = {b \in bytes : b[1] # p}
  /\ UNCHANGED <<asking, work, clients, cluster, call, faults>>

(* Plausible bug: the insert does not look for a tombstone. *)
CreateAnyway(p, n) == n \in up /\ Insert(p, n)

(* create_offline_package, owned by the node that was asked. *)
Create(p, n) == n \in up /\ n \notin removed /\ Insert(p, n)

(* delete_offline_package and the expiry; the questions about it go with it.    *)
Delete(p) ==
  /\ package[p].state # "none"
  /\ package' = [package EXCEPT ![p] = NoRow]
  /\ transfers' = transfers \ {p}
  /\ late' = late \ {p}
  /\ probe' = [a \in DOMAIN probe |-> IF a[1] = p THEN "unasked" ELSE probe[a]]
  /\ proved' = {a \in proved : a[1] # p}
  /\ UNCHANGED <<look, fresh, making, cluster, call, faults>>

(* The removal does not look for downloads again before it fails the packages. *)
Looked(c) == call[c].step \in {"ask", "verify", "resolve"} \cup Leaving

(* put_offline_lease, and the requests that keep it alive. *)
StartTransfer(p) ==
  /\ package[p].state = "ready" /\ package[p].owner \in up
  /\ p \notin transfers
  /\ transfers' = transfers \cup {p}
  /\ late' = IF \E c \in Removals : call[c].target = package[p].owner /\ Looked(c)
             THEN late \cup {p} ELSE late
  /\ UNCHANGED <<package, asking, making, cluster, call, faults>>

EndTransfer(p) ==
  /\ p \in transfers
  /\ transfers' = transfers \ {p}
  /\ late' = late \ {p}
  /\ UNCHANGED <<package, asking, making, cluster, call, faults>>

-----------------------------------------------------------------------------
(* The producer of each node. *)

Mine(p, n, states) == package[p].owner = n /\ package[p].state \in states

(* claim_next_offline_package *)
Claim(n, p) ==
  /\ n \in up /\ work[n] = Idle
  /\ Mine(p, n, {"queued"})
  /\ package' = [package EXCEPT ![p].state = "preparing"]
  /\ work' = [work EXCEPT ![n] = [package |-> p, stage |-> "claimed"]]
  /\ UNCHANGED <<asking, bytes, clients, cluster, call, faults>>

(* set_offline_package_recipe asks for the state of the row, not for its owner. *)
SetRecipe(n) ==
  /\ n \in up /\ work[n].stage = "claimed"
  /\ LET p == work[n].package IN
     IF package[p].state = "preparing" /\ package[p].recipe \in {NoRecipe, Recipe[n]}
     THEN /\ package' = [package EXCEPT ![p].recipe = Recipe[n]]
          /\ work' = [work EXCEPT ![n].stage = "encoding"]
     ELSE /\ work' = [work EXCEPT ![n].stage = "failing"]
          /\ UNCHANGED package
  /\ UNCHANGED <<asking, bytes, clients, cluster, call, faults>>

(* Plausible bug: mark_offline_package_ready does not ask for the owner. *)
PublishUnowned(n) ==
  /\ n \in up /\ work[n].stage = "encoding"
  /\ LET p == work[n].package IN
     /\ bytes' = bytes \cup {<<p, n>>}
     /\ package' = IF package[p].state \in Movable
                   THEN [package EXCEPT ![p].state = "ready", ![p].recipe = Recipe[n]]
                   ELSE package
  /\ work' = [work EXCEPT ![n] = Idle]
  /\ UNCHANGED <<asking, clients, cluster, call, faults>>

(* publish_ready, mark_offline_package_ready *)
Publish(n) ==
  /\ n \in up /\ work[n].stage = "encoding"
  /\ LET p == work[n].package IN
     /\ bytes' = bytes \cup {<<p, n>>}
     /\ package' = IF Mine(p, n, Movable)
                   THEN [package EXCEPT ![p].state = "ready", ![p].recipe = Recipe[n]]
                   ELSE package
  /\ work' = [work EXCEPT ![n] = Idle]
  /\ UNCHANGED <<asking, clients, cluster, call, faults>>

(* The package yields to a viewer: requeue_offline_package. *)
Yield(n) ==
  /\ n \in up /\ work[n].stage = "encoding"
  /\ LET p == work[n].package IN
     package' = IF Mine(p, n, {"preparing"}) THEN [package EXCEPT ![p].state = "queued"]
                ELSE package
  /\ work' = [work EXCEPT ![n] = Idle]
  /\ UNCHANGED <<asking, bytes, clients, cluster, call, faults>>

(* fail_offline_package *)
FailPackage(n) ==
  /\ n \in up /\ work[n].stage = "failing"
  /\ LET p == work[n].package IN
     package' = IF Mine(p, n, Movable) THEN [package EXCEPT ![p].state = "failed"] ELSE package
  /\ work' = [work EXCEPT ![n] = Idle]
  /\ UNCHANGED <<asking, bytes, clients, cluster, call, faults>>

-----------------------------------------------------------------------------
(* Raft, external. *)

(* A node joins: Hiqlite adds it to the voters of that moment. *)
Join(n) ==
  /\ n \notin voters \cup removed \cup up
  /\ voters' = voters \cup {n}
  /\ up' = up \cup {n}
  /\ UNCHANGED <<package, asking, making, clients, removed, call, faults>>

-----------------------------------------------------------------------------
Init ==
  /\ package = [p \in Packages |-> NoRow]
  /\ probe = [a \in Packages \X Nodes |-> "unasked"]
  /\ proved = {}
  /\ look = [n \in Nodes |-> NoPackage]
  /\ fresh = {}
  /\ work = [n \in Nodes |-> Idle]
  /\ bytes = {}
  /\ transfers = {}
  /\ late = {}
  /\ voters = Founders
  /\ removed = {}
  /\ up = Founders
  /\ call = [c \in Removals |-> NoCall]
  /\ faults = 0

Settle(c) == ReadWork(c) \/ CheckTransfers(c) \/ Ask(c) \/ Verify(c) \/ Resolve(c) \/ Count(c)
Leave(c)  == Handoff(c) \/ Commit(c) \/ Tombstone(c) \/ ReadLeft(c) \/ FailLeft(c)
Halfway(c) == HalfDone(c) \/ CommitUnanswered(c) \/ TombstoneFails(c)

Remove == \E c \in Removals :
  \/ \E n \in Nodes, kind \in Kinds : Begin(c, n, kind)
  \/ Settle(c) \/ Leave(c) \/ Interrupted(c)

Probe   == \E n \in Nodes : Answer(n) \/ \E p \in Packages : Read(n, p)
Client  == \E p \in Packages :
             Delete(p) \/ StartTransfer(p) \/ EndTransfer(p) \/ \E n \in Nodes : Create(p, n)
Produce(n) == SetRecipe(n) \/ Publish(n) \/ Yield(n) \/ FailPackage(n)
                \/ \E p \in Packages : Claim(n, p)

Next == Remove \/ Probe \/ Client \/ (\E n \in Nodes : Produce(n))
          \/ (\E n \in Nodes : Join(n))

Spec == Init /\ [][Next]_vars

(* With failures between the commit of a removal and its end, too. *)
HalfwaySpec == Init /\ [][Next \/ \E c \in Removals : Halfway(c)]_vars
-----------------------------------------------------------------------------
Steps == {"none"} \cup Settling \cup Leaving

Call == [step : Steps, kind : Kinds, target : Nodes \cup {NoNode},
         remaining : SUBSET Nodes, seen : SUBSET Packages, movable : SUBSET Packages,
         asked : SUBSET Nodes, goal : [Packages -> Nodes \cup {NoNode}], round : 0 .. Rounds]

TypeOK ==
  /\ package \in [Packages -> Row]
  /\ probe \in [Packages \X Nodes -> {"unasked", "asked", "yes", "no"}]
  /\ proved \subseteq Packages \X Nodes
  /\ look \in [Nodes -> Packages \cup {NoPackage}] /\ fresh \subseteq Nodes
  /\ work \in [Nodes -> Work]
  /\ bytes \subseteq Packages \X Nodes
  /\ late \subseteq transfers /\ transfers \subseteq Packages
  /\ voters \subseteq Nodes /\ removed \subseteq Nodes /\ up \subseteq Nodes
  /\ call \in [Removals -> Call]
  /\ faults \in 0 .. MaxFaults
  /\ \A p \in Packages : package[p].owner = NoNode <=> package[p].state = "none"

(* Once the removal of a node is over, no package waits, is prepared or is     *)
(* offered in its name.                                                        *)
NothingStranded ==
  \A p \in Packages :
    package[p].state \in Unresolved /\ package[p].owner \in removed =>
      \E c \in Removals : call[c].target = package[p].owner /\ call[c].step \in Leaving

(* The bytes a ready package promises are on the node it sends clients to,     *)
(* whatever the producers that lost it still do.                               *)
ReadyBytesAtOwner ==
  \A p \in Packages : package[p].state = "ready" => <<p, package[p].owner>> \in bytes

(* A package moves only to a member that has answered that it reads the source. *)
MovedOnlyToReaders ==
  [][\A p \in Packages :
       LET from == package[p].owner  to == package'[p].owner IN
       from # to /\ NoNode \notin {from, to} => to \in Roster /\ probe[<<p, to>>] = "yes"]_vars

(* A removal takes no package from a client that was downloading it when the   *)
(* removal looked.                                                             *)
DownloadsAreNotCut ==
  [][\A p \in transfers : package[p].state = "ready" /\ package'[p].state = "failed" => p \in late]_vars

(* "it is refused while a client is downloading": of any client.                *)
NoDownloadIsCut ==
  [][\A p \in transfers : package'[p].state # "failed"]_vars

(* A member that was removed has its tombstone once the removal is over.       *)
RemovalIsWhole ==
  \A n \in up \ voters : n \in removed \/ \E c \in Removals : call[c].target = n

(* A change of the voters removes the node it was asked to remove.             *)
OnlyTheTargetGoes ==
  [][\A n \in voters \ voters' : \E c \in Removals : call[c].target = n]_vars

(* What moves a package is an answer read after this removal asked.            *)
MovedOnFreshProof ==
  [][\A p \in Packages :
       LET from == package[p].owner  to == package'[p].owner IN
       from # to /\ NoNode \notin {from, to} => <<p, to>> \in proved]_vars

(* A package whose new owner can read its source is not failed by what the     *)
(* old owner's producer still does.                                            *)
MovedWorkIsKept ==
  [][\A n \in Nodes : FailPackage(n) =>
       ~(work[n].package \in Packages /\ Mine(work[n].package, n, Movable)
           /\ package[work[n].package].recipe \notin {NoRecipe, Recipe[n]})]_vars
=============================================================================
