-------------------------- MODULE NodeRemoval_proofs --------------------------
(* Proofs about NodeRemoval, for any nodes, packages, rounds and faults before *)
(* the commit, as long as there is one removal at a time.                      *)
EXTENDS NodeRemoval, TLAPS

OneAtATime == \A c, d \in Removals : c = d

(* What a removal knows of the nodes it asked, ... *)
KnowsReaders(c) ==
  /\ call[c].step \in Settling \ {"count"} => call[c].asked \subseteq Roster
  /\ call[c].step \in Settling => call[c].movable \subseteq call[c].seen
  /\ call[c].step \notin {"resolve", "count"} => \A p \in Packages : call[c].goal[p] = NoNode
  /\ call[c].step = "resolve" =>
       \A p \in Packages : call[c].goal[p] # NoNode =>
         /\ call[c].goal[p] \in call[c].asked /\ p \in call[c].seen
         /\ package[p].state = "none" \/ probe[<<p, call[c].goal[p]>>] = "yes"

(* ... of its target, ... *)
KnowsTarget(c) ==
  /\ call[c].step \in Settling \cup {"handoff", "commit", "tombstone"} =>
       call[c].target \notin removed
  /\ call[c].step \in {"left", "fail"} => call[c].target \in removed
  /\ call[c].step = "fail" => Owned(call[c].target) \subseteq call[c].seen

(* ... and of the downloads. *)
KnowsDownloads(c) ==
  Looked(c) => \A p \in transfers : package[p].owner = call[c].target => p \in late

Knowledge == \A c \in Removals : KnowsReaders(c) /\ KnowsTarget(c) /\ KnowsDownloads(c)

(* A client downloads what is ready. *)
Downloading == \A p \in transfers : package[p].state = "ready"

(* A call at work has a target. *)
Targeted == \A c \in Removals : call[c].step # "none" => call[c].target # NoNode

(* A producer at work has a package. *)
Busy == \A n \in Nodes : work[n].stage # "idle" => work[n].package # NoPackage

Types == TypeOK /\ Targeted /\ Busy
Inv   == Types /\ NothingStranded /\ Downloading /\ Knowledge

-----------------------------------------------------------------------------
LEMMA Constants ==
  /\ NoNode \notin Nodes /\ NoPackage \notin Packages /\ Rounds \in Nat \ {0} /\ MaxFaults \in Nat
  /\ DOMAIN Recipe = Nodes /\ Founders \subseteq Nodes
BY NodesAreOrdered, NoNodeIsNone, NoPackageIsNone, RecipeType, BoundsAreNaturals

Calls == call \in [Removals -> Call] /\ Targeted

LEMMA NoCallType == NoCall \in Call
BY Constants DEF NoCall, NoGoal, Call, Kinds, Steps

LEMMA InitTypes == Init => TypeOK
BY Constants, NoCallType
DEF Init, TypeOK, NoRow, Row, States, Unresolved, Movable, Recipes, Work, Idle

(* What a step of a call leaves of the calls. *)
LEMMA Going ==
  ASSUME Calls, NEW c \in Removals,
         call[c].step # "none", NEW step \in Steps \ {"none"}, Goto(c, step)
  PROVE  Calls'
BY DEF Goto, Call, Calls, Targeted

LEMMA Returning ==
  ASSUME Calls, NEW c \in Removals, Return(c)
  PROVE  Calls'
BY NoCallType DEF Return, NoCall, Calls, Targeted

LEMMA Renewing ==
  ASSUME Calls, NEW c \in Removals,
         call[c].step # "none", NEW step \in Steps \ {"none"}, NEW round \in 0 .. Rounds,
         NextRound(c, step, round)
  PROVE  Calls'
<1> DEFINE new == [call[c] EXCEPT !.step = step, !.round = round,
                     !.seen = {}, !.movable = {}, !.asked = {}, !.goal = NoGoal]
<1>1. NoGoal \in [Packages -> Nodes \cup {NoNode}]
      BY DEF NoGoal
<1>2. new \in Call /\ new.target # NoNode
      BY <1>1 DEF Call, Calls, Targeted
<1>3. call' = [call EXCEPT ![c] = new]
      BY DEF NextRound
<1> QED BY <1>2, <1>3 DEF Calls, Targeted

(* ... and what it changes of its own. *)
LEMMA Amending ==
  ASSUME Calls, NEW c \in Removals, NEW k \in Call, k.step # "none" => k.target # NoNode,
         call' = [call EXCEPT ![c] = k]
  PROVE  Calls'
BY DEF Calls, Targeted

WithWork(k, step, S, T) == [k EXCEPT !.step = step, !.seen = S, !.movable = T]
WithSeen(k, step, S)    == [k EXCEPT !.step = step, !.seen = S]
WithAsked(k, step, S)   == [k EXCEPT !.step = step, !.asked = S]
WithGoal(k, step, goal) == [k EXCEPT !.step = step, !.goal = goal]

LEMMA AmendedWork ==
  ASSUME NEW k \in Call, NEW step \in Steps, NEW S \in SUBSET Packages, NEW T \in SUBSET Packages
  PROVE  WithWork(k, step, S, T) \in Call /\ WithWork(k, step, S, T).target = k.target
BY DEF Call, WithWork

LEMMA AmendedSeen ==
  ASSUME NEW k \in Call, NEW step \in Steps, NEW S \in SUBSET Packages
  PROVE  WithSeen(k, step, S) \in Call /\ WithSeen(k, step, S).target = k.target
BY DEF Call, WithSeen

LEMMA AmendedAsked ==
  ASSUME NEW k \in Call, NEW step \in Steps, NEW S \in SUBSET Nodes
  PROVE  WithAsked(k, step, S) \in Call /\ WithAsked(k, step, S).target = k.target
BY DEF Call, WithAsked

LEMMA AmendedGoal ==
  ASSUME NEW k \in Call, NEW step \in Steps, NEW goal \in [Packages -> Nodes \cup {NoNode}]
  PROVE  WithGoal(k, step, goal) \in Call /\ WithGoal(k, step, goal).target = k.target
BY DEF Call, WithGoal

LEMMA Planned ==
  ASSUME TypeOK, NEW c \in Removals, ApplyPlan(c)
  PROVE  /\ package' \in [Packages -> Row]
         /\ late' \subseteq transfers' /\ transfers' \subseteq Packages
         /\ \A p \in Packages : package'[p].owner = NoNode <=> package'[p].state = "none"
<1> USE Constants DEF TypeOK
<1>1. ASSUME NEW p \in Packages, Applies(c, p)
      PROVE  /\ Resolved(c, p) \in Row /\ Resolved(c, p).owner # NoNode
             /\ Resolved(c, p).state # "none"
  <2>1. /\ package[p] \in Row /\ package[p].state \in Unresolved /\ package[p].owner # NoNode
        /\ call[c].goal[p] \in Nodes \cup {NoNode}
        BY <1>1 DEF Applies, Row, States, Unresolved, Movable, Call
  <2>2. CASE call[c].goal[p] = NoNode
        BY <2>1, <2>2 DEF Resolved, Row, States
  <2>3. CASE call[c].goal[p] # NoNode
        BY <2>1, <2>3 DEF Resolved, Row, States, Unresolved, Movable, Recipes
  <2> QED BY <2>2, <2>3
<1>2. /\ package' \in [Packages -> Row]
      /\ \A p \in Packages : package'[p].owner = NoNode <=> package'[p].state = "none"
      BY <1>1 DEF ApplyPlan
<1> QED BY <1>2 DEF ApplyPlan

LEMMA Working ==
  ASSUME TypeOK, NEW n \in Nodes, NEW w \in Work
  PROVE  [work EXCEPT ![n] = w] \in [Nodes -> Work]
BY DEF TypeOK

(* A producer's statement gives at most one row of its own another state, and  *)
(* maybe its recipe. *)
Touched(q, state, recipe) ==
  package' = [package EXCEPT ![q].state = state, ![q].recipe = recipe]

LEMMA Touching ==
  ASSUME TypeOK, NEW q \in Packages, package[q].state # "none",
         NEW state \in States \ {"none"}, NEW recipe \in Recipes, Touched(q, state, recipe)
  PROVE  /\ package' \in [Packages -> Row]
         /\ \A p \in Packages : package'[p].owner = NoNode <=> package'[p].state = "none"
BY DEF TypeOK, Touched, Row

LEMMA Noting ==
  ASSUME TypeOK, NEW q \in Packages, NEW recipe \in Recipes,
         package' = [package EXCEPT ![q].recipe = recipe]
  PROVE  /\ package' \in [Packages -> Row]
         /\ \A p \in Packages : package'[p].owner = NoNode <=> package'[p].state = "none"
BY DEF TypeOK, Row

LEMMA BusyStep == TypeOK /\ Busy /\ [Next]_vars => Busy'
<1> SUFFICES ASSUME TypeOK, Busy, [Next]_vars PROVE Busy'
    OBVIOUS
<1> USE Constants DEF TypeOK, Busy, Work, Idle
<1>1. CASE UNCHANGED work
      BY <1>1
<1>2. ASSUME NEW n \in Nodes, NEW p \in Packages, Claim(n, p) PROVE Busy'
      BY <1>2 DEF Claim
<1>3. ASSUME NEW n \in Nodes, SetRecipe(n) PROVE Busy'
  <2>1. PICK stage : work' = [work EXCEPT ![n].stage = stage]
        BY <1>3 DEF SetRecipe
  <2>2. work[n].package # NoPackage
        BY <1>3 DEF SetRecipe
  <2> QED BY <2>1, <2>2
<1>4. ASSUME NEW n \in Nodes, Publish(n) \/ Yield(n) \/ FailPackage(n) PROVE Busy'
      BY <1>4 DEF Publish, Yield, FailPackage
<1>5. ASSUME NEW n \in Nodes, Produce(n) PROVE Busy'
      BY <1>2, <1>3, <1>4, <1>5 DEF Produce
<1>6. CASE Remove
      BY <1>1, <1>6
      DEF Remove, Begin, Settle, Leave, Interrupted, ReadWork, CheckTransfers, Ask, Verify,
          Resolve, Count, Handoff, Commit, Tombstone, ReadLeft, FailLeft, making
<1>7. CASE Probe
      BY <1>1, <1>7 DEF Probe, Read, Answer, making
<1>8. CASE Client
      BY <1>1, <1>8 DEF Client, Delete, StartTransfer, EndTransfer, Create, Insert, making
<1>9. CASE \E n \in Nodes : Join(n)
      BY <1>1, <1>9 DEF Join, making
<1> QED BY <1>1, <1>5, <1>6, <1>7, <1>8, <1>9 DEF Next, vars

LEMMA TypeStep == TypeOK /\ Targeted /\ Busy /\ [Next]_vars => TypeOK' /\ Targeted'
<1> SUFFICES ASSUME TypeOK, Targeted, Busy, [Next]_vars PROVE TypeOK' /\ Targeted'
    OBVIOUS
<1> USE Constants
<1>0. Calls
      BY DEF TypeOK, Calls
<1> USE DEF TypeOK, cluster, clients, making, asking
<1>1. ASSUME NEW c \in Removals, NEW n \in Nodes, NEW kind \in Kinds, Begin(c, n, kind)
      PROVE  TypeOK' /\ Targeted'
  <2> DEFINE new == [NoCall EXCEPT !.step = "read", !.kind = kind, !.target = n,
                       !.remaining = voters \ {n}]
  <2>1. new \in Call /\ new.target # NoNode
        BY NoCallType DEF Call, NoCall, Steps, Settling
  <2>2. call' = [call EXCEPT ![c] = new]
        BY <1>1 DEF Begin
  <2> HIDE DEF new
  <2>3. Calls'
        BY <1>0, <2>1, <2>2, Amending
  <2> QED BY <1>1, <2>3 DEF Begin, Calls
<1>2. ASSUME NEW c \in Removals, ReadWork(c) PROVE TypeOK' /\ Targeted'
  <2> DEFINE seen == Owned(call[c].target)
             movable == {p \in seen : package[p].state \in Movable}
             step == IF seen = {} THEN "count" ELSE "transfers"
             new == WithWork(call[c], step, seen, movable)
  <2>1. call[c] \in Call /\ call[c].target # NoNode
        BY <1>2 DEF Targeted, ReadWork
  <2>2. seen \in SUBSET Packages /\ movable \in SUBSET Packages /\ step \in Steps
        BY DEF Steps, Settling, Owned
  <2>3. call' = [call EXCEPT ![c] = new]
        BY <1>2 DEF ReadWork, WithWork
  <2> HIDE DEF seen, movable, step
  <2>4. new \in Call /\ new.target # NoNode
        BY <2>1, <2>2, AmendedWork
  <2> HIDE DEF new
  <2>5. Calls'
        BY <1>0, <2>3, <2>4, Amending
  <2> QED BY <1>2, <2>5 DEF ReadWork, Calls
<1>3. ASSUME NEW c \in Removals, CheckTransfers(c) PROVE TypeOK' /\ Targeted'
  <2>1. Calls'
        BY <1>3, <1>0, Going, Returning DEF CheckTransfers, Steps, Settling
  <2> QED BY <1>3, <2>1 DEF CheckTransfers, Calls
<1>4. ASSUME NEW c \in Removals, Ask(c) PROVE TypeOK' /\ Targeted'
  <2> DEFINE asked == Roster \ {call[c].target}
             new == WithAsked(call[c], "verify", asked)
  <2>1. call[c] \in Call /\ call[c].target # NoNode
        BY <1>4 DEF Targeted, Ask
  <2>2. call' = [call EXCEPT ![c] = new]
        BY <1>4 DEF Ask, WithAsked
  <2>3. asked \in SUBSET Nodes /\ "verify" \in Steps
        BY DEF Roster, Steps, Settling
  <2>4. Calls'
    <3> HIDE DEF asked
    <3>1. new \in Call /\ new.target # NoNode
          BY <2>1, <2>3, AmendedAsked
    <3> HIDE DEF new
    <3> QED BY <1>0, <2>2, <3>1, Amending
  <2>5. fresh' \subseteq Nodes
        BY <1>4 DEF Ask
  <2>6. probe' \in [Packages \X Nodes -> {"unasked", "asked", "yes", "no"}]
        BY <1>4 DEF Ask
  <2>7. proved' \subseteq proved
        BY <1>4 DEF Ask
  <2> HIDE DEF asked, new
  <2> QED BY <1>4, <2>4, <2>5, <2>6, <2>7 DEF Ask, Calls
<1>5. ASSUME NEW c \in Removals, Verify(c) PROVE TypeOK' /\ Targeted'
  <2>1. PICK goal \in [Packages -> Nodes \cup {NoNode}] :
               call' = [call EXCEPT ![c] = [call[c] EXCEPT !.step = "resolve", !.goal = goal]]
        BY <1>5 DEF Verify
  <2> DEFINE new == WithGoal(call[c], "resolve", goal)
  <2>2. call[c] \in Call /\ call[c].target # NoNode /\ "resolve" \in Steps
        BY <1>5 DEF Targeted, Verify, Steps, Settling
  <2>3. new \in Call /\ new.target # NoNode
        BY <2>2, AmendedGoal
  <2>4. call' = [call EXCEPT ![c] = new]
        BY <2>1 DEF WithGoal
  <2> HIDE DEF new
  <2>5. Calls'
        BY <1>0, <2>3, <2>4, Amending
  <2> QED BY <1>5, <2>5 DEF Verify, Calls
<1>6. ASSUME NEW c \in Removals, Resolve(c) PROVE TypeOK' /\ Targeted'
  <2>1. Calls'
        BY <1>6, <1>0, Going, Returning DEF Resolve, Steps, Settling
  <2> QED BY <1>6, <2>1, Planned DEF Resolve, Calls
<1>7. ASSUME NEW c \in Removals, Count(c) PROVE TypeOK' /\ Targeted'
  <2>1. call[c].step # "none"
        BY <1>7 DEF Count
  <2>2. ASSUME NEW step \in Steps \ {"none"}, NEW round \in 0 .. Rounds, NextRound(c, step, round)
        PROVE  Calls'
        BY <1>0, <2>1, <2>2, Renewing
  <2>3. CASE Settled(c)
    <3>1. {"handoff", "commit"} \subseteq Steps \ {"none"} /\ 0 \in 0 .. Rounds
          BY DEF Steps, Leaving
    <3>2. NextRound(c, "handoff", 0) \/ NextRound(c, "commit", 0)
          BY <2>3 DEF Settled
    <3>3. Calls'
          BY <2>2, <3>1, <3>2
    <3> QED BY <1>7, <3>3 DEF Count, Calls
  <2>4. CASE Return(c)
    <3>1. Calls'
          BY <1>0, <2>4, Returning
    <3> QED BY <1>7, <3>1 DEF Count, Calls
  <2>5. CASE call[c].round + 1 < Rounds /\ NextRound(c, "read", call[c].round + 1)
    <3>1. call[c].round \in 0 .. Rounds
          BY DEF Call
    <3>2. "read" \in Steps \ {"none"} /\ call[c].round + 1 \in 0 .. Rounds
          BY <2>5, <3>1 DEF Steps, Settling
    <3>3. Calls'
          BY <2>2, <2>5, <3>2
    <3> QED BY <1>7, <3>3 DEF Count, Calls
  <2> QED BY <1>7, <2>3, <2>4, <2>5 DEF Count
<1>8. ASSUME NEW c \in Removals, Handoff(c) \/ Commit(c) \/ Tombstone(c) PROVE TypeOK' /\ Targeted'
  <2>1. Calls'
        BY <1>8, <1>0, Going, Returning DEF Handoff, Commit, Tombstone, Steps, Leaving
  <2>2. call[c].remaining \subseteq Nodes
        BY DEF Call
  <2>3. CASE Handoff(c)
        BY <2>1, <2>3 DEF Handoff, Calls
  <2>4. CASE Commit(c)
        BY <2>1, <2>2, <2>4 DEF Commit, Calls
  <2>5. CASE Tombstone(c)
    <3>1. call[c].target \in Nodes
        BY <2>5 DEF Tombstone, Call, Targeted
    <3> QED BY <2>1, <2>5, <3>1 DEF Tombstone, Calls
  <2> QED BY <1>8, <2>3, <2>4, <2>5
<1>9. ASSUME NEW c \in Removals, ReadLeft(c) PROVE TypeOK' /\ Targeted'
  <2> DEFINE seen == Owned(call[c].target)
             new == WithSeen(call[c], "fail", seen)
  <2>1. call[c] \in Call /\ call[c].target # NoNode /\ "fail" \in Steps
        BY <1>9 DEF Targeted, ReadLeft, Steps, Leaving
  <2>2. call' = [call EXCEPT ![c] = new]
        BY <1>9 DEF ReadLeft, WithSeen
  <2>3. seen \in SUBSET Packages
        BY DEF Owned
  <2> HIDE DEF seen
  <2>4. new \in Call /\ new.target # NoNode
        BY <2>1, <2>3, AmendedSeen
  <2> HIDE DEF new
  <2>5. Calls'
        BY <1>0, <2>2, <2>4, Amending
  <2> QED BY <1>9, <2>5 DEF ReadLeft, Calls
<1>10. ASSUME NEW c \in Removals, FailLeft(c) PROVE TypeOK' /\ Targeted'
  <2>1. Calls'
        BY <1>10, <1>0, Returning DEF FailLeft
  <2> QED BY <1>10, <2>1, Planned DEF FailLeft, Calls
<1>11. ASSUME NEW c \in Removals, Interrupted(c) PROVE TypeOK' /\ Targeted'
  <2>1. Calls'
        BY <1>11, <1>0, Returning DEF Interrupted
  <2> QED BY <1>11, <2>1 DEF Interrupted, Fault, Calls
<1>12. ASSUME NEW n \in Nodes, NEW p \in Packages, Read(n, p) PROVE TypeOK' /\ Targeted'
       BY <1>12 DEF Read, Targeted
<1>13. ASSUME NEW n \in Nodes, Answer(n) PROVE TypeOK' /\ Targeted'
  <2>1. look' \in [Nodes -> Packages \cup {NoPackage}] /\ fresh' \subseteq Nodes
        BY <1>13 DEF Answer
  <2>2. <<look[n], n>> \in Packages \X Nodes
        BY <1>13 DEF Answer
  <2>3. probe' \in [Packages \X Nodes -> {"unasked", "asked", "yes", "no"}]
        BY <1>13, <2>2 DEF Answer
  <2>4. proved' \subseteq Packages \X Nodes
        BY <1>13, <2>2 DEF Answer
  <2> QED BY <1>13, <2>1, <2>3, <2>4 DEF Answer, Targeted
<1>14. ASSUME NEW p \in Packages, NEW n \in Nodes, Create(p, n) PROVE TypeOK' /\ Targeted'
  <2>1. [state |-> "queued", owner |-> n, recipe |-> NoRecipe] \in Row
        BY DEF Row, States, Unresolved, Movable, Recipes
  <2> QED BY <1>14, <2>1 DEF Create, Insert, Targeted
<1>15. ASSUME NEW p \in Packages, Delete(p) PROVE TypeOK' /\ Targeted'
  <2>1. NoRow \in Row
        BY DEF NoRow, Row, States, Unresolved, Movable, Recipes
  <2>2. probe' \in [Packages \X Nodes -> {"unasked", "asked", "yes", "no"}]
        BY <1>15 DEF Delete
  <2> QED BY <1>15, <2>1, <2>2 DEF Delete, NoRow, Targeted
<1>16. ASSUME NEW p \in Packages, StartTransfer(p) \/ EndTransfer(p) PROVE TypeOK' /\ Targeted'
  <2>1. CASE StartTransfer(p)
        BY <2>1 DEF StartTransfer, Targeted
  <2>2. CASE EndTransfer(p)
        BY <2>2 DEF EndTransfer, Targeted
  <2> QED BY <1>16, <2>1, <2>2
<1>17. ASSUME NEW n \in Nodes, NEW p \in Packages, Claim(n, p) PROVE TypeOK' /\ Targeted'
  <2>1. Touched(p, "preparing", package[p].recipe) /\ package[p].state # "none"
        BY <1>17 DEF Claim, Touched, Mine, Row
  <2>2. package[p].recipe \in Recipes /\ "preparing" \in States \ {"none"}
        BY DEF Row, States, Unresolved, Movable
  <2>3. [package |-> p, stage |-> "claimed"] \in Work
        BY DEF Work
  <2> QED BY <1>17, <2>1, <2>2, <2>3, Working, Touching DEF Claim, Targeted
<1>18. ASSUME NEW n \in Nodes, work[n].stage # "idle"
       PROVE  /\ work[n].package \in Packages
              /\ \A stage \in {"encoding", "failing"} :
                   [work EXCEPT ![n].stage = stage] \in [Nodes -> Work]
              /\ [work EXCEPT ![n] = Idle] \in [Nodes -> Work]
  <2>1. work[n] \in Work /\ Idle \in Work
        BY DEF Work, Idle
  <2>2. \A stage \in {"encoding", "failing"} : [work[n] EXCEPT !.stage = stage] \in Work
        BY <2>1 DEF Work
  <2>3. work[n].package \in Packages
        BY <1>18, <2>1 DEF Work, Busy
  <2> QED BY <2>1, <2>2, <2>3
<1>19. /\ {"preparing", "queued", "ready", "failed"} \subseteq States \ {"none"}
       /\ \A n \in Nodes : Recipe[n] \in Recipes
       /\ \A p \in Packages : package[p].recipe \in Recipes
       BY DEF States, Unresolved, Movable, Recipes, Row
<1>20. ASSUME NEW n \in Nodes, SetRecipe(n) PROVE TypeOK' /\ Targeted'
  <2> DEFINE q == work[n].package
  <2>1. PICK stage \in {"encoding", "failing"} : work' = [work EXCEPT ![n].stage = stage]
        BY <1>20 DEF SetRecipe
  <2>2. q \in Packages /\ work' \in [Nodes -> Work]
        BY <1>18, <1>20, <2>1 DEF SetRecipe
  <2>3. CASE package' = [package EXCEPT ![q].recipe = Recipe[n]]
        BY <1>19, <1>20, <2>2, <2>3, Noting DEF SetRecipe, Targeted
  <2>4. CASE UNCHANGED package
        BY <1>20, <2>2, <2>4 DEF SetRecipe, Targeted
  <2> QED BY <1>20, <2>3, <2>4 DEF SetRecipe
<1>21. ASSUME NEW n \in Nodes, Publish(n) PROVE TypeOK' /\ Targeted'
  <2> DEFINE q == work[n].package
  <2>0. q \in Packages /\ work' \in [Nodes -> Work]
        BY <1>18, <1>21 DEF Publish
  <2>1. q \in Packages /\ work' \in [Nodes -> Work] /\ bytes' \subseteq Packages \X Nodes
        BY <1>21, <2>0 DEF Publish
  <2>2. CASE Mine(q, n, Movable)
    <3>1. Touched(q, "ready", Recipe[n]) /\ package[q].state # "none"
          BY <1>21, <2>2 DEF Publish, Touched, Mine, Movable
    <3> QED BY <1>19, <1>21, <2>1, <3>1, Touching DEF Publish, Targeted
  <2>3. CASE ~ Mine(q, n, Movable)
        BY <1>21, <2>1, <2>3 DEF Publish, Targeted
  <2> QED BY <2>2, <2>3
<1>22. ASSUME NEW n \in Nodes, Yield(n) PROVE TypeOK' /\ Targeted'
  <2> DEFINE q == work[n].package
  <2>1. q \in Packages /\ work' \in [Nodes -> Work]
        BY <1>18, <1>22 DEF Yield
  <2>2. CASE Mine(q, n, {"preparing"})
    <3>1. Touched(q, "queued", package[q].recipe) /\ package[q].state # "none"
          BY <1>22, <2>1, <2>2 DEF Yield, Touched, Mine, Row
    <3> QED BY <1>19, <1>22, <2>1, <3>1, Touching DEF Yield, Targeted
  <2>3. CASE ~ Mine(q, n, {"preparing"})
        BY <1>22, <2>1, <2>3 DEF Yield, Targeted
  <2> QED BY <2>2, <2>3
<1>23. ASSUME NEW n \in Nodes, FailPackage(n) PROVE TypeOK' /\ Targeted'
  <2> DEFINE q == work[n].package
  <2>1. q \in Packages /\ work' \in [Nodes -> Work]
        BY <1>18, <1>23 DEF FailPackage
  <2>2. CASE Mine(q, n, Movable)
    <3>1. Touched(q, "failed", package[q].recipe) /\ package[q].state # "none"
          BY <1>23, <2>1, <2>2 DEF FailPackage, Touched, Mine, Movable, Row
    <3> QED BY <1>19, <1>23, <2>1, <3>1, Touching DEF FailPackage, Targeted
  <2>3. CASE ~ Mine(q, n, Movable)
        BY <1>23, <2>1, <2>3 DEF FailPackage, Targeted
  <2> QED BY <2>2, <2>3
<1>24. ASSUME NEW n \in Nodes, Join(n) PROVE TypeOK' /\ Targeted'
       BY <1>24 DEF Join, Targeted
<1>25. CASE UNCHANGED vars
       BY <1>25 DEF vars, Targeted
<1> HIDE DEF TypeOK, cluster, clients, making, asking
<1> QED BY <1>1, <1>2, <1>3, <1>4, <1>5, <1>6, <1>7, <1>8, <1>9, <1>10, <1>11, <1>12, <1>13,
           <1>14, <1>15, <1>16, <1>17, <1>20, <1>21, <1>22, <1>23, <1>24, <1>25
        DEF Next, Remove, Settle, Leave, Probe, Client, Produce

(* The types, for any number of removals at once: rounds are bounded, and what *)
(* has no owner is no package. *)
THEOREM TypesHold == Spec => []TypeOK
<1>1. Init => Types
      BY InitTypes DEF Init, Types, Targeted, Busy, NoCall, Idle
<1>2. Types /\ [Next]_vars => Types'
      BY TypeStep, BusyStep DEF Types
<1> QED BY <1>1, <1>2, PTL DEF Spec, Types

-----------------------------------------------------------------------------
(* What the steps of the clients, of the producers and of the nodes that       *)
(* answer or join leave to a removal. *)
Kept(p) ==
  /\ package'[p].owner = package[p].owner
  /\ package'[p].state \in Unresolved => package[p].state \in Unresolved
  /\ package[p].state = "none" <=> package'[p].state = "none"

Fresh(p) == package[p].state = "none" /\ Forgotten(p) /\ package'[p].owner \notin removed
            /\ package'[p].state # "ready"

Downloads(p) ==
  /\ package'[p].state = "ready"
  /\ \/ p \in transfers /\ (p \in late => p \in late')
     \/ \A c \in Removals : call[c].target = package[p].owner /\ Looked(c) => p \in late'

Elsewhere ==
  /\ UNCHANGED <<call, removed>>
  /\ voters \subseteq voters'
  /\ \A p \in Packages : Kept(p) \/ Fresh(p) \/ package'[p].state = "none"
  /\ \A p \in Packages : package[p].state = "ready" => package'[p].state \in {"ready", "none"}
  /\ \A p \in Packages, n \in Nodes :
       probe[<<p, n>>] = "yes" => probe'[<<p, n>>] = "yes" \/ package'[p].state = "none"
  /\ \A p \in transfers' : Kept(p) /\ Downloads(p)

LEMMA ElsewhereKeeps ==
  ASSUME Inv, Elsewhere, TypeOK'
  PROVE  /\ NothingStranded' /\ Downloading' /\ Knowledge'
<1> USE DEF Inv, Types, Elsewhere
<1>1. NothingStranded'
      BY DEF NothingStranded, Kept, Fresh, Unresolved, Movable
<1>2. Downloading'
      BY DEF Downloading, Downloads
<1>3. ASSUME NEW c \in Removals PROVE KnowsReaders(c)'
  <2>1. KnowsReaders(c) /\ call[c].step = call'[c].step
        BY DEF Knowledge
  <2>2. Roster \subseteq Roster'
        BY DEF Roster
  <2>3. ASSUME call[c].step = "resolve", NEW p \in Packages, call[c].goal[p] # NoNode
        PROVE  package'[p].state = "none" \/ probe'[<<p, call[c].goal[p]>>] = "yes"
    <3>1. /\ p \in call[c].seen /\ call[c].goal[p] \in Nodes
          /\ package[p].state = "none" \/ probe[<<p, call[c].goal[p]>>] = "yes"
          BY <2>1, <2>3 DEF KnowsReaders, TypeOK, Call
    <3>2. ~ Fresh(p)
          BY <3>1 DEF Fresh, Forgotten
    <3> QED BY <3>1, <3>2 DEF Kept
  <2> QED BY <2>1, <2>2, <2>3 DEF KnowsReaders
<1>4. ASSUME NEW c \in Removals PROVE KnowsTarget(c)'
  <2>1. KnowsTarget(c)
        BY DEF Knowledge
  <2>2. ASSUME call[c].step = "fail", NEW p \in Packages, p \in Owned(call[c].target)'
        PROVE  p \in call[c].seen
    <3>1. package'[p].state \in Unresolved /\ package'[p].owner = call[c].target
          BY <2>2 DEF Owned
    <3>2. Kept(p)
          BY <2>1, <2>2, <3>1 DEF KnowsTarget, Fresh, Unresolved, Movable
    <3>3. p \in Owned(call[c].target)
          BY <3>1, <3>2 DEF Kept, Owned
    <3> QED BY <2>1, <2>2, <3>3 DEF KnowsTarget
  <2>3. call[c].step = "fail" => Owned(call[c].target)' \subseteq call[c].seen
        BY <2>2 DEF Owned
  <2> QED BY <2>1, <2>3 DEF KnowsTarget
<1>5. ASSUME NEW c \in Removals PROVE KnowsDownloads(c)'
  <2>1. KnowsDownloads(c) /\ transfers' \subseteq Packages
        BY DEF Knowledge, TypeOK
  <2>2. ASSUME Looked(c), NEW p \in transfers', package'[p].owner = call[c].target
        PROVE  p \in late'
        BY <2>1, <2>2 DEF KnowsDownloads, Kept, Downloads
  <2> QED BY <2>2 DEF KnowsDownloads, Looked
<1> QED BY <1>1, <1>2, <1>3, <1>4, <1>5 DEF Knowledge

LEMMA ProbeElsewhere == Inv /\ Probe => Elsewhere
<1> SUFFICES ASSUME Inv, Probe PROVE Elsewhere
    OBVIOUS
<1> USE DEF Inv, Types
<1>1. UNCHANGED <<package, transfers, late, call, removed, voters>>
      BY DEF Probe, Read, Answer, clients, cluster
<1>2. \A p \in Packages, n \in Nodes : probe[<<p, n>>] = "yes" => probe'[<<p, n>>] = "yes"
      BY DEF Probe, Read, Answer, TypeOK
<1> QED BY <1>1, <1>2 DEF Elsewhere, Kept, Downloads, Downloading, TypeOK

LEMMA ClientElsewhere == Inv /\ Client => Elsewhere
<1> SUFFICES ASSUME Inv, Client PROVE Elsewhere
    OBVIOUS
<1> USE DEF Inv, Types, TypeOK, Downloading
<1>1. ASSUME NEW p \in Packages, Delete(p) PROVE Elsewhere
  <2>1. package'[p].state = "none" /\ p \notin transfers'
        BY <1>1 DEF Delete, NoRow
  <2>2. \A q \in Packages \ {p} : package'[q] = package[q] /\ Kept(q)
        BY <1>1 DEF Delete, Kept
  <2>3. \A q \in Packages \ {p}, n \in Nodes : probe'[<<q, n>>] = probe[<<q, n>>]
        BY <1>1 DEF Delete
  <2>4. transfers' = transfers \ {p} /\ late' = late \ {p} /\ UNCHANGED <<call, removed, voters>>
        BY <1>1 DEF Delete, cluster
  <2> QED BY <2>1, <2>2, <2>3, <2>4 DEF Elsewhere, Downloads
<1>2. ASSUME NEW p \in Packages, StartTransfer(p) PROVE Elsewhere
      BY <1>2 DEF StartTransfer, Elsewhere, Kept, Downloads, asking, cluster
<1>3. ASSUME NEW p \in Packages, EndTransfer(p) PROVE Elsewhere
      BY <1>3 DEF EndTransfer, Elsewhere, Kept, Downloads, asking, cluster
<1>4. ASSUME NEW p \in Packages, NEW n \in Nodes, Create(p, n) PROVE Elsewhere
  <2>1. Fresh(p) /\ p \notin transfers
        BY <1>4 DEF Create, Insert, Fresh
  <2>2. \A q \in Packages \ {p} : package'[q] = package[q] /\ Kept(q)
        BY <1>4 DEF Create, Insert, Kept
  <2> QED BY <1>4, <2>1, <2>2 DEF Create, Insert, Elsewhere, Downloads, asking, clients, cluster
<1> QED BY <1>1, <1>2, <1>3, <1>4 DEF Client

(* A producer touches one row of its own, which is queued or prepared.         *)
LEMMA ProduceElsewhere ==
  ASSUME Inv, NEW n \in Nodes, Produce(n)
  PROVE  Elsewhere
<1> USE DEF Inv, Types, TypeOK, Downloading
<1>1. UNCHANGED <<probe, transfers, late, call, removed, voters>>
      BY DEF Produce, Claim, SetRecipe, Publish, Yield, FailPackage, asking, clients, cluster
<1>2. ASSUME NEW p \in Packages
      PROVE  Kept(p) /\ (package'[p] # package[p] => package[p].state \in Movable)
  <2>1. CASE \E q \in Packages : Claim(n, q)
        BY <2>1 DEF Claim, Kept, Mine, Unresolved, Movable
  <2>2. CASE SetRecipe(n)
    <3> DEFINE q == work[n].package
    <3>1. CASE package' = package
          BY <3>1 DEF Kept
    <3>2. CASE package[q].state = "preparing" /\ package' = [package EXCEPT ![q].recipe = Recipe[n]]
          BY <3>2 DEF Kept, Movable, Row
    <3> QED BY <2>2, <3>1, <3>2 DEF SetRecipe
  <2>3. CASE Publish(n)
        BY <2>3 DEF Publish, Kept, Mine, Unresolved, Movable
  <2>4. CASE Yield(n)
        BY <2>4 DEF Yield, Kept, Mine, Unresolved, Movable
  <2>5. CASE FailPackage(n)
        BY <2>5 DEF FailPackage, Kept, Mine, Unresolved, Movable
  <2> QED BY <2>1, <2>2, <2>3, <2>4, <2>5 DEF Produce
<1>3. \A p \in Packages : package[p].state = "ready" => package'[p] = package[p]
      BY <1>2 DEF Movable
<1> HIDE DEF TypeOK
<1>4. \A p \in transfers : p \in Packages /\ package[p].state = "ready"
      BY DEF TypeOK
<1> QED BY <1>1, <1>2, <1>3, <1>4 DEF Elsewhere, Downloads

LEMMA JoinElsewhere ==
  ASSUME Inv, NEW n \in Nodes, Join(n)
  PROVE  Elsewhere
BY DEF Inv, Types, TypeOK, Downloading, Join, Elsewhere, Kept, Downloads, asking, clients

-----------------------------------------------------------------------------
(* The steps of the removal. *)

(* A removal that returns, or was never begun, knows nothing. *)
LEMMA Nothing ==
  ASSUME TypeOK', Downloading', NEW c \in Removals, call'[c] = NoCall
  PROVE  KnowsReaders(c)' /\ KnowsTarget(c)' /\ KnowsDownloads(c)'
BY DEF NoCall, NoGoal, KnowsReaders, KnowsTarget, KnowsDownloads, Looked, Settling, Leaving, Owned

(* A step that leaves rows, tombstones and downloads alone strands nothing,    *)
(* unless its removal was on its way out. *)
LEMMA Quiet ==
  ASSUME Inv, OneAtATime, NEW c \in Removals,
         UNCHANGED <<package, transfers, removed>>,
         \/ call[c].step \notin {"left", "fail"}
         \/ call'[c].step \in Leaving /\ call'[c].target = call[c].target
  PROVE  NothingStranded' /\ Downloading'
<1> USE DEF Inv, Types, OneAtATime
<1>1. Downloading'
      BY DEF Downloading
<1>2. ASSUME NEW p \in Packages, package'[p].state \in Unresolved, package'[p].owner \in removed'
      PROVE  \E d \in Removals : call'[d].target = package'[p].owner /\ call'[d].step \in Leaving
  <2>1. call[c].target = package[p].owner /\ call[c].step \in Leaving
        BY <1>2 DEF NothingStranded
  <2>2. call[c].step \in {"left", "fail"}
        BY <1>2, <2>1 DEF KnowsTarget, Knowledge, Leaving
  <2> QED BY <2>1, <2>2
<1> QED BY <1>1, <1>2 DEF NothingStranded

(* The steps that change nothing but what the removal knows. *)
LEMMA Learning ==
  ASSUME Inv, OneAtATime, TypeOK', NEW c \in Removals,
         \/ \E n \in Nodes, kind \in Kinds : Begin(c, n, kind)
         \/ ReadWork(c) \/ CheckTransfers(c) \/ Verify(c) \/ Count(c) \/ Handoff(c) \/ Interrupted(c)
  PROVE  /\ NothingStranded' /\ Downloading'
         /\ KnowsReaders(c)' /\ KnowsTarget(c)' /\ KnowsDownloads(c)'
<1> USE DEF Inv, Types
<1> DEFINE Known == KnowsReaders(c)' /\ KnowsTarget(c)' /\ KnowsDownloads(c)'
<1>1. UNCHANGED <<package, probe, transfers, late, removed, voters>>
      BY DEF Begin, ReadWork, CheckTransfers, Verify, Count, Handoff, Interrupted, asking, clients, cluster
<1>2. call[c].step \notin {"left", "fail"}
      BY DEF Begin, ReadWork, CheckTransfers, Verify, Count, Handoff, Interrupted, Settling
<1>3. NothingStranded' /\ Downloading'
      BY <1>1, <1>2, Quiet
<1>4. KnowsReaders(c) /\ KnowsTarget(c) /\ KnowsDownloads(c) /\ call[c] \in Call
      BY DEF Knowledge, TypeOK
<1>5. ASSUME Return(c) PROVE Known
  <2>1. call'[c] = NoCall
        BY <1>5 DEF Return, TypeOK
  <2> QED BY <1>3, <2>1, Nothing
<1>6. ASSUME NEW n \in Nodes, NEW kind \in Kinds, Begin(c, n, kind) PROVE Known
  <2>1. call'[c] = [NoCall EXCEPT !.step = "read", !.kind = kind, !.target = n,
                      !.remaining = voters \ {n}]
        BY <1>6 DEF Begin, TypeOK
  <2>2. /\ call'[c].step = "read" /\ call'[c].target = n
        /\ call'[c].movable = {} /\ call'[c].goal = NoGoal /\ call'[c].asked = {}
        BY <2>1 DEF NoCall
  <2>3. n \notin removed
        BY <1>6 DEF Begin, Roster
  <2> QED BY <1>1, <2>2, <2>3
          DEF KnowsReaders, KnowsTarget, KnowsDownloads, Looked, Leaving, NoGoal
<1>7. ASSUME ReadWork(c) PROVE Known
  <2>1. /\ call'[c].step \in {"count", "transfers"} /\ call[c].step = "read"
        /\ call'[c].target = call[c].target
        /\ call'[c].movable \subseteq call'[c].seen /\ call'[c].goal = call[c].goal
        /\ call'[c].asked = call[c].asked
        BY <1>4, <1>7 DEF ReadWork, Call, TypeOK
  <2>2. KnowsReaders(c)'
        BY <1>1, <1>4, <2>1 DEF KnowsReaders, Settling, Roster, NoGoal
  <2>3. KnowsTarget(c)' /\ KnowsDownloads(c)'
        BY <1>1, <1>4, <2>1 DEF KnowsTarget, KnowsDownloads, Looked, Leaving, Settling
  <2> QED BY <2>2, <2>3
<1>8. ASSUME CheckTransfers(c) PROVE Known
  <2>1. CASE Return(c)
        BY <1>5, <2>1
  <2>2. CASE ~ \E p \in transfers : package[p].owner = call[c].target
    <3>1. /\ call[c].step = "transfers" /\ call'[c].step \in {"resolve", "ask"}
          /\ call'[c] = [call[c] EXCEPT !.step = call'[c].step]
          BY <1>4, <1>8, <2>2 DEF CheckTransfers, Goto, TypeOK, Call
    <3>2. /\ call'[c].target = call[c].target /\ call'[c].goal = call[c].goal
          /\ call'[c].movable = call[c].movable /\ call'[c].seen = call[c].seen
          /\ call'[c].asked = call[c].asked
          BY <1>4, <3>1 DEF Call
    <3>3. KnowsReaders(c)'
          BY <1>1, <1>4, <3>1, <3>2 DEF KnowsReaders, Settling, Roster
    <3>4. KnowsTarget(c)' /\ KnowsDownloads(c)'
          BY <1>1, <1>4, <2>2, <3>1, <3>2 DEF KnowsTarget, KnowsDownloads, Settling
    <3> QED BY <3>3, <3>4
  <2> QED BY <1>8, <2>1, <2>2 DEF CheckTransfers
<1>9. ASSUME Verify(c) PROVE Known
  <2>1. PICK goal \in [Packages -> Nodes \cup {NoNode}] :
          /\ \A p \in Packages : Takes(c, p, goal[p])
          /\ call'[c] = [call[c] EXCEPT !.step = "resolve", !.goal = goal]
        BY <1>9 DEF Verify, TypeOK
  <2>2. /\ call'[c].step = "resolve" /\ call'[c].goal = goal /\ call[c].step = "verify"
        /\ call'[c].target = call[c].target /\ call'[c].asked = call[c].asked
        /\ call'[c].movable = call[c].movable /\ call'[c].seen = call[c].seen
        BY <1>4, <1>9, <2>1 DEF Call, Verify
  <2>3. ASSUME NEW p \in Packages, goal[p] # NoNode
        PROVE  goal[p] \in call[c].asked /\ p \in call[c].movable /\ probe[<<p, goal[p]>>] = "yes"
        BY <2>1, <2>3 DEF Takes, Verified
  <2>4. KnowsReaders(c)'
        BY <1>1, <1>4, <2>2, <2>3 DEF KnowsReaders, Settling, Roster
  <2>5. KnowsTarget(c)' /\ KnowsDownloads(c)'
        BY <1>1, <1>4, <2>2 DEF KnowsTarget, KnowsDownloads, Settling, Looked
  <2> QED BY <2>4, <2>5
<1>10. ASSUME Count(c) PROVE Known
  <2>1. CASE Return(c)
        BY <1>5, <2>1
  <2>2. ASSUME NEW step \in {"read", "handoff", "commit"}, NEW round \in Nat,
               NextRound(c, step, round), step # "read" => Owned(call[c].target) = {}
        PROVE  Known
    <3>1. call'[c] = [call[c] EXCEPT !.step = step, !.round = round,
                        !.seen = {}, !.movable = {}, !.asked = {}, !.goal = NoGoal]
          BY <2>2 DEF NextRound, TypeOK
    <3>2. /\ call'[c].step = step /\ call'[c].target = call[c].target
          /\ call'[c].movable = {} /\ call'[c].asked = {} /\ call'[c].goal = NoGoal
          BY <1>4, <3>1 DEF Call
    <3>3. call[c].target \notin removed
          BY <1>4, <1>10 DEF KnowsTarget, Count, Settling
    <3>4. step # "read" => \A p \in transfers : package[p].owner # call[c].target
          BY <2>2 DEF Owned, Downloading, Unresolved, TypeOK
    <3> QED BY <1>1, <3>2, <3>3, <3>4
            DEF KnowsReaders, KnowsTarget, KnowsDownloads, Looked, Leaving, Settling, NoGoal
  <2>3. CASE Settled(c) /\ Owned(call[c].target) = {}
        BY <2>2, <2>3 DEF Settled
  <2>4. CASE NextRound(c, "read", call[c].round + 1)
        BY <1>4, <2>2, <2>4 DEF Call
  <2> QED BY <1>10, <2>1, <2>3, <2>4 DEF Count
<1>11. ASSUME Handoff(c) PROVE Known
  <2>1. call[c].step = "handoff" /\ call'[c] = [call[c] EXCEPT !.step = "commit"]
        BY <1>11 DEF Handoff, Goto, TypeOK
  <2>2. /\ call'[c].step = "commit" /\ call'[c].target = call[c].target
        /\ call'[c].goal = call[c].goal
        /\ call'[c].movable = call[c].movable /\ call'[c].seen = call[c].seen
        BY <1>4, <2>1 DEF Call
  <2> QED BY <1>1, <1>4, <2>1, <2>2
          DEF KnowsReaders, KnowsTarget, KnowsDownloads, Looked, Leaving, Settling
<1>12. ASSUME Interrupted(c) PROVE Known
       BY <1>5, <1>12 DEF Interrupted
<1> QED BY <1>3, <1>6, <1>7, <1>8, <1>9, <1>10, <1>11, <1>12

LEMMA Asking ==
  ASSUME Inv, OneAtATime, NEW c \in Removals, Ask(c)
  PROVE  /\ NothingStranded' /\ Downloading'
         /\ KnowsReaders(c)' /\ KnowsTarget(c)' /\ KnowsDownloads(c)'
<1> USE DEF Inv, Types
<1>1. /\ UNCHANGED <<package, transfers, late, removed, voters>> /\ call[c].step = "ask"
      /\ call'[c] = [call[c] EXCEPT !.step = "verify", !.asked = Roster \ {call[c].target}]
      BY DEF Ask, clients, cluster, TypeOK
<1>2. KnowsReaders(c) /\ KnowsTarget(c) /\ KnowsDownloads(c) /\ call[c] \in Call
      BY DEF Knowledge, TypeOK
<1>3. /\ call'[c].step = "verify" /\ call'[c].asked = Roster \ {call[c].target}
      /\ call'[c].target = call[c].target /\ call'[c].goal = call[c].goal
      /\ call'[c].movable = call[c].movable /\ call'[c].seen = call[c].seen
      BY <1>1, <1>2 DEF Call
<1>4. NothingStranded' /\ Downloading'
      BY <1>1, Quiet
<1>5. KnowsReaders(c)'
      BY <1>1, <1>2, <1>3 DEF KnowsReaders, Settling, Roster
<1>6. KnowsTarget(c)' /\ KnowsDownloads(c)'
      BY <1>1, <1>2, <1>3 DEF KnowsTarget, KnowsDownloads, Looked, Settling
<1> QED BY <1>4, <1>5, <1>6

(* What a plan does to a package: the failed ones are downloaded no more, and  *)
(* what moves goes to a member. *)
LEMMA Applied ==
  ASSUME Inv, NEW c \in Removals, call[c].step \in {"resolve", "fail"}, ApplyPlan(c), NEW p \in Packages
  PROVE  /\ \/ package'[p] = package[p]
            \/ package'[p].state \notin Unresolved
            \/ call[c].goal[p] # NoNode /\ package'[p].owner \in call[c].asked
         /\ p \in transfers' => p \in transfers /\ package'[p].state = "ready"
<1> USE DEF Inv, Types
<1> DEFINE changed == {q \in call[c].seen : Applies(c, q)}
<1>0. /\ package'[p] = IF p \in changed THEN Resolved(c, p) ELSE package[p]
      /\ transfers' = transfers \ {q \in changed : call[c].goal[q] = NoNode}
      BY DEF ApplyPlan
<1>d. p \in transfers => package[p].state = "ready"
      BY DEF Downloading
<1>1. CASE ~ (p \in call[c].seen /\ Applies(c, p))
      BY <1>0, <1>d, <1>1
<1>2. CASE p \in call[c].seen /\ Applies(c, p)
  <2>1. package'[p] = Resolved(c, p) /\ package[p] \in Row
        BY <1>0, <1>2 DEF TypeOK
  <2>2. CASE call[c].goal[p] = NoNode
    <3>1. p \notin transfers' /\ package'[p].state = "failed"
          BY <1>0, <1>2, <2>1, <2>2 DEF Resolved, Row
    <3> QED BY <3>1 DEF Unresolved, Movable
  <2>3. CASE call[c].goal[p] # NoNode
    <3>1. package[p].state \in Movable /\ package'[p].owner = call[c].goal[p]
          BY <1>2, <2>1, <2>3 DEF Applies, Resolved
    <3>2. p \notin transfers'
          BY <1>0, <1>d, <3>1 DEF Movable
    <3>3. call[c].goal[p] \in call[c].asked
          BY <2>3 DEF Knowledge, KnowsReaders
    <3> QED BY <2>3, <3>1, <3>2, <3>3
  <2> QED BY <2>2, <2>3
<1> QED BY <1>1, <1>2

LEMMA Resolving ==
  ASSUME Inv, OneAtATime, TypeOK', NEW c \in Removals, Resolve(c)
  PROVE  /\ NothingStranded' /\ Downloading'
         /\ KnowsReaders(c)' /\ KnowsTarget(c)' /\ KnowsDownloads(c)'
<1> USE DEF Inv, Types
<1>1. /\ UNCHANGED <<probe, removed, voters>> /\ call[c].step = "resolve" /\ ApplyPlan(c)
      /\ Return(c) \/ Goto(c, "count")
      BY DEF Resolve, asking, cluster
<1>2. KnowsReaders(c) /\ KnowsTarget(c) /\ call[c] \in Call
      BY DEF Knowledge, TypeOK
<1>3. Downloading'
      BY <1>1, Applied DEF Downloading, TypeOK
<1>4. ASSUME NEW p \in Packages, package'[p].state \in Unresolved PROVE package'[p].owner \notin removed
  <2>1. CASE package'[p] = package[p]
        BY <1>1, <1>4, <2>1 DEF NothingStranded, OneAtATime, Leaving
  <2>2. CASE package'[p].owner \in call[c].asked
        BY <1>1, <1>2, <2>2 DEF KnowsReaders, Settling, Roster
  <2> QED BY <1>1, <1>4, <2>1, <2>2, Applied
<1>5. NothingStranded'
      BY <1>1, <1>4 DEF NothingStranded
<1>6. CASE Return(c)
  <2>1. call'[c] = NoCall
        BY <1>6 DEF Return, TypeOK
  <2> QED BY <1>3, <1>5, <2>1, Nothing
<1>7. CASE Goto(c, "count")
  <2>1. call'[c] = [call[c] EXCEPT !.step = "count"]
        BY <1>7 DEF Goto, TypeOK
  <2>2. /\ call'[c].step = "count" /\ call'[c].target = call[c].target
        /\ call'[c].movable = call[c].movable /\ call'[c].seen = call[c].seen
        BY <1>2, <2>1 DEF Call
  <2>3. KnowsReaders(c)'
        BY <1>1, <1>2, <2>2 DEF KnowsReaders, Settling
  <2>4. KnowsTarget(c)' /\ KnowsDownloads(c)'
        BY <1>1, <1>2, <2>2 DEF KnowsTarget, KnowsDownloads, Looked, Settling, Leaving
  <2> QED BY <1>3, <1>5, <2>3, <2>4
<1> QED BY <1>1, <1>6, <1>7

LEMMA Committing ==
  ASSUME Inv, OneAtATime, TypeOK', NEW c \in Removals, Commit(c)
  PROVE  /\ NothingStranded' /\ Downloading'
         /\ KnowsReaders(c)' /\ KnowsTarget(c)' /\ KnowsDownloads(c)'
<1> USE DEF Inv, Types
<1>1. /\ UNCHANGED <<package, probe, transfers, late, removed>> /\ call[c].step = "commit"
      /\ Return(c) \/ Goto(c, "tombstone")
      BY DEF Commit, asking, clients
<1>2. KnowsReaders(c) /\ KnowsTarget(c) /\ KnowsDownloads(c) /\ call[c] \in Call
      BY DEF Knowledge, TypeOK
<1>3. NothingStranded' /\ Downloading'
      BY <1>1, Quiet
<1>4. CASE Return(c)
  <2>1. call'[c] = NoCall
        BY <1>4 DEF Return, TypeOK
  <2> QED BY <1>3, <2>1, Nothing
<1>5. CASE Goto(c, "tombstone")
  <2>1. call'[c] = [call[c] EXCEPT !.step = "tombstone"]
        BY <1>5 DEF Goto, TypeOK
  <2>2. /\ call'[c].step = "tombstone" /\ call'[c].target = call[c].target
        /\ call'[c].goal = call[c].goal
        BY <1>2, <2>1 DEF Call
  <2>3. KnowsReaders(c)'
        BY <1>1, <1>2, <2>2 DEF KnowsReaders, Settling
  <2>4. KnowsTarget(c)' /\ KnowsDownloads(c)'
        BY <1>1, <1>2, <2>2 DEF KnowsTarget, KnowsDownloads, Looked, Settling, Leaving
  <2> QED BY <1>3, <2>3, <2>4
<1> QED BY <1>1, <1>4, <1>5

LEMMA Burying ==
  ASSUME Inv, OneAtATime, NEW c \in Removals, Tombstone(c)
  PROVE  /\ NothingStranded' /\ Downloading'
         /\ KnowsReaders(c)' /\ KnowsTarget(c)' /\ KnowsDownloads(c)'
<1> USE DEF Inv, Types
<1>1. /\ UNCHANGED <<package, probe, transfers, late>> /\ call[c].step = "tombstone"
      /\ removed' = removed \cup {call[c].target}
      /\ call'[c] = [call[c] EXCEPT !.step = "left"]
      BY DEF Tombstone, Goto, asking, clients, TypeOK
<1>2. KnowsReaders(c) /\ KnowsTarget(c) /\ KnowsDownloads(c) /\ call[c] \in Call
      BY DEF Knowledge, TypeOK
<1>3. /\ call'[c].step = "left" /\ call'[c].target = call[c].target
      /\ call'[c].goal = call[c].goal
      BY <1>1, <1>2 DEF Call
<1>4. NothingStranded' /\ Downloading'
  <2>1. ASSUME NEW p \in Packages, package[p].state \in Unresolved, package[p].owner \in removed'
        PROVE  package[p].owner = call[c].target
        BY <1>1, <2>1 DEF NothingStranded, OneAtATime
  <2> QED BY <1>1, <1>3, <2>1 DEF NothingStranded, Downloading, Leaving
<1>5. KnowsReaders(c)'
      BY <1>1, <1>2, <1>3 DEF KnowsReaders, Settling
<1>6. KnowsTarget(c)' /\ KnowsDownloads(c)'
      BY <1>1, <1>2, <1>3 DEF KnowsTarget, KnowsDownloads, Looked, Settling, Leaving
<1> QED BY <1>4, <1>5, <1>6

LEMMA ReadingLeft ==
  ASSUME Inv, OneAtATime, NEW c \in Removals, ReadLeft(c)
  PROVE  /\ NothingStranded' /\ Downloading'
         /\ KnowsReaders(c)' /\ KnowsTarget(c)' /\ KnowsDownloads(c)'
<1> USE DEF Inv, Types
<1>1. /\ UNCHANGED <<package, probe, transfers, late, removed>> /\ call[c].step = "left"
      /\ call'[c] = [call[c] EXCEPT !.step = "fail", !.seen = Owned(call[c].target)]
      BY DEF ReadLeft, asking, clients, cluster, TypeOK
<1>2. KnowsReaders(c) /\ KnowsTarget(c) /\ KnowsDownloads(c) /\ call[c] \in Call
      BY DEF Knowledge, TypeOK
<1>3. /\ call'[c].step = "fail" /\ call'[c].target = call[c].target
      /\ call'[c].goal = call[c].goal /\ call'[c].seen = Owned(call[c].target)
      BY <1>1, <1>2 DEF Call
<1>4. NothingStranded' /\ Downloading'
      BY <1>1, <1>3, Quiet DEF Leaving
<1>5. KnowsReaders(c)'
      BY <1>1, <1>2, <1>3 DEF KnowsReaders, Settling
<1>6. KnowsTarget(c)' /\ KnowsDownloads(c)'
      BY <1>1, <1>2, <1>3 DEF KnowsTarget, KnowsDownloads, Looked, Settling, Leaving, Owned
<1> QED BY <1>4, <1>5, <1>6

(* What is left when the tombstone stands is failed. *)
LEMMA FailingLeft ==
  ASSUME Inv, OneAtATime, TypeOK', NEW c \in Removals, FailLeft(c)
  PROVE  /\ NothingStranded' /\ Downloading'
         /\ KnowsReaders(c)' /\ KnowsTarget(c)' /\ KnowsDownloads(c)'
<1> USE DEF Inv, Types
<1>1. /\ removed' = removed /\ call[c].step = "fail" /\ ApplyPlan(c) /\ call'[c] = NoCall
      BY DEF FailLeft, Return, TypeOK
<1>2. KnowsReaders(c) /\ KnowsTarget(c)
      BY DEF Knowledge
<1>3. Downloading'
      BY <1>1, Applied DEF Downloading, TypeOK
<1>4. \A p \in Packages : call[c].goal[p] = NoNode
      BY <1>1, <1>2 DEF KnowsReaders
<1>5. ASSUME NEW p \in Packages, package'[p].state \in Unresolved PROVE package'[p].owner \notin removed
  <2>1. package'[p] = package[p]
        BY <1>1, <1>4, <1>5, Applied
  <2>2. CASE package[p].owner = call[c].target
    <3>1. p \in call[c].seen /\ Applies(c, p)
          BY <1>1, <1>2, <1>4, <1>5, <2>1, <2>2 DEF KnowsTarget, Owned, Applies
    <3>2. package'[p] = Resolved(c, p)
          BY <1>1, <3>1 DEF ApplyPlan
    <3>3. package'[p].state = "failed"
          BY <1>4, <3>2 DEF Resolved, TypeOK, Row
    <3> QED BY <1>5, <3>3 DEF Unresolved, Movable
  <2> QED BY <1>5, <2>1, <2>2 DEF NothingStranded, OneAtATime
<1>6. NothingStranded'
      BY <1>1, <1>5 DEF NothingStranded
<1> QED BY <1>1, <1>3, <1>6, Nothing

Removing(c) ==
  (\E n \in Nodes, kind \in Kinds : Begin(c, n, kind)) \/ Settle(c) \/ Leave(c) \/ Interrupted(c)

LEMMA RemovingKeeps ==
  ASSUME Inv, OneAtATime, TypeOK', NEW c \in Removals, Removing(c)
  PROVE  NothingStranded' /\ Downloading' /\ Knowledge'
<1>1. /\ NothingStranded' /\ Downloading'
      /\ KnowsReaders(c)' /\ KnowsTarget(c)' /\ KnowsDownloads(c)'
      BY Learning, Asking, Resolving, Committing, Burying, ReadingLeft, FailingLeft
      DEF Removing, Settle, Leave
<1> QED BY <1>1 DEF OneAtATime, Knowledge

LEMMA OthersElsewhere ==
  ASSUME Inv, [Next]_vars, \A c \in Removals : ~ Removing(c)
  PROVE  Elsewhere
<1>1. CASE UNCHANGED vars
      BY <1>1 DEF vars, asking, making, clients, cluster, Elsewhere, Kept, Downloads,
                  Inv, Types, TypeOK, Downloading
<1> QED BY <1>1, ProbeElsewhere, ClientElsewhere, ProduceElsewhere, JoinElsewhere
        DEF Next, Remove, Removing

LEMMA InvInit == Init => Inv
<1> SUFFICES ASSUME Init PROVE Inv
    OBVIOUS
<1>1. Types
      BY InitTypes DEF Init, Types, Targeted, Busy, NoCall, Idle
<1>2. \A c \in Removals : call[c] = NoCall
      BY DEF Init
<1>3. Knowledge
      BY <1>2 DEF Knowledge, KnowsReaders, KnowsTarget, KnowsDownloads, Looked, NoCall, NoGoal,
                  Settling, Leaving
<1>4. NothingStranded /\ Downloading
      BY DEF Init, NothingStranded, Downloading
<1> QED BY <1>1, <1>3, <1>4 DEF Inv

LEMMA InvStep ==
  ASSUME OneAtATime
  PROVE  Inv /\ [Next]_vars => Inv'
<1> SUFFICES ASSUME Inv, [Next]_vars PROVE Inv'
    OBVIOUS
<1>1. Types'
      BY TypeStep, BusyStep DEF Inv, Types
<1>2. TypeOK'
      BY <1>1 DEF Types
<1>3. CASE \E c \in Removals : Removing(c)
      BY <1>1, <1>2, <1>3, RemovingKeeps DEF Inv
<1>4. CASE \A c \in Removals : ~ Removing(c)
      BY <1>1, <1>2, <1>4, OthersElsewhere, ElsewhereKeeps DEF Inv
<1> QED BY <1>3, <1>4

(* Nothing waits in the name of a node whose removal is over: while one        *)
(* removal runs at a time, and nothing fails once its change is committed. *)
THEOREM NoPackageStranded ==
  ASSUME OneAtATime
  PROVE  Spec => []NothingStranded
<1>1. Inv => NothingStranded
      BY DEF Inv
<1>2. Inv /\ [Next]_vars => Inv'
      BY InvStep
<1> QED BY <1>1, <1>2, InvInit, PTL DEF Spec

-----------------------------------------------------------------------------
(* What the statements of a plan do to a row. *)
LEMMA PlanStatement ==
  ASSUME TypeOK, NEW c \in Removals, ApplyPlan(c), NEW p \in Packages, package'[p] # package[p]
  PROVE  /\ package[p].owner = call[c].target
         /\ call[c].goal[p] = NoNode =>
              package'[p].state = "failed" /\ package'[p].owner = package[p].owner
         /\ call[c].goal[p] # NoNode =>
              package'[p].state = "queued" /\ package'[p].owner = call[c].goal[p]
BY DEF ApplyPlan, Applies, Resolved, TypeOK, Row

(* The steps of a removal but Resolve and FailLeft leave the rows alone. *)
LEMMA OnlyPlansMove ==
  ASSUME NEW c \in Removals, Removing(c), package' # package
  PROVE  ApplyPlan(c) /\ call[c].step \in {"resolve", "fail"} /\ bytes' = bytes /\ removed' = removed
BY DEF Removing, Settle, Leave, Begin, ReadWork, CheckTransfers, Ask, Verify, Resolve, Count,
       Handoff, Commit, Tombstone, ReadLeft, FailLeft, Interrupted, making, cluster

LEMMA OnlyReadersTake ==
  ASSUME Inv, [Next]_vars, TypeOK', NEW p \in Packages,
         package[p].owner # package'[p].owner,
         NoNode \notin {package[p].owner, package'[p].owner}
  PROVE  package'[p].owner \in Roster /\ probe[<<p, package'[p].owner>>] = "yes"
<1> USE DEF Inv, Types
<1>1. package[p].state # "none" /\ package'[p].state # "none"
      BY DEF TypeOK
<1>2. PICK c \in Removals : Removing(c)
      BY <1>1, OthersElsewhere DEF Elsewhere, Kept, Fresh
<1>3. ApplyPlan(c) /\ call[c].step \in {"resolve", "fail"}
      BY <1>2, OnlyPlansMove
<1>4. package'[p].owner = call[c].goal[p] /\ call[c].goal[p] # NoNode
      BY <1>3, PlanStatement
<1>5. KnowsReaders(c)
      BY DEF Knowledge
<1> QED BY <1>1, <1>3, <1>4, <1>5 DEF KnowsReaders, Settling

(* A package is given only to a member that said it reads the source. *)
THEOREM PackagesGoToReaders ==
  ASSUME OneAtATime
  PROVE  Spec => MovedOnlyToReaders
<1> DEFINE Moved ==
      \A p \in Packages :
        LET from == package[p].owner  to == package'[p].owner IN
        from # to /\ NoNode \notin {from, to} => to \in Roster /\ probe[<<p, to>>] = "yes"
<1>1. Inv /\ [Next]_vars => Inv'
      BY InvStep
<1>2. Inv /\ [Next]_vars => [Moved]_vars
      BY <1>1, OnlyReadersTake DEF Inv, Types
<1> HIDE DEF Moved
<1>3. Spec => [][Moved]_vars
      BY <1>1, <1>2, InvInit, PTL DEF Spec
<1> QED BY <1>3 DEF MovedOnlyToReaders, Moved

LEMMA OnlyLateIsCut ==
  ASSUME Inv, [Next]_vars, NEW p \in transfers,
         package[p].state = "ready", package'[p].state = "failed"
  PROVE  p \in late
<1> USE DEF Inv, Types
<1>1. p \in Packages
      BY DEF TypeOK
<1>2. PICK c \in Removals : Removing(c)
      BY <1>1, OthersElsewhere DEF Elsewhere
<1>3. ApplyPlan(c) /\ call[c].step \in {"resolve", "fail"}
      BY <1>2, OnlyPlansMove
<1>4. package[p].owner = call[c].target
      BY <1>1, <1>3, PlanStatement
<1>5. KnowsDownloads(c)
      BY DEF Knowledge
<1> QED BY <1>3, <1>4, <1>5 DEF KnowsDownloads, Looked, Leaving

(* A removal cuts no download that had begun when it looked. *)
THEOREM OnlyLateDownloadsAreCut ==
  ASSUME OneAtATime
  PROVE  Spec => DownloadsAreNotCut
<1> DEFINE Spared == \A p \in transfers :
      package[p].state = "ready" /\ package'[p].state = "failed" => p \in late
<1>1. Inv /\ [Next]_vars => Inv'
      BY InvStep
<1>2. Inv /\ [Next]_vars => [Spared]_vars
      BY OnlyLateIsCut
<1> HIDE DEF Spared
<1>3. Spec => [][Spared]_vars
      BY <1>1, <1>2, InvInit, PTL DEF Spec
<1> QED BY <1>3 DEF DownloadsAreNotCut, Spared

-----------------------------------------------------------------------------
(* The bytes need no help from the removal: they are where the row says,       *)
(* whatever number of removals run. *)
LEMMA ReadyStep ==
  ASSUME Types, ReadyBytesAtOwner, [Next]_vars
  PROVE  ReadyBytesAtOwner'
<1> USE DEF Types, ReadyBytesAtOwner
<1>1. ASSUME UNCHANGED <<package, bytes>> PROVE ReadyBytesAtOwner'
      BY <1>1
<1>2. ASSUME NEW c \in Removals, Removing(c) PROVE ReadyBytesAtOwner'
  <2>1. bytes' = bytes
        BY <1>2 DEF Removing, Settle, Leave, Begin, ReadWork, CheckTransfers, Ask, Verify, Resolve,
                    Count, Handoff, Commit, Tombstone, ReadLeft, FailLeft, Interrupted, making
  <2>2. ASSUME NEW p \in Packages, package'[p].state = "ready" PROVE package'[p] = package[p]
        BY <1>2, <2>2, OnlyPlansMove, PlanStatement
  <2> QED BY <2>1, <2>2
<1>3. CASE Probe
      BY <1>1, <1>3 DEF Probe, Read, Answer, making
<1>4. CASE Client
  <2>1. ASSUME NEW p \in Packages, Delete(p) PROVE ReadyBytesAtOwner'
        BY <2>1 DEF Delete, NoRow, making, TypeOK
  <2>2. ASSUME NEW p \in Packages, StartTransfer(p) \/ EndTransfer(p) PROVE ReadyBytesAtOwner'
        BY <1>1, <2>2 DEF StartTransfer, EndTransfer, making
  <2>3. ASSUME NEW p \in Packages, NEW n \in Nodes, Create(p, n) PROVE ReadyBytesAtOwner'
        BY <2>3 DEF Create, Insert, TypeOK
  <2> QED BY <1>4, <2>1, <2>2, <2>3 DEF Client
<1>5. ASSUME NEW n \in Nodes, Produce(n) PROVE ReadyBytesAtOwner'
  <2>1. CASE Publish(n)
        BY <2>1 DEF Publish, Mine, TypeOK
  <2>2. CASE ~ Publish(n)
    <3>1. /\ bytes' = bytes
          /\ \A p \in Packages : package'[p].state = "ready" =>
               package[p].state = "ready" /\ package'[p].owner = package[p].owner
          BY <1>5, <2>2 DEF Produce, Claim, SetRecipe, Yield, FailPackage, Mine, TypeOK, Row
    <3> QED BY <3>1
  <2> QED BY <2>1, <2>2
<1>6. ASSUME NEW n \in Nodes, Join(n) PROVE ReadyBytesAtOwner'
      BY <1>1, <1>6 DEF Join, making
<1>7. CASE UNCHANGED vars
      BY <1>1, <1>7 DEF vars, making
<1> QED BY <1>2, <1>3, <1>4, <1>5, <1>6, <1>7 DEF Next, Remove, Removing

(* A ready package's bytes are on the node that answers for it, for any number *)
(* of removals at once. *)
THEOREM ReadyIsWhereItSays == Spec => []ReadyBytesAtOwner
<1>1. Init => Types /\ ReadyBytesAtOwner
      BY InvInit DEF Inv, Init, ReadyBytesAtOwner, NoRow
<1>2. Types /\ ReadyBytesAtOwner /\ [Next]_vars => Types' /\ ReadyBytesAtOwner'
      BY TypeStep, BusyStep, ReadyStep DEF Types
<1> QED BY <1>1, <1>2, PTL DEF Spec
=============================================================================
