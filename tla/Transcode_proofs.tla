-------------------------- MODULE Transcode_proofs --------------------------
(***************************************************************************)
(* Proofs about Admission for any starts, producers, weights and budgets,  *)
(* and about SessionRequests for any creates, request ids, players and     *)
(* faults.  The two specifications share no variable: the first part is of *)
(* the permits, the second of the sessions.                                *)
(***************************************************************************)
EXTENDS Admission, SessionRequests, FiniteSetTheorems, TLAPS

(* TypeOK with the counts only known to be numbers: that they are bounded  *)
(* by the number of starts follows from CountInv.                          *)
PermitTyping ==
  /\ liveWaiting \in Nat /\ hwLive \in Nat /\ swLive \in Nat /\ swLiveUsed \in Nat
  /\ waiting \subseteq Starts /\ slotted \subseteq Starts
  /\ sharing \subseteq Starts /\ forcing \subseteq Starts

BackgroundTyping ==
  /\ hwBackground \in Nat /\ swBackground \in Nat /\ swBackgroundUsed \in Nat
  /\ held \subseteq Producers
  /\ part \in [Producers -> {"idle", "permitted", "encoding", "stopped"}]

SessionTyping ==
  /\ stage \in [Starts -> {"idle", "asking", "classify", "spill", "granted",
                           "admitted", "spawned", "live", "releasing",
                           "killing", "retired", "over"}]
  /\ overdrawn \subseteq Starts
  /\ encoder \in [Starts -> {"none", "hardware", "software"}]
  /\ watch \in [Starts -> {"unborn", "hardware", "software", "startup",
                           "stalled", "swapping", "forced", "demoted",
                           "lifetime", "done"}]
  /\ gate \in [Starts -> {"free", "watcher", "retire"}]

Typing == PermitTyping /\ BackgroundTyping /\ SessionTyping

(* Every count is the number of guards alive.                              *)
CountInv ==
  /\ liveWaiting = Cardinality(waiting)
  /\ hwLive = Cardinality(slotted)
  /\ swLive = Cardinality(sharing) + Cardinality(forcing)
  /\ hwBackground = Cardinality(HeldIn("hardware"))
  /\ swBackground = Cardinality(HeldIn("software"))

OnHardware == {"hardware", "startup", "stalled", "swapping"}
Serving == {"granted", "admitted", "spawned", "live"}

(* Which guards a start or its session holds, by how far it has come.      *)
StartInv(s) ==
  /\ s \in waiting <=> stage[s] \in {"asking", "classify", "spill", "granted"}
  /\ stage[s] \in {"idle", "asking", "classify", "spill", "over"}
       => s \notin slotted /\ s \notin sharing /\ encoder[s] = "none"
  /\ stage[s] \in {"idle", "asking", "classify", "spill", "granted", "admitted"}
       => watch[s] = "unborn" /\ encoder[s] = "none"
  /\ stage[s] = "spawned" => watch[s] \in {"hardware", "software"}
  /\ stage[s] = "over" => watch[s] \in {"unborn", "hardware", "software", "done"}
  /\ stage[s] \in Serving => s \in slotted \cup sharing \cup forcing

(* The permits through the downgrade.                                      *)
SwapInv(s) ==
  /\ s \in forcing <=> watch[s] \in {"forced", "demoted"}
  /\ s \notin slotted \/ s \notin sharing
  /\ watch[s] \in OnHardware \cup {"forced", "demoted"} => s \notin sharing
  /\ watch[s] = "demoted" => s \notin slotted
  /\ watch[s] \in {"swapping", "forced", "demoted"} => encoder[s] = "none"
  /\ InService(s) /\ watch[s] \in OnHardware => s \in slotted
  /\ InService(s) => /\ encoder[s] = "hardware" => s \in slotted
                     /\ encoder[s] = "software" => s \in sharing

PermitInv == \A s \in Starts : StartInv(s) /\ SwapInv(s)

ProducerInv == \A p \in Producers : p \in held <=> part[p] # "idle"

(* A live start that holds a permit shares the node with no producer.      *)
AloneInv == \A s \in Starts : stage[s] \in Serving => held = {}

IInv ==
  /\ Typing /\ CountInv /\ PermitInv /\ ProducerInv /\ AloneInv
  /\ HardwareWithinCap

-----------------------------------------------------------------------------
LEMMA GuardSets ==
  ASSUME Typing
  PROVE  /\ IsFiniteSet(waiting) /\ IsFiniteSet(slotted)
         /\ IsFiniteSet(sharing) /\ IsFiniteSet(forcing)
         /\ \A pool : IsFiniteSet(HeldIn(pool))
  BY AdmissionAssumption, FS_Subset DEF Typing, PermitTyping, BackgroundTyping, SessionTyping, HeldIn

LEMMA Grown ==
  ASSUME NEW S, IsFiniteSet(S), NEW x, x \notin S
  PROVE  Cardinality(S \cup {x}) = Cardinality(S) + 1
  BY FS_AddElement

LEMMA Shrunk ==
  ASSUME NEW S, IsFiniteSet(S), NEW x \in S
  PROVE  /\ Cardinality(S \ {x}) = SaturatingSub(Cardinality(S), 1)
         /\ Cardinality(S) >= 1
  <1>1. Cardinality(S \ {x}) = Cardinality(S) - 1
    BY FS_RemoveElement
  <1>2. Cardinality(S) \in Nat /\ Cardinality(S) # 0
    BY FS_CardinalityType, FS_EmptySet
  <1>3. QED
    BY <1>1, <1>2 DEF SaturatingSub

-----------------------------------------------------------------------------
(* The sums.  Reserved folds the weights over a set in the order CHOOSE    *)
(* picks its elements; what the permits need is that it is a sum in every  *)
(* order.  All inductions are minimal counterexamples among finite subsets.*)
Pick(S) == CHOOSE x \in S : TRUE
Unfolds(f, S) ==
  f = [s \in SUBSET S |-> IF s = {} THEN 0 ELSE Threads[Pick(s)] + f[s \ {Pick(s)}]]

LEMMA Folded == ASSUME NEW S PROVE Reserved(S) = (CHOOSE f : Unfolds(f, S))[S]
  BY Zenon DEF Reserved, MapThenSumSet, MapThenFoldSet, Unfolds, Pick

LEMMA PickIn == ASSUME NEW S, S # {} PROVE Pick(S) \in S
  BY DEF Pick

LEMMA MinimalSubset ==
  ASSUME NEW S, NEW T, T \subseteq FiniteSubsetsOf(S), T # {}
  PROVE  \E x \in T : \A y \in T : ~(y \subseteq x /\ y # x)
  <1>1. IsWellFoundedOn(StrictSubsetOrdering(S), FiniteSubsetsOf(S))
    BY FS_StrictSubsetOrderingWellFounded
  <1>2. PICK x \in T : \A y \in T : <<y, x>> \notin StrictSubsetOrdering(S)
    BY <1>1, WFMin
  <1>3. QED
    BY <1>2 DEF StrictSubsetOrdering, FiniteSubsetsOf

(* Two functions that unfold the sum agree where both are defined.         *)
LEMMA UnfoldingsAgree ==
  ASSUME NEW A, NEW B, NEW f, NEW g, Unfolds(f, A), Unfolds(g, B),
         NEW s, IsFiniteSet(s), s \subseteq A, s \subseteq B
  PROVE  f[s] = g[s]
  <1> DEFINE T == {t \in FiniteSubsetsOf(s) : f[t] # g[t]}
  <1>1. SUFFICES ASSUME T # {} PROVE FALSE
    BY DEF FiniteSubsetsOf
  <1>2. PICK t \in T : \A u \in T : ~(u \subseteq t /\ u # t)
    <2>1. T \subseteq FiniteSubsetsOf(s)
      OBVIOUS
    <2> HIDE DEF T
    <2>2. QED
      BY <1>1, <2>1, MinimalSubset
  <1>3. t \subseteq s /\ IsFiniteSet(t) /\ f[t] # g[t]
    BY DEF FiniteSubsetsOf
  <1>4. t # {}
    BY <1>3 DEF Unfolds
  <1> DEFINE rest == t \ {Pick(t)}
  <1>5. rest \subseteq t /\ rest # t /\ IsFiniteSet(rest)
    BY <1>3, <1>4, PickIn, FS_RemoveElement
  <1>6. f[rest] = g[rest]
    BY <1>2, <1>3, <1>5 DEF FiniteSubsetsOf
  <1>7. /\ f[t] = Threads[Pick(t)] + f[rest]
        /\ g[t] = Threads[Pick(t)] + g[rest]
    BY <1>3, <1>4 DEF Unfolds
  <1>8. QED
    BY <1>3, <1>6, <1>7

(* The fold is well defined: some function unfolds the sum.                *)
LEMMA UnfoldingExists ==
  ASSUME NEW S, IsFiniteSet(S)
  PROVE  \E f : Unfolds(f, S)
  <1> DEFINE T == {s \in FiniteSubsetsOf(S) : ~ \E f : Unfolds(f, s)}
  <1>1. SUFFICES ASSUME T # {} PROVE FALSE
    BY DEF FiniteSubsetsOf
  <1>2. PICK X \in T : \A y \in T : ~(y \subseteq X /\ y # X)
    <2>1. T \subseteq FiniteSubsetsOf(S)
      OBVIOUS
    <2> HIDE DEF T
    <2>2. QED
      BY <1>1, <2>1, MinimalSubset
  <1>3. X \subseteq S /\ IsFiniteSet(X) /\ ~ \E f : Unfolds(f, X)
    BY DEF FiniteSubsetsOf
  <1>4. ASSUME NEW s, s \subseteq X, s # X
        PROVE  IsFiniteSet(s) /\ Unfolds(CHOOSE f : Unfolds(f, s), s)
    <2>1. IsFiniteSet(s)
      BY <1>3, <1>4, FS_Subset
    <2>2. s \in FiniteSubsetsOf(S)
      BY <1>3, <1>4, <2>1 DEF FiniteSubsetsOf
    <2>3. \E f : Unfolds(f, s)
      BY <1>2, <1>4, <2>2
    <2>4. QED
      BY <2>1, <2>3, Zenon
  <1> DEFINE F == [s \in SUBSET X |->
                    IF s = {} THEN 0 ELSE Threads[Pick(s)] + Reserved(s \ {Pick(s)})]
  <1>5. ASSUME NEW s, s \subseteq X, s # {}
        PROVE  Reserved(s \ {Pick(s)}) = F[s \ {Pick(s)}]
    <2> DEFINE t == s \ {Pick(s)}
               f == CHOOSE h : Unfolds(h, t)
    <2>1. t \subseteq X /\ t # X /\ IsFiniteSet(t) /\ Unfolds(f, t)
      BY <1>4, <1>5, PickIn
    <2>2. Reserved(t) = f[t]
      BY Folded
    <2>3. CASE t = {}
      BY <2>1, <2>2, <2>3 DEF Unfolds
    <2>4. CASE t # {}
      <3> DEFINE u == t \ {Pick(t)}
                 g == CHOOSE h : Unfolds(h, u)
      <3>1. u \subseteq t /\ u \subseteq X /\ u # X /\ IsFiniteSet(u) /\ Unfolds(g, u)
        BY <1>4, <2>1, <2>4, PickIn
      <3>2. f[u] = g[u]
        BY <2>1, <3>1, UnfoldingsAgree
      <3>3. Reserved(u) = g[u]
        BY Folded
      <3>4. f[t] = Threads[Pick(t)] + f[u]
        BY <2>1, <2>4 DEF Unfolds
      <3>5. F[t] = Threads[Pick(t)] + Reserved(u)
        BY <2>1, <2>4
      <3>6. QED
        BY <2>2, <3>2, <3>3, <3>4, <3>5
    <2>5. QED
      BY <2>3, <2>4
  <1>6. F = [s \in SUBSET X |->
              IF s = {} THEN 0 ELSE Threads[Pick(s)] + F[s \ {Pick(s)}]]
    BY <1>5
  <1>7. QED
    BY <1>3, <1>6 DEF Unfolds

LEMMA EmptySum == Reserved({}) = 0
  <1> DEFINE f == CHOOSE h : Unfolds(h, {})
  <1>1. Unfolds(f, {})
    BY UnfoldingExists, FS_EmptySet, Zenon
  <1>2. QED
    BY <1>1, Folded DEF Unfolds

LEMMA PickedSum ==
  ASSUME NEW S, IsFiniteSet(S), S # {}
  PROVE  Reserved(S) = Threads[Pick(S)] + Reserved(S \ {Pick(S)})
  <1> DEFINE t == S \ {Pick(S)}
             f == CHOOSE h : Unfolds(h, S)
             g == CHOOSE h : Unfolds(h, t)
  <1>1. IsFiniteSet(t) /\ t \subseteq S
    BY FS_RemoveElement
  <1>2. Unfolds(f, S) /\ Unfolds(g, t)
    BY <1>1, UnfoldingExists, Zenon
  <1>3. f[t] = g[t]
    BY <1>1, <1>2, UnfoldingsAgree
  <1>4. f[S] = Threads[Pick(S)] + f[t]
    BY <1>2 DEF Unfolds
  <1>5. Reserved(S) = f[S] /\ Reserved(t) = g[t]
    BY Folded
  <1>6. QED
    BY <1>3, <1>4, <1>5

Weighed(S) == IsFiniteSet(S) /\ \A x \in S : Threads[x] \in Nat \ {0}

LEMMA SumType == ASSUME NEW S, Weighed(S) PROVE Reserved(S) \in Nat
  <1> DEFINE T == {s \in FiniteSubsetsOf(S) : Reserved(s) \notin Nat}
  <1>1. SUFFICES ASSUME T # {} PROVE FALSE
    BY DEF FiniteSubsetsOf, Weighed
  <1>2. PICK X \in T : \A y \in T : ~(y \subseteq X /\ y # X)
    <2>1. T \subseteq FiniteSubsetsOf(S)
      OBVIOUS
    <2> HIDE DEF T
    <2>2. QED
      BY <1>1, <2>1, MinimalSubset
  <1>3. X \subseteq S /\ IsFiniteSet(X) /\ Reserved(X) \notin Nat
    BY DEF FiniteSubsetsOf
  <1>4. X # {}
    BY <1>3, EmptySum
  <1>5. X \ {Pick(X)} \in FiniteSubsetsOf(S) /\ X \ {Pick(X)} # X
    BY <1>3, <1>4, PickIn, FS_RemoveElement DEF FiniteSubsetsOf
  <1>6. Reserved(X \ {Pick(X)}) \in Nat
    BY <1>2, <1>5
  <1>7. Threads[Pick(X)] \in Nat
    BY <1>3, <1>4, PickIn DEF Weighed
  <1>8. QED
    BY <1>3, <1>4, <1>6, <1>7, PickedSum

(* The order does not matter: any element may be taken out first.          *)
LEMMA SumWithout ==
  ASSUME NEW S, Weighed(S), NEW x \in S
  PROVE  Reserved(S) = Threads[x] + Reserved(S \ {x})
  <1> DEFINE Bad(s) == \E y \in s : Reserved(s) # Threads[y] + Reserved(s \ {y})
             T == {s \in FiniteSubsetsOf(S) : Bad(s)}
  <1>1. SUFFICES ASSUME T # {} PROVE FALSE
    BY DEF FiniteSubsetsOf, Weighed
  <1>2. PICK X \in T : \A s \in T : ~(s \subseteq X /\ s # X)
    <2>1. T \subseteq FiniteSubsetsOf(S)
      OBVIOUS
    <2> HIDE DEF T
    <2>2. QED
      BY <1>1, <2>1, MinimalSubset
  <1>3. X \subseteq S /\ IsFiniteSet(X)
    BY DEF FiniteSubsetsOf
  <1>4. PICK y \in X : Reserved(X) # Threads[y] + Reserved(X \ {y})
    OBVIOUS
  <1> DEFINE p == Pick(X)
             rest == (X \ {p}) \ {y}
  <1>5. p \in X /\ Reserved(X) = Threads[p] + Reserved(X \ {p})
    BY <1>3, PickIn, PickedSum
  <1>6. p # y
    BY <1>4, <1>5
  <1>7. ASSUME NEW a \in X PROVE X \ {a} \in FiniteSubsetsOf(S) /\ X \ {a} # X
    BY <1>3, FS_RemoveElement DEF FiniteSubsetsOf
  <1>8. ASSUME NEW a \in X, NEW b \in X \ {a}
        PROVE  Reserved(X \ {a}) = Threads[b] + Reserved((X \ {a}) \ {b})
    BY <1>2, <1>7
  <1>9. Reserved(X \ {p}) = Threads[y] + Reserved(rest)
    BY <1>5, <1>6, <1>8
  <1>10. Reserved(X \ {y}) = Threads[p] + Reserved(rest)
    <2>1. (X \ {y}) \ {p} = rest
      OBVIOUS
    <2>2. QED
      BY <1>5, <1>6, <1>8, <2>1
  <1>11. Threads[p] \in Nat /\ Threads[y] \in Nat /\ Reserved(rest) \in Nat
    <2>1. Weighed(rest)
      BY <1>3, FS_Subset DEF Weighed
    <2>2. QED
      BY <1>3, <1>5, <2>1, SumType DEF Weighed
  <1> HIDE DEF p, rest
  <1>12. QED
    BY <1>4, <1>5, <1>9, <1>10, <1>11

LEMMA SumWith ==
  ASSUME NEW S, Weighed(S), NEW x, x \notin S, Threads[x] \in Nat \ {0}
  PROVE  /\ Weighed(S \cup {x})
         /\ Reserved(S \cup {x}) = Reserved(S) + Threads[x]
         /\ Reserved(S) \in Nat
  <1>1. Weighed(S \cup {x})
    BY FS_AddElement DEF Weighed
  <1>2. (S \cup {x}) \ {x} = S
    OBVIOUS
  <1>3. Reserved(S \cup {x}) = Threads[x] + Reserved(S)
    BY <1>1, <1>2, SumWithout
  <1>4. QED
    BY <1>1, <1>3, SumType

LEMMA SumDrops ==
  ASSUME NEW S, Weighed(S), NEW x \in S
  PROVE  /\ Reserved(S \ {x}) = SaturatingSub(Reserved(S), Threads[x])
         /\ Threads[x] <= Reserved(S)
  <1>1. Weighed(S \ {x})
    BY FS_RemoveElement DEF Weighed
  <1>2. Reserved(S \ {x}) \in Nat /\ Threads[x] \in Nat
    BY <1>1, SumType DEF Weighed
  <1>3. QED
    BY <1>2, SumWithout DEF SaturatingSub

LEMMA NothingReserved == ASSUME NEW S, Weighed(S), Reserved(S) = 0 PROVE S = {}
  <1> SUFFICES ASSUME NEW x \in S PROVE FALSE
    OBVIOUS
  <1>1. Threads[x] \in Nat \ {0} /\ Threads[x] <= 0
    BY SumDrops DEF Weighed
  <1>2. QED
    BY <1>1

(* A sum over less is no more, and a disjoint union adds.                  *)
LEMMA SumOfUnion ==
  ASSUME NEW A, NEW B, Weighed(A), Weighed(B), A \cap B = {}
  PROVE  Reserved(A \cup B) = Reserved(A) + Reserved(B)
  <1> DEFINE T == {s \in FiniteSubsetsOf(B) : Reserved(A \cup s) # Reserved(A) + Reserved(s)}
  <1>1. SUFFICES ASSUME T # {} PROVE FALSE
    BY DEF FiniteSubsetsOf, Weighed
  <1>2. PICK X \in T : \A s \in T : ~(s \subseteq X /\ s # X)
    <2>1. T \subseteq FiniteSubsetsOf(B)
      OBVIOUS
    <2> HIDE DEF T
    <2>2. QED
      BY <1>1, <2>1, MinimalSubset
  <1>3. X \subseteq B /\ IsFiniteSet(X) /\ Reserved(A \cup X) # Reserved(A) + Reserved(X)
    BY DEF FiniteSubsetsOf
  <1>4. Reserved(A) \in Nat
    BY SumType
  <1>5. X # {}
    <2>1. A \cup {} = A
      OBVIOUS
    <2>2. QED
      BY <1>3, <1>4, <2>1, EmptySum
  <1>6. PICK x \in X : TRUE
    BY <1>5
  <1>7. Weighed(X \ {x}) /\ Weighed(X) /\ Weighed(A \cup X)
    BY <1>3, FS_Subset, FS_RemoveElement, FS_Union DEF Weighed
  <1>8. Reserved(A \cup (X \ {x})) = Reserved(A) + Reserved(X \ {x})
    BY <1>2, <1>3, <1>6, <1>7 DEF FiniteSubsetsOf, Weighed
  <1>9. (A \cup X) \ {x} = A \cup (X \ {x})
    BY <1>3, <1>6
  <1>10. /\ Reserved(A \cup X) = Threads[x] + Reserved(A \cup (X \ {x}))
         /\ Reserved(X) = Threads[x] + Reserved(X \ {x})
    BY <1>6, <1>7, <1>9, SumWithout
  <1>11. Threads[x] \in Nat /\ Reserved(X \ {x}) \in Nat
    BY <1>6, <1>7, SumType DEF Weighed
  <1>12. QED
    BY <1>3, <1>4, <1>8, <1>10, <1>11

LEMMA SumMonotone ==
  ASSUME NEW S, Weighed(S), NEW T, T \subseteq S
  PROVE  Weighed(T) /\ Reserved(T) <= Reserved(S)
  <1>1. Weighed(T) /\ Weighed(S \ T)
    BY FS_Subset, FS_Difference DEF Weighed
  <1>2. T \cap (S \ T) = {} /\ T \cup (S \ T) = S
    OBVIOUS
  <1>3. Reserved(S) = Reserved(T) + Reserved(S \ T)
    BY <1>1, <1>2, SumOfUnion
  <1>4. Reserved(T) \in Nat /\ Reserved(S \ T) \in Nat
    BY <1>1, SumType
  <1>5. QED
    BY <1>1, <1>3, <1>4

-----------------------------------------------------------------------------
(* The eleven ways a start moves.                                          *)
Moves(s) == LastPoll(s) \/ SoftwareWillDo(s)

LEMMA StartCases ==
  ASSUME NEW s \in Starts, Start(s)
  PROVE  \/ Queue(s) \/ AdmitHardware(s) \/ Moves(s) \/ Admitted(s)
         \/ Spawn(s) \/ StartFails(s) \/ Register(s) \/ StartWatcher(s)
         \/ GrantShare(s) /\ stage[s] \in {"asking", "spill"}
         \/ GiveUp(s) /\ stage[s] \in {"asking", "classify", "spill"}
  BY DEF Start, AdmitSoftware, SpillToSoftware, Leave, WaitedForBackground,
         RefusedBySpeed, SoftwareSpent, Moves, At

(* A count of zero means nobody holds a guard, and the reverse.            *)
LEMMA CountsTell ==
  ASSUME Typing, CountInv
  PROVE  /\ liveWaiting = 0 => waiting = {}
         /\ ~LiveActive => slotted = {} /\ sharing = {} /\ forcing = {}
         /\ ~BackgroundActive => held = {}
  <1>1. /\ Cardinality(waiting) = 0 => waiting = {}
        /\ Cardinality(slotted) = 0 => slotted = {}
        /\ Cardinality(sharing) = 0 => sharing = {}
        /\ Cardinality(forcing) = 0 => forcing = {}
        /\ \A pool : Cardinality(HeldIn(pool)) = 0 => HeldIn(pool) = {}
    BY GuardSets, FS_EmptySet
  <1>2. Cardinality(sharing) \in Nat /\ Cardinality(forcing) \in Nat
    BY GuardSets, FS_CardinalityType
  <1>3. HeldIn("hardware") = {} /\ HeldIn("software") = {} => held = {}
    BY AdmissionAssumption DEF HeldIn, Typing, PermitTyping, BackgroundTyping, SessionTyping
  <1>4. ~LiveActive => hwLive = 0 /\ swLive = 0
    BY DEF LiveActive, Typing, PermitTyping, BackgroundTyping, SessionTyping
  <1>5. ~BackgroundActive => hwBackground = 0 /\ swBackground = 0
    BY DEF BackgroundActive, Typing, PermitTyping, BackgroundTyping, SessionTyping
  <1>6. liveWaiting = 0 => waiting = {}
    BY <1>1 DEF CountInv
  <1>7. ~LiveActive => slotted = {} /\ sharing = {} /\ forcing = {}
    BY <1>1, <1>2, <1>4 DEF CountInv
  <1>8. ~BackgroundActive => held = {}
    BY <1>1, <1>3, <1>5 DEF CountInv
  <1>9. QED
    BY <1>6, <1>7, <1>8

-----------------------------------------------------------------------------
(* Each step touches each kind of guard in one of these ways.              *)
LEMMA WaitStep ==
  ASSUME PermitInv, [Next]_vars
  PROVE  \/ UNCHANGED waiter
         \/ \E s \in Starts : /\ s \notin waiting /\ waiting' = waiting \cup {s}
                              /\ liveWaiting' = liveWaiting + 1
         \/ \E s \in Starts : s \in waiting /\ DropWait(s)
  <1>1. ASSUME NEW s \in Starts, Queue(s)
        PROVE  s \notin waiting /\ waiting' = waiting \cup {s} /\ liveWaiting' = liveWaiting + 1
    BY <1>1 DEF Queue, At, PermitInv, StartInv
  <1>2. ASSUME NEW s \in Starts,
               \/ Admitted(s)
               \/ GiveUp(s) /\ stage[s] \in {"asking", "classify", "spill"}
        PROVE  s \in waiting /\ DropWait(s)
    BY <1>2 DEF Admitted, GiveUp, At, PermitInv, StartInv
  <1>3. ASSUME NEW s \in Starts, Start(s)
        PROVE  \/ UNCHANGED waiter \/ Queue(s) \/ Admitted(s)
               \/ GiveUp(s) /\ stage[s] \in {"asking", "classify", "spill"}
    BY <1>3, StartCases
    DEF AdmitHardware, Moves, LastPoll, SoftwareWillDo, Spawn, StartFails, Register,
        StartWatcher, GrantShare, waiter, permits, guards
  <1>4. ASSUME NEW s \in Starts, Watch(s) \/ End(s) PROVE UNCHANGED waiter
    BY <1>4
    DEF Watch, EncoderExits, Healthy, DiedEarly, Stalls, NoFallback, BeginSwap, TakeForced,
        Demote, RespawnSoftware, RespawnHardware, LifetimeVerdict,
        End, Retire, ReleasePermits, KillRetired, DropSession, waiter, permits, guards
  <1>5. ASSUME NEW p \in Producers, Produce(p) PROVE UNCHANGED waiter
    BY <1>5 DEF Produce, Acquire, SpawnPart, Yield, PartEnds, Release, waiter, permits, guards
  <1>6. CASE UNCHANGED vars
    BY <1>6 DEF vars, waiter, permits, guards
  <1>7. QED
    BY <1>1, <1>2, <1>3, <1>4, <1>5, <1>6 DEF Next

LEMMA SlotStep ==
  ASSUME PermitInv, [Next]_vars
  PROVE  \/ UNCHANGED liveHw
         \/ \E s \in Starts : AdmitHardware(s) /\ s \notin slotted
         \/ \E s \in Starts : DropSlot(s)
  <1>1. ASSUME NEW s \in Starts, AdmitHardware(s) PROVE s \notin slotted
    BY <1>1 DEF AdmitHardware, At, PermitInv, StartInv
  <1>2. ASSUME NEW s \in Starts, Start(s)
        PROVE  UNCHANGED liveHw \/ AdmitHardware(s) \/ DropSlot(s)
    BY <1>2, StartCases
    DEF Queue, Admitted, GiveUp, Moves, LastPoll, SoftwareWillDo, Spawn, StartFails, Register,
        StartWatcher, GrantShare, liveHw, permits, guards
  <1>3. ASSUME NEW s \in Starts, Watch(s) \/ End(s) PROVE UNCHANGED liveHw \/ DropSlot(s)
    BY <1>3
    DEF Watch, EncoderExits, Healthy, DiedEarly, Stalls, NoFallback, BeginSwap, TakeForced,
        Demote, RespawnSoftware, RespawnHardware, LifetimeVerdict,
        End, Retire, ReleasePermits, KillRetired, DropSession, liveHw, permits, guards
  <1>4. ASSUME NEW p \in Producers, Produce(p) PROVE UNCHANGED liveHw
    BY <1>4 DEF Produce, Acquire, SpawnPart, Yield, PartEnds, Release, liveHw, permits, guards
  <1>5. CASE UNCHANGED vars
    BY <1>5 DEF vars, liveHw, permits, guards
  <1>6. QED
    BY <1>1, <1>2, <1>3, <1>4, <1>5 DEF Next

LEMMA ShareStep ==
  ASSUME PermitInv, [Next]_vars
  PROVE  \/ UNCHANGED <<liveSw, forcing>>
         \/ \E s \in Starts : /\ s \notin sharing /\ sharing' = sharing \cup {s}
                              /\ TakeLiveShare(Threads[s]) /\ UNCHANGED forcing
         \/ \E s \in Starts : DropShare(s) /\ UNCHANGED forcing
         \/ \E s \in Starts : /\ s \notin forcing /\ forcing' = forcing \cup {s}
                              /\ TakeLiveShare(Threads[s]) /\ UNCHANGED sharing
         \/ \E s \in Starts : /\ s \in forcing /\ s \notin sharing
                              /\ forcing' = forcing \ {s} /\ sharing' = sharing \cup {s}
                              /\ UNCHANGED <<swLive, swLiveUsed>>
  <1>1. ASSUME NEW s \in Starts, GrantShare(s), stage[s] \in {"asking", "spill"}
        PROVE  /\ s \notin sharing /\ sharing' = sharing \cup {s}
               /\ TakeLiveShare(Threads[s]) /\ UNCHANGED forcing
    BY <1>1 DEF GrantShare, At, PermitInv, StartInv, downgrade
  <1>2. ASSUME NEW s \in Starts, Start(s)
        PROVE  \/ UNCHANGED <<liveSw, forcing>>
               \/ GrantShare(s) /\ stage[s] \in {"asking", "spill"}
               \/ DropShare(s) /\ UNCHANGED forcing
    BY <1>2, StartCases
    DEF Queue, AdmitHardware, Admitted, GiveUp, Moves, LastPoll, SoftwareWillDo, Spawn,
        StartFails, Register, StartWatcher, liveSw, permits, guards, downgrade
  <1>3. ASSUME NEW s \in Starts, TakeForced(s)
        PROVE  /\ s \notin forcing /\ forcing' = forcing \cup {s}
               /\ TakeLiveShare(Threads[s]) /\ UNCHANGED sharing
    BY <1>3 DEF TakeForced, Watching, PermitInv, SwapInv
  <1>4. ASSUME NEW s \in Starts, RespawnSoftware(s)
        PROVE  /\ s \in forcing /\ s \notin sharing
               /\ forcing' = forcing \ {s} /\ sharing' = sharing \cup {s}
               /\ UNCHANGED <<swLive, swLiveUsed>>
    BY <1>4 DEF RespawnSoftware, PermitInv, SwapInv, permits
  <1>5. ASSUME NEW s \in Starts, Watch(s) \/ End(s)
        PROVE  \/ UNCHANGED <<liveSw, forcing>> \/ TakeForced(s) \/ RespawnSoftware(s)
               \/ DropShare(s) /\ UNCHANGED forcing
    BY <1>5
    DEF Watch, EncoderExits, Healthy, DiedEarly, Stalls, NoFallback, BeginSwap,
        Demote, RespawnHardware, LifetimeVerdict,
        End, Retire, ReleasePermits, KillRetired, DropSession, liveSw, permits, guards, downgrade
  <1>6. ASSUME NEW p \in Producers, Produce(p) PROVE UNCHANGED <<liveSw, forcing>>
    BY <1>6 DEF Produce, Acquire, SpawnPart, Yield, PartEnds, Release, liveSw, permits, guards,
                downgrade
  <1>7. CASE UNCHANGED vars
    BY <1>7 DEF vars, liveSw, permits, guards
  <1>8. QED
    BY <1>1, <1>2, <1>3, <1>4, <1>5, <1>6, <1>7 DEF Next

LEMMA HeldStep ==
  ASSUME [Next]_vars
  PROVE  \/ UNCHANGED <<background, backgroundPermits>>
         \/ \E p \in Producers : Produce(p)
  <1>1. ASSUME NEW s \in Starts, Start(s) PROVE UNCHANGED <<background, backgroundPermits>>
    BY <1>1, StartCases
    DEF Queue, AdmitHardware, Admitted, GiveUp, GrantShare, Moves, LastPoll, SoftwareWillDo,
        Spawn, StartFails, Register, StartWatcher, permits, backgroundPermits
  <1>2. ASSUME NEW s \in Starts, Watch(s) \/ End(s)
        PROVE  UNCHANGED <<background, backgroundPermits>>
    BY <1>2
    DEF Watch, EncoderExits, Healthy, DiedEarly, Stalls, NoFallback, BeginSwap, TakeForced,
        Demote, RespawnSoftware, RespawnHardware, LifetimeVerdict,
        End, Retire, ReleasePermits, KillRetired, DropSession, permits, backgroundPermits
  <1>3. CASE UNCHANGED vars
    BY <1>3 DEF vars, permits, backgroundPermits
  <1>4. QED
    BY <1>1, <1>2, <1>3 DEF Next

-----------------------------------------------------------------------------
LEMMA WaitCount ==
  IInv /\ [Next]_vars => liveWaiting' = Cardinality(waiting')
  <1> SUFFICES ASSUME IInv, [Next]_vars PROVE liveWaiting' = Cardinality(waiting')
    OBVIOUS
  <1> USE DEF IInv
  <1>1. IsFiniteSet(waiting) /\ liveWaiting = Cardinality(waiting)
    BY GuardSets DEF CountInv
  <1>2. ASSUME NEW s \in Starts, s \in waiting, DropWait(s)
        PROVE  liveWaiting' = Cardinality(waiting')
    BY <1>1, <1>2, Shrunk DEF DropWait
  <1>3. ASSUME NEW s \in Starts, s \notin waiting, waiting' = waiting \cup {s},
               liveWaiting' = liveWaiting + 1
        PROVE  liveWaiting' = Cardinality(waiting')
    BY <1>1, <1>3, Grown
  <1>4. QED
    BY <1>1, <1>2, <1>3, WaitStep DEF waiter

LEMMA SlotCount ==
  IInv /\ [Next]_vars => hwLive' = Cardinality(slotted')
  <1> SUFFICES ASSUME IInv, [Next]_vars PROVE hwLive' = Cardinality(slotted')
    OBVIOUS
  <1> USE DEF IInv
  <1>1. IsFiniteSet(slotted) /\ hwLive = Cardinality(slotted)
    BY GuardSets DEF CountInv
  <1>2. ASSUME NEW s \in Starts, DropSlot(s)
        PROVE  hwLive' = Cardinality(slotted')
    <2>1. CASE s \in slotted
      BY <1>1, <1>2, <2>1, Shrunk DEF DropSlot
    <2>2. CASE s \notin slotted
      <3>1. slotted \ {s} = slotted
        BY <2>2
      <3>2. QED
        BY <1>1, <1>2, <2>2, <3>1 DEF DropSlot
    <2>3. QED
      BY <2>1, <2>2
  <1>3. ASSUME NEW s \in Starts, AdmitHardware(s), s \notin slotted
        PROVE  hwLive' = Cardinality(slotted')
    BY <1>1, <1>3, Grown DEF AdmitHardware
  <1>4. QED
    BY <1>1, <1>2, <1>3, SlotStep DEF liveHw

LEMMA ShareCount ==
  IInv /\ [Next]_vars => swLive' = Cardinality(sharing') + Cardinality(forcing')
  <1> DEFINE Goal == swLive' = Cardinality(sharing') + Cardinality(forcing')
  <1> SUFFICES ASSUME IInv, [Next]_vars PROVE Goal
    OBVIOUS
  <1> USE DEF IInv
  <1>1. /\ IsFiniteSet(sharing) /\ IsFiniteSet(forcing)
        /\ swLive = Cardinality(sharing) + Cardinality(forcing)
    BY GuardSets DEF CountInv
  <1>2. Cardinality(sharing) \in Nat /\ Cardinality(forcing) \in Nat
    BY <1>1, FS_CardinalityType
  <1> HIDE DEF Goal
  <1>3. ASSUME NEW s \in Starts, s \notin sharing, sharing' = sharing \cup {s},
               TakeLiveShare(Threads[s]), UNCHANGED forcing
        PROVE  Goal
    <2>1. Cardinality(sharing') = Cardinality(sharing) + 1
      BY <1>1, <1>3, Grown
    <2>2. QED
      BY <1>1, <1>2, <1>3, <2>1 DEF Goal, TakeLiveShare
  <1>4. ASSUME NEW s \in Starts, s \notin forcing, forcing' = forcing \cup {s},
               TakeLiveShare(Threads[s]), UNCHANGED sharing
        PROVE  Goal
    <2>1. Cardinality(forcing') = Cardinality(forcing) + 1
      BY <1>1, <1>4, Grown
    <2>2. QED
      BY <1>1, <1>2, <1>4, <2>1 DEF Goal, TakeLiveShare
  <1>5. ASSUME NEW s \in Starts, DropShare(s), UNCHANGED forcing
        PROVE  Goal
    <2>1. CASE s \in sharing
      <3>1. /\ Cardinality(sharing \ {s}) = SaturatingSub(Cardinality(sharing), 1)
            /\ Cardinality(sharing) >= 1
        BY <1>1, <2>1, Shrunk
      <3>2. /\ swLive' = SaturatingSub(swLive, 1) /\ sharing' = sharing \ {s}
            /\ forcing' = forcing
        BY <1>5, <2>1 DEF DropShare
      <3>3. QED
        BY <1>1, <1>2, <3>1, <3>2 DEF Goal, SaturatingSub
    <2>2. CASE s \notin sharing
      <3>1. sharing \ {s} = sharing
        BY <2>2
      <3>2. QED
        BY <1>1, <1>5, <2>2, <3>1 DEF Goal, DropShare
    <2>3. QED
      BY <2>1, <2>2
  <1>6. ASSUME NEW s \in Starts, s \in forcing, s \notin sharing,
               forcing' = forcing \ {s}, sharing' = sharing \cup {s}, UNCHANGED swLive
        PROVE  Goal
    <2>1. /\ Cardinality(forcing') = SaturatingSub(Cardinality(forcing), 1)
          /\ Cardinality(forcing) >= 1
      BY <1>1, <1>6, Shrunk
    <2>2. Cardinality(sharing') = Cardinality(sharing) + 1
      BY <1>1, <1>6, Grown
    <2>3. QED
      BY <1>1, <1>2, <1>6, <2>1, <2>2 DEF Goal, SaturatingSub
  <1>7. CASE UNCHANGED <<liveSw, forcing>>
    BY <1>1, <1>7 DEF Goal, liveSw
  <1>8. QED
    BY <1>3, <1>4, <1>5, <1>6, <1>7, ShareStep

(* The two counts of background permits.                                   *)
LEMMA HeldCount ==
  IInv /\ [Next]_vars =>
    /\ hwBackground' = Cardinality(HeldIn("hardware")')
    /\ swBackground' = Cardinality(HeldIn("software")')
  <1> DEFINE Goal == /\ hwBackground' = Cardinality(HeldIn("hardware")')
                     /\ swBackground' = Cardinality(HeldIn("software")')
  <1> SUFFICES ASSUME IInv, [Next]_vars PROVE Goal
    OBVIOUS
  <1> USE DEF IInv
  <1>1. /\ IsFiniteSet(HeldIn("hardware")) /\ IsFiniteSet(HeldIn("software"))
        /\ hwBackground = Cardinality(HeldIn("hardware"))
        /\ swBackground = Cardinality(HeldIn("software"))
    BY GuardSets DEF CountInv
  <1>2. ASSUME held' = held PROVE HeldIn("hardware")' = HeldIn("hardware")
                                  /\ HeldIn("software")' = HeldIn("software")
    BY <1>2 DEF HeldIn
  <1>3. CASE UNCHANGED <<background, backgroundPermits>>
    BY <1>1, <1>2, <1>3 DEF background, backgroundPermits
  <1>4. ASSUME NEW p \in Producers, Acquire(p) PROVE Goal
    <2>1. p \notin held /\ held' = held \cup {p}
      BY <1>4 DEF Acquire, PartGoes, ProducerInv
    <2>2. CASE AcquireHardware(p)
      <3>1. /\ HeldIn("hardware")' = HeldIn("hardware") \cup {p}
            /\ HeldIn("software")' = HeldIn("software")
            /\ p \notin HeldIn("hardware")
        BY <2>1, <2>2 DEF HeldIn, AcquireHardware
      <3>2. QED
        BY <1>1, <2>2, <3>1, Grown DEF AcquireHardware
    <2>3. CASE AcquireSoftware(p)
      <3>1. /\ HeldIn("software")' = HeldIn("software") \cup {p}
            /\ HeldIn("hardware")' = HeldIn("hardware")
            /\ p \notin HeldIn("software")
        BY <2>1, <2>3 DEF HeldIn, AcquireSoftware
      <3>2. QED
        BY <1>1, <2>3, <3>1, Grown DEF AcquireSoftware
    <2>4. QED
      BY <1>4, <2>2, <2>3 DEF Acquire
  <1>5. ASSUME NEW p \in Producers, Release(p) PROVE Goal
    <2>1. p \in held /\ held' = held \ {p}
      BY <1>5 DEF Release, PartGoes, ProducerInv
    <2>2. CASE Pool[p] = "hardware"
      <3>1. /\ HeldIn("hardware")' = HeldIn("hardware") \ {p}
            /\ HeldIn("software")' = HeldIn("software")
            /\ p \in HeldIn("hardware")
        BY <2>1, <2>2 DEF HeldIn
      <3>2. QED
        BY <1>1, <1>5, <2>2, <3>1, Shrunk DEF Release
    <2>3. CASE Pool[p] = "software"
      <3>1. /\ HeldIn("software")' = HeldIn("software") \ {p}
            /\ HeldIn("hardware")' = HeldIn("hardware")
            /\ p \in HeldIn("software")
        BY <2>1, <2>3 DEF HeldIn
      <3>2. QED
        BY <1>1, <1>5, <2>3, <3>1, Shrunk DEF Release
    <2>4. QED
      BY <2>2, <2>3, AdmissionAssumption
  <1>6. ASSUME NEW p \in Producers, Produce(p) PROVE Goal
    <2>1. CASE SpawnPart(p) \/ Yield(p) \/ PartEnds(p)
      BY <1>1, <1>2, <2>1 DEF SpawnPart, Yield, PartEnds, permits
    <2>2. QED
      BY <1>4, <1>5, <1>6, <2>1 DEF Produce
  <1>7. QED
    BY <1>3, <1>6, HeldStep

LEMMA CountStep == IInv /\ [Next]_vars => CountInv'
  BY WaitCount, SlotCount, ShareCount, HeldCount DEF CountInv

-----------------------------------------------------------------------------
LEMMA SubtractionType ==
  ASSUME NEW a \in Nat, NEW b \in Nat
  PROVE  SaturatingSub(a, b) \in Nat
  BY DEF SaturatingSub

LEMMA WeightType == \A x \in Starts \cup Producers : Threads[x] \in Nat
  BY AdmissionAssumption

LEMMA TypeStep == IInv /\ [Next]_vars => Typing'
  <1> SUFFICES ASSUME IInv, [Next]_vars PROVE Typing'
    OBVIOUS
  <1> USE DEF IInv, Typing, PermitTyping, BackgroundTyping, SessionTyping
  <1>0. /\ SaturatingSub(liveWaiting, 1) \in Nat /\ SaturatingSub(hwLive, 1) \in Nat
        /\ SaturatingSub(hwBackground, 1) \in Nat /\ SaturatingSub(swBackground, 1) \in Nat
        /\ \A x \in Starts \cup Producers :
             SaturatingSub(swBackgroundUsed, Threads[x]) \in Nat
    BY WeightType, SubtractionType
  <1>1. liveWaiting' \in Nat /\ waiting' \subseteq Starts
    BY <1>0, WaitStep DEF waiter, DropWait
  <1>2. hwLive' \in Nat /\ slotted' \subseteq Starts
    BY <1>0, SlotStep DEF liveHw, DropSlot, AdmitHardware
  <1>3. ASSUME NEW s \in Starts, TakeLiveShare(Threads[s])
        PROVE  swLive' \in Nat /\ swLiveUsed' \in Nat
    BY <1>3, WeightType DEF TakeLiveShare
  <1>4. ASSUME NEW s \in Starts, DropShare(s)
        PROVE  swLive' \in Nat /\ swLiveUsed' \in Nat /\ sharing' \subseteq Starts
    BY <1>4, WeightType, SubtractionType DEF DropShare
  <1>5. /\ swLive' \in Nat /\ swLiveUsed' \in Nat
        /\ sharing' \subseteq Starts /\ forcing' \subseteq Starts
    BY <1>3, <1>4, ShareStep DEF liveSw
  <1>6. /\ hwBackground' \in Nat /\ swBackground' \in Nat /\ swBackgroundUsed' \in Nat
        /\ held' \subseteq Producers
        /\ part' \in [Producers -> {"idle", "permitted", "encoding", "stopped"}]
    <2> DEFINE Goal ==
          /\ hwBackground' \in Nat /\ swBackground' \in Nat /\ swBackgroundUsed' \in Nat
          /\ held' \subseteq Producers
          /\ part' \in [Producers -> {"idle", "permitted", "encoding", "stopped"}]
    <2>1. ASSUME NEW p \in Producers, Acquire(p) PROVE Goal
      BY <2>1, WeightType DEF Acquire, AcquireHardware, AcquireSoftware, PartGoes
    <2>2. ASSUME NEW p \in Producers, Release(p) PROVE Goal
      BY <1>0, <2>2 DEF Release, PartGoes
    <2>3. ASSUME NEW p \in Producers, SpawnPart(p) \/ Yield(p) \/ PartEnds(p) PROVE Goal
      BY <2>3 DEF SpawnPart, Yield, PartEnds, PartGoes, permits
    <2>4. CASE UNCHANGED <<background, backgroundPermits>>
      BY <2>4 DEF background, backgroundPermits
    <2>5. QED
      BY <2>1, <2>2, <2>3, <2>4, HeldStep DEF Produce
  <1>7. ASSUME NEW s \in Starts, Start(s) PROVE SessionTyping'
    BY <1>7, StartCases
    DEF Queue, AdmitHardware, Admitted, GiveUp, GrantShare, Moves, LastPoll, SoftwareWillDo,
        Spawn, Granted, StartFails, Register, StartWatcher, Goto, guards, process, downgrade
  <1>8. ASSUME NEW s \in Starts, Watch(s) PROVE SessionTyping'
    BY <1>8
    DEF Watch, EncoderExits, Healthy, DiedEarly, Stalls, NoFallback, BeginSwap, TakeForced,
        Demote, Succeed, RespawnSoftware, RespawnHardware, LifetimeVerdict, Watching,
        guards, downgrade
  <1>9. ASSUME NEW s \in Starts, End(s) PROVE SessionTyping'
    BY <1>9 DEF End, Retire, ReleasePermits, KillRetired, DropSession, Goto, guards, process,
                downgrade
  <1>10. ASSUME NEW p \in Producers, Produce(p) PROVE SessionTyping'
    BY <1>10 DEF Produce, Acquire, SpawnPart, Yield, PartEnds, Release, guards, session,
                 downgrade
  <1>11. ASSUME UNCHANGED vars PROVE SessionTyping'
    BY <1>11 DEF vars, guards, session
  <1>12. SessionTyping'
    BY <1>7, <1>8, <1>9, <1>10, <1>11 DEF Next
  <1>13. PermitTyping'
    BY <1>1, <1>2, <1>5
  <1>14. BackgroundTyping'
    BY <1>6
  <1> HIDE DEF PermitTyping, BackgroundTyping, SessionTyping
  <1>15. QED
    BY <1>12, <1>13, <1>14

LEMMA ProducerStep == IInv /\ [Next]_vars => ProducerInv'
  <1> SUFFICES ASSUME IInv, [Next]_vars PROVE ProducerInv'
    OBVIOUS
  <1> USE DEF IInv, Typing, PermitTyping, BackgroundTyping, SessionTyping
  <1>1. ASSUME NEW p \in Producers, Produce(p) PROVE ProducerInv'
    BY <1>1 DEF Produce, Acquire, SpawnPart, Yield, PartEnds, Release, PartGoes, ProducerInv
  <1>2. CASE UNCHANGED <<background, backgroundPermits>>
    BY <1>2 DEF background, ProducerInv
  <1>3. QED
    BY <1>1, <1>2, HeldStep

(* A start's own steps; those of the others leave its guards alone.        *)
LEMMA PermitStep == IInv /\ [Next]_vars => PermitInv'
  <1> SUFFICES ASSUME IInv, [Next]_vars, NEW t \in Starts PROVE StartInv(t)' /\ SwapInv(t)'
    BY DEF PermitInv
  <1> USE DEF IInv, Typing, PermitTyping, BackgroundTyping, SessionTyping
  <1>0. StartInv(t) /\ SwapInv(t)
    BY DEF PermitInv
  <1> USE DEF StartInv, SwapInv, InService, OnHardware, Serving
  <1>1. ASSUME NEW s \in Starts, Start(s) PROVE StartInv(t)' /\ SwapInv(t)'
    <2>0. StartInv(s) /\ SwapInv(s)
      BY DEF PermitInv
    <2>1. CASE Queue(s)
      BY <1>0, <2>0, <2>1 DEF Queue, At, Goto, liveHw, liveSw, process, downgrade
    <2>2. CASE AdmitHardware(s)
      BY <1>0, <2>0, <2>2 DEF AdmitHardware, At, Goto, waiter, liveSw, process, downgrade
    <2>3. CASE GrantShare(s) /\ stage[s] \in {"asking", "spill"}
      BY <1>0, <2>0, <2>3 DEF GrantShare, Goto, waiter, liveHw, process, downgrade
    <2>4. CASE GiveUp(s) /\ stage[s] \in {"asking", "classify", "spill"}
      BY <1>0, <2>0, <2>4 DEF GiveUp, DropWait, Goto, liveHw, liveSw, process, downgrade
    <2>5. CASE Moves(s)
      BY <1>0, <2>0, <2>5 DEF Moves, LastPoll, SoftwareWillDo, At, Goto, guards, process
    <2>6. CASE Admitted(s)
      BY <1>0, <2>0, <2>6 DEF Admitted, DropWait, At, Goto, liveHw, liveSw, process, downgrade
    <2>7. CASE Spawn(s)
      BY <1>0, <2>0, <2>7 DEF Spawn, Granted, At, Goto, guards
    <2>8. CASE StartFails(s)
      BY <1>0, <2>0, <2>8 DEF StartFails, DropSlot, DropShare, Goto, waiter, downgrade
    <2>9. CASE Register(s)
      BY <1>0, <2>0, <2>9 DEF Register, At, Goto, guards, process
    <2>10. CASE StartWatcher(s)
      BY <1>0, <2>0, <2>10 DEF StartWatcher, guards
    <2>11. QED
      BY <1>1, <2>1, <2>2, <2>3, <2>4, <2>5, <2>6, <2>7, <2>8, <2>9, <2>10, StartCases
  <1>2. ASSUME NEW s \in Starts, Watch(s) PROVE StartInv(t)' /\ SwapInv(t)'
    <2>0. StartInv(s) /\ SwapInv(s)
      BY DEF PermitInv
    <2>1. CASE EncoderExits(s) \/ Healthy(s) \/ DiedEarly(s) \/ Stalls(s) \/ NoFallback(s)
      BY <1>0, <2>0, <2>1
      DEF EncoderExits, Healthy, DiedEarly, Stalls, NoFallback, Watching, guards
    <2>2. CASE BeginSwap(s)
      BY <1>0, <2>0, <2>2 DEF BeginSwap, Watching, guards
    <2>3. CASE TakeForced(s)
      BY <1>0, <2>0, <2>3 DEF TakeForced, Watching, waiter, liveHw
    <2>4. CASE Demote(s)
      BY <1>0, <2>0, <2>4 DEF Demote, DropSlot, Watching, waiter, liveSw, downgrade
    <2>5. CASE RespawnSoftware(s)
      BY <1>0, <2>0, <2>5 DEF RespawnSoftware, Succeed
    <2>6. CASE RespawnHardware(s)
      BY <1>0, <2>0, <2>6 DEF RespawnHardware, Succeed, guards
    <2>7. CASE LifetimeVerdict(s)
      BY <1>0, <2>0, <2>7 DEF LifetimeVerdict, Watching, guards
    <2>8. QED
      BY <1>2, <2>1, <2>2, <2>3, <2>4, <2>5, <2>6, <2>7 DEF Watch
  <1>3. ASSUME NEW s \in Starts, End(s) PROVE StartInv(t)' /\ SwapInv(t)'
    <2>0. StartInv(s) /\ SwapInv(s)
      BY DEF PermitInv
    <2>1. CASE Retire(s)
      BY <1>0, <2>0, <2>1 DEF Retire, At, Goto, guards
    <2>2. CASE ReleasePermits(s)
      BY <1>0, <2>0, <2>2 DEF ReleasePermits, DropSlot, DropShare, At, Goto, waiter, downgrade,
                              process
    <2>3. CASE KillRetired(s)
      BY <1>0, <2>0, <2>3 DEF KillRetired, At, Goto, guards
    <2>4. CASE DropSession(s)
      BY <1>0, <2>0, <2>4 DEF DropSession, DropSlot, DropShare, At, Goto, waiter, downgrade
    <2>5. QED
      BY <1>3, <2>1, <2>2, <2>3, <2>4 DEF End
  <1>4. ASSUME NEW p \in Producers, Produce(p) PROVE StartInv(t)' /\ SwapInv(t)'
    BY <1>0, <1>4
    DEF Produce, Acquire, SpawnPart, Yield, PartEnds, Release, guards, session, waiter, liveHw,
        liveSw, downgrade
  <1>5. CASE UNCHANGED vars
    BY <1>0, <1>5 DEF vars, guards, session
  <1>6. QED
    BY <1>1, <1>2, <1>3, <1>4, <1>5 DEF Next

(* Only a live start that sees no background permit begins to serve, and   *)
(* only a producer that sees no live guard gets a permit.                  *)
LEMMA GrantAlone ==
  ASSUME IInv, NEW s \in Starts, AdmitHardware(s) \/ GrantShare(s)
  PROVE  held = {}
  BY CountsTell DEF IInv, AdmitHardware, GrantShare, LiveMayTake

LEMMA AcquireAlone ==
  ASSUME IInv, NEW p \in Producers, Acquire(p)
  PROVE  waiting = {} /\ slotted = {} /\ sharing = {} /\ forcing = {}
  <1>1. liveWaiting = 0 /\ ~LiveActive
    BY DEF Acquire, AcquireHardware, AcquireSoftware, BackgroundMayTake
  <1>2. QED
    BY <1>1, CountsTell DEF IInv

LEMMA NobodyServed ==
  ASSUME IInv, NEW p \in Producers, Acquire(p), NEW s \in Starts
  PROVE  ~Served(s)
  <1>1. waiting = {} /\ slotted = {} /\ sharing = {} /\ forcing = {}
    BY AcquireAlone
  <1>2. StartInv(s)
    BY DEF IInv, PermitInv
  <1>3. QED
    BY <1>1, <1>2 DEF StartInv, Served, Serving

LEMMA ServingStep ==
  ASSUME Typing, [Next]_vars, NEW t \in Starts, stage'[t] \in Serving
  PROVE  \/ stage[t] \in Serving
         \/ AdmitHardware(t) \/ GrantShare(t)
  <1> USE DEF Typing, PermitTyping, BackgroundTyping, SessionTyping, Serving
  <1>1. ASSUME NEW s \in Starts, Start(s)
        PROVE  stage[t] \in Serving \/ AdmitHardware(t) \/ GrantShare(t)
    BY <1>1, StartCases
    DEF Queue, AdmitHardware, Admitted, GiveUp, GrantShare, Moves, LastPoll, SoftwareWillDo,
        Spawn, StartFails, Register, StartWatcher, At, Goto
  <1>2. ASSUME NEW s \in Starts, Watch(s) PROVE stage' = stage
    BY <1>2
    DEF Watch, EncoderExits, Healthy, DiedEarly, Stalls, NoFallback, BeginSwap, TakeForced,
        Demote, RespawnSoftware, RespawnHardware, LifetimeVerdict
  <1>3. ASSUME NEW s \in Starts, End(s) PROVE stage[t] \in Serving
    BY <1>3 DEF End, Retire, ReleasePermits, KillRetired, DropSession, At, Goto
  <1>4. ASSUME NEW p \in Producers, Produce(p) PROVE stage' = stage
    BY <1>4 DEF Produce, Acquire, SpawnPart, Yield, PartEnds, Release, session
  <1>5. CASE UNCHANGED vars
    BY <1>5 DEF vars, session
  <1>6. QED
    BY <1>1, <1>2, <1>3, <1>4, <1>5 DEF Next

LEMMA HeldGrows ==
  ASSUME [Next]_vars
  PROVE  held' \subseteq held \/ \E p \in Producers : Acquire(p)
  BY HeldStep DEF background, Produce, SpawnPart, Yield, PartEnds, Release

LEMMA AloneStep == IInv /\ [Next]_vars => AloneInv'
  <1> SUFFICES ASSUME IInv, [Next]_vars, NEW t \in Starts, stage'[t] \in Serving
               PROVE  held' = {}
    BY DEF AloneInv
  <1>1. CASE \E p \in Producers : Acquire(p)
    <2>1. PICK p \in Producers : Acquire(p)
      BY <1>1
    <2>2. stage' = stage
      BY <2>1 DEF Acquire, session
    <2>3. stage[t] \notin Serving
      BY <2>1, NobodyServed DEF Served, Serving
    <2>4. QED
      BY <2>2, <2>3
  <1>2. CASE held' \subseteq held
    <2>1. held = {}
      BY ServingStep, GrantAlone DEF IInv, AloneInv
    <2>2. QED
      BY <1>2, <2>1
  <1>3. QED
    BY <1>1, <1>2, HeldGrows

LEMMA SumShrinks ==
  ASSUME NEW a \in Nat, NEW b \in Nat, NEW c \in Nat, NEW d \in Nat, NEW m \in Nat,
         a + b <= m, c <= a, d <= b
  PROVE  c + d <= m
  OBVIOUS

LEMMA CapStep == IInv /\ [Next]_vars => HardwareWithinCap'
  <1> SUFFICES ASSUME IInv, [Next]_vars PROVE hwLive' + hwBackground' <= HwMax
    BY SlotCount, HeldCount DEF HardwareWithinCap
  <1> USE DEF IInv, Typing, PermitTyping, BackgroundTyping, SessionTyping
  <1>1. hwLive + hwBackground <= HwMax /\ HwMax \in Nat
    BY AdmissionAssumption DEF HardwareWithinCap, CountInv
  <1>2. ASSUME NEW s \in Starts, AdmitHardware(s)
        PROVE  hwLive' + hwBackground' <= HwMax
    BY <1>1, <1>2 DEF AdmitHardware, HardwareFree, HardwareUsed, backgroundPermits
  <1>3. ASSUME NEW p \in Producers, Acquire(p)
        PROVE  hwLive' + hwBackground' <= HwMax
    BY <1>1, <1>3 DEF Acquire, AcquireHardware, AcquireSoftware, HardwareFree, HardwareUsed,
                      liveHw
  <1>4. hwLive' <= hwLive \/ \E s \in Starts : AdmitHardware(s)
    BY SlotStep DEF liveHw, DropSlot, SaturatingSub
  <1>5. hwBackground' <= hwBackground \/ \E p \in Producers : Acquire(p)
    BY HeldStep DEF backgroundPermits, Produce, SpawnPart, Yield, PartEnds, Release,
                    SaturatingSub, permits
  <1>6. hwLive' \in Nat /\ hwBackground' \in Nat
    BY TypeStep
  <1>7. hwLive \in Nat /\ hwBackground \in Nat
    OBVIOUS
  <1> HIDE DEF IInv, Typing, PermitTyping, BackgroundTyping, SessionTyping
  <1>8. CASE hwLive' <= hwLive /\ hwBackground' <= hwBackground
    BY <1>1, <1>6, <1>7, <1>8, SumShrinks
  <1>9. QED
    BY <1>2, <1>3, <1>4, <1>5, <1>8, Zenon

LEMMA IInit == Init => IInv
  <1> SUFFICES ASSUME Init PROVE IInv
    OBVIOUS
  <1>1. Typing /\ PermitInv /\ ProducerInv /\ AloneInv
    BY DEF Init, Typing, PermitTyping, BackgroundTyping, SessionTyping, PermitInv, StartInv, SwapInv, ProducerInv, AloneInv, Serving,
           OnHardware, InService
  <1>2. HeldIn("hardware") = {} /\ HeldIn("software") = {}
    BY DEF Init, HeldIn
  <1>3. Cardinality({}) = 0 /\ HwMax \in Nat
    BY FS_EmptySet, AdmissionAssumption
  <1>4. waiting = {} /\ slotted = {} /\ sharing = {} /\ forcing = {}
    BY DEF Init
  <1>5. CountInv /\ HardwareWithinCap
    BY <1>2, <1>3, <1>4 DEF Init, CountInv, HardwareWithinCap
  <1>6. QED
    BY <1>1, <1>5 DEF IInv

LEMMA Invariance == Spec => []IInv
  <1>1. IInv /\ [Next]_vars => IInv'
    BY TypeStep, CountStep, PermitStep, ProducerStep, AloneStep, CapStep DEF IInv
  <1>2. QED
    BY <1>1, IInit, PTL DEF Spec

-----------------------------------------------------------------------------
(* Every thread reserved belongs to a guard, and what was asked for fits.  *)
SumInv ==
  /\ swLiveUsed = Reserved(sharing) + Reserved(forcing)
  /\ swBackgroundUsed = Reserved(HeldIn("software"))

LEMMA WeighedGuards ==
  ASSUME Typing
  PROVE  /\ Weighed(sharing) /\ Weighed(forcing) /\ Weighed(HeldIn("software"))
         /\ Weighed(Negotiated)
         /\ \A x \in Starts \cup Producers : Threads[x] \in Nat \ {0}
  <1>1. \A x \in Starts \cup Producers : Threads[x] \in Nat \ {0}
    BY AdmissionAssumption
  <1>2. sharing \subseteq Starts /\ forcing \subseteq Starts /\ HeldIn("software") \subseteq Producers
    BY DEF Typing, PermitTyping, BackgroundTyping, HeldIn
  <1>3. Weighed(sharing) /\ Weighed(forcing) /\ Weighed(HeldIn("software"))
    BY <1>1, <1>2, GuardSets DEF Weighed
  <1>4. IsFiniteSet(Negotiated)
    BY GuardSets, FS_Difference, FS_Union DEF Negotiated
  <1>5. Weighed(Negotiated)
    BY <1>1, <1>2, <1>4 DEF Weighed, Negotiated
  <1>6. QED
    BY <1>1, <1>3, <1>5

LEMMA ShareSum ==
  IInv /\ SumInv /\ [Next]_vars => swLiveUsed' = Reserved(sharing') + Reserved(forcing')
  <1> DEFINE Goal == swLiveUsed' = Reserved(sharing') + Reserved(forcing')
  <1> SUFFICES ASSUME IInv, SumInv, [Next]_vars PROVE Goal
    OBVIOUS
  <1>1. /\ Weighed(sharing) /\ Weighed(forcing)
        /\ swLiveUsed = Reserved(sharing) + Reserved(forcing)
        /\ \A s \in Starts : Threads[s] \in Nat \ {0}
    BY WeighedGuards DEF IInv, SumInv
  <1>2. Reserved(sharing) \in Nat /\ Reserved(forcing) \in Nat
    BY <1>1, SumType
  <1> HIDE DEF Goal
  <1>3. ASSUME NEW s \in Starts, s \notin sharing, sharing' = sharing \cup {s},
               TakeLiveShare(Threads[s]), UNCHANGED forcing
        PROVE  Goal
    <2>1. Reserved(sharing') = Reserved(sharing) + Threads[s]
      BY <1>1, <1>3, SumWith
    <2>2. swLiveUsed' = swLiveUsed + Threads[s] /\ forcing' = forcing
      BY <1>3 DEF TakeLiveShare
    <2>3. QED
      BY <1>1, <1>2, <2>1, <2>2 DEF Goal
  <1>4. ASSUME NEW s \in Starts, s \notin forcing, forcing' = forcing \cup {s},
               TakeLiveShare(Threads[s]), UNCHANGED sharing
        PROVE  Goal
    <2>1. Reserved(forcing') = Reserved(forcing) + Threads[s]
      BY <1>1, <1>4, SumWith
    <2>2. swLiveUsed' = swLiveUsed + Threads[s] /\ sharing' = sharing
      BY <1>4 DEF TakeLiveShare
    <2>3. QED
      BY <1>1, <1>2, <2>1, <2>2 DEF Goal
  <1>5. ASSUME NEW s \in Starts, DropShare(s), UNCHANGED forcing
        PROVE  Goal
    <2>1. CASE s \in sharing
      <3>1. /\ Reserved(sharing \ {s}) = SaturatingSub(Reserved(sharing), Threads[s])
            /\ Threads[s] <= Reserved(sharing)
        BY <1>1, <2>1, SumDrops
      <3>2. /\ swLiveUsed' = SaturatingSub(swLiveUsed, Threads[s])
            /\ sharing' = sharing \ {s} /\ forcing' = forcing
        BY <1>5, <2>1 DEF DropShare
      <3>3. QED
        BY <1>1, <1>2, <3>1, <3>2 DEF Goal, SaturatingSub
    <2>2. CASE s \notin sharing
      <3>1. sharing \ {s} = sharing
        BY <2>2
      <3>2. QED
        BY <1>1, <1>5, <2>2, <3>1 DEF Goal, DropShare
    <2>3. QED
      BY <2>1, <2>2
  <1>6. ASSUME NEW s \in Starts, s \in forcing, s \notin sharing,
               forcing' = forcing \ {s}, sharing' = sharing \cup {s}, UNCHANGED swLiveUsed
        PROVE  Goal
    <2>1. /\ Reserved(forcing') = SaturatingSub(Reserved(forcing), Threads[s])
          /\ Threads[s] <= Reserved(forcing)
      BY <1>1, <1>6, SumDrops
    <2>2. Reserved(sharing') = Reserved(sharing) + Threads[s]
      BY <1>1, <1>6, SumWith
    <2>3. QED
      BY <1>1, <1>2, <1>6, <2>1, <2>2 DEF Goal, SaturatingSub
  <1>7. CASE UNCHANGED <<liveSw, forcing>>
    BY <1>1, <1>7 DEF Goal, liveSw
  <1>8. QED
    BY <1>3, <1>4, <1>5, <1>6, <1>7, ShareStep DEF IInv

LEMMA HeldSum ==
  IInv /\ SumInv /\ [Next]_vars => swBackgroundUsed' = Reserved(HeldIn("software")')
  <1> DEFINE Goal == swBackgroundUsed' = Reserved(HeldIn("software")')
  <1> SUFFICES ASSUME IInv, SumInv, [Next]_vars PROVE Goal
    OBVIOUS
  <1>1. /\ Weighed(HeldIn("software"))
        /\ swBackgroundUsed = Reserved(HeldIn("software"))
        /\ \A p \in Producers : Threads[p] \in Nat \ {0}
    BY WeighedGuards DEF IInv, SumInv
  <1> HIDE DEF Goal
  <1>2. ASSUME swBackgroundUsed' = swBackgroundUsed, HeldIn("software")' = HeldIn("software")
        PROVE  Goal
    BY <1>1, <1>2 DEF Goal
  <1>3. ASSUME NEW p \in Producers, Acquire(p) PROVE Goal
    <2>1. p \notin held /\ held' = held \cup {p}
      BY <1>3 DEF Acquire, PartGoes, IInv, ProducerInv
    <2>2. CASE AcquireHardware(p)
      BY <1>2, <2>1, <2>2 DEF HeldIn, AcquireHardware
    <2>3. CASE AcquireSoftware(p)
      <3>1. HeldIn("software")' = HeldIn("software") \cup {p} /\ p \notin HeldIn("software")
        BY <2>1, <2>3 DEF HeldIn, AcquireSoftware
      <3>2. QED
        BY <1>1, <2>3, <3>1, SumWith DEF AcquireSoftware, Goal
    <2>4. QED
      BY <1>3, <2>2, <2>3 DEF Acquire
  <1>4. ASSUME NEW p \in Producers, Release(p) PROVE Goal
    <2>1. p \in held /\ held' = held \ {p}
      BY <1>4 DEF Release, PartGoes, IInv, ProducerInv
    <2>2. CASE Pool[p] = "hardware"
      BY <1>2, <1>4, <2>1, <2>2 DEF HeldIn, Release
    <2>3. CASE Pool[p] = "software"
      <3>1. HeldIn("software")' = HeldIn("software") \ {p} /\ p \in HeldIn("software")
        BY <2>1, <2>3 DEF HeldIn
      <3>2. QED
        BY <1>1, <1>4, <2>3, <3>1, SumDrops DEF Release, Goal
    <2>4. QED
      BY <2>2, <2>3, AdmissionAssumption
  <1>5. ASSUME NEW p \in Producers, SpawnPart(p) \/ Yield(p) \/ PartEnds(p) PROVE Goal
    BY <1>2, <1>5 DEF SpawnPart, Yield, PartEnds, permits, HeldIn
  <1>6. CASE UNCHANGED <<background, backgroundPermits>>
    BY <1>2, <1>6 DEF background, backgroundPermits, HeldIn
  <1>7. QED
    BY <1>3, <1>4, <1>5, <1>6, HeldStep DEF Produce

(* A step takes permits away from those that were asked for, or adds one   *)
(* that fitted when it was asked for.                                      *)
LEMMA NegotiatedStep ==
  ASSUME IInv, [Next]_vars
  PROVE  \/ Negotiated' \subseteq Negotiated
         \/ \E x \in Starts \cup Producers :
              Negotiated' = Negotiated \cup {x} /\ SoftwareFits(Threads[x])
  <1>1. ASSUME NEW s \in Starts, GrantShare(s)
        PROVE  \/ Negotiated' \subseteq Negotiated
               \/ Negotiated' = Negotiated \cup {s} /\ SoftwareFits(Threads[s])
    BY <1>1 DEF GrantShare, Negotiated, HeldIn, downgrade, background
  <1>2. ASSUME NEW p \in Producers, Acquire(p)
        PROVE  \/ Negotiated' \subseteq Negotiated
               \/ Negotiated' = Negotiated \cup {p} /\ SoftwareFits(Threads[p])
    BY <1>2 DEF Acquire, AcquireHardware, AcquireSoftware, Negotiated, HeldIn, liveSw, downgrade
  <1>3. ASSUME NEW s \in Starts, Start(s), ~GrantShare(s) PROVE Negotiated' \subseteq Negotiated
    BY <1>3, StartCases
    DEF Queue, AdmitHardware, Admitted, GiveUp, Moves, LastPoll, SoftwareWillDo, Spawn,
        StartFails, DropShare, Register, StartWatcher, Negotiated, HeldIn, liveSw, downgrade,
        guards, background
  <1>4. ASSUME NEW s \in Starts, Watch(s) \/ End(s) PROVE Negotiated' \subseteq Negotiated
    BY <1>4
    DEF Watch, EncoderExits, Healthy, DiedEarly, Stalls, NoFallback, BeginSwap, TakeForced,
        Demote, RespawnSoftware, RespawnHardware, LifetimeVerdict, DropShare,
        End, Retire, ReleasePermits, KillRetired, DropSession, Negotiated, HeldIn, liveSw,
        downgrade, guards, background
  <1>5. ASSUME NEW p \in Producers, Produce(p), ~Acquire(p) PROVE Negotiated' \subseteq Negotiated
    BY <1>5 DEF Produce, SpawnPart, Yield, PartEnds, Release, Negotiated, HeldIn, liveSw,
                downgrade, guards
  <1>6. CASE UNCHANGED vars
    BY <1>6 DEF vars, guards, background, Negotiated, HeldIn
  <1>7. QED
    BY <1>1, <1>2, <1>3, <1>4, <1>5, <1>6 DEF Next

LEMMA BudgetStep ==
  IInv /\ SumInv /\ OnlyForceOvercommits /\ [Next]_vars => OnlyForceOvercommits'
  <1> SUFFICES ASSUME IInv, SumInv, OnlyForceOvercommits, [Next]_vars,
                      Cardinality(Negotiated') > 1
               PROVE  Reserved(Negotiated') <= SwBudget
    BY DEF OnlyForceOvercommits
  <1>1. /\ Weighed(sharing) /\ Weighed(forcing) /\ Weighed(HeldIn("software"))
        /\ Weighed(Negotiated)
        /\ \A x \in Starts \cup Producers : Threads[x] \in Nat \ {0}
    BY WeighedGuards DEF IInv
  <1>2. /\ Reserved(sharing) \in Nat /\ Reserved(forcing) \in Nat
        /\ Reserved(HeldIn("software")) \in Nat /\ Reserved(Negotiated) \in Nat
        /\ Cardinality(Negotiated) \in Nat /\ SwBudget \in Nat
    BY <1>1, SumType, FS_CardinalityType, AdmissionAssumption DEF Weighed
  <1>3. CASE Negotiated' \subseteq Negotiated
    <2>1. Cardinality(Negotiated') <= Cardinality(Negotiated) /\ Cardinality(Negotiated') \in Nat
      BY <1>1, <1>3, FS_Subset, FS_CardinalityType DEF Weighed
    <2>2. Reserved(Negotiated) <= SwBudget
      BY <1>2, <2>1 DEF OnlyForceOvercommits
    <2>3. Weighed(Negotiated') /\ Reserved(Negotiated') <= Reserved(Negotiated)
      BY <1>1, <1>3, SumMonotone
    <2>4. Reserved(Negotiated') \in Nat
      BY <2>3, SumType
    <2>5. QED
      BY <1>2, <2>2, <2>3, <2>4
  <1>4. ASSUME NEW x \in Starts \cup Producers, x \notin Negotiated,
               Negotiated' = Negotiated \cup {x}, SoftwareFits(Threads[x])
        PROVE  Reserved(Negotiated') <= SwBudget
    <2>1. Reserved(Negotiated') = Reserved(Negotiated) + Threads[x] /\ Threads[x] \in Nat
      BY <1>1, <1>4, SumWith
    <2>2. Reserved(Negotiated) <= Reserved(sharing) + Reserved(HeldIn("software"))
      <3>1. sharing \cap HeldIn("software") = {}
        BY AdmissionAssumption
        DEF IInv, Typing, PermitTyping, BackgroundTyping, HeldIn
      <3>2. Weighed(sharing \cup HeldIn("software"))
        BY <1>1, FS_Union DEF Weighed
      <3>3. Negotiated \subseteq sharing \cup HeldIn("software")
        BY DEF Negotiated
      <3>4. QED
        BY <1>1, <3>1, <3>2, <3>3, SumMonotone, SumOfUnion
    <2>3. SoftwareUsed = Reserved(sharing) + Reserved(forcing) + Reserved(HeldIn("software"))
      BY DEF SoftwareUsed, SumInv
    <2>4. SoftwareUsed # 0
      <3> SUFFICES ASSUME SoftwareUsed = 0 PROVE FALSE
        OBVIOUS
      <3>0. Reserved(sharing) = 0 /\ Reserved(HeldIn("software")) = 0
        <4> DEFINE a == Reserved(sharing)
                   b == Reserved(forcing)
                   c == Reserved(HeldIn("software"))
        <4>1. a \in Nat /\ b \in Nat /\ c \in Nat /\ a + b + c = 0
          BY <1>2, <2>3
        <4> HIDE DEF a, b, c
        <4>2. a = 0 /\ c = 0
          BY <4>1
        <4>3. QED
          BY <4>2 DEF a, c
      <3>1. Reserved(Negotiated) = 0
        BY <1>2, <2>2, <3>0
      <3>2. Negotiated = {}
        BY <1>1, <3>1, NothingReserved
      <3>3. Negotiated' = {x}
        BY <1>4, <3>2
      <3>4. QED
        BY <3>3, FS_Singleton
    <2>5. SoftwareUsed + Threads[x] <= SwBudget
      BY <1>4, <2>4 DEF SoftwareFits
    <2>6. QED
      BY <1>2, <2>1, <2>2, <2>3, <2>5
  <1>5. QED
    BY <1>3, <1>4, NegotiatedStep

LEMMA SumInit == Init => SumInv /\ OnlyForceOvercommits
  <1> SUFFICES ASSUME Init PROVE SumInv /\ OnlyForceOvercommits
    OBVIOUS
  <1>1. HeldIn("software") = {} /\ Negotiated = {} /\ sharing = {} /\ forcing = {}
    BY DEF Init, HeldIn, Negotiated
  <1>2. QED
    BY <1>1, EmptySum, FS_EmptySet DEF Init, SumInv, OnlyForceOvercommits

LEMMA SumInvariance == Spec => [](SumInv /\ OnlyForceOvercommits)
  <1>1. IInv /\ SumInv /\ OnlyForceOvercommits /\ [Next]_vars => (SumInv /\ OnlyForceOvercommits)'
    BY ShareSum, HeldSum, BudgetStep DEF SumInv
  <1>2. QED
    BY <1>1, SumInit, Invariance, PTL DEF Spec

-----------------------------------------------------------------------------
(* Every count stays in the range the number of its holders allows.        *)
THEOREM TypeCorrect == Spec => []TypeOK
  <1>1. IInv => TypeOK
    <2> SUFFICES ASSUME IInv PROVE TypeOK
      OBVIOUS
    <2>1. Cardinality(Starts) \in Nat /\ Cardinality(Producers) \in Nat
      BY AdmissionAssumption, FS_CardinalityType
    <2>2. \A S \in SUBSET Starts : IsFiniteSet(S) /\ Cardinality(S) <= Cardinality(Starts)
      BY AdmissionAssumption, FS_Subset
    <2>3. \A S \in SUBSET Producers : Cardinality(S) <= Cardinality(Producers)
      BY AdmissionAssumption, FS_Subset
    <2>4. Cardinality(sharing) + Cardinality(forcing) <= Cardinality(Starts)
      <3>1. sharing \cap forcing = {}
        BY DEF IInv, Typing, PermitTyping, BackgroundTyping, SessionTyping, PermitInv, SwapInv
      <3>2. IsFiniteSet(sharing) /\ IsFiniteSet(forcing)
        BY GuardSets DEF IInv
      <3>3. Cardinality(sharing \cup forcing) = Cardinality(sharing) + Cardinality(forcing)
        <4>1. Cardinality(sharing \cap forcing) = 0
          BY <3>1, FS_EmptySet
        <4>2. Cardinality(sharing) \in Nat /\ Cardinality(forcing) \in Nat
          BY <3>2, FS_CardinalityType
        <4>3. Cardinality(sharing \cup forcing)
                = Cardinality(sharing) + Cardinality(forcing) - Cardinality(sharing \cap forcing)
          BY <3>2, FS_Union
        <4>4. QED
          BY <4>1, <4>2, <4>3
      <3>4. sharing \cup forcing \in SUBSET Starts
        BY DEF IInv, Typing, PermitTyping, BackgroundTyping, SessionTyping
      <3>5. QED
        BY <2>2, <3>3, <3>4
    <2>5. Cardinality(waiting) <= Cardinality(Starts) /\ Cardinality(slotted) <= Cardinality(Starts)
      BY <2>2 DEF IInv, Typing, PermitTyping, BackgroundTyping, SessionTyping
    <2>6. /\ Cardinality(HeldIn("hardware")) <= Cardinality(Producers)
          /\ Cardinality(HeldIn("software")) <= Cardinality(Producers)
      BY <2>3 DEF IInv, Typing, PermitTyping, BackgroundTyping, SessionTyping, HeldIn
    <2>7. /\ liveWaiting \in Count /\ hwLive \in Count /\ swLive \in Count
          /\ hwBackground \in BackgroundCount /\ swBackground \in BackgroundCount
      BY <2>1, <2>4, <2>5, <2>6 DEF IInv, Typing, PermitTyping, BackgroundTyping, SessionTyping, CountInv, Count, BackgroundCount
    <2>8. Typing
      BY DEF IInv
    <2>9. QED
      BY <2>7, <2>8, Zenon DEF Typing, PermitTyping, BackgroundTyping, SessionTyping, TypeOK
  <1>2. QED
    BY <1>1, Invariance, PTL

(* However starts, parts and downgrades race, no more hardware encoders    *)
(* hold a permit than the cap allows.                                      *)
THEOREM CapHolds == Spec => []HardwareWithinCap
  <1>1. IInv => HardwareWithinCap
    BY DEF IInv
  <1>2. QED
    BY <1>1, Invariance, PTL

(* Whatever ends a start, a session, a downgrade or a part, and in         *)
(* whatever order: no count and no thread is leaked or given back twice.   *)
THEOREM NothingLeaks == Spec => []PermitsMatchGuards
  <1>1. IInv /\ SumInv => PermitsMatchGuards
    BY DEF IInv, CountInv, SumInv, PermitsMatchGuards
  <1>2. QED
    BY <1>1, Invariance, SumInvariance, PTL

(* The permits that were asked for fit the software budget, unless there   *)
(* is just one, which found the pool empty: only a downgrade overcommits.  *)
THEOREM BudgetHolds == Spec => []OnlyForceOvercommits
  BY SumInvariance, PTL

(* A session in service runs its encoder under the permit of its pool.     *)
THEOREM SessionsArePaidFor == Spec => []EncodersArePaidFor
  <1>1. IInv => EncodersArePaidFor
    BY DEF IInv, PermitInv, SwapInv, EncodersArePaidFor
  <1>2. QED
    BY <1>1, Invariance, PTL

(* No background encoder runs while a viewer's session is in service.      *)
THEOREM NoBackgroundBesideViewers == Spec => []ViewersEncodeAlone
  <1>1. IInv => ViewersEncodeAlone
    BY DEF IInv, AloneInv, ProducerInv, ViewersEncodeAlone, InService, Serving
  <1>2. QED
    BY <1>1, Invariance, PTL

(* From the queue to its retirement, no producer gets in under a start.    *)
THEOREM HandoffIsClosed == Spec => NoHandoffGap
  <1> DEFINE A == \A s \in Starts, p \in Producers :
                    Served(s) /\ Served(s)' => (p \in held' => p \in held)
  <1>1. IInv /\ [Next]_vars => A
    BY NobodyServed, HeldGrows
  <1>2. IInv /\ [Next]_vars => [A]_vars
    BY <1>1
  <1>3. QED
    BY <1>2, Invariance, PTL DEF Spec, NoHandoffGap

-----------------------------------------------------------------------------
(***************************************************************************)
(* The sessions.  A step of a task is first shown to keep what is known of *)
(* the record of its session, then the steps are put together.             *)
(***************************************************************************)

\* Before its session is spawned, a create is at one of these steps.
Early == {"idle", "claim", "recover", "forget", "normalize", "reap", "retire", "start"}
Retirers == {"stop"} \cup Creates

\* Who holds the gate is at the step that took it, and a retirement holds it
\* to its end.
Gated(r, k) ==
  /\ k # "hardware" => r.ladder = "off"
  /\ k # "copy" => r.reader = "off"
  /\ r.ladder # "off" => r.dog = "off"
  /\ (r.ladder = "replacing") <=> (r.gate = "ladder")
  /\ (r.reader = "replacing") <=> (r.gate = "reader")
  /\ (r.dog = "killing") <=> (r.gate = "dog")
  /\ r.reader = "replacing" => r.place # "retired"
  /\ r.ending # "no" => r.place = "retired" /\ r.gate \in Retirers

\* What a create has made of its session.
Phased(st, r) ==
  /\ st \in Early => r.place = "none" /\ r.proc = "none"
  /\ st = "spawned" => r.place = "starting" /\ r.proc \in {"running", "done", "failed"}
  /\ st \in Early \cup {"spawned"} => r.ending = "no" /\ r.gate = "free" /\ r.polled = FALSE
  /\ st \in Early \cup {"spawned", "inserted"} => r.ladder = "off" /\ r.reader = "off" /\ r.dog = "off"
  /\ st = "inserted" => r.proc # "none"

\* The encoder of a copy or a software session is gone when its retirement is.
Silent(r, k) ==
  k # "hardware" => /\ r.ending = "killed" => r.proc # "running"
                    /\ r.place = "retired" /\ r.ending = "no" => r.proc # "running"

\* What is known of a producer that is about to be judged.
Judged(r) ==
  /\ r.failure = "none" /\ r.place = "live" /\ r.proc = "killed"
       => r.gate \in {"ladder", "reader", "dog"} \/ r.ladder = "refusing"
  /\ r.failure = "none" /\ r.place = "live" /\ r.gate = "playlist"
       => r.proc = "failed" \/ r.ladder = "refusing"
  /\ r.failure = "none" /\ r.dog = "killing" => r.wedged
  /\ r.ladder # "off" \/ r.reader # "off" \/ r.dog # "off" => r.proc # "none"

\* A clock that stands still on a producer that was not held is that of a
\* wedged one: the flow control restarts the clock before it drops the flag.
Stands(r) == r.proc = "running" /\ r.still => r.wedged
Timely(r) == ~r.suspended => Stands(r)
Froze(r) == r.proc = "running" /\ r.frozen

Signalled(u, s) == flow[u] = [at |-> "touch", of |-> s, hold |-> FALSE]
Touched(u, s) == flow[u] = [at |-> "store", of |-> s, hold |-> FALSE]
Stopped(u, s) == flow[u] = [at |-> "store", of |-> s, hold |-> TRUE]

Timed(s) ==
  /\ Timely(sess[s])
  /\ ~sess[s].suspended /\ Froze(sess[s]) => \E u \in Callers : Stopped(u, s)
  /\ \A u \in Callers : /\ Signalled(u, s) => ~Froze(sess[s])
                        /\ Touched(u, s) => ~Froze(sess[s]) /\ Stands(sess[s])
Touching == \A u \in Callers : flow[u].at = "touch" => ~flow[u].hold

-----------------------------------------------------------------------------
(* What each step makes of the record of its session.                      *)

\* What a step that leaves the flow control alone does to the clock.
Calm(r, q) == /\ q.suspended = r.suspended
              /\ Froze(q) => Froze(r)
              /\ Stands(r) => Stands(q)

\* A session that was registered stays registered or retired, a retired one
\* retired, a failed one failed.
Lasts(r, q) ==
  r.place \in {"live", "retired"} =>
    /\ q.place \in {"live", "retired"}
    /\ r.place = "retired" => q.place = "retired"
    /\ r.failure # "none" => q.failure # "none"

\* A verdict that a step gives is true.
Just(r, q) ==
  r.failure = "none" =>
    /\ q.failure = "exited" => r.proc = "failed" \/ r.ladder = "refusing"
    /\ q.failure = "stalled" => r.wedged

Sessions == sess \in [Creates -> SessionType]
Held(s) == Gated(sess[s], Kind(s)) /\ Phased(step[s], sess[s])

\* What a step of a session's tasks keeps of what is known of it.
Keeps(r, q, k) ==
  /\ Gated(q, k)
  /\ Silent(r, k) => Silent(q, k)
  /\ Judged(r) /\ Timely(r) => Judged(q) /\ Just(r, q)
  /\ Calm(r, q) /\ Lasts(r, q)

Kept(s) ==
  /\ sess'[s] \in SessionType /\ sess' = [sess EXCEPT ![s] = sess'[s]]
  /\ Keeps(sess[s], sess'[s], Kind(s))
  /\ Phased(step[s], sess'[s])

\* What a step makes of its session is kept when the new record keeps it.
LEMMA Changes ==
  ASSUME Sessions, NEW s \in Creates, NEW q \in SessionType, Set(s, q),
         Keeps(sess[s], q, Kind(s)), Phased(step[s], q)
  PROVE  Kept(s)
BY DEF Kept, Set, Sessions

\* A record of a session stays one when a field gets a value of its type.
LEMMA FieldTypes ==
  ASSUME NEW r \in SessionType
  PROVE  /\ \A x \in {"none", "starting", "live", "retired"} : [r EXCEPT !.place = x] \in SessionType
         /\ \A x \in {"free", "ladder", "reader", "dog", "playlist", "stop"} \cup Creates :
              [r EXCEPT !.gate = x] \in SessionType
         /\ \A x \in {"none", "running", "done", "failed", "killed"} :
              [r EXCEPT !.proc = x] \in SessionType
         /\ \A x \in BOOLEAN :
              /\ [r EXCEPT !.wedged = x] \in SessionType /\ [r EXCEPT !.frozen = x] \in SessionType
              /\ [r EXCEPT !.still = x] \in SessionType /\ [r EXCEPT !.suspended = x] \in SessionType
              /\ [r EXCEPT !.polled = x] \in SessionType
         /\ \A x \in {"none", "exited", "stalled", "refused", "unspawned"} :
              [r EXCEPT !.failure = x] \in SessionType
         /\ \A x \in {"none", "hardware", "software"} : [r EXCEPT !.permit = x] \in SessionType
         /\ \A x \in {"gone", "empty", "made"} : [r EXCEPT !.dir = x] \in SessionType
         /\ \A x \in {"off", "watching", "deciding", "refusing", "gate", "replacing"} :
              [r EXCEPT !.ladder = x] \in SessionType
         /\ \A x \in {"off", "reading", "gate", "replacing"} : [r EXCEPT !.reader = x] \in SessionType
         /\ \A x \in {"off", "looking", "acting", "killing", "leaving"} :
              [r EXCEPT !.dog = x] \in SessionType
         /\ \A x \in {"no", "removed", "killed"} : [r EXCEPT !.ending = x] \in SessionType
<1>1. \A x \in {"none", "starting", "live", "retired"} : [r EXCEPT !.place = x] \in SessionType
      BY DEF SessionType
<1>2. \A x \in {"free", "ladder", "reader", "dog", "playlist", "stop"} \cup Creates :
         [r EXCEPT !.gate = x] \in SessionType
      BY DEF SessionType
<1>3. \A x \in {"none", "running", "done", "failed", "killed"} :
         [r EXCEPT !.proc = x] \in SessionType
      BY DEF SessionType
<1>4. \A x \in BOOLEAN :
         /\ [r EXCEPT !.wedged = x] \in SessionType /\ [r EXCEPT !.frozen = x] \in SessionType
         /\ [r EXCEPT !.still = x] \in SessionType /\ [r EXCEPT !.suspended = x] \in SessionType
         /\ [r EXCEPT !.polled = x] \in SessionType
      BY DEF SessionType
<1>5. \A x \in {"none", "exited", "stalled", "refused", "unspawned"} :
         [r EXCEPT !.failure = x] \in SessionType
      BY DEF SessionType
<1>6. \A x \in {"none", "hardware", "software"} : [r EXCEPT !.permit = x] \in SessionType
      BY DEF SessionType
<1>7. \A x \in {"gone", "empty", "made"} : [r EXCEPT !.dir = x] \in SessionType
      BY DEF SessionType
<1>8. \A x \in {"off", "watching", "deciding", "refusing", "gate", "replacing"} :
         [r EXCEPT !.ladder = x] \in SessionType
      BY DEF SessionType
<1>9. \A x \in {"off", "reading", "gate", "replacing"} : [r EXCEPT !.reader = x] \in SessionType
      BY DEF SessionType
<1>10. \A x \in {"off", "looking", "acting", "killing", "leaving"} :
         [r EXCEPT !.dog = x] \in SessionType
      BY DEF SessionType
<1>11. \A x \in {"no", "removed", "killed"} : [r EXCEPT !.ending = x] \in SessionType
      BY DEF SessionType
<1> QED BY <1>1, <1>2, <1>3, <1>4, <1>5, <1>6, <1>7, <1>8, <1>9, <1>10, <1>11

Verdicts == {"exited", "stalled", "refused", "unspawned"}
\* The record transformers return sessions.
LEMMA MadeTypes ==
  ASSUME NEW r \in SessionType
  PROVE  /\ Killed(r) \in SessionType /\ Cleared(r) \in SessionType /\ Spawned(r) \in SessionType
         /\ \A why \in Verdicts : Verdict(r, why) \in SessionType
<1>1. /\ r.proc \in {"none", "running", "done", "failed", "killed"} /\ r.dir \in {"gone", "empty", "made"}
      /\ r.failure \in {"none", "exited", "stalled", "refused", "unspawned"}
      BY DEF SessionType
<1>2. Killed(r) \in SessionType
  <2> DEFINE x == IF r.proc = "running" THEN "killed" ELSE r.proc
  <2>1. x \in {"none", "running", "done", "failed", "killed"}
        BY <1>1
  <2> QED BY <2>1, FieldTypes DEF Killed
<1>3. Cleared(r) \in SessionType
  <2> DEFINE x == IF r.dir = "made" THEN "empty" ELSE r.dir
  <2>1. x \in {"gone", "empty", "made"}
        BY <1>1
  <2> QED BY <2>1, FieldTypes DEF Cleared
<1>4. ASSUME NEW why \in Verdicts PROVE Verdict(r, why) \in SessionType
  <2> DEFINE x == IF r.failure = "none" THEN why ELSE r.failure
  <2>1. x \in {"none", "exited", "stalled", "refused", "unspawned"}
        BY <1>1 DEF Verdicts
  <2> QED BY <2>1, FieldTypes DEF Verdict
<1>5. Spawned(r) \in SessionType
      BY FieldTypes DEF Spawned
<1> QED BY <1>2, <1>3, <1>4, <1>5

\* A create's name is none of the gate's other holders.
LEMMA RetirersApart == Retirers \cap {"free", "ladder", "reader", "dog", "playlist"} = {}
BY ProducerAssumption DEF Retirers

\* A session whose tasks have begun is past what its create makes of it.
LEMMA TasksRun ==
  ASSUME NEW s \in Creates, Phased(step[s], sess[s]),
         \/ sess[s].ladder # "off" \/ sess[s].reader # "off" \/ sess[s].dog # "off"
  PROVE  \A q : Phased(step[s], q)
BY DEF Phased, Early

\* The task of a hardware start keeps what is known of its session.
LEMMA LadderKeeps ==
  ASSUME Sessions, NEW s \in Creates, Held(s), Ladder(s)
  PROVE  Kept(s)
<1> DEFINE r == sess[s]
<1>r. r \in SessionType /\ Gated(r, Kind(s)) /\ r.ladder # "off"
      BY DEF Held, Sessions, Ladder, LadderLooks, LadderDecides, LadderRefuses, LadderTakes, LadderReplaces, Is
<1>p. \A q : Phased(step[s], q)
      BY <1>r, TasksRun DEF Held
<1>1. CASE LadderLooks(s)
  <2>1. r.ladder = "watching"
        BY <1>1 DEF LadderLooks, Is
  <2>2. ASSUME Set(s, [r EXCEPT !.ladder = "off"])
       PROVE  Kept(s)
    <3> DEFINE q == [r EXCEPT !.ladder = "off"]
    <3>1. q \in SessionType
          BY <1>r, FieldTypes
    <3>2. Gated(q, Kind(s)) /\ (Silent(r, Kind(s)) => Silent(q, Kind(s)))
          BY <2>1, <1>r, RetirersApart DEF SessionType, Gated, Silent
    <3>3. Judged(r) /\ Timely(r) => Judged(q) /\ Just(r, q)
          BY <2>1, <1>r DEF SessionType, Gated, Judged, Just, Timely, Stands
    <3>4. Calm(r, q) /\ Lasts(r, q)
          BY <2>1, <1>r DEF SessionType, Calm, Froze, Stands, Lasts
    <3> QED BY <2>2, <1>p, <3>1, <3>2, <3>3, <3>4, Changes DEF Keeps
  <2>3. ASSUME Set(s, [r EXCEPT !.ladder = "deciding"])
       PROVE  Kept(s)
    <3> DEFINE q == [r EXCEPT !.ladder = "deciding"]
    <3>1. q \in SessionType
          BY <1>r, FieldTypes
    <3>2. Gated(q, Kind(s)) /\ (Silent(r, Kind(s)) => Silent(q, Kind(s)))
          BY <2>1, <1>r, RetirersApart DEF SessionType, Gated, Silent
    <3>3. Judged(r) /\ Timely(r) => Judged(q) /\ Just(r, q)
          BY <2>1, <1>r DEF SessionType, Gated, Judged, Just, Timely, Stands
    <3>4. Calm(r, q) /\ Lasts(r, q)
          BY <2>1, <1>r DEF SessionType, Calm, Froze, Stands, Lasts
    <3> QED BY <2>3, <1>p, <3>1, <3>2, <3>3, <3>4, Changes DEF Keeps
  <2> QED BY <1>1, <1>r, <2>2, <2>3 DEF LadderLooks, Is
<1>2. CASE LadderDecides(s)
  <2>1. r.ladder = "deciding"
        BY <1>2 DEF LadderDecides, Is
  <2>2. ASSUME Set(s, [r EXCEPT !.ladder = "off", !.dog = "looking"])
       PROVE  Kept(s)
    <3> DEFINE q == [r EXCEPT !.ladder = "off", !.dog = "looking"]
    <3>1. q \in SessionType
          BY <1>r, FieldTypes
    <3>2. Gated(q, Kind(s)) /\ (Silent(r, Kind(s)) => Silent(q, Kind(s)))
          BY <2>1, <1>r, RetirersApart DEF SessionType, Gated, Silent
    <3>3. Judged(r) /\ Timely(r) => Judged(q) /\ Just(r, q)
          BY <2>1, <1>r DEF SessionType, Gated, Judged, Just, Timely, Stands
    <3>4. Calm(r, q) /\ Lasts(r, q)
          BY <2>1, <1>r DEF SessionType, Calm, Froze, Stands, Lasts
    <3> QED BY <2>2, <1>p, <3>1, <3>2, <3>3, <3>4, Changes DEF Keeps
  <2>3. ASSUME Set(s, [r EXCEPT !.ladder = "gate"])
       PROVE  Kept(s)
    <3> DEFINE q == [r EXCEPT !.ladder = "gate"]
    <3>1. q \in SessionType
          BY <1>r, FieldTypes
    <3>2. Gated(q, Kind(s)) /\ (Silent(r, Kind(s)) => Silent(q, Kind(s)))
          BY <2>1, <1>r, RetirersApart DEF SessionType, Gated, Silent
    <3>3. Judged(r) /\ Timely(r) => Judged(q) /\ Just(r, q)
          BY <2>1, <1>r DEF SessionType, Gated, Judged, Just, Timely, Stands
    <3>4. Calm(r, q) /\ Lasts(r, q)
          BY <2>1, <1>r DEF SessionType, Calm, Froze, Stands, Lasts
    <3> QED BY <2>3, <1>p, <3>1, <3>2, <3>3, <3>4, Changes DEF Keeps
  <2>4. ASSUME Set(s, Killed([r EXCEPT !.ladder = "refusing"]))
       PROVE  Kept(s)
    <3> DEFINE q == Killed([r EXCEPT !.ladder = "refusing"])
    <3>1. q \in SessionType
          BY <1>r, FieldTypes, MadeTypes
    <3>2. Gated(q, Kind(s)) /\ (Silent(r, Kind(s)) => Silent(q, Kind(s)))
          BY <2>1, <1>r, RetirersApart DEF SessionType, Killed, Gated, Silent
    <3>3. Judged(r) /\ Timely(r) => Judged(q) /\ Just(r, q)
          BY <2>1, <1>r DEF SessionType, Killed, Gated, Judged, Just, Timely, Stands
    <3>4. Calm(r, q) /\ Lasts(r, q)
          BY <2>1, <1>r DEF SessionType, Killed, Calm, Froze, Stands, Lasts
    <3> QED BY <2>4, <1>p, <3>1, <3>2, <3>3, <3>4, Changes DEF Keeps
  <2> QED BY <1>2, <1>r, <2>2, <2>3, <2>4 DEF LadderDecides, Is
<1>3. CASE LadderRefuses(s)
  <2>1. r.ladder = "refusing"
        BY <1>3 DEF LadderRefuses, Is
  <2>2. ASSUME Set(s, Verdict([r EXCEPT !.ladder = "off"], "refused"))
       PROVE  Kept(s)
    <3> DEFINE q == Verdict([r EXCEPT !.ladder = "off"], "refused")
    <3>1. q \in SessionType
          BY <1>r, FieldTypes, MadeTypes DEF Verdicts
    <3>2. Gated(q, Kind(s)) /\ (Silent(r, Kind(s)) => Silent(q, Kind(s)))
          BY <2>1, <1>r, RetirersApart DEF SessionType, Verdict, Gated, Silent
    <3>3. Judged(r) /\ Timely(r) => Judged(q) /\ Just(r, q)
          BY <2>1, <1>r DEF SessionType, Verdict, Gated, Judged, Just, Timely, Stands
    <3>4. Calm(r, q) /\ Lasts(r, q)
          BY <2>1, <1>r DEF SessionType, Verdict, Calm, Froze, Stands, Lasts
    <3> QED BY <2>2, <1>p, <3>1, <3>2, <3>3, <3>4, Changes DEF Keeps
  <2> QED BY <1>3, <1>r, <2>2 DEF LadderRefuses, Is
<1>4. CASE LadderTakes(s)
  <2>1. r.ladder = "gate" /\ r.gate = "free"
        BY <1>4 DEF LadderTakes, Is
  <2>2. ASSUME Set(s, Killed(Cleared([r EXCEPT !.gate = "ladder", !.ladder = "replacing"])))
       PROVE  Kept(s)
    <3> DEFINE q == Killed(Cleared([r EXCEPT !.gate = "ladder", !.ladder = "replacing"]))
    <3>1. q \in SessionType
          BY <1>r, FieldTypes, MadeTypes
    <3>2. Gated(q, Kind(s)) /\ (Silent(r, Kind(s)) => Silent(q, Kind(s)))
          BY <2>1, <1>r, RetirersApart DEF SessionType, Killed, Cleared, Gated, Silent
    <3>3. Judged(r) /\ Timely(r) => Judged(q) /\ Just(r, q)
          BY <2>1, <1>r DEF SessionType, Killed, Cleared, Gated, Judged, Just, Timely, Stands
    <3>4. Calm(r, q) /\ Lasts(r, q)
          BY <2>1, <1>r DEF SessionType, Killed, Cleared, Calm, Froze, Stands, Lasts
    <3> QED BY <2>2, <1>p, <3>1, <3>2, <3>3, <3>4, Changes DEF Keeps
  <2> QED BY <1>4, <1>r, <2>2 DEF LadderTakes, Is
<1>5. CASE LadderReplaces(s)
  <2>1. r.ladder = "replacing"
        BY <1>5 DEF LadderReplaces, Is
  <2>2. ASSUME NEW permit \in {"none", "hardware", "software"},
              NEW dog \in {"looking", "off"},
              Set(s, Spawned([r EXCEPT !.gate = "free", !.ladder = "off", !.permit = permit,
                               !.dog = dog]))
       PROVE  Kept(s)
    <3> DEFINE q == Spawned([r EXCEPT !.gate = "free", !.ladder = "off", !.permit = permit,
                               !.dog = dog])
    <3>1. q \in SessionType
          BY <2>2, <1>r, FieldTypes, MadeTypes
    <3>2. Gated(q, Kind(s)) /\ (Silent(r, Kind(s)) => Silent(q, Kind(s)))
          BY <2>2, <2>1, <1>r, RetirersApart DEF SessionType, Spawned, Gated, Silent
    <3>3. Judged(r) /\ Timely(r) => Judged(q) /\ Just(r, q)
          BY <2>2, <2>1, <1>r DEF SessionType, Spawned, Gated, Judged, Just, Timely, Stands
    <3>4. Calm(r, q) /\ Lasts(r, q)
          BY <2>2, <2>1, <1>r DEF SessionType, Spawned, Calm, Froze, Stands, Lasts
    <3> QED BY <2>2, <1>p, <3>1, <3>2, <3>3, <3>4, Changes DEF Keeps
  <2>3. ASSUME NEW permit \in {"none", "hardware", "software"},
              
              Set(s, Verdict([r EXCEPT !.gate = "free", !.ladder = "off", !.permit = permit,
                               !.still = FALSE], "unspawned"))
       PROVE  Kept(s)
    <3> DEFINE q == Verdict([r EXCEPT !.gate = "free", !.ladder = "off", !.permit = permit,
                               !.still = FALSE], "unspawned")
    <3>1. q \in SessionType
          BY <2>3, <1>r, FieldTypes, MadeTypes DEF Verdicts
    <3>2. Gated(q, Kind(s)) /\ (Silent(r, Kind(s)) => Silent(q, Kind(s)))
          BY <2>3, <2>1, <1>r, RetirersApart DEF SessionType, Verdict, Gated, Silent
    <3>3. Judged(r) /\ Timely(r) => Judged(q) /\ Just(r, q)
          BY <2>3, <2>1, <1>r DEF SessionType, Verdict, Gated, Judged, Just, Timely, Stands
    <3>4. Calm(r, q) /\ Lasts(r, q)
          BY <2>3, <2>1, <1>r DEF SessionType, Verdict, Calm, Froze, Stands, Lasts
    <3> QED BY <2>3, <1>p, <3>1, <3>2, <3>3, <3>4, Changes DEF Keeps
  <2> QED BY <1>5, <1>r, <2>2, <2>3 DEF LadderReplaces, Is, SessionType
<1> QED BY <1>1, <1>2, <1>3, <1>4, <1>5 DEF Ladder

\* So does the reader of a copy.
LEMMA ReaderKeeps ==
  ASSUME Sessions, NEW s \in Creates, Held(s), Reader(s)
  PROVE  Kept(s)
<1> DEFINE r == sess[s]
<1>r. r \in SessionType /\ Gated(r, Kind(s)) /\ r.reader # "off"
      BY DEF Held, Sessions, Reader, ReaderRan, ReaderGivesUp, ReaderTakes, ReaderReplaces, Is
<1>p. \A q : Phased(step[s], q)
      BY <1>r, TasksRun DEF Held
<1>1. CASE ReaderRan(s)
  <2>1. r.reader = "reading"
        BY <1>1 DEF ReaderRan, Is
  <2>2. ASSUME Set(s, [r EXCEPT !.reader = "off"])
       PROVE  Kept(s)
    <3> DEFINE q == [r EXCEPT !.reader = "off"]
    <3>1. q \in SessionType
          BY <1>r, FieldTypes
    <3>2. Gated(q, Kind(s)) /\ (Silent(r, Kind(s)) => Silent(q, Kind(s)))
          BY <2>1, <1>r, RetirersApart DEF SessionType, Gated, Silent
    <3>3. Judged(r) /\ Timely(r) => Judged(q) /\ Just(r, q)
          BY <2>1, <1>r DEF SessionType, Gated, Judged, Just, Timely, Stands
    <3>4. Calm(r, q) /\ Lasts(r, q)
          BY <2>1, <1>r DEF SessionType, Calm, Froze, Stands, Lasts
    <3> QED BY <2>2, <1>p, <3>1, <3>2, <3>3, <3>4, Changes DEF Keeps
  <2> QED BY <1>1, <1>r, <2>2 DEF ReaderRan, Is
<1>2. CASE ReaderGivesUp(s)
  <2>1. r.reader = "reading"
        BY <1>2 DEF ReaderGivesUp, Is
  <2>2. ASSUME NEW to \in {"off", "gate"}, 
              Set(s, [r EXCEPT !.reader = to])
       PROVE  Kept(s)
    <3> DEFINE q == [r EXCEPT !.reader = to]
    <3>1. q \in SessionType
          BY <2>2, <1>r, FieldTypes
    <3>2. Gated(q, Kind(s)) /\ (Silent(r, Kind(s)) => Silent(q, Kind(s)))
          BY <2>2, <2>1, <1>r, RetirersApart DEF SessionType, Gated, Silent
    <3>3. Judged(r) /\ Timely(r) => Judged(q) /\ Just(r, q)
          BY <2>2, <2>1, <1>r DEF SessionType, Gated, Judged, Just, Timely, Stands
    <3>4. Calm(r, q) /\ Lasts(r, q)
          BY <2>2, <2>1, <1>r DEF SessionType, Calm, Froze, Stands, Lasts
    <3> QED BY <2>2, <1>p, <3>1, <3>2, <3>3, <3>4, Changes DEF Keeps
  <2> QED BY <1>2, <1>r, <2>2 DEF ReaderGivesUp, Is, SessionType
<1>3. CASE ReaderTakes(s)
  <2>1. r.reader = "gate" /\ r.gate = "free"
        BY <1>3 DEF ReaderTakes, Is
  <2>2. ASSUME Set(s, [r EXCEPT !.reader = "off"])
       PROVE  Kept(s)
    <3> DEFINE q == [r EXCEPT !.reader = "off"]
    <3>1. q \in SessionType
          BY <1>r, FieldTypes
    <3>2. Gated(q, Kind(s)) /\ (Silent(r, Kind(s)) => Silent(q, Kind(s)))
          BY <2>1, <1>r, RetirersApart DEF SessionType, Gated, Silent
    <3>3. Judged(r) /\ Timely(r) => Judged(q) /\ Just(r, q)
          BY <2>1, <1>r DEF SessionType, Gated, Judged, Just, Timely, Stands
    <3>4. Calm(r, q) /\ Lasts(r, q)
          BY <2>1, <1>r DEF SessionType, Calm, Froze, Stands, Lasts
    <3> QED BY <2>2, <1>p, <3>1, <3>2, <3>3, <3>4, Changes DEF Keeps
  <2>3. ASSUME r.place # "retired",
              Set(s, Killed(Cleared([r EXCEPT !.gate = "reader", !.reader = "replacing"])))
       PROVE  Kept(s)
    <3> DEFINE q == Killed(Cleared([r EXCEPT !.gate = "reader", !.reader = "replacing"]))
    <3>1. q \in SessionType
          BY <2>3, <1>r, FieldTypes, MadeTypes
    <3>2. Gated(q, Kind(s)) /\ (Silent(r, Kind(s)) => Silent(q, Kind(s)))
          BY <2>3, <2>1, <1>r, RetirersApart DEF SessionType, Killed, Cleared, Gated, Silent
    <3>3. Judged(r) /\ Timely(r) => Judged(q) /\ Just(r, q)
          BY <2>3, <2>1, <1>r DEF SessionType, Killed, Cleared, Gated, Judged, Just, Timely, Stands
    <3>4. Calm(r, q) /\ Lasts(r, q)
          BY <2>3, <2>1, <1>r DEF SessionType, Killed, Cleared, Calm, Froze, Stands, Lasts
    <3> QED BY <2>3, <1>p, <3>1, <3>2, <3>3, <3>4, Changes DEF Keeps
  <2> QED BY <1>3, <1>r, <2>2, <2>3 DEF ReaderTakes, Is
<1>4. CASE ReaderReplaces(s)
  <2>1. r.reader = "replacing"
        BY <1>4 DEF ReaderReplaces, Is
  <2>2. ASSUME NEW dog \in {"looking", "acting", "killing", "leaving"}, dog = "killing" <=> r.dog = "killing",
              Set(s, Spawned([r EXCEPT !.gate = "free", !.reader = "off", !.dog = dog]))
       PROVE  Kept(s)
    <3> DEFINE q == Spawned([r EXCEPT !.gate = "free", !.reader = "off", !.dog = dog])
    <3>1. q \in SessionType
          BY <2>2, <1>r, FieldTypes, MadeTypes
    <3>2. Gated(q, Kind(s)) /\ (Silent(r, Kind(s)) => Silent(q, Kind(s)))
          BY <2>2, <2>1, <1>r, RetirersApart DEF SessionType, Spawned, Gated, Silent
    <3>3. Judged(r) /\ Timely(r) => Judged(q) /\ Just(r, q)
          BY <2>2, <2>1, <1>r DEF SessionType, Spawned, Gated, Judged, Just, Timely, Stands
    <3>4. Calm(r, q) /\ Lasts(r, q)
          BY <2>2, <2>1, <1>r DEF SessionType, Spawned, Calm, Froze, Stands, Lasts
    <3> QED BY <2>2, <1>p, <3>1, <3>2, <3>3, <3>4, Changes DEF Keeps
  <2>3. ASSUME Set(s, Verdict([r EXCEPT !.gate = "free", !.reader = "off", !.still = FALSE],
                       "unspawned"))
       PROVE  Kept(s)
    <3> DEFINE q == Verdict([r EXCEPT !.gate = "free", !.reader = "off", !.still = FALSE],
                       "unspawned")
    <3>1. q \in SessionType
          BY <1>r, FieldTypes, MadeTypes DEF Verdicts
    <3>2. Gated(q, Kind(s)) /\ (Silent(r, Kind(s)) => Silent(q, Kind(s)))
          BY <2>1, <1>r, RetirersApart DEF SessionType, Verdict, Gated, Silent
    <3>3. Judged(r) /\ Timely(r) => Judged(q) /\ Just(r, q)
          BY <2>1, <1>r DEF SessionType, Verdict, Gated, Judged, Just, Timely, Stands
    <3>4. Calm(r, q) /\ Lasts(r, q)
          BY <2>1, <1>r DEF SessionType, Verdict, Calm, Froze, Stands, Lasts
    <3> QED BY <2>3, <1>p, <3>1, <3>2, <3>3, <3>4, Changes DEF Keeps
  <2> QED BY <1>4, <1>r, <2>2, <2>3 DEF ReaderReplaces, Is, SessionType
<1> QED BY <1>1, <1>2, <1>3, <1>4 DEF Reader

\* So does the watchdog: it finds a stalled producer wedged.
LEMMA WatchdogKeeps ==
  ASSUME Sessions, NEW s \in Creates, Held(s), Watchdog(s)
  PROVE  Kept(s)
<1> DEFINE r == sess[s]
<1>r. r \in SessionType /\ Gated(r, Kind(s)) /\ r.dog # "off"
      BY DEF Held, Sessions, Watchdog, DogLooks, DogTakes, DogFails, DogLeaves, Is
<1>p. \A q : Phased(step[s], q)
      BY <1>r, TasksRun DEF Held
<1>1. CASE DogLooks(s)
  <2>1. r.dog = "looking"
        BY <1>1 DEF DogLooks, Is
  <2>2. ASSUME Set(s, [r EXCEPT !.dog = "acting"])
       PROVE  Kept(s)
    <3> DEFINE q == [r EXCEPT !.dog = "acting"]
    <3>1. q \in SessionType
          BY <1>r, FieldTypes
    <3>2. Gated(q, Kind(s)) /\ (Silent(r, Kind(s)) => Silent(q, Kind(s)))
          BY <2>1, <1>r, RetirersApart DEF SessionType, Gated, Silent
    <3>3. Judged(r) /\ Timely(r) => Judged(q) /\ Just(r, q)
          BY <2>1, <1>r DEF SessionType, Gated, Judged, Just, Timely, Stands
    <3>4. Calm(r, q) /\ Lasts(r, q)
          BY <2>1, <1>r DEF SessionType, Calm, Froze, Stands, Lasts
    <3> QED BY <2>2, <1>p, <3>1, <3>2, <3>3, <3>4, Changes DEF Keeps
  <2> QED BY <1>1, <1>r, <2>2 DEF DogLooks, Is
<1>2. CASE DogTakes(s)
  <2>1. r.dog = "acting" /\ r.gate = "free"
        BY <1>2 DEF DogTakes, Is
  <2>2. ASSUME Set(s, [r EXCEPT !.dog = "leaving"])
       PROVE  Kept(s)
    <3> DEFINE q == [r EXCEPT !.dog = "leaving"]
    <3>1. q \in SessionType
          BY <1>r, FieldTypes
    <3>2. Gated(q, Kind(s)) /\ (Silent(r, Kind(s)) => Silent(q, Kind(s)))
          BY <2>1, <1>r, RetirersApart DEF SessionType, Gated, Silent
    <3>3. Judged(r) /\ Timely(r) => Judged(q) /\ Just(r, q)
          BY <2>1, <1>r DEF SessionType, Gated, Judged, Just, Timely, Stands
    <3>4. Calm(r, q) /\ Lasts(r, q)
          BY <2>1, <1>r DEF SessionType, Calm, Froze, Stands, Lasts
    <3> QED BY <2>2, <1>p, <3>1, <3>2, <3>3, <3>4, Changes DEF Keeps
  <2>3. ASSUME Stalled(s),
              Set(s, Killed([r EXCEPT !.gate = "dog", !.dog = "killing"]))
       PROVE  Kept(s)
    <3> DEFINE q == Killed([r EXCEPT !.gate = "dog", !.dog = "killing"])
    <3>1. q \in SessionType
          BY <2>3, <1>r, FieldTypes, MadeTypes
    <3>2. Gated(q, Kind(s)) /\ (Silent(r, Kind(s)) => Silent(q, Kind(s)))
          BY <2>3, <2>1, <1>r, RetirersApart DEF SessionType, Killed, Gated, Silent
    <3>3. Judged(r) /\ Timely(r) => Judged(q) /\ Just(r, q)
          BY <2>3, <2>1, <1>r DEF SessionType, Killed, Gated, Judged, Just, Timely, Stands, Stalled, Over, Exited, Is
    <3>4. Calm(r, q) /\ Lasts(r, q)
          BY <2>3, <2>1, <1>r DEF SessionType, Killed, Calm, Froze, Stands, Lasts
    <3> QED BY <2>3, <1>p, <3>1, <3>2, <3>3, <3>4, Changes DEF Keeps
  <2>4. ASSUME Set(s, [r EXCEPT !.dog = "looking"])
       PROVE  Kept(s)
    <3> DEFINE q == [r EXCEPT !.dog = "looking"]
    <3>1. q \in SessionType
          BY <1>r, FieldTypes
    <3>2. Gated(q, Kind(s)) /\ (Silent(r, Kind(s)) => Silent(q, Kind(s)))
          BY <2>1, <1>r, RetirersApart DEF SessionType, Gated, Silent
    <3>3. Judged(r) /\ Timely(r) => Judged(q) /\ Just(r, q)
          BY <2>1, <1>r DEF SessionType, Gated, Judged, Just, Timely, Stands
    <3>4. Calm(r, q) /\ Lasts(r, q)
          BY <2>1, <1>r DEF SessionType, Calm, Froze, Stands, Lasts
    <3> QED BY <2>4, <1>p, <3>1, <3>2, <3>3, <3>4, Changes DEF Keeps
  <2> QED BY <1>2, <1>r, <2>2, <2>3, <2>4 DEF DogTakes, Is
<1>3. CASE DogFails(s)
  <2>1. r.dog = "killing"
        BY <1>3 DEF DogFails, Is
  <2>2. ASSUME Set(s, Verdict([r EXCEPT !.gate = "free", !.dog = "leaving"], "stalled"))
       PROVE  Kept(s)
    <3> DEFINE q == Verdict([r EXCEPT !.gate = "free", !.dog = "leaving"], "stalled")
    <3>1. q \in SessionType
          BY <1>r, FieldTypes, MadeTypes DEF Verdicts
    <3>2. Gated(q, Kind(s)) /\ (Silent(r, Kind(s)) => Silent(q, Kind(s)))
          BY <2>1, <1>r, RetirersApart DEF SessionType, Verdict, Gated, Silent
    <3>3. Judged(r) /\ Timely(r) => Judged(q) /\ Just(r, q)
          BY <2>1, <1>r DEF SessionType, Verdict, Gated, Judged, Just, Timely, Stands
    <3>4. Calm(r, q) /\ Lasts(r, q)
          BY <2>1, <1>r DEF SessionType, Verdict, Calm, Froze, Stands, Lasts
    <3> QED BY <2>2, <1>p, <3>1, <3>2, <3>3, <3>4, Changes DEF Keeps
  <2> QED BY <1>3, <1>r, <2>2 DEF DogFails, Is
<1>4. CASE DogLeaves(s)
  <2>1. r.dog = "leaving"
        BY <1>4 DEF DogLeaves, Is
  <2>2. ASSUME Set(s, [r EXCEPT !.dog = "off"])
       PROVE  Kept(s)
    <3> DEFINE q == [r EXCEPT !.dog = "off"]
    <3>1. q \in SessionType
          BY <1>r, FieldTypes
    <3>2. Gated(q, Kind(s)) /\ (Silent(r, Kind(s)) => Silent(q, Kind(s)))
          BY <2>1, <1>r, RetirersApart DEF SessionType, Gated, Silent
    <3>3. Judged(r) /\ Timely(r) => Judged(q) /\ Just(r, q)
          BY <2>1, <1>r DEF SessionType, Gated, Judged, Just, Timely, Stands
    <3>4. Calm(r, q) /\ Lasts(r, q)
          BY <2>1, <1>r DEF SessionType, Calm, Froze, Stands, Lasts
    <3> QED BY <2>2, <1>p, <3>1, <3>2, <3>3, <3>4, Changes DEF Keeps
  <2> QED BY <1>4, <1>r, <2>2 DEF DogLeaves, Is
<1> QED BY <1>1, <1>2, <1>3, <1>4 DEF Watchdog

\* So does ffmpeg, while the clock does not run.
LEMMA ProcessKeeps ==
  ASSUME Sessions, NEW s \in Creates, Held(s), Process(s), ~ClockRuns(s)
  PROVE  Kept(s)
<1> DEFINE r == sess[s]
<1>r. r \in SessionType /\ Gated(r, Kind(s)) /\ Phased(step[s], r)
      BY DEF Held, Sessions
<1>1. CASE Publish(s)
  <2>1. r.proc = "running"
        BY <1>1 DEF Publish, Is, Moving, Running
  <2>2. ASSUME Set(s, [r EXCEPT !.dir = "made"])
       PROVE  Kept(s)
    <3> DEFINE q == [r EXCEPT !.dir = "made"]
    <3>1. q \in SessionType
          BY <1>r, FieldTypes
    <3>2. Gated(q, Kind(s)) /\ (Silent(r, Kind(s)) => Silent(q, Kind(s)))
          BY <2>1, <1>r, RetirersApart DEF SessionType, Gated, Silent
    <3>3. Judged(r) /\ Timely(r) => Judged(q) /\ Just(r, q)
          BY <2>1, <1>r DEF SessionType, Gated, Judged, Just, Timely, Stands
    <3>4. Calm(r, q) /\ Lasts(r, q)
          BY <2>1, <1>r DEF SessionType, Calm, Froze, Stands, Lasts
    <3>5. Phased(step[s], q)
          BY <2>1, <1>r DEF SessionType, Phased, Early
    <3> QED BY <2>2, <3>5, <3>1, <3>2, <3>3, <3>4, Changes DEF Keeps
  <2> QED BY <1>1, <1>r, <2>2 DEF Publish, Is, Moving, Running, SessionType
<1>2. CASE Finish(s)
  <2>1. r.proc = "running"
        BY <1>2 DEF Finish, Is, Moving, Running
  <2>2. ASSUME Set(s, [r EXCEPT !.proc = "done"])
       PROVE  Kept(s)
    <3> DEFINE q == [r EXCEPT !.proc = "done"]
    <3>1. q \in SessionType
          BY <1>r, FieldTypes
    <3>2. Gated(q, Kind(s)) /\ (Silent(r, Kind(s)) => Silent(q, Kind(s)))
          BY <2>1, <1>r, RetirersApart DEF SessionType, Gated, Silent
    <3>3. Judged(r) /\ Timely(r) => Judged(q) /\ Just(r, q)
          BY <2>1, <1>r DEF SessionType, Gated, Judged, Just, Timely, Stands
    <3>4. Calm(r, q) /\ Lasts(r, q)
          BY <2>1, <1>r DEF SessionType, Calm, Froze, Stands, Lasts
    <3>5. Phased(step[s], q)
          BY <2>1, <1>r DEF SessionType, Phased, Early
    <3> QED BY <2>2, <3>5, <3>1, <3>2, <3>3, <3>4, Changes DEF Keeps
  <2> QED BY <1>2, <1>r, <2>2 DEF Finish, Is, Moving, Running, SessionType
<1>3. CASE Break(s)
  <2>1. r.proc = "running"
        BY <1>3 DEF Break, Is, Moving, Running
  <2>2. ASSUME Set(s, [r EXCEPT !.proc = "failed"])
       PROVE  Kept(s)
    <3> DEFINE q == [r EXCEPT !.proc = "failed"]
    <3>1. q \in SessionType
          BY <1>r, FieldTypes
    <3>2. Gated(q, Kind(s)) /\ (Silent(r, Kind(s)) => Silent(q, Kind(s)))
          BY <2>1, <1>r, RetirersApart DEF SessionType, Gated, Silent
    <3>3. Judged(r) /\ Timely(r) => Judged(q) /\ Just(r, q)
          BY <2>1, <1>r DEF SessionType, Gated, Judged, Just, Timely, Stands
    <3>4. Calm(r, q) /\ Lasts(r, q)
          BY <2>1, <1>r DEF SessionType, Calm, Froze, Stands, Lasts
    <3>5. Phased(step[s], q)
          BY <2>1, <1>r DEF SessionType, Phased, Early
    <3> QED BY <2>2, <3>5, <3>1, <3>2, <3>3, <3>4, Changes DEF Keeps
  <2> QED BY <1>3, <1>r, <2>2 DEF Break, Is, Moving, Running, SessionType
<1>4. CASE Wedge(s)
  <2>1. r.proc = "running"
        BY <1>4 DEF Wedge, Is, Moving, Running
  <2>2. ASSUME Set(s, [r EXCEPT !.wedged = TRUE])
       PROVE  Kept(s)
    <3> DEFINE q == [r EXCEPT !.wedged = TRUE]
    <3>1. q \in SessionType
          BY <1>r, FieldTypes
    <3>2. Gated(q, Kind(s)) /\ (Silent(r, Kind(s)) => Silent(q, Kind(s)))
          BY <2>1, <1>r, RetirersApart DEF SessionType, Gated, Silent
    <3>3. Judged(r) /\ Timely(r) => Judged(q) /\ Just(r, q)
          BY <2>1, <1>r DEF SessionType, Gated, Judged, Just, Timely, Stands
    <3>4. Calm(r, q) /\ Lasts(r, q)
          BY <2>1, <1>r DEF SessionType, Calm, Froze, Stands, Lasts
    <3>5. Phased(step[s], q)
          BY <2>1, <1>r DEF SessionType, Phased, Early
    <3> QED BY <2>2, <3>5, <3>1, <3>2, <3>3, <3>4, Changes DEF Keeps
  <2> QED BY <1>4, <1>r, <2>2 DEF Wedge, Is, Moving, Running, SessionType
<1>5. CASE FailWithoutDir(s)
  <2>1. r.proc = "running"
        BY <1>5 DEF FailWithoutDir, Is, Moving, Running
  <2>2. ASSUME Set(s, [r EXCEPT !.proc = "failed"])
       PROVE  Kept(s)
    <3> DEFINE q == [r EXCEPT !.proc = "failed"]
    <3>1. q \in SessionType
          BY <1>r, FieldTypes
    <3>2. Gated(q, Kind(s)) /\ (Silent(r, Kind(s)) => Silent(q, Kind(s)))
          BY <2>1, <1>r, RetirersApart DEF SessionType, Gated, Silent
    <3>3. Judged(r) /\ Timely(r) => Judged(q) /\ Just(r, q)
          BY <2>1, <1>r DEF SessionType, Gated, Judged, Just, Timely, Stands
    <3>4. Calm(r, q) /\ Lasts(r, q)
          BY <2>1, <1>r DEF SessionType, Calm, Froze, Stands, Lasts
    <3>5. Phased(step[s], q)
          BY <2>1, <1>r DEF SessionType, Phased, Early
    <3> QED BY <2>2, <3>5, <3>1, <3>2, <3>3, <3>4, Changes DEF Keeps
  <2> QED BY <1>5, <1>r, <2>2 DEF FailWithoutDir, Is, Moving, Running, SessionType
<1>6. CASE Advance(s)
  <2>1. r.proc = "running"
        BY <1>6 DEF Advance, Is, Moving, Running
  <2>2. ASSUME Set(s, [r EXCEPT !.still = FALSE])
       PROVE  Kept(s)
    <3> DEFINE q == [r EXCEPT !.still = FALSE]
    <3>1. q \in SessionType
          BY <1>r, FieldTypes
    <3>2. Gated(q, Kind(s)) /\ (Silent(r, Kind(s)) => Silent(q, Kind(s)))
          BY <2>1, <1>r, RetirersApart DEF SessionType, Gated, Silent
    <3>3. Judged(r) /\ Timely(r) => Judged(q) /\ Just(r, q)
          BY <2>1, <1>r DEF SessionType, Gated, Judged, Just, Timely, Stands
    <3>4. Calm(r, q) /\ Lasts(r, q)
          BY <2>1, <1>r DEF SessionType, Calm, Froze, Stands, Lasts
    <3>5. Phased(step[s], q)
          BY <2>1, <1>r DEF SessionType, Phased, Early
    <3> QED BY <2>2, <3>5, <3>1, <3>2, <3>3, <3>4, Changes DEF Keeps
  <2> QED BY <1>6, <1>r, <2>2 DEF Advance, Is, Moving, Running, SessionType
<1> QED BY <1>1, <1>2, <1>3, <1>4, <1>5, <1>6 DEF Process

\* So does a playlist request, which judges what nobody is replacing.
LEMMA PlaylistKeeps ==
  ASSUME Sessions, NEW s \in Creates, Held(s), PlaylistLooks(s) \/ PlaylistTakes(s) \/ PlaylistJudges(s)
  PROVE  Kept(s)
<1> DEFINE r == sess[s]
<1>r. r \in SessionType /\ Gated(r, Kind(s)) /\ Phased(step[s], r)
      BY DEF Held, Sessions
<1>1. CASE PlaylistLooks(s)
  <2>1. r.place = "live"
        BY <1>1 DEF PlaylistLooks, Is, Live
  <2>2. ASSUME Set(s, [r EXCEPT !.polled = TRUE])
       PROVE  Kept(s)
    <3> DEFINE q == [r EXCEPT !.polled = TRUE]
    <3>1. q \in SessionType
          BY <1>r, FieldTypes
    <3>2. Gated(q, Kind(s)) /\ (Silent(r, Kind(s)) => Silent(q, Kind(s)))
          BY <2>1, <1>r, RetirersApart DEF SessionType, Gated, Silent
    <3>3. Judged(r) /\ Timely(r) => Judged(q) /\ Just(r, q)
          BY <2>1, <1>r DEF SessionType, Gated, Judged, Just, Timely, Stands
    <3>4. Calm(r, q) /\ Lasts(r, q)
          BY <2>1, <1>r DEF SessionType, Calm, Froze, Stands, Lasts
    <3>5. Phased(step[s], q)
          BY <2>1, <1>r DEF SessionType, Phased, Early
    <3> QED BY <2>2, <3>5, <3>1, <3>2, <3>3, <3>4, Changes DEF Keeps
  <2> QED BY <1>1, <1>r, <2>2 DEF PlaylistLooks, Is, Live, SessionType
<1>2. CASE PlaylistTakes(s)
  <2>1. r.polled
        BY <1>2 DEF PlaylistTakes, Is, Live
  <2>2. ASSUME NEW holder \in {"free", "ladder", "reader", "dog", "playlist", "stop"} \cup Creates,
              holder # r.gate => holder = "playlist" /\ r.gate = "free" /\ r.proc \in {"failed", "killed"},
              Set(s, [r EXCEPT !.polled = FALSE, !.gate = holder])
       PROVE  Kept(s)
    <3> DEFINE q == [r EXCEPT !.polled = FALSE, !.gate = holder]
    <3>1. q \in SessionType
          BY <2>2, <1>r, FieldTypes
    <3>2. Gated(q, Kind(s)) /\ (Silent(r, Kind(s)) => Silent(q, Kind(s)))
          BY <2>2, <2>1, <1>r, RetirersApart DEF SessionType, Gated, Silent
    <3>3. Judged(r) /\ Timely(r) => Judged(q) /\ Just(r, q)
          BY <2>2, <2>1, <1>r DEF SessionType, Gated, Judged, Just, Timely, Stands
    <3>4. Calm(r, q) /\ Lasts(r, q)
          BY <2>2, <2>1, <1>r DEF SessionType, Calm, Froze, Stands, Lasts
    <3>5. Phased(step[s], q)
          BY <2>2, <2>1, <1>r DEF SessionType, Phased, Early
    <3> QED BY <2>2, <3>5, <3>1, <3>2, <3>3, <3>4, Changes DEF Keeps
  <2> QED BY <1>2, <1>r, <2>2 DEF PlaylistTakes, Is, Live, SessionType
<1>3. CASE PlaylistJudges(s)
  <2>1. r.gate = "playlist"
        BY <1>3 DEF PlaylistJudges, Is, Live
  <2>2. ASSUME r.place = "live",
              Set(s, Verdict([r EXCEPT !.gate = "free"], "exited"))
       PROVE  Kept(s)
    <3> DEFINE q == Verdict([r EXCEPT !.gate = "free"], "exited")
    <3>1. q \in SessionType
          BY <2>2, <1>r, FieldTypes, MadeTypes DEF Verdicts
    <3>2. Gated(q, Kind(s)) /\ (Silent(r, Kind(s)) => Silent(q, Kind(s)))
          BY <2>2, <2>1, <1>r, RetirersApart DEF SessionType, Verdict, Gated, Silent
    <3>3. Judged(r) /\ Timely(r) => Judged(q) /\ Just(r, q)
          BY <2>2, <2>1, <1>r DEF SessionType, Verdict, Gated, Judged, Just, Timely, Stands
    <3>4. Calm(r, q) /\ Lasts(r, q)
          BY <2>2, <2>1, <1>r DEF SessionType, Verdict, Calm, Froze, Stands, Lasts
    <3>5. Phased(step[s], q)
          BY <2>2, <2>1, <1>r DEF SessionType, Verdict, Phased, Early
    <3> QED BY <2>2, <3>5, <3>1, <3>2, <3>3, <3>4, Changes DEF Keeps
  <2>3. ASSUME r.place # "live",
              Set(s, [r EXCEPT !.gate = "free"])
       PROVE  Kept(s)
    <3> DEFINE q == [r EXCEPT !.gate = "free"]
    <3>1. q \in SessionType
          BY <2>3, <1>r, FieldTypes
    <3>2. Gated(q, Kind(s)) /\ (Silent(r, Kind(s)) => Silent(q, Kind(s)))
          BY <2>3, <2>1, <1>r, RetirersApart DEF SessionType, Gated, Silent
    <3>3. Judged(r) /\ Timely(r) => Judged(q) /\ Just(r, q)
          BY <2>3, <2>1, <1>r DEF SessionType, Gated, Judged, Just, Timely, Stands
    <3>4. Calm(r, q) /\ Lasts(r, q)
          BY <2>3, <2>1, <1>r DEF SessionType, Calm, Froze, Stands, Lasts
    <3>5. Phased(step[s], q)
          BY <2>3, <2>1, <1>r DEF SessionType, Phased, Early
    <3> QED BY <2>3, <3>5, <3>1, <3>2, <3>3, <3>4, Changes DEF Keeps
  <2> QED BY <1>3, <1>r, <2>2, <2>3 DEF PlaylistJudges, Is, Live, SessionType
<1> QED BY <1>1, <1>2, <1>3 DEF Live

\* So does a retirement, which kills before it lets the gate go.
LEMMA RetireKeeps ==
  ASSUME Sessions, NEW s \in Creates, Held(s), RetireGoesOn(s)
  PROVE  Kept(s)
<1> DEFINE r == sess[s]
<1>r. r \in SessionType /\ Gated(r, Kind(s)) /\ Phased(step[s], r)
      BY DEF Held, Sessions
<1>1. CASE RetireKills(s)
  <2>1. r.ending = "removed"
        BY <1>1 DEF RetireKills, Is
  <2>2. ASSUME Set(s, Killed([r EXCEPT !.ending = "killed"]))
       PROVE  Kept(s)
    <3> DEFINE q == Killed([r EXCEPT !.ending = "killed"])
    <3>1. q \in SessionType
          BY <1>r, FieldTypes, MadeTypes
    <3>2. Gated(q, Kind(s)) /\ (Silent(r, Kind(s)) => Silent(q, Kind(s)))
          BY <2>1, <1>r, RetirersApart DEF SessionType, Killed, Gated, Silent
    <3>3. Judged(r) /\ Timely(r) => Judged(q) /\ Just(r, q)
          BY <2>1, <1>r DEF SessionType, Killed, Gated, Judged, Just, Timely, Stands
    <3>4. Calm(r, q) /\ Lasts(r, q)
          BY <2>1, <1>r DEF SessionType, Killed, Calm, Froze, Stands, Lasts
    <3>5. Phased(step[s], q)
          BY <2>1, <1>r DEF SessionType, Killed, Phased, Early
    <3> QED BY <2>2, <3>5, <3>1, <3>2, <3>3, <3>4, Changes DEF Keeps
  <2> QED BY <1>1, <1>r, <2>2 DEF RetireKills, Is, SessionType
<1>2. CASE RetireEnds(s)
  <2>1. r.ending = "killed"
        BY <1>2 DEF RetireEnds, Is
  <2>2. ASSUME NEW dir \in {"gone", "empty", "made"},
              Set(s, [r EXCEPT !.gate = "free", !.ending = "no", !.dir = dir])
       PROVE  Kept(s)
    <3> DEFINE q == [r EXCEPT !.gate = "free", !.ending = "no", !.dir = dir]
    <3>1. q \in SessionType
          BY <2>2, <1>r, FieldTypes
    <3>2. Gated(q, Kind(s)) /\ (Silent(r, Kind(s)) => Silent(q, Kind(s)))
          BY <2>2, <2>1, <1>r, RetirersApart DEF SessionType, Gated, Silent
    <3>3. Judged(r) /\ Timely(r) => Judged(q) /\ Just(r, q)
          BY <2>2, <2>1, <1>r DEF SessionType, Gated, Judged, Just, Timely, Stands
    <3>4. Calm(r, q) /\ Lasts(r, q)
          BY <2>2, <2>1, <1>r DEF SessionType, Calm, Froze, Stands, Lasts
    <3>5. Phased(step[s], q)
          BY <2>2, <2>1, <1>r DEF SessionType, Phased, Early
    <3> QED BY <2>2, <3>5, <3>1, <3>2, <3>3, <3>4, Changes DEF Keeps
  <2> QED BY <1>2, <1>r, <2>2 DEF RetireEnds, Is, SessionType
<1> QED BY <1>1, <1>2 DEF RetireGoesOn

\* A retirement takes a free gate of a live session.
LEMMA TakesKeeps ==
  ASSUME Sessions, NEW s \in Creates, Held(s), NEW by \in Retirers, RetireTakes(s, by)
  PROVE  Kept(s)
<1> DEFINE r == sess[s]
           q == [r EXCEPT !.gate = by, !.place = "retired", !.ending = "removed", !.permit = "none"]
<1>r. r \in SessionType /\ Gated(r, Kind(s)) /\ Phased(step[s], r)
      BY DEF Held, Sessions
<1>s. Set(s, q) /\ r.gate = "free" /\ r.place = "live"
      BY DEF RetireTakes, Is, Live
<1>1. q \in SessionType
      BY <1>r, FieldTypes DEF Retirers
<1>2. Gated(q, Kind(s)) /\ (Silent(r, Kind(s)) => Silent(q, Kind(s)))
      BY <1>r, <1>s, RetirersApart DEF SessionType, Gated, Silent
<1>3. Judged(r) /\ Timely(r) => Judged(q) /\ Just(r, q)
      BY <1>r, <1>s, RetirersApart DEF SessionType, Gated, Judged, Just
<1>4. Calm(r, q) /\ Lasts(r, q)
      BY <1>r DEF SessionType, Calm, Froze, Stands, Lasts
<1>5. Phased(step[s], q)
      BY <1>r, <1>s DEF SessionType, Phased, Early
<1> QED BY <1>s, <1>1, <1>2, <1>3, <1>4, <1>5, Changes DEF Keeps

-----------------------------------------------------------------------------
(* What the creates and the sessions hold.                                 *)

RequestTypes ==
  /\ step \in [Creates -> Steps \cup Ends]
  /\ doomed \in [Creates -> SUBSET Creates] /\ seen \in [Creates -> SUBSET Creates]
  /\ requests \in [Keys -> EntryType]
  /\ answer \in [Creates -> Creates \cup {NoSession}]

\* A create that arrived asks for something, and for a request id it looks up.
Asked ==
  \A c \in Creates : /\ step[c] # "idle" => ask[c] # NotMade
                     /\ step[c] \in {"claim", "recover", "forget"} => Keyed(c)

Base == /\ ProducerTypeOK /\ RequestTypes /\ Asked
        /\ \A s \in Creates : Held(s)

\* A create that is made asks for one of the four kinds.
LEMMA AskTypes ==
  ASSUME ProducerTypeOK, NEW c \in Creates, ask[c] # NotMade
  PROVE  ask[c] \in Ask /\ Kind(c) \in {"cached", "software", "hardware", "copy"}
<1>1. PICK scene \in Scenes : ask = scene.ask
      BY DEF ProducerTypeOK
<1>2. scene \in [ask : [Creates -> Ask \cup {NotMade}], holds : Nat]
      BY ProducerAssumption
<1>3. ask[c] \in Ask
      BY <1>1, <1>2
<1> QED BY <1>3 DEF Ask, Kind

\* Before anything arrives.
LEMMA BaseInit == SessionInit => Base
<1> SUFFICES ASSUME SessionInit PROVE Base
    OBVIOUS
<1>f. Fresh \in SessionType
      BY DEF Fresh, SessionType
<1>1. ProducerTypeOK
  <2>1. PICK scene \in Scenes : ask = scene.ask /\ holds = scene.holds
        BY DEF SessionInit, ProducerInit
  <2>2. scene.holds \in 0 .. scene.holds
        BY ProducerAssumption
  <2> QED BY <2>1, <2>2, <1>f DEF SessionInit, ProducerInit, ProducerTypeOK, FlowType
<1>2. RequestTypes
      BY DEF SessionInit, RequestTypes, Steps, EntryType
<1>3. Asked
      BY DEF SessionInit, Asked
<1>4. ASSUME NEW s \in Creates PROVE Held(s)
      BY <1>4 DEF SessionInit, ProducerInit, Held, Gated, Phased, Fresh, Early
<1> QED BY <1>1, <1>2, <1>3, <1>4 DEF Base

\* A step of the creates or of the tasks, for each session.
Evolves(s) ==
  /\ sess'[s] \in SessionType
  /\ Gated(sess'[s], Kind(s)) /\ Phased(step'[s], sess'[s])
  /\ "cut" \notin Faults /\ Silent(sess[s], Kind(s)) => Silent(sess'[s], Kind(s))
  /\ Judged(sess[s]) /\ Timely(sess[s]) => Judged(sess'[s]) /\ Just(sess[s], sess'[s])
  /\ Calm(sess[s], sess'[s]) \/ sess'[s].proc # "running"
  /\ Lasts(sess[s], sess'[s])

Evolve == /\ UNCHANGED <<ask, flow, holds>> /\ DOMAIN sess' = Creates
          /\ \A s \in Creates : Evolves(s)
          /\ sess' = [s \in Creates |-> sess'[s]]

\* A session no step touches.
LEMMA Idles ==
  ASSUME Base, NEW s \in Creates, sess'[s] = sess[s], Phased(step'[s], sess[s])
  PROVE  Evolves(s)
BY DEF Base, Held, Evolves, Calm, Just, Lasts, ProducerTypeOK

\* A session's step beside the creates.
LEMMA KeptEvolves ==
  ASSUME Base, NEW s \in Creates, Kept(s), UNCHANGED <<ask, flow, holds, step>>
  PROVE  Evolve
<1>1. sess \in [Creates -> SessionType]
      BY DEF Base, ProducerTypeOK
<1>2. sess' = [t \in Creates |-> sess'[t]] /\ DOMAIN sess' = Creates
      BY <1>1 DEF Kept
<1>3. Evolves(s)
      BY DEF Kept, Keeps, Evolves
<1>4. ASSUME NEW t \in Creates \ {s} PROVE Evolves(t)
  <2>1. sess'[t] = sess[t]
        BY <1>1 DEF Kept
  <2>2. Phased(step'[t], sess[t])
        BY DEF Base, Held
  <2> QED BY <2>1, <2>2, Idles
<1> QED BY <1>2, <1>3, <1>4 DEF Evolve

-----------------------------------------------------------------------------
(* The creates.                                                            *)

\* A create goes on and no session changes.
MovesOn(c, to) ==
  /\ step' = [step EXCEPT ![c] = to] /\ to \in (Steps \cup Ends) \ {"spawned", "inserted"}
  /\ to \in Early => step[c] \in Early
  /\ to # "idle" => ask[c] # NotMade
  /\ to \in {"claim", "recover", "forget"} => Keyed(c)
  /\ UNCHANGED producerVars
  /\ RequestTypes'

\* A step of a create that touches no session.
LEMMA GoesOnEvolves ==
  ASSUME Base, NEW c \in Creates, NEW to, MovesOn(c, to)
  PROVE  Evolve /\ Base'
<1>1. sess \in [Creates -> SessionType] /\ step \in [Creates -> Steps \cup Ends]
      BY DEF Base, ProducerTypeOK, RequestTypes
<1>2. UNCHANGED <<ask, sess, flow, holds>>
      BY DEF MovesOn, producerVars
<1>3. ASSUME NEW s \in Creates PROVE Phased(step'[s], sess[s])
  <2>1. Phased(step[s], sess[s])
        BY DEF Base, Held
  <2>2. CASE s = c
        BY <2>1, <2>2, <1>1 DEF MovesOn, Phased
  <2>3. CASE s # c
        BY <2>1, <2>3, <1>1 DEF MovesOn
  <2> QED BY <2>2, <2>3
<1>4. Evolve
      BY <1>1, <1>2, <1>3, Idles DEF Evolve
<1>5. Asked'
      BY <1>1, <1>2 DEF Base, Asked, MovesOn, Keyed, Key
<1>6. \A s \in Creates : Held(s)'
      BY <1>2, <1>3 DEF Base, Held, Kind
<1>7. ProducerTypeOK'
      BY <1>2 DEF Base, ProducerTypeOK
<1> QED BY <1>4, <1>5, <1>6, <1>7 DEF Base, MovesOn

\* The invariant after a step that evolves the sessions.
LEMMA EvolveKeepsBase ==
  ASSUME Base, Evolve, RequestTypes', Asked'
  PROVE  Base'
<1>1. ProducerTypeOK'
      BY DEF Base, ProducerTypeOK, Evolve, Evolves
<1>2. \A s \in Creates : Held(s)'
      BY DEF Evolve, Evolves, Held, Kind
<1> QED BY <1>1, <1>2 DEF Base

\* The entries a create puts and drops.
LEMMA RequestsTyped ==
  ASSUME RequestTypes, NEW c \in Creates
  PROVE  /\ Unused \in EntryType
         /\ \A st \in {"inflight", "ready"} : [state |-> st, by |-> c] \in EntryType
         /\ \A k : \A e \in EntryType : Put(k, e) => requests' \in [Keys -> EntryType]
         /\ Drop(c) => requests' \in [Keys -> EntryType]
<1>1. /\ Unused \in EntryType
      /\ \A st \in {"inflight", "ready"} : [state |-> st, by |-> c] \in EntryType
      BY DEF EntryType
<1>2. \A k : \A e \in EntryType : Put(k, e) => requests' \in [Keys -> EntryType]
      BY DEF RequestTypes, Put
<1> QED BY <1>1, <1>2 DEF RequestTypes, Drop

\* The steps of a create that leave the sessions alone.
LEMMA CreateGoesOn ==
  ASSUME Base, NEW c \in Creates,
         \/ Arrive(c) \/ RefuseConflict(c) \/ Reserve(c) \/ Recover(c) \/ LookUp(c) \/ Forget(c)
         \/ Normalize(c) \/ Reap(c) \/ AllRetired(c) \/ Refuse(c) \/ Record(c) \/ Complete(c)
  PROVE  Evolve /\ Base'
<1>t. RequestTypes /\ Asked
      BY DEF Base
<1>e. /\ Unused \in EntryType /\ \A k : \A e \in EntryType : Put(k, e) => requests' \in [Keys -> EntryType]
      /\ \A st \in {"inflight", "ready"} : [state |-> st, by |-> c] \in EntryType
      /\ Drop(c) => requests' \in [Keys -> EntryType]
      BY <1>t, RequestsTyped DEF RequestTypes, Put
<1>s. \A to \in Steps \cup Ends : [step EXCEPT ![c] = to] \in [Creates -> Steps \cup Ends]
      BY <1>t DEF RequestTypes
<1>o. ASSUME Only(c), NEW to \in Steps \cup Ends, step' = [step EXCEPT ![c] = to],
             requests' \in [Keys -> EntryType]
      PROVE  RequestTypes' /\ UNCHANGED producerVars
      BY <1>o, <1>s, <1>t DEF RequestTypes, Only, NoSessionChange
<1>u. requests' = requests => requests' \in [Keys -> EntryType]
      BY <1>t DEF RequestTypes
<1> USE DEF Goes, Steps, Ends
<1>1. CASE Arrive(c)
  <2> DEFINE to == IF Keyed(c) THEN "claim" ELSE "reap"
  <2>1. MovesOn(c, to)
        BY <1>1, <1>o, <1>u DEF Arrive, MovesOn, Early
  <2> QED BY <2>1, GoesOnEvolves
<1>2. CASE RefuseConflict(c)
  <2>1. MovesOn(c, "refused")
        BY <1>2, <1>o, <1>u, <1>t DEF RefuseConflict, MovesOn, Early, Asked
  <2> QED BY <2>1, GoesOnEvolves
<1>3. CASE Reserve(c)
  <2>1. MovesOn(c, "normalize")
        BY <1>3, <1>o, <1>e, <1>t DEF Reserve, MovesOn, Early, Asked
  <2> QED BY <2>1, GoesOnEvolves
<1>4. CASE Recover(c)
  <2>1. Key(c) \in Keys
    <3>1. Keyed(c) /\ ask[c] # NotMade
          BY <1>4, <1>t DEF Recover, Asked
    <3>2. ask[c] \in Ask
          BY <3>1, AskTypes DEF Base
    <3> QED BY <3>1, <3>2 DEF Ask, Keyed, Key
  <2>2. Entry(c).by \in Creates
    <3>1. Entry(c) \in EntryType /\ Entry(c).state = "ready"
          BY <1>4, <2>1, <1>t DEF Recover, Entry, RequestTypes
    <3> QED BY <3>1 DEF EntryType, Unused
  <2>3. RequestTypes'
        BY <1>4, <2>2, <1>s, <1>t DEF Recover, RequestTypes
  <2>4. MovesOn(c, "recover")
        BY <1>4, <2>3, <1>t DEF Recover, MovesOn, Early, Asked, NoSessionChange
  <2> QED BY <2>4, GoesOnEvolves
<1>5. CASE LookUp(c)
  <2>1. PICK to \in {"done", "forget"} : Goes(c, "recover", to)
        BY <1>5 DEF LookUp
  <2>2. MovesOn(c, to)
        BY <1>5, <2>1, <1>o, <1>u, <1>t DEF LookUp, MovesOn, Early, Asked
  <2> QED BY <2>2, GoesOnEvolves
<1>6. CASE Forget(c)
  <2>1. requests' \in [Keys -> EntryType]
        BY <1>6, <1>e, <1>u DEF Forget
  <2>2. RequestTypes'
        BY <1>6, <2>1, <1>s, <1>t DEF Forget, RequestTypes
  <2>3. MovesOn(c, "claim")
        BY <1>6, <2>2, <1>t DEF Forget, MovesOn, Early, Asked, NoSessionChange
  <2> QED BY <2>3, GoesOnEvolves
<1>7. CASE Normalize(c)
  <2>1. \/ MovesOn(c, "reap") \/ MovesOn(c, "refused")
        BY <1>7, <1>o, <1>u, <1>e, <1>t DEF Normalize, MovesOn, Early, Asked
  <2> QED BY <2>1, GoesOnEvolves
<1>8. CASE Reap(c)
  <2>1. RequestTypes'
        BY <1>8, <1>s, <1>t DEF Reap, RequestTypes
  <2>2. MovesOn(c, "retire")
        BY <1>8, <2>1, <1>t DEF Reap, MovesOn, Early, Asked, NoSessionChange
  <2> QED BY <2>2, GoesOnEvolves
<1>9. CASE AllRetired(c)
  <2>1. MovesOn(c, "start")
        BY <1>9, <1>o, <1>u, <1>t DEF AllRetired, MovesOn, Early, Asked
  <2> QED BY <2>1, GoesOnEvolves
<1>10. CASE Refuse(c)
  <2>1. MovesOn(c, "refused")
        BY <1>10, <1>o, <1>e, <1>t DEF Refuse, MovesOn, Early, Asked
  <2> QED BY <2>1, GoesOnEvolves
<1>11. CASE Record(c)
  <2>1. PICK to \in {"complete", "done"} : Goes(c, "record", to)
        BY <1>11 DEF Record
  <2>2. RequestTypes'
        BY <1>11, <2>1, <1>s, <1>t DEF Record, RequestTypes
  <2>3. MovesOn(c, to)
        BY <1>11, <2>1, <2>2, <1>t DEF Record, MovesOn, Early, Asked, NoSessionChange
  <2> QED BY <2>3, GoesOnEvolves
<1>12. CASE Complete(c)
  <2>1. Pruned(c) \in [Keys -> EntryType]
        BY <1>e, <1>t DEF Pruned, RequestTypes
  <2>2. requests' \in [Keys -> EntryType]
        BY <1>12, <2>1, <1>e DEF Complete
  <2>3. RequestTypes'
        BY <1>12, <2>2, <1>s, <1>t DEF Complete, RequestTypes
  <2>4. MovesOn(c, "done")
        BY <1>12, <2>3, <1>t DEF Complete, MovesOn, Early, Asked, NoSessionChange
  <2> QED BY <2>4, GoesOnEvolves
<1> QED BY <1>1, <1>2, <1>3, <1>4, <1>5, <1>6, <1>7, <1>8, <1>9, <1>10, <1>11, <1>12

\* A create changes its session and goes on.
LEMMA MakesEvolves ==
  ASSUME Base, NEW c \in Creates, NEW to \in Steps \cup Ends, step[c] # "idle",
         to \notin {"claim", "recover", "forget"}, step' = [step EXCEPT ![c] = to],
         NEW q \in SessionType, Set(c, q), Keeps(sess[c], q, Kind(c)), Phased(to, q),
         UNCHANGED <<ask, flow, holds, doomed, requests, seen, answer>>
  PROVE  Evolve /\ Base'
<1>1. sess \in [Creates -> SessionType] /\ step \in [Creates -> Steps \cup Ends]
      BY DEF Base, ProducerTypeOK, RequestTypes
<1>2. sess' = [t \in Creates |-> sess'[t]] /\ DOMAIN sess' = Creates /\ sess'[c] = q
      BY <1>1 DEF Set
<1>3. Evolves(c)
      BY <1>1, <1>2 DEF Keeps, Evolves
<1>4. ASSUME NEW t \in Creates \ {c} PROVE Evolves(t)
  <2>1. sess'[t] = sess[t] /\ step'[t] = step[t]
        BY <1>1 DEF Set
  <2>2. Phased(step'[t], sess[t])
        BY <2>1 DEF Base, Held
  <2> QED BY <2>1, <2>2, Idles
<1>5. Evolve
      BY <1>2, <1>3, <1>4 DEF Evolve
<1>6. RequestTypes'
      BY <1>1 DEF Base, RequestTypes
<1>7. Asked'
      BY <1>1 DEF Base, Asked, Keyed, Key
<1> QED BY <1>5, <1>6, <1>7, EvolveKeepsBase

\* A create spawns a producer, registers the session and spawns its tasks.
LEMMA CreateMakes ==
  ASSUME Base, NEW c \in Creates, SpawnProducer(c) \/ Insert(c) \/ SpawnTasks(c) \/ ServeCached(c)
  PROVE  Evolve /\ Base'
<1> DEFINE r == sess[c]
<1>r. r \in SessionType /\ Gated(r, Kind(c)) /\ Phased(step[c], r)
      BY DEF Base, Held, ProducerTypeOK
<1>a. step[c] # "idle" => Kind(c) \in {"cached", "software", "hardware", "copy"}
      BY AskTypes DEF Base, Asked
<1> USE DEF Goes, Is
<1>1. CASE SpawnProducer(c)
  <2> DEFINE permit == IF Kind(c) = "copy" THEN "none" ELSE Kind(c)
             q == Spawned([r EXCEPT !.place = "starting", !.dir = "empty", !.permit = permit])
  <2>1. step[c] = "start" /\ permit \in {"none", "hardware", "software"} /\ Set(c, q)
        BY <1>1, <1>a DEF SpawnProducer
  <2> HIDE DEF permit
  <2>2. q \in SessionType
        BY <1>r, <2>1, FieldTypes, MadeTypes
  <2>3. Phased("spawned", q)
        BY <1>r, <2>1 DEF SessionType, Spawned, Phased, Early
  <2>4. Gated(q, Kind(c)) /\ (Silent(r, Kind(c)) => Silent(q, Kind(c)))
        BY <1>r, <2>1 DEF SessionType, Spawned, Phased, Early, Gated, Silent
  <2>5. Judged(q) /\ Just(r, q) /\ Calm(r, q) /\ Lasts(r, q)
        BY <1>r, <2>1 DEF SessionType, Spawned, Phased, Early, Judged, Just, Calm, Stands, Froze, Lasts
  <2> QED BY <1>1, <2>1, <2>2, <2>3, <2>4, <2>5, MakesEvolves DEF SpawnProducer, Keeps, Steps
<1>2. CASE Insert(c)
  <2> DEFINE q == [r EXCEPT !.place = "live"]
  <2>1. step[c] = "spawned" /\ Set(c, q)
        BY <1>2 DEF Insert
  <2>2. q \in SessionType
        BY <1>r, FieldTypes
  <2>3. Phased("inserted", q)
        BY <1>r, <2>1 DEF SessionType, Phased, Early
  <2>4. Gated(q, Kind(c)) /\ (Silent(r, Kind(c)) => Silent(q, Kind(c)))
        BY <1>r, <2>1 DEF SessionType, Phased, Early, Gated, Silent
  <2>5. Judged(q) /\ Just(r, q) /\ Calm(r, q) /\ Lasts(r, q)
        BY <1>r, <2>1 DEF SessionType, Phased, Early, Judged, Just, Calm, Stands, Froze, Lasts
  <2> QED BY <1>2, <2>1, <2>2, <2>3, <2>4, <2>5, MakesEvolves DEF Insert, Keeps, Steps
<1>3. CASE SpawnTasks(c)
  <2> DEFINE ladder == IF Kind(c) = "hardware" THEN "watching" ELSE "off"
             reader == IF Kind(c) = "copy" THEN "reading" ELSE "off"
             dog == IF Kind(c) = "hardware" THEN "off" ELSE "looking"
             q == [r EXCEPT !.ladder = ladder, !.reader = reader, !.dog = dog]
  <2>1. /\ step[c] = "inserted" /\ Set(c, q)
        /\ ladder \in {"off", "watching"} /\ reader \in {"off", "reading"} /\ dog \in {"off", "looking"}
        /\ Kind(c) # "hardware" => ladder = "off"
        /\ Kind(c) # "copy" => reader = "off"
        /\ ladder # "off" => dog = "off"
        BY <1>3 DEF SpawnTasks
  <2> HIDE DEF ladder, reader, dog
  <2>2. q \in SessionType
        BY <1>r, <2>1, FieldTypes
  <2>3. Phased("record", q)
        BY DEF Phased, Early
  <2>4. Gated(q, Kind(c)) /\ (Silent(r, Kind(c)) => Silent(q, Kind(c)))
        BY <1>r, <2>1 DEF SessionType, Phased, Early, Gated, Silent
  <2>5. (Judged(r) => Judged(q) /\ Just(r, q)) /\ Calm(r, q) /\ Lasts(r, q)
        BY <1>r, <2>1 DEF SessionType, Phased, Early, Judged, Just, Calm, Stands, Froze, Lasts
  <2> QED BY <1>3, <2>1, <2>2, <2>3, <2>4, <2>5, MakesEvolves DEF SpawnTasks, Keeps, Steps
<1>4. CASE ServeCached(c)
  <2> DEFINE q == [r EXCEPT !.place = "live", !.dir = "made"]
  <2>1. step[c] = "start" /\ Set(c, q)
        BY <1>4 DEF ServeCached
  <2>2. q \in SessionType
        BY <1>r, FieldTypes
  <2>3. Phased("record", q)
        BY DEF Phased, Early
  <2>4. Gated(q, Kind(c)) /\ (Silent(r, Kind(c)) => Silent(q, Kind(c)))
        BY <1>r, <2>1 DEF SessionType, Phased, Early, Gated, Silent
  <2>5. Judged(q) /\ Just(r, q) /\ Calm(r, q) /\ Lasts(r, q)
        BY <1>r, <2>1 DEF SessionType, Phased, Early, Judged, Just, Calm, Stands, Froze, Lasts
  <2> QED BY <1>4, <2>1, <2>2, <2>3, <2>4, <2>5, MakesEvolves DEF ServeCached, Keeps, Steps
<1> QED BY <1>1, <1>2, <1>3, <1>4

\* A create retires the sessions it supersedes.
LEMMA CreateRetires ==
  ASSUME Base, NEW c \in Creates, RetireBegins(c) \/ Retired(c)
  PROVE  Evolve /\ Base'
<1>t. RequestTypes /\ Asked /\ Sessions
      BY DEF Base, ProducerTypeOK, Sessions
<1>1. CASE RetireBegins(c)
  <2>1. PICK s \in doomed[c] : RetireTakes(s, c)
        BY <1>1 DEF RetireBegins
  <2>2. s \in Creates /\ Held(s) /\ c \in Retirers
        BY <1>t DEF RequestTypes, Base, Retirers
  <2>3. UNCHANGED <<ask, flow, holds, step, doomed, requests, seen, answer>>
        BY <1>1 DEF RetireBegins, requestVars
  <2>4. Evolve
        BY <2>1, <2>2, <2>3, <1>t, TakesKeeps, KeptEvolves
  <2>5. RequestTypes' /\ Asked'
        BY <2>3, <1>t DEF RequestTypes, Asked, Keyed, Key
  <2> QED BY <2>4, <2>5, EvolveKeepsBase
<1>2. CASE Retired(c)
  <2>1. UNCHANGED <<ask, sess, flow, holds, step, requests, seen, answer>>
        BY <1>2 DEF Retired, NoSessionChange, producerVars
  <2>2. doomed' \in [Creates -> SUBSET Creates]
        BY <1>2, <1>t DEF Retired, RequestTypes
  <2>3. ASSUME NEW s \in Creates PROVE Evolves(s)
        BY <2>1, Idles DEF Base, Held
  <2>4. Evolve
        BY <1>t, <2>1, <2>3 DEF Evolve, Sessions
  <2>5. RequestTypes' /\ Asked'
        BY <2>1, <2>2, <1>t DEF RequestTypes, Asked, Keyed, Key
  <2> QED BY <2>4, <2>5, EvolveKeepsBase
<1> QED BY <1>1, <1>2

\* A create whose client goes away drops what it holds.
LEMMA CreateAbandons ==
  ASSUME Base, NEW c \in Creates, Abandon(c)
  PROVE  Evolve /\ Base'
<1>t. RequestTypes /\ Asked /\ Sessions
      BY DEF Base, ProducerTypeOK, Sessions
<1> DEFINE cut == {s \in doomed[c] : sess[s].gate = c}
<1>1. /\ cut # {} => "cut" \in Faults
      /\ sess' = [s \in Creates |->
           IF s \in cut THEN [sess[s] EXCEPT !.gate = "free", !.ending = "no"]
           ELSE IF s = c /\ step[c] = "spawned" THEN Fresh ELSE sess[s]]
      /\ step' = [step EXCEPT ![c] = "gone"]
      /\ doomed' = [doomed EXCEPT ![c] = {}] /\ seen' = [seen EXCEPT ![c] = {}]
      /\ answer' = [answer EXCEPT ![c] = NoSession]
      /\ Drop(c) /\ UNCHANGED <<ask, flow, holds>>
      BY DEF Abandon, Is
<1>c. c \in Retirers
      BY DEF Retirers
<1> HIDE DEF cut
<1>2. ASSUME NEW s \in Creates PROVE Evolves(s)
  <2> DEFINE r == sess[s]
  <2>r. r \in SessionType /\ Gated(r, Kind(s)) /\ Phased(step[s], r)
        BY <1>t DEF Base, Held, Sessions
  <2>1. CASE s \in cut
    <3> DEFINE q == [r EXCEPT !.gate = "free", !.ending = "no"]
    <3>1. sess'[s] = q /\ r.gate = c /\ "cut" \in Faults
          BY <1>1, <2>1 DEF cut
    <3>2. q \in SessionType
          BY <2>r, FieldTypes
    <3>3. step[s] \notin Early \cup {"spawned"}
          BY <2>r, <3>1, <1>c, RetirersApart DEF Phased
    <3>4. step'[s] = "gone" \/ step'[s] = step[s]
          BY <1>1, <1>t DEF RequestTypes
    <3>5. Phased(step'[s], q)
          BY <2>r, <3>3, <3>4 DEF SessionType, Phased, Early
    <3>6. Gated(q, Kind(s))
          BY <2>r, <3>1, <1>c, RetirersApart DEF SessionType, Gated
    <3>7. (Judged(r) => Judged(q) /\ Just(r, q)) /\ Calm(r, q) /\ Lasts(r, q)
          BY <2>r, <3>1, <1>c, RetirersApart DEF SessionType, Judged, Just, Calm, Stands, Froze, Lasts
    <3> QED BY <3>1, <3>2, <3>5, <3>6, <3>7 DEF Evolves
  <2>2. CASE s \notin cut /\ s = c /\ step[c] = "spawned"
    <3>1. sess'[s] = Fresh /\ step'[s] = "gone"
          BY <1>1, <1>t, <2>2 DEF RequestTypes
    <3>2. Fresh \in SessionType
          BY DEF Fresh, SessionType
    <3>3. Gated(Fresh, Kind(s)) /\ Phased("gone", Fresh) /\ Silent(Fresh, Kind(s)) /\ Judged(Fresh)
          /\ Just(r, Fresh) /\ Fresh.proc # "running"
          BY DEF Fresh, Gated, Phased, Early, Silent, Judged, Just
    <3>4. Lasts(r, Fresh)
          BY <2>r, <2>2 DEF Phased, Lasts
    <3> QED BY <3>1, <3>2, <3>3, <3>4 DEF Evolves
  <2>3. CASE s \notin cut /\ ~(s = c /\ step[c] = "spawned")
    <3>1. sess'[s] = sess[s]
          BY <1>1, <2>3
    <3>2. step'[s] = "gone" \/ step'[s] = step[s]
          BY <1>1, <1>t DEF RequestTypes
    <3>3. Phased(step'[s], sess[s])
          BY <2>r, <3>2 DEF Phased, Early
    <3> QED BY <3>1, <3>3, Idles
  <2> QED BY <2>1, <2>2, <2>3
<1>3. DOMAIN sess' = Creates /\ sess' = [s \in Creates |-> sess'[s]]
      BY <1>1
<1>4. Evolve
      BY <1>1, <1>2, <1>3 DEF Evolve
<1>5. requests' \in [Keys -> EntryType]
      BY <1>1, <1>t, RequestsTyped
<1>6. RequestTypes'
      BY <1>1, <1>5, <1>t DEF RequestTypes, Ends
<1>7. Asked'
  <2>1. ask[c] # NotMade
        BY <1>t DEF Abandon, Asked
  <2> QED BY <1>1, <1>t, <2>1 DEF Asked, Keyed, Key, RequestTypes
<1> QED BY <1>4, <1>6, <1>7, EvolveKeepsBase

-----------------------------------------------------------------------------
(* The steps together.                                                     *)

\* Every step but the clock's and the flow control's.
LEMMA OthersEvolve ==
  ASSUME Base, NEW c \in Creates,
         Arrive(c) \/ Serve(c) \/ Abandon(c) \/ (Session(c) /\ ~ClockRuns(c)) \/ ReapIdle(c)
  PROVE  Evolve /\ Base'
<1>h. Sessions /\ Held(c) /\ RequestTypes /\ Asked
      BY DEF Base, ProducerTypeOK, Sessions
<1>k. ASSUME Kept(c), UNCHANGED <<ask, flow, holds, requestVars>> PROVE Evolve /\ Base'
  <2>1. UNCHANGED <<ask, flow, holds, step, doomed, requests, seen, answer>>
        BY <1>k DEF requestVars
  <2>2. Evolve
        BY <1>k, <2>1, KeptEvolves
  <2>3. RequestTypes' /\ Asked'
        BY <2>1, <1>h DEF RequestTypes, Asked, Keyed, Key
  <2> QED BY <2>2, <2>3, EvolveKeepsBase
<1>1. CASE Session(c) /\ ~ClockRuns(c)
  <2>1. Kept(c) \/ ~Stop(c)
        BY <1>h, TakesKeeps DEF Stop, Retirers
  <2>2. CASE Process(c)
        BY <1>1, <1>h, <2>2, <1>k, ProcessKeeps DEF Session
  <2>3. CASE Task(c)
    <3>1. Kept(c)
          BY <2>3, <1>h, LadderKeeps, ReaderKeeps, WatchdogKeeps, PlaylistKeeps, RetireKeeps DEF Task
    <3> QED BY <1>1, <3>1, <1>k DEF Session
  <2>4. CASE Stop(c)
        BY <1>1, <2>1, <2>4, <1>k DEF Session
  <2> QED BY <1>1, <2>2, <2>3, <2>4 DEF Session
<1>2. CASE ReapIdle(c)
  <2>1. Kept(c)
        BY <1>2, <1>h, TakesKeeps DEF ReapIdle, Retirers
  <2> QED BY <1>2, <2>1, <1>k DEF ReapIdle
<1>3. CASE Arrive(c) \/ Serve(c)
      BY <1>3, CreateGoesOn, CreateMakes, CreateRetires DEF Serve
<1>4. CASE Abandon(c)
      BY <1>4, CreateAbandons
<1> QED BY <1>1, <1>2, <1>3, <1>4

-----------------------------------------------------------------------------
(* The clock and the flow control.                                         *)

\* What they leave alone.
Alike(r, q) ==
  /\ q.place = r.place /\ q.gate = r.gate /\ q.proc = r.proc /\ q.wedged = r.wedged
  /\ q.failure = r.failure /\ q.ladder = r.ladder /\ q.reader = r.reader /\ q.dog = r.dog
  /\ q.polled = r.polled /\ q.ending = r.ending

Ticks ==
  /\ UNCHANGED <<ask, requestVars>> /\ sess' \in [Creates -> SessionType]
  /\ flow' \in [Callers -> FlowType] /\ \E scene \in Scenes : holds' \in 0 .. scene.holds
  /\ \A s \in Creates : Alike(sess[s], sess'[s])

\* The clock and the flow control change nothing a verdict or a retirement reads.
LEMMA TicksKeep ==
  ASSUME Base, Ticks
  PROVE  /\ Base'
         /\ \A s \in Creates : /\ Silent(sess[s], Kind(s)) => Silent(sess'[s], Kind(s))
                               /\ Judged(sess[s]) => Judged(sess'[s])
                               /\ Just(sess[s], sess'[s])
<1>1. UNCHANGED <<ask, step, doomed, requests, seen, answer>>
      BY DEF Ticks, requestVars
<1>2. ProducerTypeOK' /\ RequestTypes' /\ Asked'
      BY <1>1 DEF Base, ProducerTypeOK, RequestTypes, Asked, Keyed, Key, Ticks
<1>3. ASSUME NEW s \in Creates PROVE Held(s)'
  <2>1. Alike(sess[s], sess'[s]) /\ Gated(sess[s], Kind(s)) /\ Phased(step[s], sess[s])
        BY DEF Base, Held, Ticks
  <2>2. Gated(sess'[s], Kind(s)) /\ Phased(step[s], sess'[s])
        BY <2>1 DEF Alike, Gated, Phased
  <2> QED BY <2>2, <1>1 DEF Held, Kind
<1>4. Base'
      BY <1>2, <1>3 DEF Base
<1>5. ASSUME NEW s \in Creates
      PROVE  /\ Silent(sess[s], Kind(s)) => Silent(sess'[s], Kind(s))
             /\ Judged(sess[s]) => Judged(sess'[s])
             /\ Just(sess[s], sess'[s])
      BY DEF Ticks, Alike, Silent, Judged, Just
<1> QED BY <1>4, <1>5

\* The fields they write.
LEMMA FieldsAlike ==
  ASSUME NEW r \in SessionType, NEW x \in BOOLEAN
  PROVE  /\ Alike(r, [r EXCEPT !.still = x]) /\ Alike(r, [r EXCEPT !.frozen = x])
         /\ Alike(r, [r EXCEPT !.suspended = x])
BY DEF SessionType, Alike

\* What a change of one session in the flow's fields is.
LEMMA OneTicks ==
  ASSUME Base, NEW s \in Creates, NEW q \in SessionType, Alike(sess[s], q), Set(s, q),
         UNCHANGED <<ask, requestVars>>, flow' \in [Callers -> FlowType],
         \E scene \in Scenes : holds' \in 0 .. scene.holds
  PROVE  Ticks /\ sess'[s] = q /\ \A t \in Creates \ {s} : sess'[t] = sess[t]
<1>1. sess \in [Creates -> SessionType]
      BY DEF Base, ProducerTypeOK
<1>2. sess' \in [Creates -> SessionType] /\ sess'[s] = q
      BY <1>1 DEF Set
<1>3. \A t \in Creates \ {s} : sess'[t] = sess[t]
      BY <1>1 DEF Set
<1>4. \A t \in Creates : Alike(sess[t], sess'[t])
      BY <1>2, <1>3 DEF Alike
<1> QED BY <1>2, <1>3, <1>4 DEF Ticks

\* A step of the flow control that changes no session.
LEMMA NothingTicks ==
  ASSUME Base, UNCHANGED <<ask, sess, requestVars>>, flow' \in [Callers -> FlowType],
         \E scene \in Scenes : holds' \in 0 .. scene.holds
  PROVE  Ticks
<1>1. sess \in [Creates -> SessionType]
      BY DEF Base, ProducerTypeOK
<1> QED BY <1>1 DEF Ticks, Alike

Clocked == Touching /\ \A s \in Creates : Timed(s)

\* The clock runs only out on a wedged producer or on one that is held.
LEMMA ClockTicks ==
  ASSUME Base, NEW s \in Creates, ClockRuns(s), UNCHANGED <<ask, flow, holds, requestVars>>
  PROVE  Ticks /\ (Clocked => Clocked')
<1> DEFINE r == sess[s]
           q == [r EXCEPT !.still = TRUE]
<1>1. r \in SessionType /\ q \in SessionType /\ flow \in [Callers -> FlowType]
      /\ \E scene \in Scenes : holds \in 0 .. scene.holds
      BY FieldTypes DEF Base, ProducerTypeOK
<1>2. /\ Set(s, q) /\ r.proc = "running" /\ (r.wedged \/ r.frozen)
      /\ \A u \in Callers : flow[u].at \in {"touch", "store"} => flow[u].of # s
      BY DEF ClockRuns, Running, Moving, Is
<1>3. Ticks /\ sess'[s] = q /\ \A t \in Creates \ {s} : sess'[t] = sess[t]
      BY <1>1, <1>2, FieldsAlike, OneTicks
<1>4. ASSUME Clocked PROVE Clocked'
  <2>1. Touching'
        BY <1>4 DEF Clocked, Touching
  <2>2. ASSUME NEW t \in Creates, t # s PROVE Timed(t)'
        BY <1>3, <1>4, <2>2 DEF Clocked, Timed, Stopped, Signalled, Touched
  <2>3. /\ \A u \in Callers : ~Stopped(u, s) /\ ~Signalled(u, s) /\ ~Touched(u, s)
        BY <1>2 DEF Stopped, Signalled, Touched
  <2>4. r.suspended \/ ~Froze(r)
        BY <1>4, <2>3 DEF Clocked, Timed
  <2>5. /\ q.suspended = r.suspended /\ q.wedged = r.wedged /\ q.frozen = r.frozen
        /\ q.proc = r.proc
        BY <1>1 DEF SessionType
  <2>6. Timely(q) /\ (q.suspended \/ ~Froze(q))
        BY <1>2, <2>4, <2>5 DEF Timely, Stands, Froze
  <2>7. \A u \in Callers : ~Signalled(u, s)' /\ ~Touched(u, s)'
        BY <2>3 DEF Signalled, Touched
  <2>8. Timed(s)'
        BY <1>3, <2>6, <2>7 DEF Timed
  <2> QED BY <2>1, <2>2, <2>8 DEF Clocked
<1> QED BY <1>3, <1>4

\* The other steps leave the clock as it is or take the producer away.
LEMMA EvolveKeepsClock ==
  ASSUME Base, Evolve, Clocked
  PROVE  Clocked'
<1>1. Touching'
      BY DEF Evolve, Clocked, Touching
<1>2. ASSUME NEW s \in Creates PROVE Timed(s)'
  <2>1. Timed(s) /\ (Calm(sess[s], sess'[s]) \/ sess'[s].proc # "running")
        BY DEF Clocked, Evolve, Evolves
  <2>2. UNCHANGED flow
        BY DEF Evolve
  <2>3. CASE Calm(sess[s], sess'[s])
        BY <2>1, <2>2, <2>3 DEF Timed, Timely, Calm, Stopped, Signalled, Touched
  <2>4. CASE sess'[s].proc # "running"
        BY <2>4 DEF Timed, Timely, Stands, Froze
  <2> QED BY <2>1, <2>3, <2>4
<1> QED BY <1>1, <1>2 DEF Clocked

\* The states of a run of the flow control.
LEMMA FlowTypes ==
  ASSUME ProducerTypeOK, NEW u \in Callers
  PROVE  /\ [flow EXCEPT ![u] = IdleFlow] \in [Callers -> FlowType]
         /\ \A s \in Creates, h \in BOOLEAN :
              [flow EXCEPT ![u] = [at |-> "signal", of |-> s, hold |-> h]] \in [Callers -> FlowType]
         /\ flow[u].at \in {"signal", "touch", "store"} =>
              /\ flow[u] \in [at : {"signal", "touch", "store"}, of : Creates, hold : BOOLEAN]
              /\ \A at \in {"signal", "touch", "store"} :
                   /\ [flow EXCEPT ![u].at = at] \in [Callers -> FlowType]
                   /\ [flow EXCEPT ![u].at = at][u]
                        = [at |-> at, of |-> flow[u].of, hold |-> flow[u].hold]
<1>1. flow \in [Callers -> FlowType]
      BY DEF ProducerTypeOK
<1>2. /\ [flow EXCEPT ![u] = IdleFlow] \in [Callers -> FlowType]
      /\ \A s \in Creates, h \in BOOLEAN :
           [flow EXCEPT ![u] = [at |-> "signal", of |-> s, hold |-> h]] \in [Callers -> FlowType]
      BY <1>1 DEF FlowType
<1>3. ASSUME flow[u].at \in {"signal", "touch", "store"}
      PROVE  flow[u] \in [at : {"signal", "touch", "store"}, of : Creates, hold : BOOLEAN]
      BY <1>1, <1>3 DEF FlowType, IdleFlow
<1>4. ASSUME flow[u].at \in {"signal", "touch", "store"}, NEW at \in {"signal", "touch", "store"}
      PROVE  /\ [flow EXCEPT ![u].at = at] \in [Callers -> FlowType]
             /\ [flow EXCEPT ![u].at = at][u] = [at |-> at, of |-> flow[u].of, hold |-> flow[u].hold]
  <2>1. flow[u] \in [at : {"signal", "touch", "store"}, of : Creates, hold : BOOLEAN]
        BY <1>3, <1>4
  <2>2. [flow[u] EXCEPT !.at = at] = [at |-> at, of |-> flow[u].of, hold |-> flow[u].hold]
        BY <2>1
  <2>3. [at |-> at, of |-> flow[u].of, hold |-> flow[u].hold] \in FlowType
        BY <2>1 DEF FlowType
  <2>4. [flow EXCEPT ![u].at = at] = [flow EXCEPT ![u] = [flow[u] EXCEPT !.at = at]]
        BY <1>1
  <2> QED BY <1>1, <2>2, <2>3, <2>4
<1> QED BY <1>2, <1>3, <1>4

\* One run of the flow control at a time.
OneCaller == \A u, v \in Callers : u = v

\* Where that run stands, and the clock with it.
LEMMA SoleCaller ==
  ASSUME OneCaller, NEW u \in Callers, NEW at, NEW s, NEW h \in BOOLEAN,
         flow[u] = [at |-> at, of |-> s, hold |-> h]
  PROVE  /\ \A v \in Callers : \A t :
              /\ Stopped(v, t) => at = "store" /\ s = t /\ h
              /\ Signalled(v, t) => at = "touch" /\ s = t /\ ~h
              /\ Touched(v, t) => at = "store" /\ s = t /\ ~h
         /\ at = "touch" /\ ~h => Signalled(u, s)
         /\ at = "store" /\ ~h => Touched(u, s)
<1>1. ASSUME NEW v \in Callers PROVE flow[v] = [at |-> at, of |-> s, hold |-> h]
  <2>1. v = u
        BY DEF OneCaller
  <2> QED BY <2>1
<1>2. CASE h = TRUE
      BY <1>1, <1>2 DEF Stopped, Signalled, Touched
<1>3. CASE h = FALSE
  <2>1. ASSUME NEW v \in Callers
        PROVE  flow[v].at = at /\ flow[v].of = s /\ flow[v].hold = FALSE
        BY <1>1, <1>3
  <2>2. \A v \in Callers : \A t : ~Stopped(v, t)
    <3>1. \A t : [at |-> "store", of |-> t, hold |-> TRUE].hold = TRUE
          OBVIOUS
    <3>2. SUFFICES ASSUME NEW v \in Callers, NEW t, Stopped(v, t) PROVE FALSE
          OBVIOUS
    <3>3. flow[v].hold = TRUE
          BY <3>2, <3>1 DEF Stopped
    <3> QED BY <3>3, <2>1
  <2>3. ASSUME NEW v \in Callers, NEW t, Signalled(v, t) PROVE at = "touch" /\ s = t
    <3>1. flow[v].at = "touch" /\ flow[v].of = t
          BY <2>3 DEF Signalled
    <3> QED BY <3>1, <2>1
  <2>4. ASSUME NEW v \in Callers, NEW t, Touched(v, t) PROVE at = "store" /\ s = t
    <3>1. flow[v].at = "store" /\ flow[v].of = t
          BY <2>4 DEF Touched
    <3> QED BY <3>1, <2>1
  <2>5. flow[u] = [at |-> at, of |-> s, hold |-> FALSE]
        BY <1>3
  <2>6. (at = "touch" => Signalled(u, s)) /\ (at = "store" => Touched(u, s))
        BY <2>5 DEF Signalled, Touched
  <2> QED BY <1>3, <2>2, <2>3, <2>4, <2>6
<1> QED BY <1>2, <1>3

\* When that run is idle nothing is between two of its statements.
LEMMA IdleCaller ==
  ASSUME OneCaller, NEW u \in Callers, flow[u] = IdleFlow
  PROVE  \A v \in Callers : \A t : ~Stopped(v, t) /\ ~Signalled(v, t) /\ ~Touched(v, t)
BY DEF OneCaller, Stopped, Signalled, Touched, IdleFlow

\* Each statement of the flow control keeps the clock, with one run at a time.
LEMMA FlowTicks ==
  ASSUME Base, NEW u \in Callers, FlowControl(u)
  PROVE  Ticks /\ (OneCaller /\ Clocked => Clocked')
<1>t. /\ ProducerTypeOK /\ sess \in [Creates -> SessionType] /\ flow \in [Callers -> FlowType]
      /\ UNCHANGED <<ask, requestVars>>
      BY DEF Base, ProducerTypeOK, FlowControl
<1>h. holds' = holds => \E scene \in Scenes : holds' \in 0 .. scene.holds
      BY <1>t DEF ProducerTypeOK
<1>1. CASE \E s \in Creates : FlowReads(u, s)
  <2>1. PICK s \in Creates : FlowReads(u, s)
        BY <1>1
  <2> DEFINE h == ~sess[s].suspended
  <2>2. /\ flow' = [flow EXCEPT ![u] = [at |-> "signal", of |-> s, hold |-> h]]
        /\ UNCHANGED sess /\ flow[u] = IdleFlow /\ h \in BOOLEAN
        BY <2>1 DEF FlowReads, Is
  <2>3. \E scene \in Scenes : holds' \in 0 .. scene.holds
    <3>1. PICK scene \in Scenes : holds \in 0 .. scene.holds
          BY <1>t DEF ProducerTypeOK
    <3>2. scene.holds \in Nat
          BY ProducerAssumption
    <3>3. holds' = holds \/ (holds > 0 /\ holds' = holds - 1)
      <4>1. /\ sess[s].suspended \/ holds > 0
            /\ holds' = IF sess[s].suspended THEN holds ELSE holds - 1
            BY <2>1 DEF FlowReads, Is
      <4>2. CASE sess[s].suspended
            BY <4>1, <4>2
      <4>3. CASE ~sess[s].suspended
            BY <4>1, <4>3
      <4> QED BY <4>2, <4>3
    <3> QED BY <3>1, <3>2, <3>3
  <2> HIDE DEF h
  <2>4. flow' \in [Callers -> FlowType] /\ flow'[u] = [at |-> "signal", of |-> s, hold |-> h]
        BY <1>t, <2>2, FlowTypes
  <2>5. Ticks
        BY <1>t, <2>2, <2>3, <2>4, NothingTicks
  <2>6. ASSUME OneCaller, Clocked PROVE Clocked'
    <3>1. \A v \in Callers : \A t : ~Stopped(v, t)
          BY <2>2, <2>6, IdleCaller
    <3>2. \A v \in Callers : v = u
          BY <2>6 DEF OneCaller
    <3>3. \A v \in Callers : flow'[v].at = "signal"
          BY <3>2, <2>4
    <3>4. Touching'
          BY <3>3 DEF Touching
    <3>5. \A v \in Callers : \A t : ~Signalled(v, t)' /\ ~Touched(v, t)'
          BY <3>3 DEF Signalled, Touched
    <3>6. ASSUME NEW t \in Creates PROVE Timed(t)'
          BY <2>2, <2>6, <3>1, <3>5 DEF Clocked, Timed
    <3> QED BY <3>4, <3>6 DEF Clocked
  <2> QED BY <2>5, <2>6
<1>2. CASE FlowGoesOn(u)
  <2>1. flow[u].at \in {"signal", "touch", "store"}
        BY <1>2 DEF FlowGoesOn, FlowSignals, FlowTouches, FlowStores, FlowAt
  <2>a. flow[u] \in [at : {"signal", "touch", "store"}, of : Creates, hold : BOOLEAN]
        BY <1>t, <2>1, FlowTypes
  <2>s. PICK s \in Creates, h \in BOOLEAN : /\ s = flow[u].of /\ h = flow[u].hold
                                           /\ flow[u] = [at |-> flow[u].at, of |-> s, hold |-> h]
        BY <2>a
  <2> DEFINE r == sess[s]
  <2>2. ASSUME NEW at \in {"signal", "touch", "store"}, FlowGoes(u, at)
        PROVE  /\ flow' \in [Callers -> FlowType] /\ holds' = holds
               /\ flow'[u] = [at |-> at, of |-> s, hold |-> h]
    <3>1. /\ [flow EXCEPT ![u].at = at] \in [Callers -> FlowType]
          /\ [flow EXCEPT ![u].at = at][u] = [at |-> at, of |-> flow[u].of, hold |-> flow[u].hold]
          BY <1>t, <2>1, FlowTypes
    <3> QED BY <2>2, <2>s, <3>1 DEF FlowGoes
  <2>3. FlowDone(u) => flow' \in [Callers -> FlowType] /\ flow'[u] = IdleFlow /\ holds' = holds
        BY <1>t, FlowTypes DEF FlowDone
  <2>4. s \in Creates /\ h \in BOOLEAN /\ r \in SessionType
        BY <2>s, <1>t
  <2>5. flow[u] = [at |-> flow[u].at, of |-> s, hold |-> h]
        BY <2>s
  <2>o. OneCaller => \A v \in Callers : v = u
        BY DEF OneCaller
  <2>6. CASE FlowSignals(u)
    <3> DEFINE q == IF r.proc = "running" THEN [r EXCEPT !.frozen = h] ELSE r
    <3>0. flow[u].at = "signal"
          BY <2>6 DEF FlowSignals, FlowAt
    <3>1. q \in SessionType /\ Alike(r, q)
          BY <2>4, FieldTypes, FieldsAlike DEF Alike
    <3>2. Set(s, q)
      <4>1. CASE r.proc = "running"
            BY <2>s, <2>6, <4>1 DEF FlowSignals, Running, Is
      <4>2. CASE r.proc # "running"
        <5>1. sess' = sess
              BY <2>s, <2>6, <4>2 DEF FlowSignals, Running, Is
        <5> QED BY <5>1, <4>2, <2>4, <1>t DEF Set
      <4> QED BY <4>1, <4>2
    <3>3. \/ r.proc # "running" /\ FlowDone(u)
          \/ FlowGoes(u, IF h THEN "store" ELSE "touch")
          BY <2>s, <2>6 DEF FlowSignals, Running, Is
    <3>4. flow' \in [Callers -> FlowType] /\ holds' = holds
          BY <3>3, <2>2, <2>3, <2>4
    <3>5. Ticks /\ sess'[s] = q /\ \A t \in Creates \ {s} : sess'[t] = sess[t]
          BY <3>1, <3>2, <3>4, <2>4, <1>t, <1>h, OneTicks
    <3>6. ASSUME OneCaller, Clocked PROVE Clocked'
      <4>1. \A v \in Callers : \A t : ~Stopped(v, t)
            BY <3>0, <2>5, <3>6, SoleCaller
      <4>2. \/ r.proc # "running" /\ \A v \in Callers : flow'[v] = IdleFlow
            \/ /\ h
               /\ \A v \in Callers : flow'[v] = [at |-> "store", of |-> s, hold |-> TRUE]
            \/ ~h /\ \A v \in Callers : flow'[v] = [at |-> "touch", of |-> s, hold |-> FALSE]
            BY <3>3, <3>6, <2>o, <2>2, <2>3, <2>4
      <4>3. Touching'
            BY <4>2 DEF Touching, IdleFlow
      <4>4. ASSUME NEW t \in Creates, t # s PROVE Timed(t)'
            BY <3>5, <3>6, <4>1, <4>2, <4>4 DEF Clocked, Timed, Stopped, Signalled, Touched, IdleFlow
      <4>5. /\ Timely(r) /\ (r.suspended \/ ~Froze(r))
            BY <3>6, <4>1, <2>4 DEF Clocked, Timed
      <4>6. /\ q.suspended = r.suspended /\ q.wedged = r.wedged /\ q.still = r.still /\ q.proc = r.proc
            /\ r.proc = "running" => q.frozen = h
            BY <2>4 DEF SessionType
      <4> HIDE DEF q
      <4>7. /\ Timely(q)
            /\ Froze(q) => h /\ r.proc = "running"
            BY <4>5, <4>6 DEF Timely, Stands, Froze
      <4>8. \A v \in Callers : ~Touched(v, s)' /\ (Signalled(v, s)' => ~h)
            BY <4>2 DEF Touched, Signalled, IdleFlow
      <4>9. Froze(q) => Stopped(u, s)'
            BY <4>7, <4>2, <2>2 DEF Stopped, IdleFlow
      <4>10. Timed(s)'
            BY <3>5, <4>7, <4>8, <4>9 DEF Timed
      <4> QED BY <2>s, <4>3, <4>4, <4>10 DEF Clocked
    <3> QED BY <3>5, <3>6
  <2>7. CASE FlowTouches(u)
    <3> DEFINE q == [r EXCEPT !.still = FALSE]
    <3>0. flow[u].at = "touch" /\ FlowGoes(u, "store") /\ Set(s, q)
          BY <2>s, <2>7 DEF FlowTouches, FlowAt, Is
    <3>1. q \in SessionType /\ Alike(r, q)
          BY <2>4, FieldTypes, FieldsAlike
    <3>2. flow' \in [Callers -> FlowType] /\ holds' = holds
          /\ flow'[u] = [at |-> "store", of |-> s, hold |-> h]
          BY <3>0, <2>2
    <3>3. Ticks /\ sess'[s] = q /\ \A t \in Creates \ {s} : sess'[t] = sess[t]
          BY <3>0, <3>1, <3>2, <2>4, <1>t, <1>h, OneTicks
    <3>4. ASSUME OneCaller, Clocked PROVE Clocked'
      <4>1. ~h
            BY <3>0, <3>4, <2>s DEF Clocked, Touching
      <4>2. /\ \A v \in Callers : \A t : ~Stopped(v, t)
            /\ ~Froze(r)
            BY <3>0, <2>4, <2>5, <3>4, <4>1, SoleCaller DEF Clocked, Timed
      <4>3. \A v \in Callers : flow'[v] = [at |-> "store", of |-> s, hold |-> FALSE]
            BY <3>2, <3>4, <2>o, <4>1, <2>4
      <4>4. Touching'
            BY <4>3 DEF Touching
      <4>5. ASSUME NEW t \in Creates, t # s PROVE Timed(t)'
            BY <3>3, <3>4, <4>2, <4>3, <4>5 DEF Clocked, Timed, Stopped, Signalled, Touched
      <4>6. ~q.still /\ q.frozen = r.frozen /\ q.proc = r.proc
            BY <2>4 DEF SessionType
      <4> HIDE DEF q
      <4>7. Stands(q) /\ ~Froze(q)
            BY <4>2, <4>6 DEF Stands, Froze
      <4>8. Timed(s)'
            BY <3>3, <4>7 DEF Timed, Timely
      <4> QED BY <2>s, <4>4, <4>5, <4>8 DEF Clocked
    <3> QED BY <3>3, <3>4
  <2>8. CASE FlowStores(u)
    <3> DEFINE q == [r EXCEPT !.suspended = h]
    <3>0. flow[u].at = "store" /\ FlowDone(u) /\ Set(s, q)
          BY <2>s, <2>8 DEF FlowStores, FlowAt, Is
    <3>1. q \in SessionType /\ Alike(r, q)
          BY <2>4, FieldTypes, FieldsAlike
    <3>2. flow' \in [Callers -> FlowType] /\ holds' = holds /\ flow'[u] = IdleFlow
          BY <3>0, <2>3
    <3>3. Ticks /\ sess'[s] = q /\ \A t \in Creates \ {s} : sess'[t] = sess[t]
          BY <3>0, <3>1, <3>2, <2>4, <1>t, <1>h, OneTicks
    <3>4. ASSUME OneCaller, Clocked PROVE Clocked'
      <4>1. \A v \in Callers : flow'[v] = IdleFlow
            BY <3>2, <3>4, <2>o
      <4>2. /\ \A v \in Callers : \A t : t # s => ~Stopped(v, t)
            /\ ~h => ~Froze(r) /\ Stands(r)
            BY <3>0, <2>4, <2>5, <3>4, SoleCaller DEF Clocked, Timed
      <4>3. Touching'
            BY <4>1 DEF Touching, IdleFlow
      <4>4. \A v \in Callers : \A t : ~Signalled(v, t)' /\ ~Touched(v, t)'
            BY <4>1 DEF Signalled, Touched, IdleFlow
      <4>5. ASSUME NEW t \in Creates, t # s PROVE Timed(t)'
            BY <3>3, <3>4, <4>2, <4>4, <4>5 DEF Clocked, Timed
      <4>6. q.suspended = h /\ q.frozen = r.frozen /\ q.proc = r.proc /\ q.still = r.still
            /\ q.wedged = r.wedged
            BY <2>4 DEF SessionType
      <4> HIDE DEF q
      <4>7. q.suspended \/ (Stands(q) /\ ~Froze(q))
            BY <4>2, <4>6 DEF Stands, Froze
      <4>8. Timed(s)'
            BY <3>3, <4>4, <4>7 DEF Timed, Timely
      <4> QED BY <2>s, <4>3, <4>5, <4>8 DEF Clocked
    <3> QED BY <3>3, <3>4
  <2> QED BY <1>2, <2>6, <2>7, <2>8 DEF FlowGoesOn
<1> QED BY <1>1, <1>2 DEF FlowControl, Flow


-----------------------------------------------------------------------------
(* Every step of the specification.                                        *)

\* A step evolves the sessions or is one of the clock's.
LEMMA EveryStep ==
  ASSUME Base, [SessionNext]_sessionVars
  PROVE  /\ Base'
         /\ Evolve \/ (Ticks /\ (OneCaller /\ Clocked => Clocked'))
<1>1. ASSUME NEW c \in Creates, Arrive(c) \/ Serve(c) \/ Abandon(c) \/ Session(c) \/ ReapIdle(c)
      PROVE  /\ Base'
             /\ Evolve \/ (Ticks /\ (OneCaller /\ Clocked => Clocked'))
  <2>1. CASE Session(c) /\ ClockRuns(c)
    <3>1. Ticks /\ (Clocked => Clocked')
          BY <2>1, ClockTicks DEF Session
    <3> QED BY <3>1, TicksKeep
  <2>2. CASE ~(Session(c) /\ ClockRuns(c))
        BY <1>1, <2>2, OthersEvolve
  <2> QED BY <2>1, <2>2
<1>2. ASSUME NEW u \in Callers, FlowControl(u)
      PROVE  Base' /\ Ticks /\ (OneCaller /\ Clocked => Clocked')
      BY <1>2, FlowTicks, TicksKeep
<1>3. CASE UNCHANGED sessionVars
  <2>1. UNCHANGED <<ask, sess, flow, holds, step, doomed, requests, seen, answer>>
        BY <1>3 DEF sessionVars, producerVars, requestVars
  <2>2. flow' \in [Callers -> FlowType] /\ \E scene \in Scenes : holds' \in 0 .. scene.holds
        BY <2>1 DEF Base, ProducerTypeOK
  <2>3. UNCHANGED <<ask, sess, requestVars>>
        BY <2>1 DEF requestVars
  <2>4. Ticks
        BY <2>2, <2>3, NothingTicks
  <2>5. Clocked => Clocked'
        BY <2>1 DEF Clocked, Touching, Timed, Stopped, Signalled, Touched
  <2> QED BY <2>4, <2>5, TicksKeep
<1> QED BY <1>1, <1>2, <1>3 DEF SessionNext

\* The types of the creates and the sessions (transcode.rs, Session and
\* RequestLedger).
THEOREM SessionTypesHold == SessionSpec => []SessionTypeOK
<1>1. Base /\ [SessionNext]_sessionVars => Base'
      BY EveryStep
<1>2. Base => SessionTypeOK
      BY DEF Base, RequestTypes, SessionTypeOK
<1> QED BY BaseInit, <1>1, <1>2, PTL DEF SessionSpec

\* A retirement that is not cut in the middle leaves a copy or a software
\* session without an encoder for good: whoever would start another waits for
\* the gate, and under it sees that the session is retired
\* (transcode.rs:6853, retire_session; begin_copy_child_replacement).
THEOREM RetirementIsQuiet ==
  ASSUME "cut" \notin Faults
  PROVE  SessionSpec => []RetiredIsQuiet
<1> DEFINE AllSilent == \A s \in Creates : Silent(sess[s], Kind(s))
<1>1. SessionInit => AllSilent
      BY DEF SessionInit, ProducerInit, Silent, Fresh
<1>2. ASSUME Base, AllSilent, [SessionNext]_sessionVars PROVE AllSilent'
  <2>1. ask' = ask
        BY <1>2, EveryStep DEF Evolve, Ticks
  <2>2. ASSUME NEW s \in Creates PROVE Silent(sess'[s], Kind(s))
        BY <1>2, EveryStep, TicksKeep DEF Evolve, Evolves
  <2> QED BY <2>1, <2>2 DEF Kind
<1>3. AllSilent => RetiredIsQuiet
      BY DEF RetiredIsQuiet, Silent, Encodes, Running, Is
<1>4. Base /\ [SessionNext]_sessionVars => Base'
      BY EveryStep
<1> HIDE DEF AllSilent
<1> QED BY BaseInit, <1>1, <1>2, <1>3, <1>4, PTL DEF SessionSpec

\* With one run of the flow control at a time, every verdict is true: whoever
\* judges a producer holds the gate, under which nobody else may have killed
\* it, and a clock that stands still is that of a wedged encoder, because the
\* flow control restarts it before it drops the flag (transcode.rs:1341,
\* child_transition; apply_ahead_window).
THEOREM VerdictsHold ==
  ASSUME \A u, v \in Callers : u = v
  PROVE  SessionSpec => VerdictsAreTrue
<1> DEFINE AllJudged == \A s \in Creates : Judged(sess[s])
           AllJust == \A s \in Creates :
             Is(s).failure = "none" =>
               /\ sess'[s].failure = "exited" => Is(s).proc = "failed" \/ Is(s).ladder = "refusing"
               /\ sess'[s].failure = "stalled" => Is(s).wedged
<1>o. OneCaller
      BY DEF OneCaller
<1>1. SessionInit => AllJudged /\ Clocked
  <2> SUFFICES ASSUME SessionInit PROVE AllJudged /\ Clocked
      OBVIOUS
  <2>1. /\ \A s \in Creates : sess[s] = Fresh
        /\ \A u \in Callers : flow[u] = IdleFlow
        BY DEF SessionInit, ProducerInit
  <2>2. AllJudged
    <3>1. Judged(Fresh)
          BY DEF Judged, Fresh
    <3> QED BY <2>1, <3>1
  <2>3. \A u \in Callers : flow[u].at = "idle"
        BY <2>1 DEF IdleFlow
  <2>4. Touching /\ \A u \in Callers : \A s : ~Signalled(u, s) /\ ~Touched(u, s)
        BY <2>3 DEF Touching, Signalled, Touched
  <2>5. \A s \in Creates : Timely(sess[s]) /\ ~Froze(sess[s])
    <3>1. Timely(Fresh) /\ ~Froze(Fresh)
          BY DEF Timely, Stands, Froze, Fresh
    <3> QED BY <2>1, <3>1
  <2> QED BY <2>2, <2>4, <2>5 DEF Clocked, Timed
<1>2. ASSUME Base, AllJudged, Clocked, [SessionNext]_sessionVars
      PROVE  AllJudged' /\ Clocked' /\ AllJust
  <2>1. \A s \in Creates : Timely(sess[s])
        BY <1>2 DEF Clocked, Timed
  <2>2. Clocked'
        BY <1>2, <1>o, EveryStep, EvolveKeepsClock
  <2>3. ASSUME NEW s \in Creates PROVE Judged(sess'[s]) /\ Just(sess[s], sess'[s])
        BY <1>2, <2>1, EveryStep, TicksKeep DEF Evolve, Evolves
  <2> QED BY <2>2, <2>3 DEF Just, Is
<1>3. Base /\ [SessionNext]_sessionVars => Base'
      BY EveryStep
<1>4. Base /\ AllJudged /\ Clocked /\ [SessionNext]_sessionVars => [AllJust]_sessionVars
      BY <1>2
<1>5. VerdictsAreTrue <=> [][AllJust]_sessionVars
      BY PTL DEF VerdictsAreTrue
<1> HIDE DEF AllJudged, AllJust
<1> QED BY BaseInit, <1>1, <1>2, <1>3, <1>4, <1>5, PTL DEF SessionSpec

-----------------------------------------------------------------------------
(* The request ids.                                                        *)

\* A create that made a session and completed its request id.
Mine(d) == Keyed(d) /\ step[d] = "done" /\ answer[d] = d
Made(d) == Mine(d) \/ step[d] \in {"inserted", "record", "complete"}
Serves(d) == Live(d) /\ Is(d).failure = "none"

\* What the table says is so, for a create that works with an id, for an id
\* that has a session, and for a create that was told of one.
Booked(c) == Claims(c) => Entry(c) = [state |-> "inflight", by |-> c]
Finished == \A k \in Keys, d \in Creates :
              requests[k] = [state |-> "ready", by |-> d] => Mine(d) /\ Key(d) = k
Found(c) == step[c] \in {"recover", "forget"} =>
              \E d \in Creates : answer[c] = d /\ Mine(d) /\ (step[c] = "forget" => ~Serves(d))
Completes(c) == step[c] = "complete" => Keyed(c) /\ answer[c] = c
Placed(c) == Made(c) => sess[c].place \in {"live", "retired"}

Ledger == /\ \A c \in Creates : Booked(c) /\ Found(c) /\ Completes(c) /\ Placed(c)
          /\ Finished

\* No session that serves a finished create is missing in the table, nor in
\* the list by which a create is about to forget entries.
Remembers ==
  /\ \A d \in Creates : Mine(d) /\ Serves(d) => Entry(d) = [state |-> "ready", by |-> d]
  /\ \A c, d \in Creates : step[c] = "complete" /\ Mine(d) /\ Serves(d) => d \in seen[c]

\* No two creates are between reading the live sessions and completing.
CompleteApart ==
  \A c, d \in Creates : step[c] = "complete" /\ step[d] = "complete" => c = d

\* What every step of create c leaves to the others.
StepOf(c) ==
  /\ Base /\ ask' = ask /\ step[c] \notin Ends
  /\ \A s \in Creates : Lasts(sess[s], sess'[s])
  /\ \A d \in Creates \ {c} : step'[d] = step[d] /\ answer'[d] = answer[d] /\ seen'[d] = seen[d]

\* A registered session that does not serve will not serve again.
LEMMA ServesNoMore ==
  ASSUME NEW d \in Creates, Lasts(sess[d], sess'[d]), sess[d].place \in {"live", "retired"}
  PROVE  /\ Serves(d)' => Serves(d)
         /\ sess'[d].place \in {"live", "retired"}
BY DEF Lasts, Serves, Live, Is

\* The request id of a create that has one.
LEMMA KeyTypes ==
  ASSUME ProducerTypeOK, NEW c \in Creates, Keyed(c)
  PROVE  Key(c) \in Keys
<1>1. ask[c] # NotMade
      BY DEF Keyed
<1>2. ask[c] \in Ask
      BY <1>1, AskTypes
<1> QED BY <1>2 DEF Ask, Keyed, Key

\* Of the other creates, and of the finished ones.
LEMMA Frame ==
  ASSUME NEW c \in Creates, Ledger, StepOf(c)
  PROVE  /\ \A d \in Creates : Mine(d) => d # c /\ Mine(d)' /\ (Serves(d)' => Serves(d))
         /\ \A d \in Creates \ {c} : /\ Mine(d)' <=> Mine(d)
                                     /\ Claims(d)' <=> Claims(d)
                                     /\ Found(d)' /\ Completes(d)' /\ Placed(d)'
<1>k. \A d : (Keyed(d)' <=> Keyed(d)) /\ Key(d)' = Key(d)
      BY DEF StepOf, Keyed, Key
<1>1. ASSUME NEW d \in Creates, Mine(d)
      PROVE  d # c /\ Mine(d)' /\ (Serves(d)' => Serves(d))
  <2>1. d # c
        BY <1>1 DEF StepOf, Mine, Ends
  <2>2. Mine(d)'
        BY <1>1, <1>k, <2>1 DEF StepOf, Mine
  <2>3. sess[d].place \in {"live", "retired"}
        BY <1>1 DEF Ledger, Placed, Made
  <2> QED BY <2>1, <2>2, <2>3, ServesNoMore DEF StepOf
<1>2. ASSUME NEW d \in Creates \ {c}
      PROVE  /\ Mine(d)' <=> Mine(d)
             /\ Claims(d)' <=> Claims(d)
             /\ Found(d)' /\ Completes(d)' /\ Placed(d)'
  <2>1. step'[d] = step[d] /\ answer'[d] = answer[d]
        BY DEF StepOf
  <2>2. Mine(d)' <=> Mine(d)
        BY <2>1, <1>k DEF Mine
  <2>3. Claims(d)' <=> Claims(d)
        BY <2>1, <1>k DEF Claims, Works
  <2>4. Found(d)'
    <3>1. SUFFICES ASSUME step[d] \in {"recover", "forget"} PROVE Found(d)'
          BY <2>1 DEF Found
    <3>2. PICK e \in Creates : answer[d] = e /\ Mine(e) /\ (step[d] = "forget" => ~Serves(e))
          BY <3>1 DEF Ledger, Found
    <3>3. Mine(e)' /\ (step[d] = "forget" => ~Serves(e)')
          BY <3>2, <1>1
    <3> QED BY <2>1, <3>2, <3>3 DEF Found
  <2>5. Completes(d)'
        BY <2>1, <1>k DEF Ledger, Completes
  <2>6. Placed(d)'
    <3>1. Made(d)' <=> Made(d)
          BY <2>1, <2>2 DEF Made
    <3> QED BY <3>1, ServesNoMore DEF Ledger, Placed, StepOf
  <2> QED BY <2>2, <2>3, <2>4, <2>5, <2>6
<1> QED BY <1>1, <1>2

\* What a step of create c may do to an entry.
Leaves(k) == requests'[k] = requests[k]
GivesUp(c, k) == k = Key(c) /\ Claims(c) /\ ~Claims(c)' /\ requests'[k] = Unused
Reserves(c, k) == /\ k = Key(c) /\ Claims(c)' /\ ~Claims(c) /\ requests[k] = Unused
                  /\ requests'[k] = [state |-> "inflight", by |-> c]
Forgets(k) == /\ requests'[k] = Unused
              /\ \E d \in Creates : requests[k] = [state |-> "ready", by |-> d]
Fulfils(c, k) == /\ k = Key(c) /\ Claims(c) /\ ~Claims(c)' /\ Mine(c)'
                 /\ requests'[k] = [state |-> "ready", by |-> c]

\* The others leave the entry of a create at work to it, and drop the entry
\* of a finished one only when they say so.
LEMMA EntriesStay ==
  ASSUME NEW c \in Creates, Ledger, StepOf(c),
         \A k \in Keys : Leaves(k) \/ GivesUp(c, k) \/ Reserves(c, k) \/ Forgets(k) \/ Fulfils(c, k)
  PROVE  /\ \A d \in Creates \ {c} : Booked(d)'
         /\ Finished'
         /\ \A d \in Creates :
              Mine(d) /\ Entry(d) = [state |-> "ready", by |-> d] /\ ~Forgets(Key(d))
                => Entry(d)' = [state |-> "ready", by |-> d]
<1>p. ProducerTypeOK
      BY DEF StepOf, Base
<1>k. \A d : Key(d)' = Key(d)
      BY DEF StepOf, Key
<1>c. Claims(c) => requests[Key(c)] = [state |-> "inflight", by |-> c]
      BY DEF Ledger, Booked, Entry
<1>1. ASSUME NEW d \in Creates \ {c} PROVE Booked(d)'
  <2>1. SUFFICES ASSUME Claims(d) PROVE requests'[Key(d)] = [state |-> "inflight", by |-> d]
        BY Frame, <1>k DEF Booked, Entry
  <2>2. requests[Key(d)] = [state |-> "inflight", by |-> d]
        BY <2>1 DEF Ledger, Booked, Entry
  <2>3. Key(d) \in Keys
        BY <2>1, <1>p, KeyTypes DEF Claims
  <2>4. ~GivesUp(c, Key(d)) /\ ~Fulfils(c, Key(d))
    <3>1. Claims(c) /\ Key(d) = Key(c) => d = c
      <4>1. [state |-> "inflight", by |-> c] = [state |-> "inflight", by |-> d] => c = d
            OBVIOUS
      <4> QED BY <4>1, <2>2, <1>c
    <3> QED BY <3>1 DEF GivesUp, Fulfils
  <2>5. requests[Key(d)].state = "inflight"
        BY <2>2
  <2>6. ~Reserves(c, Key(d)) /\ ~Forgets(Key(d))
    <3>1. requests[Key(d)] # Unused
          BY <2>5 DEF Unused
    <3>2. ASSUME NEW e, requests[Key(d)] = [state |-> "ready", by |-> e] PROVE FALSE
          BY <2>5, <3>2
    <3> QED BY <3>1, <3>2 DEF Reserves, Forgets
  <2> QED BY <2>2, <2>3, <2>4, <2>6 DEF Leaves
<1>2. Finished'
  <2>1. SUFFICES ASSUME NEW k \in Keys, NEW d \in Creates,
                        requests'[k] = [state |-> "ready", by |-> d]
                 PROVE  Mine(d)' /\ Key(d)' = k
        BY DEF Finished
  <2>2. requests'[k].state = "ready" /\ requests'[k].by = d
        BY <2>1
  <2>3. ~GivesUp(c, k) /\ ~Reserves(c, k) /\ ~Forgets(k)
        BY <2>2 DEF GivesUp, Reserves, Forgets, Unused
  <2>4. CASE Leaves(k)
    <3>1. Mine(d) /\ Key(d) = k
          BY <2>1, <2>4 DEF Leaves, Ledger, Finished
    <3> QED BY <3>1, <1>k, Frame
  <2>5. CASE Fulfils(c, k)
    <3>1. d = c
          BY <2>2, <2>5 DEF Fulfils
    <3> QED BY <3>1, <2>5, <1>k DEF Fulfils
  <2> QED BY <2>3, <2>4, <2>5
<1>3. ASSUME NEW d \in Creates, Mine(d), Entry(d) = [state |-> "ready", by |-> d],
             ~Forgets(Key(d))
      PROVE  Entry(d)' = [state |-> "ready", by |-> d]
  <2>1. Key(d) \in Keys /\ requests[Key(d)].state = "ready"
        BY <1>3, <1>p, KeyTypes DEF Mine, Entry
  <2>2. ~(Key(d) = Key(c) /\ Claims(c))
        BY <2>1, <1>c
  <2>3. ~Reserves(c, Key(d))
        BY <2>1 DEF Reserves, Unused
  <2>4. Leaves(Key(d))
        BY <1>3, <2>1, <2>2, <2>3 DEF GivesUp, Fulfils
  <2> QED BY <1>3, <2>4, <1>k DEF Entry, Leaves
<1> QED BY <1>1, <1>2, <1>3

\* What a step of create c has to show of c for the rest to follow.
Own(c) ==
  /\ Booked(c)' /\ Found(c)' /\ Completes(c)' /\ Placed(c)'
  /\ \A k \in Keys : Leaves(k) \/ GivesUp(c, k) \/ Reserves(c, k) \/ Forgets(k) \/ Fulfils(c, k)
  /\ Remembers => \A d \in Creates : Mine(d) /\ Serves(d) => ~Forgets(Key(d))
  /\ Mine(c)' => step[c] = "complete" /\ Entry(c)' = [state |-> "ready", by |-> c]
  /\ step'[c] = "complete" => seen'[c] = {s \in Creates : Live(s)}

\* What it shows is enough, for what the table remembers while completions are apart.
LEMMA OwnKeeps ==
  ASSUME NEW c \in Creates, Ledger, StepOf(c), Own(c)
  PROVE  Ledger' /\ (Remembers /\ CompleteApart => Remembers')
<1>e. \A k \in Keys : Leaves(k) \/ GivesUp(c, k) \/ Reserves(c, k) \/ Forgets(k) \/ Fulfils(c, k)
      BY DEF Own
<1>1. Ledger'
  <2>1. Finished' /\ \A d \in Creates \ {c} : Booked(d)'
        BY <1>e, EntriesStay
  <2>2. \A d \in Creates \ {c} : Found(d)' /\ Completes(d)' /\ Placed(d)'
        BY Frame
  <2>3. Booked(c)' /\ Found(c)' /\ Completes(c)' /\ Placed(c)'
        BY DEF Own
  <2> QED BY <2>1, <2>2, <2>3 DEF Ledger
<1>2. ASSUME Remembers, CompleteApart PROVE Remembers'
  <2>1. ASSUME NEW d \in Creates, d # c, Mine(d)', Serves(d)'
        PROVE  Mine(d) /\ Serves(d)
        BY <2>1, Frame
  <2>2. ASSUME NEW d \in Creates, Mine(d)', Serves(d)'
        PROVE  Entry(d)' = [state |-> "ready", by |-> d]
    <3>1. CASE d = c
          BY <2>2, <3>1 DEF Own
    <3>2. CASE d # c
      <4>1. Mine(d) /\ Serves(d)
            BY <2>1, <2>2, <3>2
      <4>2. Entry(d) = [state |-> "ready", by |-> d] /\ ~Forgets(Key(d))
            BY <4>1, <1>2 DEF Remembers, Own
      <4> QED BY <4>1, <4>2, <1>e, EntriesStay
    <3> QED BY <3>1, <3>2
  <2>3. ASSUME NEW e \in Creates, NEW d \in Creates, step'[e] = "complete", Mine(d)', Serves(d)'
        PROVE  d \in seen'[e]
    <3>1. CASE d = c
      <4>1. step[c] = "complete" /\ step'[c] = "done"
            BY <2>3, <3>1 DEF Own, Mine
      <4>2. e # c
            BY <2>3, <4>1
      <4>3. step[e] = "complete"
            BY <2>3, <4>2 DEF StepOf
      <4> QED BY <4>1, <4>2, <4>3, <1>2 DEF CompleteApart
    <3>2. CASE d # c /\ e = c
      <4>1. Serves(d)
            BY <2>1, <2>3, <3>2
      <4> QED BY <2>3, <3>2, <4>1 DEF Own, Serves
    <3>3. CASE d # c /\ e # c
      <4>1. step[e] = "complete" /\ seen'[e] = seen[e]
            BY <2>3, <3>3 DEF StepOf
      <4>2. Mine(d) /\ Serves(d)
            BY <2>1, <2>3, <3>3
      <4> QED BY <4>1, <4>2, <1>2 DEF Remembers
    <3> QED BY <3>1, <3>2, <3>3
  <2> QED BY <2>2, <2>3 DEF Remembers
<1> QED BY <1>1, <1>2

\* Nothing is forgotten where an entry stays, is given up or is reserved.
LEMMA NothingForgotten ==
  ASSUME NEW c \in Creates, Ledger, NEW k \in Keys,
         Leaves(k) \/ GivesUp(c, k) \/ Reserves(c, k)
  PROVE  ~Forgets(k)
<1>1. SUFFICES ASSUME NEW d \in Creates, requests[k] = [state |-> "ready", by |-> d],
                      requests'[k] = Unused
               PROVE  FALSE
      BY DEF Forgets
<1>2. requests[k].state = "ready" /\ requests'[k].state = "unused"
      BY <1>1 DEF Unused
<1>3. ~Leaves(k)
      BY <1>2 DEF Leaves
<1>4. ~Reserves(c, k)
      BY <1>2 DEF Reserves
<1>5. ASSUME GivesUp(c, k) PROVE FALSE
  <2>1. requests[k] = [state |-> "inflight", by |-> c]
        BY <1>5 DEF GivesUp, Ledger, Booked, Entry
  <2> QED BY <2>1, <1>2
<1> QED BY <1>3, <1>4, <1>5

\* Most steps only move a create on, reserve, or give up what it reserved.
Passes(c) ==
  /\ \A k \in Keys : Leaves(k) \/ GivesUp(c, k) \/ Reserves(c, k)
  /\ step'[c] \notin {"recover", "forget", "complete", "done"}
  /\ Claims(c)' => (Claims(c) /\ Leaves(Key(c))) \/ Reserves(c, Key(c))
  /\ step'[c] \in {"inserted", "record"} => sess'[c].place \in {"live", "retired"}

\* Such a step shows what it has to.
LEMMA PassesOwn ==
  ASSUME NEW c \in Creates, Ledger, StepOf(c), Passes(c)
  PROVE  Own(c)
<1>1. Booked(c)'
  <2>1. Key(c)' = Key(c)
        BY DEF StepOf, Key
  <2>2. SUFFICES ASSUME Claims(c)' PROVE requests'[Key(c)] = [state |-> "inflight", by |-> c]
        BY <2>1 DEF Booked, Entry
  <2>3. CASE Claims(c) /\ Leaves(Key(c))
        BY <2>3 DEF Ledger, Booked, Entry, Leaves
  <2>4. CASE Reserves(c, Key(c))
        BY <2>4 DEF Reserves
  <2> QED BY <2>2, <2>3, <2>4 DEF Passes
<1>2. ~Mine(c)' /\ Found(c)' /\ Completes(c)'
      BY DEF Passes, Mine, Found, Completes
<1>3. Placed(c)'
      BY <1>2 DEF Passes, Placed, Made
<1>4. \A d \in Creates : Mine(d) => ~Forgets(Key(d))
  <2>1. SUFFICES ASSUME NEW d \in Creates, Mine(d) PROVE ~Forgets(Key(d))
        OBVIOUS
  <2>2. Key(d) \in Keys
        BY <2>1, KeyTypes DEF Mine, StepOf, Base
  <2> QED BY <2>2, NothingForgotten DEF Passes
<1> QED BY <1>1, <1>2, <1>3, <1>4 DEF Own, Passes

\* A drop gives up the create's reservation, or there is none.
LEMMA DropGives ==
  ASSUME NEW c \in Creates, RequestTypes, Drop(c), ~Claims(c)'
  PROVE  \A k \in Keys : Leaves(k) \/ GivesUp(c, k)
BY DEF Drop, Put, RequestTypes, Leaves, GivesUp

\* A step of a create writes only what is its own.
LEMMA OnlyOwn ==
  ASSUME NEW c \in Creates, Base, Evolve, step[c] \notin Ends,
         UNCHANGED step \/ \E to : step' = [step EXCEPT ![c] = to],
         UNCHANGED answer \/ \E a : answer' = [answer EXCEPT ![c] = a],
         UNCHANGED seen \/ \E a : seen' = [seen EXCEPT ![c] = a]
  PROVE  StepOf(c)
<1>1. /\ step \in [Creates -> Steps \cup Ends] /\ seen \in [Creates -> SUBSET Creates]
      /\ answer \in [Creates -> Creates \cup {NoSession}]
      BY DEF Base, RequestTypes
<1>2. ASSUME NEW d \in Creates \ {c}
      PROVE  step'[d] = step[d] /\ answer'[d] = answer[d] /\ seen'[d] = seen[d]
      BY <1>1
<1>3. ask' = ask /\ \A s \in Creates : Lasts(sess[s], sess'[s])
      BY DEF Evolve, Evolves
<1> QED BY <1>2, <1>3 DEF StepOf

\* A step that touches no entry.
LEMMA MovesPass ==
  ASSUME NEW c \in Creates, StepOf(c), UNCHANGED requests,
         step'[c] \notin {"recover", "forget", "complete", "done"},
         Works(c)' => Works(c) \/ ~Keyed(c),
         step'[c] \in {"inserted", "record"} => sess'[c].place \in {"live", "retired"}
  PROVE  Passes(c)
<1>1. Keyed(c)' <=> Keyed(c)
      BY DEF StepOf, Keyed, Key
<1> QED BY <1>1 DEF Passes, Leaves, Claims

\* A step that ends a create without a session.
LEMMA DropsPass ==
  ASSUME NEW c \in Creates, StepOf(c), Drop(c), step'[c] \in {"refused", "gone"}
  PROVE  Passes(c)
<1>1. ~Claims(c)'
      BY DEF Claims, Works
<1>2. \A k \in Keys : Leaves(k) \/ GivesUp(c, k)
      BY <1>1, DropGives DEF StepOf, Base
<1> QED BY <1>1, <1>2 DEF Passes

\* The steps of a create that touch no entry but to drop it.
LEMMA CreatePasses ==
  ASSUME NEW c \in Creates, Base, Ledger, Evolve,
         \/ Arrive(c) \/ RefuseConflict(c) \/ Normalize(c) \/ Reap(c) \/ RetireBegins(c) \/ Retired(c)
         \/ AllRetired(c) \/ Refuse(c) \/ SpawnProducer(c) \/ Insert(c) \/ SpawnTasks(c)
         \/ ServeCached(c) \/ Abandon(c)
  PROVE  StepOf(c) /\ Passes(c)
<1>t. /\ step \in [Creates -> Steps \cup Ends] /\ sess \in [Creates -> SessionType]
      BY DEF Base, RequestTypes, ProducerTypeOK
<1>r. sess[c] \in SessionType
      BY <1>t
<1> USE DEF Goes
<1>1. CASE Arrive(c)
  <2>1. /\ UNCHANGED <<requests, answer, seen>> /\ step[c] = "idle"
        /\ step' = [step EXCEPT ![c] = IF Keyed(c) THEN "claim" ELSE "reap"]
        BY <1>1 DEF Arrive, Only
  <2>2. StepOf(c)
        BY <2>1, OnlyOwn DEF Ends
  <2> QED BY <2>1, <2>2, <1>t, MovesPass DEF Works
<1>2. CASE RefuseConflict(c)
  <2>1. /\ UNCHANGED <<requests, answer, seen>> /\ step[c] = "claim"
        /\ step' = [step EXCEPT ![c] = "refused"]
        BY <1>2 DEF RefuseConflict, Only
  <2>2. StepOf(c)
        BY <2>1, OnlyOwn DEF Ends
  <2> QED BY <2>1, <2>2, <1>t, MovesPass DEF Works
<1>3. CASE Normalize(c)
  <2>1. /\ UNCHANGED <<answer, seen>> /\ step[c] = "normalize"
        /\ \/ step' = [step EXCEPT ![c] = "reap"] /\ UNCHANGED requests
           \/ step' = [step EXCEPT ![c] = "refused"] /\ Drop(c)
        BY <1>3 DEF Normalize, Only
  <2>2. StepOf(c)
        BY <2>1, OnlyOwn DEF Ends
  <2> QED BY <2>1, <2>2, <1>t, MovesPass, DropsPass DEF Works
<1>4. CASE Reap(c) \/ AllRetired(c)
  <2>1. /\ UNCHANGED <<requests, answer, seen>> /\ step[c] \in {"reap", "retire"}
        /\ step' = [step EXCEPT ![c] = "retire"] \/ step' = [step EXCEPT ![c] = "start"]
        BY <1>4 DEF Reap, AllRetired, Only
  <2>2. StepOf(c)
        BY <2>1, OnlyOwn DEF Ends
  <2> QED BY <2>1, <2>2, <1>t, MovesPass DEF Works
<1>5. CASE RetireBegins(c) \/ Retired(c)
  <2>1. UNCHANGED <<requests, answer, seen, step>> /\ step[c] = "retire"
        BY <1>5 DEF RetireBegins, Retired, requestVars
  <2>2. StepOf(c)
        BY <2>1, OnlyOwn DEF Ends
  <2> QED BY <2>1, <2>2, <1>t, MovesPass DEF Works
<1>6. CASE Refuse(c)
  <2>1. /\ UNCHANGED <<answer, seen>> /\ step[c] = "start" /\ Drop(c)
        /\ step' = [step EXCEPT ![c] = "refused"]
        BY <1>6 DEF Refuse, Only
  <2>2. StepOf(c)
        BY <2>1, OnlyOwn DEF Ends
  <2> QED BY <2>1, <2>2, <1>t, DropsPass
<1>7. CASE SpawnProducer(c)
  <2>1. /\ UNCHANGED <<requests, answer, seen>> /\ step[c] = "start"
        /\ step' = [step EXCEPT ![c] = "spawned"]
        BY <1>7 DEF SpawnProducer
  <2>2. StepOf(c)
        BY <2>1, OnlyOwn DEF Ends
  <2> QED BY <2>1, <2>2, <1>t, MovesPass DEF Works
<1>8. CASE Insert(c)
  <2>1. /\ UNCHANGED <<requests, answer, seen>> /\ step[c] = "spawned"
        /\ step' = [step EXCEPT ![c] = "inserted"]
        BY <1>8 DEF Insert
  <2>2. sess'[c].place = "live"
        BY <1>8, <1>t, <1>r DEF Insert, Set, Is, SessionType
  <2>3. StepOf(c)
        BY <2>1, OnlyOwn DEF Ends
  <2> QED BY <2>1, <2>2, <2>3, <1>t, MovesPass DEF Works
<1>9. CASE SpawnTasks(c)
  <2>1. /\ UNCHANGED <<requests, answer, seen>> /\ step[c] = "inserted"
        /\ step' = [step EXCEPT ![c] = "record"]
        BY <1>9 DEF SpawnTasks
  <2>2. StepOf(c)
        BY <2>1, OnlyOwn DEF Ends
  <2>3. sess'[c].place \in {"live", "retired"}
        BY <2>1, <2>2 DEF StepOf, Lasts, Ledger, Placed, Made
  <2> QED BY <2>1, <2>2, <2>3, <1>t, MovesPass DEF Works
<1>10. CASE ServeCached(c)
  <2>1. /\ UNCHANGED <<requests, answer, seen>> /\ step[c] = "start"
        /\ step' = [step EXCEPT ![c] = "record"]
        BY <1>10 DEF ServeCached
  <2>2. sess'[c].place = "live"
        BY <1>10, <1>t, <1>r DEF ServeCached, Set, Is, SessionType
  <2>3. StepOf(c)
        BY <2>1, OnlyOwn DEF Ends
  <2> QED BY <2>1, <2>2, <2>3, <1>t, MovesPass DEF Works
<1>11. CASE Abandon(c)
  <2>1. /\ step' = [step EXCEPT ![c] = "gone"] /\ seen' = [seen EXCEPT ![c] = {}]
        /\ answer' = [answer EXCEPT ![c] = NoSession] /\ Drop(c) /\ step[c] \notin Ends
        BY <1>11 DEF Abandon
  <2>2. StepOf(c)
        BY <2>1, OnlyOwn
  <2> QED BY <2>1, <2>2, <1>t, DropsPass
<1> QED BY <1>1, <1>2, <1>3, <1>4, <1>5, <1>6, <1>7, <1>8, <1>9, <1>10, <1>11

\* A reservation is put where nothing is.
LEMMA ReserveOwns ==
  ASSUME NEW c \in Creates, Base, Ledger, Evolve, Reserve(c)
  PROVE  StepOf(c) /\ Own(c)
<1>t. /\ step \in [Creates -> Steps \cup Ends] /\ requests \in [Keys -> EntryType]
      BY DEF Base, RequestTypes
<1>1. /\ UNCHANGED <<answer, seen>> /\ step[c] = "claim" /\ Entry(c) = Unused
      /\ step' = [step EXCEPT ![c] = "normalize"]
      /\ requests' = [requests EXCEPT ![Key(c)] = [state |-> "inflight", by |-> c]]
      BY DEF Reserve, Goes, Only, Put
<1>2. StepOf(c)
      BY <1>1, OnlyOwn DEF Ends
<1>3. Keyed(c) /\ Key(c) \in Keys
      BY <1>1, KeyTypes DEF Base, Asked
<1>4. Keyed(c)'
      BY <1>2, <1>3 DEF StepOf, Keyed, Key
<1>5. Claims(c)' /\ ~Claims(c)
      BY <1>1, <1>4, <1>t DEF Claims, Works
<1>6. \A k \in Keys : Leaves(k) \/ Reserves(c, k)
      BY <1>1, <1>5, <1>t DEF Leaves, Reserves, Entry
<1>7. Reserves(c, Key(c))
      BY <1>1, <1>3, <1>5, <1>t DEF Reserves, Entry
<1>8. Passes(c)
      BY <1>1, <1>6, <1>7, <1>t DEF Passes
<1> QED BY <1>2, <1>8, PassesOwn

\* A repeat is told of a session, and looks it up.
LEMMA RecoverOwns ==
  ASSUME NEW c \in Creates, Base, Ledger, Evolve, Recover(c) \/ LookUp(c)
  PROVE  StepOf(c) /\ Own(c)
<1>t. /\ step \in [Creates -> Steps \cup Ends] /\ requests \in [Keys -> EntryType]
      /\ answer \in [Creates -> Creates \cup {NoSession}]
      BY DEF Base, RequestTypes
<1>1. /\ UNCHANGED <<requests, seen>> /\ step[c] \in {"claim", "recover"}
      /\ \E to : step' = [step EXCEPT ![c] = to]
      /\ UNCHANGED answer \/ \E a : answer' = [answer EXCEPT ![c] = a]
      BY DEF Recover, LookUp, Goes, Only
<1>2. StepOf(c)
      BY <1>1, OnlyOwn DEF Ends
<1>3. step'[c] \in {"recover", "done", "forget"}
      BY <1>t DEF Recover, LookUp, Goes
<1>4. \A k \in Keys : Leaves(k)
      BY <1>1 DEF Leaves
<1>5. Booked(c)' /\ Completes(c)'
      BY <1>3 DEF Booked, Claims, Works, Completes
<1>6. \E d \in Creates : /\ answer'[c] = d /\ Mine(d)
                         /\ step'[c] = "forget" => ~Serves(d)
  <2>1. CASE Recover(c)
    <3>1. /\ step[c] = "claim" /\ step' = [step EXCEPT ![c] = "recover"]
          /\ answer' = [answer EXCEPT ![c] = Entry(c).by] /\ Entry(c).state = "ready"
          BY <2>1 DEF Recover, Goes
    <3>2. Keyed(c) /\ Key(c) \in Keys
          BY <3>1, KeyTypes DEF Base, Asked
    <3>3. PICK d \in Creates : Entry(c) = [state |-> "ready", by |-> d]
      <4>1. Entry(c) \in EntryType
            BY <3>2, <1>t DEF Entry
      <4> QED BY <4>1, <3>1 DEF EntryType, Unused
    <3>4. Mine(d)
          BY <3>2, <3>3 DEF Ledger, Finished, Entry
    <3> QED BY <3>1, <3>3, <3>4, <1>t
  <2>2. CASE LookUp(c)
    <3>1. /\ step[c] = "recover" /\ UNCHANGED answer
          /\ step' = [step EXCEPT ![c] = IF Serves(answer[c]) THEN "done" ELSE "forget"]
          BY <2>2 DEF LookUp, Goes, Only, Serves
    <3>2. PICK d \in Creates : answer[c] = d /\ Mine(d)
          BY <3>1 DEF Ledger, Found
    <3> QED BY <3>1, <3>2, <1>t
  <2> QED BY <2>1, <2>2
<1>7. PICK d \in Creates : answer'[c] = d /\ Mine(d) /\ (step'[c] = "forget" => ~Serves(d))
      BY <1>6
<1>8. d # c /\ Mine(d)' /\ (Serves(d)' => Serves(d))
      BY <1>2, <1>7, Frame
<1>9. Found(c)'
      BY <1>7, <1>8 DEF Found
<1>10. ~Mine(c)' /\ Placed(c)'
      BY <1>3, <1>7, <1>8 DEF Mine, Placed, Made
<1>11. \A e \in Creates : Mine(e) => ~Forgets(Key(e))
  <2>1. SUFFICES ASSUME NEW e \in Creates, Mine(e) PROVE ~Forgets(Key(e))
        OBVIOUS
  <2>2. Key(e) \in Keys
        BY <2>1, KeyTypes DEF Mine, Base
  <2> QED BY <2>2, <1>4, NothingForgotten
<1> QED BY <1>2, <1>3, <1>4, <1>5, <1>9, <1>10, <1>11 DEF Own

\* A stale entry is forgotten only when its session does not serve.
LEMMA ForgetOwns ==
  ASSUME NEW c \in Creates, Base, Ledger, Evolve, Forget(c)
  PROVE  StepOf(c) /\ Own(c)
<1>t. /\ step \in [Creates -> Steps \cup Ends] /\ requests \in [Keys -> EntryType]
      BY DEF Base, RequestTypes
<1>1. /\ UNCHANGED seen /\ step[c] = "forget" /\ step' = [step EXCEPT ![c] = "claim"]
      /\ answer' = [answer EXCEPT ![c] = NoSession]
      BY DEF Forget, Goes
<1>2. StepOf(c)
      BY <1>1, OnlyOwn DEF Ends
<1>3. PICK d \in Creates : answer[c] = d /\ Mine(d) /\ ~Serves(d)
      BY <1>1 DEF Ledger, Found
<1>4. \/ /\ requests[Key(c)] = [state |-> "ready", by |-> d]
         /\ requests' = [requests EXCEPT ![Key(c)] = Unused]
      \/ UNCHANGED requests
      BY <1>3 DEF Forget, Entry, Put
<1>5. step'[c] = "claim"
      BY <1>1, <1>t
<1>6. Booked(c)' /\ Found(c)' /\ Completes(c)' /\ Placed(c)' /\ ~Mine(c)'
      BY <1>5 DEF Booked, Claims, Works, Found, Completes, Placed, Made, Mine
<1>7. ASSUME NEW k \in Keys PROVE Leaves(k) \/ Forgets(k)
      BY <1>4, <1>t DEF Leaves, Forgets
<1>8. ASSUME Remembers, NEW e \in Creates, Mine(e), Serves(e) PROVE ~Forgets(Key(e))
  <2>1. requests[Key(e)] = [state |-> "ready", by |-> e] /\ Key(e) \in Keys
        BY <1>8, KeyTypes DEF Remembers, Entry, Mine, Base
  <2>2. e # d
        BY <1>3, <1>8
  <2>3. requests[Key(e)] # [state |-> "ready", by |-> d]
    <3>1. requests[Key(e)].by = e
          BY <2>1
    <3> QED BY <3>1, <2>2
  <2>4. Leaves(Key(e))
        BY <1>4, <1>t, <2>1, <2>3 DEF Leaves
  <2> QED BY <2>1, <2>4, NothingForgotten
<1> QED BY <1>2, <1>5, <1>6, <1>7, <1>8 DEF Own

\* The live sessions are read.
LEMMA RecordOwns ==
  ASSUME NEW c \in Creates, Base, Ledger, Evolve, Record(c)
  PROVE  StepOf(c) /\ Own(c)
<1>t. /\ step \in [Creates -> Steps \cup Ends] /\ seen \in [Creates -> SUBSET Creates]
      /\ answer \in [Creates -> Creates \cup {NoSession}]
      BY DEF Base, RequestTypes
<1>1. /\ UNCHANGED requests /\ step[c] = "record" /\ answer' = [answer EXCEPT ![c] = c]
      /\ step' = [step EXCEPT ![c] = IF Keyed(c) THEN "complete" ELSE "done"]
      /\ seen' = [seen EXCEPT ![c] = IF Keyed(c) THEN {s \in Creates : Live(s)} ELSE {}]
      BY DEF Record, Goes
<1>2. StepOf(c)
      BY <1>1, OnlyOwn DEF Ends
<1>3. (Keyed(c)' <=> Keyed(c)) /\ Key(c)' = Key(c)
      BY <1>2 DEF StepOf, Keyed, Key
<1>4. /\ answer'[c] = c
      /\ Keyed(c) => step'[c] = "complete" /\ seen'[c] = {s \in Creates : Live(s)}
      /\ ~Keyed(c) => step'[c] = "done"
      BY <1>1, <1>t
<1>5. Booked(c)'
  <2>1. SUFFICES ASSUME Keyed(c) PROVE Booked(c)'
        BY <1>3 DEF Booked, Claims
  <2>2. Claims(c)
        BY <1>1, <2>1 DEF Claims, Works
  <2> QED BY <2>2, <1>1, <1>3 DEF Ledger, Booked, Entry
<1>6. ~Mine(c)' /\ Found(c)' /\ Completes(c)'
      BY <1>3, <1>4 DEF Mine, Found, Completes
<1>7. Placed(c)'
  <2>1. sess[c].place \in {"live", "retired"}
        BY <1>1 DEF Ledger, Placed, Made
  <2> QED BY <2>1, <1>2, ServesNoMore DEF StepOf, Placed
<1>8. \A k \in Keys : Leaves(k)
      BY <1>1 DEF Leaves
<1>9. \A e \in Creates : Mine(e) => ~Forgets(Key(e))
  <2>1. SUFFICES ASSUME NEW e \in Creates, Mine(e) PROVE ~Forgets(Key(e))
        OBVIOUS
  <2>2. Key(e) \in Keys
        BY <2>1, KeyTypes DEF Mine, Base
  <2> QED BY <2>2, <1>8, NothingForgotten
<1> QED BY <1>2, <1>4, <1>5, <1>6, <1>7, <1>8, <1>9 DEF Own

\* A completion puts its own entry and forgets those without a session it read.
LEMMA CompleteOwns ==
  ASSUME NEW c \in Creates, Base, Ledger, Evolve, Complete(c)
  PROVE  StepOf(c) /\ Own(c)
<1>t. /\ step \in [Creates -> Steps \cup Ends] /\ requests \in [Keys -> EntryType]
      BY DEF Base, RequestTypes
<1>1. /\ UNCHANGED answer /\ step[c] = "complete" /\ step' = [step EXCEPT ![c] = "done"]
      /\ seen' = [seen EXCEPT ![c] = {}]
      BY DEF Complete, Goes
<1>2. StepOf(c)
      BY <1>1, OnlyOwn DEF Ends
<1>3. Keyed(c) /\ answer[c] = c /\ Key(c) \in Keys
      BY <1>1, KeyTypes DEF Ledger, Completes, Base
<1>4. (Keyed(c)' <=> Keyed(c)) /\ Key(c)' = Key(c) /\ step'[c] = "done"
      BY <1>1, <1>2, <1>t DEF StepOf, Keyed, Key
<1>5. Mine(c)' /\ Claims(c) /\ ~Claims(c)'
      BY <1>1, <1>3, <1>4 DEF Mine, Claims, Works
<1>6. requests[Key(c)] = [state |-> "inflight", by |-> c]
      BY <1>5 DEF Ledger, Booked, Entry
<1>7. Pruned(c)[Key(c)] # Unused
  <2>1. requests[Key(c)].state = "inflight"
        BY <1>6
  <2>2. Pruned(c)[Key(c)] = requests[Key(c)]
        BY <2>1, <1>3 DEF Pruned
  <2> QED BY <2>1, <2>2 DEF Unused
<1>8. requests' = [Pruned(c) EXCEPT ![Key(c)] = [state |-> "ready", by |-> c]]
      BY <1>7 DEF Complete
<1>9. requests'[Key(c)] = [state |-> "ready", by |-> c]
      BY <1>3, <1>8 DEF Pruned
<1>10. Fulfils(c, Key(c))
      BY <1>5, <1>9 DEF Fulfils
<1>11. ASSUME NEW k \in Keys, k # Key(c)
       PROVE  \/ Leaves(k)
              \/ requests'[k] = Unused /\ requests[k].state = "ready" /\ requests[k].by \notin seen[c]
       BY <1>8, <1>11 DEF Pruned, Leaves
<1>12. ASSUME NEW k \in Keys PROVE Leaves(k) \/ Forgets(k) \/ Fulfils(c, k)
  <2>1. CASE k = Key(c)
        BY <2>1, <1>10
  <2>2. CASE k # Key(c) /\ ~Leaves(k)
    <3>1. requests'[k] = Unused /\ requests[k].state = "ready"
          BY <2>2, <1>11
    <3>2. requests[k] \in EntryType
          BY <1>t
    <3>3. \E d \in Creates : requests[k] = [state |-> "ready", by |-> d]
          BY <3>1, <3>2 DEF EntryType, Unused
    <3> QED BY <3>1, <3>3 DEF Forgets
  <2> QED BY <2>1, <2>2
<1>13. ASSUME Remembers, NEW d \in Creates, Mine(d), Serves(d) PROVE ~Forgets(Key(d))
  <2>1. requests[Key(d)] = [state |-> "ready", by |-> d] /\ d \in seen[c] /\ Key(d) \in Keys
        BY <1>13, <1>1, KeyTypes DEF Remembers, Entry, Mine, Base
  <2>2. requests[Key(d)].state = "ready" /\ requests[Key(d)].by = d
        BY <2>1
  <2>3. requests[Key(c)].state = "inflight"
        BY <1>6
  <2>4. Leaves(Key(d))
        BY <2>1, <2>2, <2>3, <1>11
  <2> QED BY <2>1, <2>4, NothingForgotten
<1>14. Placed(c)'
  <2>1. sess[c].place \in {"live", "retired"}
        BY <1>1 DEF Ledger, Placed, Made
  <2> QED BY <2>1, <1>2, ServesNoMore DEF StepOf, Placed
<1>15. Booked(c)' /\ Found(c)' /\ Completes(c)'
      BY <1>4, <1>5 DEF Booked, Found, Completes
<1>16. Entry(c)' = [state |-> "ready", by |-> c]
      BY <1>4, <1>9 DEF Entry
<1> QED BY <1>1, <1>2, <1>4, <1>12, <1>13, <1>14, <1>15, <1>16 DEF Own

\* Every step of a create.
LEMMA CreateOwns ==
  ASSUME NEW c \in Creates, Base, Ledger, Arrive(c) \/ Serve(c) \/ Abandon(c)
  PROVE  StepOf(c) /\ Own(c)
<1>1. Evolve
      BY OthersEvolve
<1> QED BY <1>1, CreatePasses, PassesOwn, ReserveOwns, RecoverOwns, ForgetOwns, RecordOwns,
           CompleteOwns DEF Serve

-----------------------------------------------------------------------------
(* Every step, for the request ids.                                        *)

\* The sessions change beside the requests.
LEMMA BesideRequests ==
  ASSUME Ledger, UNCHANGED <<ask, requestVars>>, \A s \in Creates : Lasts(sess[s], sess'[s])
  PROVE  Ledger' /\ (Remembers => Remembers')
<1>1. UNCHANGED <<ask, step, doomed, requests, seen, answer>>
      BY DEF requestVars
<1>2. \A d : /\ Mine(d)' <=> Mine(d)
             /\ Made(d)' <=> Made(d)
             /\ Claims(d)' <=> Claims(d)
             /\ Entry(d)' = Entry(d)
      BY <1>1 DEF Mine, Made, Claims, Works, Keyed, Key, Entry
<1>3. ASSUME NEW d \in Creates, Made(d) PROVE Serves(d)' => Serves(d)
      BY <1>3, ServesNoMore DEF Ledger, Placed
<1>4. ASSUME NEW c \in Creates PROVE Booked(c)' /\ Completes(c)'
      BY <1>1, <1>2 DEF Ledger, Booked, Completes, Keyed, Key
<1>5. ASSUME NEW c \in Creates PROVE Found(c)'
  <2>1. SUFFICES ASSUME step[c] \in {"recover", "forget"} PROVE Found(c)'
        BY <1>1 DEF Found
  <2>2. PICK d \in Creates : answer[c] = d /\ Mine(d) /\ (step[c] = "forget" => ~Serves(d))
        BY <2>1 DEF Ledger, Found
  <2>3. Serves(d)' => Serves(d)
        BY <2>2, <1>3 DEF Made
  <2> QED BY <1>1, <1>2, <2>2, <2>3 DEF Found
<1>6. ASSUME NEW c \in Creates PROVE Placed(c)'
      BY <1>2, ServesNoMore DEF Ledger, Placed
<1>7. Finished'
      BY <1>1, <1>2 DEF Ledger, Finished, Key
<1>8. Remembers => Remembers'
      BY <1>1, <1>2, <1>3 DEF Remembers, Made
<1> QED BY <1>4, <1>5, <1>6, <1>7, <1>8 DEF Ledger

\* Every step of the specification.
LEMMA EveryRequestStep ==
  ASSUME Base, Ledger, [SessionNext]_sessionVars
  PROVE  Ledger' /\ (Remembers /\ CompleteApart => Remembers')
<1>1. CASE \E c \in Creates : Arrive(c) \/ Serve(c) \/ Abandon(c)
      BY <1>1, CreateOwns, OwnKeeps
<1>2. CASE \/ UNCHANGED sessionVars
           \/ \E c \in Creates : Session(c) \/ ReapIdle(c)
           \/ \E u \in Callers : FlowControl(u)
  <2>1. UNCHANGED <<ask, requestVars>>
        BY <1>2 DEF sessionVars, producerVars, Session, ReapIdle, FlowControl
  <2>2. Evolve \/ Ticks
        BY EveryStep
  <2>3. \A s \in Creates : Lasts(sess[s], sess'[s])
        BY <2>2 DEF Evolve, Evolves, Ticks, Alike, Lasts
  <2> QED BY <2>1, <2>3, BesideRequests
<1> QED BY <1>1, <1>2 DEF SessionNext

\* Before anything arrives the table is empty.
LEMMA LedgerInit == SessionInit => Ledger /\ Remembers
<1> SUFFICES ASSUME SessionInit PROVE Ledger /\ Remembers
    OBVIOUS
<1>1. /\ \A c \in Creates : step[c] = "idle"
      /\ \A k \in Keys : requests[k] = Unused
      BY DEF SessionInit
<1>2. \A c \in Creates : ~Mine(c) /\ ~Made(c) /\ ~Claims(c)
      BY <1>1 DEF Mine, Made, Claims, Works
<1>3. Finished
  <2>1. SUFFICES ASSUME NEW k \in Keys, NEW d \in Creates, requests[k] = [state |-> "ready", by |-> d]
                 PROVE  FALSE
        BY DEF Finished
  <2>2. requests[k].state = "ready" /\ requests[k].state = "unused"
        BY <2>1, <1>1 DEF Unused
  <2> QED BY <2>2
<1> QED BY <1>1, <1>2, <1>3 DEF Ledger, Booked, Found, Completes, Placed, Remembers

\* A request id that a create works with is not reserved by another one, with
\* any requests beside it and callers that vanish (transcode.rs:4856,
\* claim_request; RequestClaim).
OneWorker ==
  \A c, d \in Creates : Claims(c) /\ Claims(d) /\ Key(c) = Key(d) => c = d
\* It is so for any creates, ids, players and faults.
THEOREM OneCreateWorks == SessionSpec => []OneWorker
<1>1. Base /\ [SessionNext]_sessionVars => Base'
      BY EveryStep
<1>2. Base /\ Ledger /\ [SessionNext]_sessionVars => Ledger'
      BY EveryRequestStep
<1>3. Ledger => OneWorker
  <2>1. SUFFICES ASSUME Ledger, NEW c \in Creates, NEW d \in Creates, Claims(c), Claims(d),
                        Key(c) = Key(d)
                 PROVE  c = d
        BY DEF OneWorker
  <2>2. /\ requests[Key(c)] = [state |-> "inflight", by |-> c]
        /\ requests[Key(d)] = [state |-> "inflight", by |-> d]
        BY <2>1 DEF Ledger, Booked, Entry
  <2>3. requests[Key(c)].by = c /\ requests[Key(d)].by = d
        BY <2>2
  <2> QED BY <2>1, <2>3
<1> QED BY BaseInit, LedgerInit, <1>1, <1>2, <1>3, PTL DEF SessionSpec

\* While no two creates are between reading the live sessions and completing,
\* a repeated create finds the session of the first: its request id is neither
\* forgotten nor reserved anew while that session serves
\* (transcode.rs:4749, create_session).
THEOREM ReplayHolds == SessionSpec /\ []CompleteApart => ReplayFindsItsSession
<1> DEFINE Replays ==
             \A c, d \in Creates :
               /\ step[c] = "claim" /\ step'[c] = "normalize"
               /\ d # c /\ Keyed(d) /\ Key(d) = Key(c) /\ Intent(d) = Intent(c)
               => /\ ~Works(d)
                  /\ ~(step[d] = "done" /\ answer[d] = d /\ Live(d) /\ Is(d).failure = "none")
<1>1. Base /\ [SessionNext]_sessionVars => Base'
      BY EveryStep
<1>2. Base /\ Ledger /\ [SessionNext]_sessionVars => Ledger' /\ (Remembers /\ CompleteApart => Remembers')
      BY EveryRequestStep
<1>3. ASSUME Base, Ledger, Remembers, SessionNext PROVE Replays
  <2>1. SUFFICES ASSUME NEW c \in Creates, NEW d \in Creates, step[c] = "claim",
                        step'[c] = "normalize", d # c, Keyed(d), Key(d) = Key(c),
                        Works(d) \/ (Mine(d) /\ Serves(d))
                 PROVE  FALSE
        BY DEF Mine, Serves
  <2>2. step \in [Creates -> Steps \cup Ends]
        BY <1>3 DEF Base, RequestTypes
  <2>3. Arrive(c) \/ Serve(c) \/ Abandon(c)
    <3>1. ~UNCHANGED requestVars
          BY <2>1 DEF requestVars
    <3>2. \E e \in Creates : Arrive(e) \/ Serve(e) \/ Abandon(e)
          BY <1>3, <3>1 DEF SessionNext, Session, ReapIdle, FlowControl
    <3>3. PICK e \in Creates : Arrive(e) \/ Serve(e) \/ Abandon(e)
          BY <3>2
    <3>4. e = c
          BY <1>3, <2>1, <3>3, CreateOwns DEF StepOf
    <3> QED BY <3>3, <3>4
  <2>4. Reserve(c)
        BY <2>1, <2>2, <2>3 DEF Arrive, Serve, Abandon, RefuseConflict, Recover, LookUp, Forget,
           Normalize, Reap, RetireBegins, Retired, AllRetired, Refuse, SpawnProducer, Insert,
           SpawnTasks, ServeCached, Record, Complete, Goes
  <2>5. requests[Key(d)].state = "unused"
        BY <2>1, <2>4 DEF Reserve, Entry, Unused
  <2>6. CASE Works(d)
    <3>1. requests[Key(d)] = [state |-> "inflight", by |-> d]
          BY <1>3, <2>1, <2>6 DEF Claims, Ledger, Booked, Entry
    <3> QED BY <3>1, <2>5
  <2>7. CASE Mine(d) /\ Serves(d)
    <3>1. requests[Key(d)] = [state |-> "ready", by |-> d]
          BY <1>3, <2>7 DEF Remembers, Entry
    <3> QED BY <3>1, <2>5
  <2> QED BY <2>1, <2>6, <2>7
<1>4. Base /\ Ledger /\ Remembers /\ [SessionNext]_sessionVars => [Replays]_sessionVars
      BY <1>3
<1>5. ReplayFindsItsSession <=> [][Replays]_sessionVars
      BY PTL DEF ReplayFindsItsSession
<1> HIDE DEF Replays
<1> QED BY BaseInit, LedgerInit, <1>1, <1>2, <1>4, <1>5, PTL DEF SessionSpec
=============================================================================
