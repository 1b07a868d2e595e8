------------------------- MODULE Integrations_proofs -------------------------
(***************************************************************************)
(* Three parts, which share no variable: the outbox of watched             *)
(* notifications (WatchedOutbox), the token of a Trakt account (TraktLink) *)
(* and its sync (TraktSync).                                               *)
(*                                                                         *)
(* The outbox keeps the ledger, for any nodes, rows, faults and intervals. *)
(* A batch ends before its claim falls to Past (Early: what is left of it  *)
(* fits between them), so a claim that equals the one a batch came with is *)
(* that claim; while a claim is ahead nobody else takes its rows (Held),   *)
(* hence whoever settles under it is alone and has the attempts of the     *)
(* row.                                                                    *)
(*                                                                         *)
(* The token: whoever refreshes, however many callers there are, a refresh *)
(* token that Trakt takes is never lost to a late caller.  A token that a  *)
(* caller is about to replace or to drop was dead when it got there        *)
(* (Spent), numbers are not used twice, so it stays dead; the compare in   *)
(* the store then spares every other token.                                *)
(*                                                                         *)
(* The sync: passes work on what they read long ago, and others write      *)
(* meanwhile.  What saves an item that no user changed is that all passes  *)
(* are after the same end: PassInv says how far what a pass read and       *)
(* planned may be from the row and the history of now, and the lemmas      *)
(* MarkSpares to RemoveSpares that a write of one pass brings no other any *)
(* further.  Told says that passes that overlap were told of the same      *)
(* changes, so an item that is untouched for one is untouched for all.     *)
(* SyncInv is what the change gate needs: an item outside `hidden` whose   *)
(* row is not newer than the last sync is alike on both sides as long as   *)
(* Trakt reports no activity.                                              *)
(***************************************************************************)
EXTENDS WatchedOutbox, TraktLink, TraktSync, FiniteSetTheorems, TLAPS

------------------------------------------------------------------------------
(* The outbox                                                              *)

\* OutboxTypeOK without the Boolean parts, which the SMT solver sees apart.
OutboxTypes ==
  /\ status \in [Rows -> {"none", "pending", "ok", "failed"}]
  /\ attempts \in [Rows -> 0..MaxAttempts]
  /\ nextAt \in [Rows -> Delays]
  /\ claim \in [Rows -> Deadlines]
  /\ batch \in [Posters -> SUBSET Rows]
  /\ until \in [Posters -> Deadlines]
  /\ count \in [Posters -> [Rows -> 0..MaxAttempts]]
  /\ posting \in [Posters -> Rows \cup {Idle}]
  /\ clock \in [Posters -> 0..Timeout]
  /\ refused \subseteq Rows
  /\ outboxFaults \in 0..MaxOutboxFaults

Flags == paired \in BOOLEAN /\ target \in [Posters -> BOOLEAN]

\* The time the rest of a batch may take.
Left(n) ==
  Timeout * Cardinality(batch[n])
    + (IF posting[n] = Idle THEN 0 ELSE Timeout - clock[n])
Early == \A n \in Posters : Working(n) => until[n] >= Past + 1 + Left(n)

Held ==
  \A n \in Posters : \A r \in InHand(n) :
    /\ until[n] = claim[r] => status[r] = "pending" /\ count[n][r] = attempts[r]
    /\ until[n] > 0 => claim[r] = until[n]

Apart == \A n \in Posters : posting[n] \notin batch[n]
Counted ==
  \A r \in Rows :
    /\ status[r] = "none" => attempts[r] = 0
    /\ status[r] = "pending" => attempts[r] < MaxAttempts

OutboxInv == OutboxTypes /\ Early /\ Held /\ Apart /\ Counted /\ ClaimHasOneHolder

-----------------------------------------------------------------------------
LEMMA Numbers ==
  /\ Past \in Int /\ Past < 0 /\ Claim = Past + 1 + Batch * Timeout
  /\ MaxAttempts \in Nat \ {0} /\ Len(BackOff) \in Nat
  /\ \A i \in 1..Len(BackOff) : BackOff[i] \in Nat \ {0}
  /\ Deadlines = Past..Claim
<1>1. Batch * Timeout \in Nat /\ Claim \in Nat /\ Claim =< Batch * Timeout
      BY OutboxAssumption
<1>2. BackOff \in Seq(Nat \ {0})
      BY OutboxAssumption
<1>3. Len(BackOff) \in Nat /\ \A i \in 1..Len(BackOff) : BackOff[i] \in Nat \ {0}
      BY <1>2
<1> QED BY <1>1, <1>3 DEF Past, MaxAttempts, Deadlines

LEMMA Products ==
  ASSUME NEW k \in Nat
  PROVE  /\ Timeout * k \in Nat
         /\ Timeout * (k + 1) = Timeout * k + Timeout
         /\ k =< Batch => Timeout * k =< Batch * Timeout
<1>1. Timeout \in Nat /\ Batch \in Nat
      BY OutboxAssumption
<1>2. ASSUME k =< Batch PROVE Timeout * k =< Batch * Timeout
  <2>1. PICK j \in Nat : Batch = k + j
        BY <1>1, <1>2
  <2>2. Batch * Timeout = Timeout * k + Timeout * j /\ Timeout * j \in Nat
        BY <1>1, <2>1
  <2> QED BY <1>1, <2>2
<1> QED BY <1>1, <1>2

\* What a batch counts, and what it counts without one of its rows.
LEMMA Sizes ==
  ASSUME NEW S \in SUBSET Rows
  PROVE  /\ Cardinality(S) \in Nat
         /\ \A r \in S : Cardinality(S) = Cardinality(S \ {r}) + 1
                         /\ Cardinality(S \ {r}) \in Nat
<1>1. IsFiniteSet(S)
      BY FS_Subset, OutboxAssumption
<1>2. ASSUME NEW r \in S
      PROVE Cardinality(S) = Cardinality(S \ {r}) + 1 /\ Cardinality(S \ {r}) \in Nat
  <2>1. IsFiniteSet(S \ {r}) /\ Cardinality(S \ {r}) = Cardinality(S) - 1
        BY <1>1, FS_RemoveElement
  <2>2. Cardinality(S) \in Nat /\ Cardinality(S \ {r}) \in Nat
        BY <1>1, <2>1, FS_CardinalityType
  <2> QED BY <2>1, <2>2
<1> QED BY <1>1, <1>2, FS_CardinalityType

LEMMA LeftType ==
  ASSUME OutboxTypes, NEW n \in Posters
  PROVE  Left(n) \in Nat
<1>1. Timeout * Cardinality(batch[n]) \in Nat
      BY Sizes, Products DEF OutboxTypes
<1>2. clock[n] \in 0..Timeout /\ Timeout \in Nat
      BY OutboxAssumption DEF OutboxTypes
<1> QED BY <1>1, <1>2 DEF Left

LEMMA OutboxInvInit == OutboxInit => OutboxInv
<1> SUFFICES ASSUME OutboxInit PROVE OutboxInv
    OBVIOUS
<1>1. OutboxTypes
      BY Numbers, OutboxAssumption DEF OutboxInit, OutboxTypes, Delays, Idle
<1>2. /\ Early /\ Held /\ Apart /\ Counted /\ ClaimHasOneHolder
      BY OutboxAssumption
      DEF OutboxInit, Early, Held, Apart, Counted, ClaimHasOneHolder, Holds, InHand, Working
<1> QED BY <1>1, <1>2 DEF OutboxInv

LEMMA FlagsInit == OutboxInit => Flags
BY DEF OutboxInit, Flags

LEMMA FlagsNext == Flags /\ [OutboxNext]_outboxVars => Flags'
<1> SUFFICES ASSUME Flags, [OutboxNext]_outboxVars PROVE Flags'
    OBVIOUS
<1> USE DEF Flags
<1>1. ASSUME NEW r \in Rows, Enqueue(r) PROVE Flags'
      BY <1>1 DEF Enqueue, inMemory
<1>2. ASSUME NEW n \in Posters, ClaimDue(n) PROVE Flags'
      BY <1>2 DEF ClaimDue
<1>3. ASSUME NEW n \in Posters, Post(n) \/ Answer(n) \/ Unconfigured(n) \/ Crash(n)
      PROVE  Flags'
      BY <1>3 DEF Post, Answer, Unconfigured, Crash
<1>4. CASE Pairing
      BY <1>4 DEF Pairing, inMemory
<1>5. CASE TimePasses
      BY <1>5 DEF TimePasses
<1>6. CASE UNCHANGED outboxVars
      BY <1>6 DEF outboxVars, inMemory
<1> QED BY <1>1, <1>2, <1>3, <1>4, <1>5, <1>6 DEF OutboxNext, Loop

-----------------------------------------------------------------------------
\* One lemma per action: the invariant survives it.
LEMMA EnqueueKeeps ==
  ASSUME OutboxInv, NEW r \in Rows, Enqueue(r) PROVE OutboxInv'
<1> USE DEF OutboxInv, OutboxTypes, Enqueue, inMemory
<1>1. OutboxTypes'
      BY Numbers DEF Delays
<1>2. UNCHANGED <<attempts, claim, batch, until, count, posting, clock>>
      OBVIOUS
<1>3. Early' /\ Apart' /\ ClaimHasOneHolder'
      BY <1>2 DEF Early, Left, Working, Apart, ClaimHasOneHolder, Holds, InHand
<1>4. Held'
      BY <1>2 DEF Held, InHand
<1>5. Counted'
      BY <1>2, Numbers DEF Counted
<1> QED BY <1>1, <1>3, <1>4, <1>5

LEMMA PairingKeeps == ASSUME OutboxInv, Pairing PROVE OutboxInv'
<1>1. UNCHANGED <<durable, inMemory, refused>> /\ OutboxFault("admin")
      BY DEF Pairing
<1>2. OutboxTypes'
      BY <1>1, OutboxAssumption DEF OutboxInv, OutboxTypes, durable, inMemory, OutboxFault
<1>3. Early' /\ Held' /\ Apart' /\ Counted' /\ ClaimHasOneHolder'
      BY <1>1 DEF OutboxInv, Early, Left, Held, Apart, Counted, ClaimHasOneHolder, Holds,
                  InHand, Working, durable, inMemory
<1> QED BY <1>2, <1>3 DEF OutboxInv

LEMMA CrashKeeps == ASSUME OutboxInv, NEW n \in Posters, Crash(n) PROVE OutboxInv'
<1> USE DEF OutboxInv, OutboxTypes, Crash, durable
<1>1. OutboxTypes'
      BY OutboxAssumption DEF OutboxFault
<1>2. \A m \in Posters : InHand(m)' = IF m = n THEN {} ELSE InHand(m)
      BY DEF InHand
<1>3. \A m \in Posters : m /= n => batch'[m] = batch[m] /\ posting'[m] = posting[m] /\ clock'[m] = clock[m]
      OBVIOUS
<1>4. ~Working(n)'
      BY DEF Working
<1>5. Early'
      BY <1>3, <1>4 DEF Early, Left, Working
<1>6. ASSUME NEW m \in Posters, NEW r \in InHand(m)'
      PROVE  r \in InHand(m)
      BY <1>2, <1>6
<1>7. UNCHANGED <<status, attempts, claim, until, count>>
      OBVIOUS
<1>8. Held'
      BY <1>6, <1>7 DEF Held
<1>9. ClaimHasOneHolder' /\ Counted'
      BY <1>6, <1>7 DEF ClaimHasOneHolder, Holds, Counted
<1>10. Apart'
      BY <1>3 DEF Apart
<1> QED BY <1>1, <1>5, <1>8, <1>9, <1>10

LEMMA TickKeeps == ASSUME OutboxInv, TimePasses PROVE OutboxInv'
<1> USE DEF OutboxInv
<1>1. OutboxTypes'
  <2>1. nextAt' \in [Rows -> Delays] /\ claim' \in [Rows -> Deadlines]
        BY Numbers DEF TimePasses, OutboxTypes, Earlier, Delays
  <2>2. until' \in [Posters -> Deadlines]
        BY Numbers DEF TimePasses, OutboxTypes, Earlier
  <2>3. clock' \in [Posters -> 0..Timeout]
        BY OutboxAssumption DEF TimePasses, OutboxTypes
  <2> QED BY <2>1, <2>2, <2>3 DEF TimePasses, OutboxTypes
<1>2. \A n \in Posters : InHand(n)' = InHand(n) /\ Working(n)' = Working(n)
      BY DEF TimePasses, InHand, Working
<1>3. ASSUME NEW n \in Posters, Working(n)
      PROVE /\ until'[n] = until[n] - 1 /\ until'[n] > Past
            /\ Left(n)' = Left(n) - 1
  <2>1. posting[n] /= Idle /\ clock[n] < Timeout /\ clock'[n] = clock[n] + 1
        BY <1>3 DEF TimePasses
  <2>2. batch' = batch /\ posting' = posting
        BY DEF TimePasses
  <2>3. Timeout * Cardinality(batch[n]) \in Nat
        BY Sizes, Products DEF OutboxTypes
  <2>4. clock[n] \in 0..Timeout /\ Timeout \in Nat
        BY OutboxAssumption DEF OutboxTypes
  <2>5. Left(n) = Timeout * Cardinality(batch[n]) + (Timeout - clock[n])
        BY <2>1 DEF Left
  <2>6. Left(n)' = Timeout * Cardinality(batch[n]) + (Timeout - (clock[n] + 1))
        BY <2>1, <2>2 DEF Left
  <2>7. /\ until[n] >= Past + 1 + Left(n) /\ until[n] \in Int
        /\ Left(n) \in Nat /\ Left(n) > 0
    <3>1. until[n] >= Past + 1 + Left(n)
          BY <1>3 DEF Early
    <3>2. until[n] \in Int
          BY Numbers DEF OutboxTypes
    <3>3. Left(n) > 0
          BY <2>1, <2>3, <2>4, <2>5
    <3> QED BY <3>1, <3>2, <3>3, LeftType
  <2>8. until'[n] = until[n] - 1
        BY <1>3, <2>7, Numbers DEF TimePasses, Earlier
  <2>9. Left(n)' = Left(n) - 1
        BY <2>3, <2>4, <2>5, <2>6
  <2> HIDE DEF Left
  <2> QED BY <2>7, <2>8, <2>9, LeftType, Numbers
<1>4. Early'
  <2> SUFFICES ASSUME NEW n \in Posters, Working(n)
               PROVE  until'[n] >= Past + 1 + Left(n)'
      BY <1>2 DEF Early
  <2>1. until[n] >= Past + 1 + Left(n) /\ until[n] \in Int
        BY Numbers DEF Early, OutboxTypes
  <2> QED BY <1>3, <2>1, LeftType, Numbers
<1>5. ASSUME NEW n \in Posters, NEW r \in InHand(n)
      PROVE  /\ r \in Rows /\ until[n] \in Int /\ claim[r] \in Past..Claim
             /\ until'[n] = until[n] - 1
             /\ until'[n] = claim'[r] <=> until[n] = claim[r]
             /\ until'[n] > 0 => until[n] > 0
  <2>1. Working(n) /\ r \in Rows
        BY OutboxAssumption DEF InHand, Working, OutboxTypes
  <2>2. claim[r] \in Past..Claim /\ until[n] \in Past..Claim
        BY <2>1, Numbers DEF OutboxTypes
  <2>3. claim'[r] = IF claim[r] = Past THEN Past ELSE claim[r] - 1
        BY <2>1 DEF TimePasses, Earlier
  <2>4. until'[n] = until[n] - 1 /\ until'[n] > Past
        BY <1>3, <2>1
  <2> QED BY <2>1, <2>2, <2>3, <2>4, Numbers
<1>6. Held'
  <2> SUFFICES ASSUME NEW n \in Posters, NEW r \in InHand(n)
               PROVE  /\ until'[n] = claim'[r]
                           => status[r] = "pending" /\ count[n][r] = attempts[r]
                      /\ until'[n] > 0 => claim'[r] = until'[n]
      BY <1>2 DEF Held, TimePasses
  <2>1. /\ until[n] = claim[r]
             => status[r] = "pending" /\ count[n][r] = attempts[r]
        /\ until[n] > 0 => claim[r] = until[n]
        BY DEF Held
  <2> QED BY <1>5, <2>1
<1>7. ClaimHasOneHolder'
      BY <1>2, <1>5 DEF ClaimHasOneHolder, Holds
<1>8. Apart' /\ Counted'
      BY DEF TimePasses, Apart, Counted
<1> QED BY <1>1, <1>4, <1>6, <1>7, <1>8

LEMMA ClaimDueKeeps == ASSUME OutboxInv, NEW n \in Posters, ClaimDue(n) PROVE OutboxInv'
<1> USE DEF OutboxInv
<1>1. PICK rows \in Batches :
        /\ batch' = [batch EXCEPT ![n] = rows]
        /\ claim' = [r \in Rows |-> IF r \in rows THEN Claim ELSE claim[r]]
      BY DEF ClaimDue
<1>2. /\ batch[n] = {} /\ posting[n] = Idle
      /\ until' = [until EXCEPT ![n] = Claim]
      /\ count' = [count EXCEPT ![n] = attempts]
      /\ UNCHANGED <<status, attempts, nextAt, posting, clock, refused>>
      /\ outboxFaults' \in 0..MaxOutboxFaults
      BY OutboxAssumption DEF ClaimDue, OutboxFault, OutboxTypes
<1>3. /\ rows \subseteq Rows /\ Cardinality(rows) =< Batch
      /\ \A r \in rows : status[r] = "pending" /\ claim[r] =< 0
      BY DEF Batches, Due
<1>4. Claim \in Deadlines /\ Claim > 0
      BY Numbers, OutboxAssumption
<1>5. OutboxTypes'
      BY <1>1, <1>2, <1>3, <1>4 DEF OutboxTypes
<1>6. InHand(n)' = rows /\ \A m \in Posters : m /= n => InHand(m)' = InHand(m)
      BY <1>1, <1>2 DEF InHand, OutboxTypes
<1>7. Early'
  <2> SUFFICES ASSUME NEW m \in Posters, Working(m)' PROVE until'[m] >= Past + 1 + Left(m)'
      BY DEF Early
  <2>1. CASE m = n
    <3>1. batch'[n] = rows /\ posting'[n] = Idle /\ until'[n] = Claim
          BY <1>1, <1>2 DEF OutboxTypes
    <3>2. Left(n)' = Timeout * Cardinality(rows) + 0
          BY <3>1 DEF Left
    <3>3. /\ Timeout * Cardinality(rows) \in Nat
          /\ Timeout * Cardinality(rows) =< Batch * Timeout
          BY <1>3, Sizes, Products
    <3>4. Claim = Past + 1 + Batch * Timeout /\ Past \in Int /\ Batch * Timeout \in Nat
          BY Numbers, OutboxAssumption
    <3> QED BY <2>1, <3>1, <3>2, <3>3, <3>4
  <2>2. CASE m /= n
    <3>1. /\ batch'[m] = batch[m] /\ posting'[m] = posting[m]
          /\ clock'[m] = clock[m] /\ until'[m] = until[m]
          BY <1>1, <1>2, <2>2 DEF OutboxTypes
    <3> QED BY <3>1 DEF Early, Left, Working
  <2> QED BY <2>1, <2>2
\* Who still has a row that is claimed anew has it under a claim that ended.
<1>8. ASSUME NEW m \in Posters, m /= n, NEW r \in InHand(m)
      PROVE  /\ r \in Rows /\ until'[m] = until[m] /\ count'[m] = count[m]
             /\ until[m] \in Deadlines
             /\ r \in rows => until[m] =< 0 /\ claim'[r] = Claim
             /\ r \notin rows => claim'[r] = claim[r]
  <2>1. r \in Rows
        BY OutboxAssumption DEF InHand, OutboxTypes
  <2>2. until[m] \in Deadlines
        BY DEF OutboxTypes
  <2>3. r \in rows => until[m] =< 0
        BY <1>3, <2>2, Numbers DEF Held
  <2> QED BY <1>1, <1>2, <1>8, <2>1, <2>2, <2>3 DEF OutboxTypes
<1>9. ASSUME NEW r \in rows
      PROVE  /\ claim'[r] = Claim /\ until'[n] = Claim /\ status[r] = "pending"
             /\ count'[n][r] = attempts[r]
      BY <1>1, <1>2, <1>3 DEF OutboxTypes
<1>10. Held'
  <2> SUFFICES ASSUME NEW m \in Posters, NEW r \in InHand(m)'
               PROVE  /\ until'[m] = claim'[r]
                           => status[r] = "pending" /\ count'[m][r] = attempts[r]
                      /\ until'[m] > 0 => claim'[r] = until'[m]
      BY <1>2 DEF Held
  <2>1. CASE m = n
        BY <1>6, <1>9, <2>1
  <2>2. CASE m /= n /\ r \in rows
        BY <1>4, <1>6, <1>8, <2>2, Numbers
  <2>3. CASE m /= n /\ r \notin rows
    <3>1. r \in InHand(m)
          BY <1>6, <2>3
    <3>2. until'[m] = until[m] /\ count'[m] = count[m] /\ claim'[r] = claim[r]
          BY <1>8, <2>3, <3>1
    <3> QED BY <3>1, <3>2 DEF Held
  <2> QED BY <2>1, <2>2, <2>3
<1>11. ClaimHasOneHolder'
  <2> SUFFICES ASSUME NEW r \in Rows, NEW m \in Posters, NEW k \in Posters,
                      Holds(m, r)', Holds(k, r)'
               PROVE  m = k
      BY DEF ClaimHasOneHolder
  <2>1. CASE r \in rows
    <3>1. ASSUME NEW h \in Posters, Holds(h, r)', h /= n PROVE FALSE
          BY <1>4, <1>6, <1>8, <2>1, <3>1, Numbers DEF Holds
    <3> QED BY <3>1
  <2>2. CASE r \notin rows
    <3>1. ASSUME NEW h \in Posters, Holds(h, r)' PROVE Holds(h, r)
          BY <1>6, <1>8, <2>2, <3>1 DEF Holds
    <3> QED BY <3>1 DEF ClaimHasOneHolder
  <2> QED BY <2>1, <2>2
<1>12. Apart'
  <2>1. posting'[n] \notin rows
        BY <1>2, <1>3, OutboxAssumption DEF OutboxTypes
  <2> QED BY <1>1, <1>2, <2>1 DEF Apart, OutboxTypes
<1>13. Counted'
      BY <1>2 DEF Counted
<1> QED BY <1>5, <1>7, <1>10, <1>11, <1>12, <1>13

LEMMA PostKeeps == ASSUME OutboxInv, NEW n \in Posters, Post(n) PROVE OutboxInv'
<1> USE DEF OutboxInv
<1>1. PICK r \in batch[n] :
        /\ posting' = [posting EXCEPT ![n] = r]
        /\ batch' = [batch EXCEPT ![n] = @ \ {r}]
      BY DEF Post
<1>2. /\ posting[n] = Idle /\ clock' = [clock EXCEPT ![n] = 0] /\ r \in Rows /\ r /= Idle
      /\ UNCHANGED <<status, attempts, nextAt, claim, until, count, refused, outboxFaults>>
      BY OutboxAssumption DEF Post, durable, OutboxTypes
<1>3. OutboxTypes'
      BY <1>1, <1>2, OutboxAssumption DEF OutboxTypes
<1>4. \A m \in Posters : InHand(m)' = InHand(m)
      BY <1>1, <1>2 DEF InHand, OutboxTypes
<1>5. Early'
  <2> SUFFICES ASSUME NEW m \in Posters, Working(m)' PROVE until[m] >= Past + 1 + Left(m)'
      BY <1>2 DEF Early
  <2>1. CASE m = n
    <3>1. /\ batch'[n] = batch[n] \ {r} /\ posting'[n] /= Idle /\ clock'[n] = 0
          BY <1>1, <1>2 DEF OutboxTypes
    <3>2. /\ Cardinality(batch[n]) = Cardinality(batch[n] \ {r}) + 1
          /\ Cardinality(batch[n] \ {r}) \in Nat
          BY Sizes DEF OutboxTypes
    <3>3. Left(n)' = Timeout * Cardinality(batch[n] \ {r}) + (Timeout - 0)
          BY <3>1 DEF Left
    <3>4. Left(n) = Timeout * Cardinality(batch[n]) + 0
          BY <1>2 DEF Left
    <3>5. Left(n)' = Left(n)
      <4>1. Timeout * Cardinality(batch[n]) = Timeout * Cardinality(batch[n] \ {r}) + Timeout
            BY <3>2, Products
      <4>2. Timeout * Cardinality(batch[n] \ {r}) \in Nat /\ Timeout \in Nat
            BY <3>2, Products, OutboxAssumption
      <4> QED BY <3>3, <3>4, <4>1, <4>2
    <3> QED BY <2>1, <3>5 DEF Early, Working
  <2>2. CASE m /= n
    <3>1. batch'[m] = batch[m] /\ posting'[m] = posting[m] /\ clock'[m] = clock[m]
          BY <1>1, <1>2, <2>2 DEF OutboxTypes
    <3> QED BY <3>1 DEF Early, Left, Working
  <2> QED BY <2>1, <2>2
<1>6. Held' /\ ClaimHasOneHolder' /\ Counted'
  <2>1. Held'
        BY <1>2, <1>4 DEF Held
  <2>2. ClaimHasOneHolder'
        BY <1>2, <1>4 DEF ClaimHasOneHolder, Holds
  <2> QED BY <1>2, <2>1, <2>2 DEF Counted
<1>7. Apart'
      BY <1>1, <1>2 DEF Apart, OutboxTypes
<1> QED BY <1>3, <1>5, <1>6, <1>7

-----------------------------------------------------------------------------
\* A settlement records one attempt of a row under its claim, or nothing.
SettledBy(n, r) ==
  /\ Holds(n, r)
  /\ claim' = [claim EXCEPT ![r] = Past]
  /\ attempts' = [attempts EXCEPT ![r] = @ + 1]
  /\ \E s \in {"ok", "failed", "pending"} :
        /\ s = "pending" => attempts[r] + 1 < MaxAttempts
        /\ status' = [status EXCEPT ![r] = s]

\* What attempt() writes: a result, the delay before the next attempt.
Result(n, r, s, d) ==
  /\ s \in {"ok", "failed", "pending"} /\ d \in Delays
  /\ s = "pending" => count[n][r] + 1 < MaxAttempts
  /\ Settle(n, r, s, d)

LEMMA SettleRecords ==
  ASSUME OutboxInv, NEW n \in Posters, NEW r \in InHand(n),
         NEW s, NEW d, Result(n, r, s, d)
  PROVE  /\ status' \in [Rows -> {"none", "pending", "ok", "failed"}]
         /\ attempts' \in [Rows -> 0..MaxAttempts]
         /\ nextAt' \in [Rows -> Delays]
         /\ claim' \in [Rows -> Deadlines]
         /\ outboxFaults' \in 0..MaxOutboxFaults
         /\ Counted'
         /\ SettledBy(n, r) \/ UNCHANGED durable
<1> USE DEF OutboxInv, OutboxTypes
<1>1. r \in Rows /\ count[n][r] \in 0..MaxAttempts /\ attempts[r] \in 0..MaxAttempts
      BY OutboxAssumption DEF InHand
<1>2. CASE UNCHANGED durable
  <2>1. outboxFaults' \in 0..MaxOutboxFaults
        BY OutboxAssumption DEF Result, Settle, OutboxFault
  <2> QED BY <1>2, <2>1 DEF durable, Counted
<1>3. CASE ~UNCHANGED durable
  <2>1. /\ claim[r] = until[n] /\ outboxFaults' = outboxFaults
        /\ status' = [status EXCEPT ![r] = s]
        /\ attempts' = [attempts EXCEPT ![r] = count[n][r] + 1]
        /\ nextAt' = [nextAt EXCEPT ![r] = d]
        /\ claim' = [claim EXCEPT ![r] = Past]
        BY <1>3 DEF Result, Settle, SettleHeld
  <2>2. status[r] = "pending" /\ count[n][r] = attempts[r]
        BY <2>1 DEF Held
  <2>3. attempts[r] < MaxAttempts /\ MaxAttempts \in Nat
    <3>1. attempts[r] < MaxAttempts
          BY <1>1, <2>2 DEF Counted
    <3> QED BY <3>1, Numbers
  <2>4. /\ s \in {"ok", "failed", "pending"} /\ d \in Delays
        /\ s = "pending" => attempts[r] + 1 < MaxAttempts
        BY <2>2 DEF Result
  <2>5. /\ status' \in [Rows -> {"none", "pending", "ok", "failed"}]
        /\ attempts' \in [Rows -> 0..MaxAttempts]
        /\ nextAt' \in [Rows -> Delays]
        /\ outboxFaults' \in 0..MaxOutboxFaults
        BY <1>1, <2>1, <2>2, <2>3, <2>4
  <2>6. claim' \in [Rows -> Deadlines]
    <3>1. Past \in Deadlines
          BY Numbers, OutboxAssumption
    <3> QED BY <2>1, <3>1
  <2>7. Counted'
        BY <1>1, <2>1, <2>2, <2>4 DEF Counted
  <2>8. SettledBy(n, r)
        BY <1>1, <2>1, <2>2, <2>4 DEF SettledBy, Holds
  <2> QED BY <2>5, <2>6, <2>7, <2>8
<1> QED BY <1>2, <1>3

\* The row that was settled leaves the hands of its holder.
LEMMA SettleKeepsHeld ==
  ASSUME OutboxInv, NEW n \in Posters, NEW r \in InHand(n),
         SettledBy(n, r) \/ UNCHANGED durable,
         \A m \in Posters : InHand(m)' = IF m = n THEN InHand(n) \ {r} ELSE InHand(m),
         UNCHANGED <<until, count>>
  PROVE  Held' /\ ClaimHasOneHolder'
<1> USE DEF OutboxInv, OutboxTypes
<1>1. r \in Rows
      BY OutboxAssumption DEF InHand
<1>2. ASSUME NEW m \in Posters, NEW q \in InHand(m)'
      PROVE  q \in InHand(m) /\ q \in Rows /\ ~(m = n /\ q = r)
      BY OutboxAssumption DEF InHand
<1>3. CASE UNCHANGED durable
      BY <1>2, <1>3 DEF durable, Held, ClaimHasOneHolder, Holds
<1>4. CASE SettledBy(n, r)
  \* No other batch counts on the claim of r, nor would any on Past.
  <2>1. ASSUME NEW m \in Posters, r \in InHand(m)'
        PROVE  until[m] /= Past /\ ~(until[m] > 0)
    <3>1. m /= n /\ r \in InHand(m)
          BY <1>2, <2>1
    <3>2. until[m] /= claim[r]
          BY <1>1, <1>4, <3>1 DEF SettledBy, ClaimHasOneHolder, Holds
    <3>3. ~(until[m] > 0)
          BY <3>1, <3>2 DEF Held
    <3>4. Working(m)
          BY <3>1, OutboxAssumption DEF InHand, Working
    <3>5. until[m] >= Past + 1 + Left(m) /\ until[m] \in Int
          BY <3>4, Numbers DEF Early
    <3> QED BY <3>3, <3>5, LeftType, Numbers
  <2>2. ASSUME NEW m \in Posters, NEW q \in InHand(m)', q /= r
        PROVE  /\ q \in InHand(m) /\ q \in Rows
               /\ claim'[q] = claim[q] /\ status'[q] = status[q]
               /\ attempts'[q] = attempts[q]
        BY <1>2, <1>4, <2>2 DEF SettledBy
  <2>3. claim'[r] = Past
        BY <1>1, <1>4 DEF SettledBy
  <2>4. Held'
    <3> SUFFICES ASSUME NEW m \in Posters, NEW q \in InHand(m)'
                 PROVE  /\ until[m] = claim'[q]
                             => status'[q] = "pending" /\ count[m][q] = attempts'[q]
                        /\ until[m] > 0 => claim'[q] = until[m]
        BY DEF Held
    <3>1. CASE q = r
          BY <2>1, <2>3, <3>1
    <3>2. CASE q /= r
          BY <2>2, <3>2 DEF Held
    <3> QED BY <3>1, <3>2
  <2>5. ClaimHasOneHolder'
    <3> SUFFICES ASSUME NEW q \in Rows, NEW m \in Posters, NEW k \in Posters,
                        Holds(m, q)', Holds(k, q)'
                 PROVE  m = k
        BY DEF ClaimHasOneHolder
    <3>1. q /= r
          BY <2>1, <2>3 DEF Holds
    <3>2. Holds(m, q) /\ Holds(k, q)
          BY <2>2, <3>1 DEF Holds
    <3> QED BY <3>2 DEF ClaimHasOneHolder
  <2> QED BY <2>4, <2>5
<1> QED BY <1>3, <1>4

LEMMA AnswerSettles ==
  ASSUME OutboxInv, NEW n \in Posters, Answer(n)
  PROVE  \E s, d : Result(n, posting[n], s, d)
<1> DEFINE r == posting[n]
<1>1. r \in Rows /\ count[n][r] \in Nat
      BY Numbers DEF Answer, OutboxInv, OutboxTypes
<1>2. Past \in Delays
      BY Numbers DEF Delays
<1>3. CASE Settle(n, r, "ok", Past)
      BY <1>2, <1>3 DEF Result
<1>4. CASE GiveUp(n, r)
      BY <1>2, <1>4 DEF Result, GiveUp
<1>5. CASE count[n][r] + 1 =< Len(BackOff) /\ Settle(n, r, "pending", BackOff[count[n][r] + 1])
  <2>1. count[n][r] + 1 \in 1..Len(BackOff) /\ count[n][r] + 1 < MaxAttempts
        BY <1>1, <1>5, Numbers DEF MaxAttempts
  <2>2. BackOff[count[n][r] + 1] \in Delays
        BY <2>1, Numbers DEF Delays
  <2> QED BY <1>5, <2>1, <2>2 DEF Result
<1> QED BY <1>3, <1>4, <1>5 DEF Answer, Retry

LEMMA AnswerKeeps == ASSUME OutboxInv, NEW n \in Posters, Answer(n) PROVE OutboxInv'
<1> USE DEF OutboxInv
<1> DEFINE r == posting[n]
<1>1. PICK s, d : Result(n, r, s, d)
      BY AnswerSettles
<1>2. /\ r /= Idle /\ r \in InHand(n) /\ r \in Rows
      /\ posting' = [posting EXCEPT ![n] = Idle]
      /\ clock' = [clock EXCEPT ![n] = 0]
      /\ UNCHANGED <<batch, until, count>>
      BY DEF Answer, InHand, OutboxTypes
<1>3. refused' \subseteq Rows
      BY <1>2 DEF Answer, OutboxTypes
<1>4. SettledBy(n, r) \/ UNCHANGED durable
      BY <1>1, <1>2, SettleRecords
<1>5. OutboxTypes' /\ Counted'
  <2>1. /\ status' \in [Rows -> {"none", "pending", "ok", "failed"}]
        /\ attempts' \in [Rows -> 0..MaxAttempts]
        /\ nextAt' \in [Rows -> Delays]
        /\ claim' \in [Rows -> Deadlines]
        /\ outboxFaults' \in 0..MaxOutboxFaults
        /\ Counted'
        BY <1>1, <1>2, SettleRecords
  <2> QED BY <1>2, <1>3, <2>1, OutboxAssumption DEF OutboxTypes
<1>6. \A m \in Posters : InHand(m)' = IF m = n THEN InHand(n) \ {r} ELSE InHand(m)
      BY <1>2 DEF InHand, Apart, OutboxTypes
<1>7. Held' /\ ClaimHasOneHolder'
      BY <1>2, <1>4, <1>6, SettleKeepsHeld
<1>8. Early'
  <2> SUFFICES ASSUME NEW m \in Posters, Working(m)' PROVE until[m] >= Past + 1 + Left(m)'
      BY <1>2 DEF Early
  <2>1. CASE m = n
    <3>1. Left(n)' = Timeout * Cardinality(batch[n]) + 0
          BY <1>2 DEF Left, OutboxTypes
    <3>2. Left(n) = Timeout * Cardinality(batch[n]) + (Timeout - clock[n])
          BY <1>2 DEF Left
    <3>3. /\ Timeout * Cardinality(batch[n]) \in Nat
          /\ clock[n] \in 0..Timeout /\ Timeout \in Nat
          BY Sizes, Products, OutboxAssumption DEF OutboxTypes
    <3>4. until[n] >= Past + 1 + Left(n) /\ until[n] \in Int
          BY <1>2, Numbers DEF Early, Working, OutboxTypes
    <3> QED BY <2>1, <3>1, <3>2, <3>3, <3>4, Numbers
  <2>2. CASE m /= n
    <3>1. batch'[m] = batch[m] /\ posting'[m] = posting[m] /\ clock'[m] = clock[m]
          BY <1>2, <2>2 DEF OutboxTypes
    <3> QED BY <3>1 DEF Early, Left, Working
  <2> QED BY <2>1, <2>2
<1>9. Apart'
      BY <1>2, OutboxAssumption DEF Apart, OutboxTypes
<1> QED BY <1>5, <1>7, <1>8, <1>9

LEMMA UnconfiguredKeeps == ASSUME OutboxInv, NEW n \in Posters, Unconfigured(n) PROVE OutboxInv'
<1> USE DEF OutboxInv
<1>1. PICK r \in batch[n] : batch' = [batch EXCEPT ![n] = @ \ {r}] /\ GiveUp(n, r)
      BY DEF Unconfigured
<1>2. /\ posting[n] = Idle /\ r \in InHand(n) /\ r \in Rows
      /\ UNCHANGED <<posting, clock, until, count, refused>>
      BY DEF Unconfigured, InHand, OutboxTypes
<1>3. Result(n, r, "failed", Past)
      BY <1>1, Numbers DEF Result, GiveUp, Delays
<1>4. SettledBy(n, r) \/ UNCHANGED durable
      BY <1>2, <1>3, SettleRecords
<1>5. OutboxTypes' /\ Counted'
  <2>1. /\ status' \in [Rows -> {"none", "pending", "ok", "failed"}]
        /\ attempts' \in [Rows -> 0..MaxAttempts]
        /\ nextAt' \in [Rows -> Delays]
        /\ claim' \in [Rows -> Deadlines]
        /\ outboxFaults' \in 0..MaxOutboxFaults
        /\ Counted'
        BY <1>2, <1>3, SettleRecords
  <2> QED BY <1>1, <1>2, <2>1 DEF OutboxTypes
<1>6. \A m \in Posters : InHand(m)' = IF m = n THEN InHand(n) \ {r} ELSE InHand(m)
      BY <1>1, <1>2, OutboxAssumption DEF InHand, OutboxTypes
<1>7. Held' /\ ClaimHasOneHolder'
      BY <1>2, <1>4, <1>6, SettleKeepsHeld
<1>8. Early'
  <2> SUFFICES ASSUME NEW m \in Posters, Working(m)' PROVE until[m] >= Past + 1 + Left(m)'
      BY <1>2 DEF Early
  <2>1. CASE m = n
    <3>1. Left(n)' = Timeout * Cardinality(batch[n] \ {r}) + 0
          BY <1>1, <1>2 DEF Left, OutboxTypes
    <3>2. Left(n) = Timeout * Cardinality(batch[n]) + 0
          BY <1>2 DEF Left
    <3>3. /\ Cardinality(batch[n]) = Cardinality(batch[n] \ {r}) + 1
          /\ Cardinality(batch[n] \ {r}) \in Nat
          BY Sizes DEF OutboxTypes
    <3>4. /\ Timeout * Cardinality(batch[n]) = Timeout * Cardinality(batch[n] \ {r}) + Timeout
          /\ Timeout * Cardinality(batch[n] \ {r}) \in Nat /\ Timeout \in Nat
          BY <3>3, Products, OutboxAssumption
    <3>5. until[n] >= Past + 1 + Left(n) /\ until[n] \in Int
          BY <1>1, Numbers DEF Early, Working, OutboxTypes
    <3> QED BY <2>1, <3>1, <3>2, <3>4, <3>5, Numbers
  <2>2. CASE m /= n
    <3>1. batch'[m] = batch[m] /\ posting'[m] = posting[m] /\ clock'[m] = clock[m]
          BY <1>1, <1>2, <2>2 DEF OutboxTypes
    <3> QED BY <3>1 DEF Early, Left, Working
  <2> QED BY <2>1, <2>2
<1>9. Apart'
      BY <1>1, <1>2 DEF Apart, OutboxTypes
<1> QED BY <1>5, <1>7, <1>8, <1>9

LEMMA OutboxInvNext == OutboxInv /\ [OutboxNext]_outboxVars => OutboxInv'
<1> SUFFICES ASSUME OutboxInv, [OutboxNext]_outboxVars PROVE OutboxInv'
    OBVIOUS
<1>1. ASSUME NEW r \in Rows, Enqueue(r) PROVE OutboxInv'
      BY <1>1, EnqueueKeeps
<1>2. ASSUME NEW n \in Posters, Loop(n) \/ Crash(n) PROVE OutboxInv'
      BY <1>2, ClaimDueKeeps, PostKeeps, AnswerKeeps, UnconfiguredKeeps, CrashKeeps
      DEF Loop
<1>3. CASE UNCHANGED outboxVars
      BY <1>3 DEF outboxVars, durable, inMemory, OutboxInv, OutboxTypes, Early, Left, Held, Apart, Counted,
                  ClaimHasOneHolder, Holds, InHand, Working
<1> QED BY <1>1, <1>2, <1>3, PairingKeeps, TickKeeps DEF OutboxNext

-----------------------------------------------------------------------------
\* Types, the bound on the attempts among them, whatever the intervals.
THEOREM OutboxTypesHold == OutboxSpec => []OutboxTypeOK
<1>1. OutboxInv /\ Flags => OutboxTypeOK
      BY DEF OutboxInv, OutboxTypes, Flags, OutboxTypeOK
<1> QED BY OutboxInvInit, OutboxInvNext, FlagsInit, FlagsNext, <1>1, PTL DEF OutboxSpec

\* Of the nodes that hold a row, at most one can settle it.
THEOREM OneHolder == OutboxSpec => []ClaimHasOneHolder
<1>1. OutboxInv => ClaimHasOneHolder
      BY DEF OutboxInv
<1> QED BY OutboxInvInit, OutboxInvNext, <1>1, PTL DEF OutboxSpec

LEMMA RecordStep ==
  ASSUME OutboxInv, NEW n \in Posters, NEW r \in Rows, SettledBy(n, r)
  PROVE  Ledger!Record(r)
<1>1. status[r] = "pending" /\ attempts[r] < MaxAttempts
      BY DEF OutboxInv, Held, Counted, SettledBy, Holds
<1> QED BY <1>1 DEF SettledBy, Ledger!Record

\* Every step on the rows is one of the ledger's: through lost settlements,
\* overlong batches and crashes, attempts count one by one up to their bound,
\* and what is sent or given up stays so.
THEOREM KeepsTheLedger == OutboxSpec => LedgerSpec
<1>1. OutboxInit => Ledger!Init
      BY DEF OutboxInit, Ledger!Init
<1>2. OutboxInv /\ [OutboxNext]_outboxVars => [Ledger!Next]_<<status, attempts>>
  <2> SUFFICES ASSUME OutboxInv, [OutboxNext]_outboxVars PROVE [Ledger!Next]_<<status, attempts>>
      OBVIOUS
  <2>1. ASSUME NEW r \in Rows, Enqueue(r) PROVE Ledger!Next
        BY <2>1 DEF Enqueue, Ledger!Next, Ledger!Enqueue
  <2>2. ASSUME NEW n \in Posters, NEW r \in InHand(n), SettledBy(n, r) \/ UNCHANGED durable
        PROVE  [Ledger!Next]_<<status, attempts>>
    <3>1. r \in Rows
          BY OutboxAssumption DEF InHand, OutboxInv, OutboxTypes
    <3> QED BY <2>2, <3>1, RecordStep DEF durable, Ledger!Next
  <2>3. ASSUME NEW n \in Posters, Answer(n) PROVE [Ledger!Next]_<<status, attempts>>
    <3>1. posting[n] \in InHand(n)
          BY <2>3 DEF Answer, InHand
    <3> QED BY <2>2, <2>3, <3>1, AnswerSettles, SettleRecords
  <2>4. ASSUME NEW n \in Posters, Unconfigured(n) PROVE [Ledger!Next]_<<status, attempts>>
    <3>1. PICK r \in batch[n] : GiveUp(n, r)
          BY <2>4 DEF Unconfigured
    <3>2. r \in InHand(n) /\ Result(n, r, "failed", Past)
          BY <3>1, Numbers DEF InHand, Result, GiveUp, Delays
    <3> QED BY <2>2, <3>2, SettleRecords
  <2>5. ASSUME NEW n \in Posters, ClaimDue(n) \/ Post(n) \/ Crash(n)
        PROVE  UNCHANGED <<status, attempts>>
        BY <2>5 DEF ClaimDue, Post, Crash, durable
  <2>6. CASE Pairing \/ TimePasses \/ UNCHANGED outboxVars
        BY <2>6 DEF Pairing, TimePasses, outboxVars, durable
  <2> QED BY <2>1, <2>3, <2>4, <2>5, <2>6 DEF OutboxNext, Loop
<1> QED BY <1>1, <1>2, OutboxInvInit, OutboxInvNext, PTL DEF OutboxSpec, LedgerSpec, Ledger!Spec


-----------------------------------------------------------------------------
(* The token                                                               *)


\* LinkTypeOK without `stale`, which the SMT solver sees apart.
LinkTypes ==
  /\ stored \in Tokens /\ issued \in Tokens /\ live \subseteq 1..issued
  /\ caller \in [Callers -> {"idle", "refresh", "store", "drop", "reread"}]
  /\ read \in [Callers -> Tokens] /\ got \in [Callers -> Tokens]
  /\ faults \in 0..MaxFaults

Numbered ==
  /\ stored \in 0..issued
  /\ \A c \in Callers : read[c] \in 0..issued /\ got[c] \in 0..issued

Spent ==
  \A c \in Callers : caller[c] \in {"store", "drop"} => read[c] \notin live

LinkInv == LinkTypes /\ Numbered /\ Spent

LEMMA StaleInit == LinkInit => stale \in BOOLEAN
BY DEF LinkInit

LEMMA StaleNext == stale \in BOOLEAN /\ [LinkNext]_linkVars => (stale \in BOOLEAN)'
<1> SUFFICES ASSUME stale \in BOOLEAN, [LinkNext]_linkVars PROVE stale' \in BOOLEAN
    OBVIOUS
<1>1. CASE LinkAccount \/ UnlinkAccount \/ Expire \/ Revoke
      BY <1>1 DEF LinkAccount, UnlinkAccount, Expire, Revoke
<1>2. ASSUME NEW c \in Callers, Call(c) PROVE stale' \in BOOLEAN
  <2>1. CASE Read(c) \/ Refresh(c) \/ TakeWinners(c)
        BY <2>1 DEF Read, Refresh, TakeWinners
  <2>2. CASE Store(c)
        BY <2>2 DEF Store, StoreIfCurrent
  <2>3. CASE Drop(c)
        BY <2>3 DEF Drop, DropIfCurrent
  <2> QED BY <1>2, <2>1, <2>2, <2>3 DEF Call
<1>3. CASE UNCHANGED linkVars
      BY <1>3 DEF linkVars
<1> QED BY <1>1, <1>2, <1>3 DEF LinkNext

LEMMA LinkInvInit == LinkInit => LinkInv
<1> SUFFICES ASSUME LinkInit PROVE LinkInv
    OBVIOUS
<1>1. LinkTypes
      BY LinkAssumption DEF LinkInit, LinkTypes, Tokens, NoToken
<1>2. Numbered /\ Spent
      BY DEF LinkInit, Numbered, Spent, NoToken
<1> QED BY <1>1, <1>2 DEF LinkInv

LEMMA LinkInvNext == LinkInv /\ [LinkNext]_linkVars => LinkInv'
<1> SUFFICES ASSUME LinkInv, [LinkNext]_linkVars PROVE LinkInv'
    OBVIOUS
<1> USE LinkAssumption DEF LinkInv, LinkTypes, Numbered, Spent, Tokens, NoToken
<1>1. CASE LinkAccount
      BY <1>1 DEF LinkAccount
<1>2. CASE UnlinkAccount
      BY <1>2 DEF UnlinkAccount
<1>3. CASE Expire
      BY <1>3 DEF Expire
<1>4. CASE Revoke
      BY <1>4 DEF Revoke
<1>5. ASSUME NEW c \in Callers, Call(c) PROVE LinkInv'
  <2>1. CASE Read(c)
        BY <2>1 DEF Read, CallerGoes
  <2>2. CASE Refresh(c)
    <3>1. ASSUME read[c] \in live, issued' = issued + 1 PROVE LinkInv'
      <4>1. /\ live' = (live \ {read[c]}) \cup {issued'} /\ issued < MaxToken
            /\ stored' = stored /\ read' = read
            /\ \/ CallerGoes(c, "store") /\ got' = [got EXCEPT ![c] = issued'] /\ faults' = faults
               \/ CallerGoes(c, "idle") /\ Fault("lost") /\ got' = got
            BY <2>2, <3>1 DEF Refresh
      <4>2. issued \in Nat /\ issued' = issued + 1 /\ issued' \in Tokens
            BY <3>1, <4>1
      <4>3. live' \subseteq 1..issued'
        <5>1. issued' \in 1..issued'
              BY <4>2
        <5>2. 1..issued \subseteq 1..issued'
              BY <4>2
        <5> QED BY <4>1, <5>1, <5>2
      <4>4. /\ stored' \in 0..issued' /\ stored' \in Tokens
            /\ got' \in [Callers -> Tokens] /\ read' \in [Callers -> Tokens]
            BY <4>1, <4>2
      <4>5. \A d \in Callers : read'[d] \in 0..issued' /\ got'[d] \in 0..issued'
            BY <4>1, <4>2
      <4>6. faults' \in 0..MaxFaults
            BY <4>1 DEF Fault
      <4>7. caller' \in [Callers -> {"idle", "refresh", "store", "drop", "reread"}]
            BY <4>1 DEF CallerGoes
      <4>8. Spent'
        <5> SUFFICES ASSUME NEW d \in Callers, caller'[d] \in {"store", "drop"}
                     PROVE  read[d] \notin live'
            BY <4>1
        <5>1. read[d] /= issued'
              BY <3>1
        <5>2. d = c \/ read[d] \notin live
              BY <4>1 DEF CallerGoes
        <5> QED BY <4>1, <5>1, <5>2
      <4> QED BY <4>2, <4>3, <4>4, <4>5, <4>6, <4>7, <4>8
    <3>2. CASE UNCHANGED <<issued, live, got>>
          BY <2>2, <3>2 DEF Refresh, CallerGoes, Fault
    <3> QED BY <2>2, <3>1, <3>2 DEF Refresh
  <2>3. CASE Store(c)
        BY <2>3 DEF Store, StoreIfCurrent, CallerGoes, Fault
  <2>4. CASE Drop(c)
        BY <2>4 DEF Drop, DropIfCurrent, CallerGoes, Fault
  <2>5. CASE TakeWinners(c)
        BY <2>5 DEF TakeWinners, CallerGoes
  <2> QED BY <1>5, <2>1, <2>2, <2>3, <2>4, <2>5 DEF Call
<1>6. CASE UNCHANGED linkVars
      BY <1>6 DEF linkVars
<1> QED BY <1>1, <1>2, <1>3, <1>4, <1>5, <1>6 DEF LinkNext

\* Types, for any number of callers and tokens.
THEOREM LinkTypesHold == LinkSpec => []LinkTypeOK
<1>1. LinkInv /\ stale \in BOOLEAN => LinkTypeOK
      BY DEF LinkInv, LinkTypes, LinkTypeOK
<1> QED BY LinkInvInit, LinkInvNext, StaleInit, StaleNext, <1>1, PTL DEF LinkSpec

LEMMA KeptStep ==
  ASSUME LinkInv, NEW c \in Callers, Call(c), stored \in live
  PROVE  stored' = stored
<1> USE DEF LinkInv, Spent
<1>1. CASE Read(c) \/ Refresh(c) \/ TakeWinners(c)
      BY <1>1 DEF Read, Refresh, TakeWinners
<1>2. CASE Store(c)
      BY <1>2 DEF Store, StoreIfCurrent
<1>3. CASE Drop(c)
      BY <1>3 DEF Drop, DropIfCurrent
<1> QED BY <1>1, <1>2, <1>3 DEF Call

\* No caller overwrites or deletes a refresh token that Trakt still takes.
THEOREM CallersKeepLiveTokens == LinkSpec => LiveTokenIsKept
<1>1. LinkInv /\ [LinkNext]_linkVars
        => [\A c \in Callers : Call(c) /\ stored \in live => stored' = stored]_linkVars
      BY KeptStep
<1> QED BY LinkInvInit, LinkInvNext, <1>1, PTL DEF LinkSpec, LiveTokenIsKept

-----------------------------------------------------------------------------
(* The sync                                                                *)


Reading == {"gate", "watched", "playback"}
Choosing == Reading \cup {"candidates"}
Writing == {"pull", "add", "remove", "reread", "record"}

RowAt(t) == [watched: BOOLEAN, at: 1..t]
PlanAt(t) == [mark: [Items -> 0..t], resume: [Items -> 0..t],
              add: [Items -> 0..t], remove: SUBSET Items]

\* TypeOK, and no time is of the future.
Recent ==
  /\ now \in Times /\ now > 0
  /\ row \in [Items -> RowAt(now) \cup {NoRow}]
  /\ history \in [Items -> 0..now] /\ playback \in [Items -> 0..now]
  /\ link \in [linked: BOOLEAN, sync: 0..now, acts: BOOLEAN]
  /\ pc \in [Nodes -> {"idle"} \cup Choosing \cup Writing]
  /\ since \in [Nodes -> 0..now]
  /\ seen \in [Nodes -> [Items -> RowAt(now) \cup {NoRow}]]
  /\ remote \in [Nodes -> [Items -> 0..now]]
  /\ plan \in [Nodes -> PlanAt(now)]
  /\ known \in [Nodes -> BOOLEAN] /\ fresh \in [Nodes -> BOOLEAN]
  /\ missed \in [Nodes -> SUBSET Items] /\ hidden \subseteq Items

\* What else TypeOK says.
Rest ==
  /\ session \in [Items -> {"none", "open", "stopped"}] /\ stops \subseteq Items
  /\ changes \in 0..MaxChanges /\ errors \in 0..MaxErrors

\* Passes that overlap are told of the same items.
Told ==
  /\ \A n \in Nodes : missed[n] \subseteq hidden
  /\ \A n \in Nodes : pc[n] = "idle" => missed[n] = {}
  /\ \A m, n \in Nodes : m /= n /\ pc[m] /= "idle" /\ pc[n] /= "idle" => missed[n] = hidden

-----------------------------------------------------------------------------
\* An un-watch that is newer than the watch of Trakt is newer than `sync`.
IsNews(r, h, sync) == Unwatched(r) /\ h /= Never /\ r.at > h => r.at > sync

\* The row s a pass read is the row, save for what the others made of it.
SeenFits(s, r, h, p, sync) ==
  \/ r = s
  \/ ~Watched(s) /\ Watched(r) /\ h /= Never /\ r.at = h /\ ~Wins(s, h, sync)
  \/ /\ ~Watched(s) /\ Unwatched(r) /\ r.at = p
     /\ Unwatched(s) => s.at =< p
     /\ h = Never \/ Wins(s, h, sync)

\* ... and so is the history g it read.
RemoteFits(s, g, h, sync) ==
  \/ g = h
  \/ g = Never /\ Watched(s) /\ h = s.at
  \/ h = Never /\ Wins(s, g, sync)

MarkFits(t, r, h) == t /= Never => h = t /\ (Watched(r) => r.at = t)

\* The un-watch a mark overrides is not the newer.
Overrides(t, r) == t /= Never /\ Unwatched(r) => r.at =< t

ResumeFits(t, r, h, p) ==
  t /= Never =>
    /\ p = t /\ ~Watched(r)
    /\ r = NoRow => h = Never
    /\ r /= NoRow => r.at =< t /\ (h = Never \/ r.at > h)

AddFits(t, r, h) == t /= Never => Watched(r) /\ r.at = t /\ h \in {Never, t}

RemoveFits(r, h) == Unwatched(r) /\ (h = Never \/ r.at > h)

Alike(r, h) == Watched(r) <=> h /= Never

PlanFits(p, x, r, h, paused) ==
  /\ MarkFits(p.mark[x], r, h)
  /\ p.mark[x] /= Never => p.resume[x] = Never /\ p.add[x] = Never /\ x \notin p.remove
  /\ ResumeFits(p.resume[x], r, h, paused)
  /\ AddFits(p.add[x], r, h)
  /\ x \in p.remove => RemoveFits(r, h)
  /\ Alike(r, h) \/ p.mark[x] /= Never \/ p.add[x] /= Never \/ x \in p.remove

\* Where a pass stands with an item that did not change under it.
Fits(n, x) ==
  /\ pc[n] \in Choosing => x \in hidden \/ IsNews(row[x], history[x], since[n])
  /\ pc[n] \in Reading =>
       SeenFits(seen[n][x], row[x], history[x], playback[x], since[n])
  /\ pc[n] = "playback" => RemoteFits(seen[n][x], remote[n][x], history[x], since[n])
  /\ pc[n] \in Writing =>
       /\ PlanFits(plan[n], x, row[x], history[x], playback[x])
       /\ x \in hidden \/ Overrides(plan[n].mark[x], row[x])

PassInv == \A n \in Nodes : \A x \in Items : x \notin missed[n] => Fits(n, x)

\* A hidden item that did not change under a pass is as the pass read it: no
\* other pass runs.
AsRead(n, x) ==
  /\ pc[n] \in Reading => seen[n][x] = row[x]
  /\ pc[n] \in Writing => \/ Overrides(plan[n].mark[x], row[x])
                          \/ Unwatched(row[x]) => row[x].at =< since[n]

HiddenInv == \A n \in Nodes : \A x \in hidden \ missed[n] : AsRead(n, x)

\* Where the account stands with an item.
Settled(r, h, sync, acts) ==
  /\ IsNews(r, h, sync)
  /\ acts /\ (r /= NoRow => r.at =< sync) => Alike(r, h)

SyncInv == \A x \in Items \ hidden : Settled(row[x], history[x], link.sync, link.acts)

Unlinked == ~link.linked => link.sync = Never /\ ~link.acts

\* A pass waits for the call that its plan asks for.
Ordered ==
  \A n \in Nodes :
    /\ pc[n] \in {"pull", "add", "remove", "record"} => Waiting(plan[n]) = pc[n]
    /\ pc[n] = "reread" => Waiting(plan[n]) = "record"

Inv == Recent /\ Told /\ PassInv /\ HiddenInv /\ SyncInv /\ Unlinked /\ Ordered

-----------------------------------------------------------------------------
(* One item: what the writes of a pass mean for the others that read it.   *)

AnyRow == Row \cup {NoRow}

\* The plan of a pass fits what it read.
LEMMA Planning ==
  ASSUME NEW r \in AnyRow, NEW h \in Times, NEW p \in Times, NEW s \in AnyRow,
         NEW g \in Times, NEW sync \in Times,
         SeenFits(s, r, h, p, sync), RemoteFits(s, g, h, sync)
  PROVE  LET wins == g /= Never /\ Wins(s, g, sync)
             marks == g /= Never /\ ~wins /\ ~Watched(s)
             resumes == Resumes(s, marks, p)
             adds == g = Never /\ Watched(s)
         IN /\ marks => MarkFits(g, r, h) /\ (IsNews(r, h, sync) => Overrides(g, r))
            /\ resumes => ResumeFits(p, r, h, p)
            /\ adds => AddFits(s.at, r, h)
            /\ wins => RemoveFits(r, h)
            /\ Alike(r, h) \/ marks \/ adds \/ wins
            /\ marks => ~wins /\ ~adds /\ ~resumes
BY NoRowAssumption DEF AnyRow, Row, Times, SeenFits, RemoteFits, IsNews, MarkFits, Overrides, ResumeFits,
   AddFits, RemoveFits, Alike, Wins, Resumes, Watched, Unwatched, Never

Marked(t) == [watched |-> TRUE, at |-> t]
Resumed(t) == [watched |-> FALSE, at |-> t]

\* A mark that fits leaves alone what others have read, and planned.
LEMMA MarkSpares ==
  ASSUME NEW r \in AnyRow, NEW h \in Times, NEW p \in Times, NEW t \in Times,
         NEW q, q = Marked(t),
         t /= Never, MarkFits(t, r, h), Overrides(t, r)
  PROVE  /\ \A s \in AnyRow, sync \in Times :
              SeenFits(s, r, h, p, sync) => SeenFits(s, q, h, p, sync)
         /\ \A sync \in Times : IsNews(q, h, sync)
         /\ \A u \in Times : MarkFits(u, r, h) /\ Overrides(u, r) => MarkFits(u, q, h) /\ Overrides(u, q)
         /\ \A u \in Times : ResumeFits(u, r, h, p) => u = Never
         /\ \A u \in Times : AddFits(u, r, h) => AddFits(u, q, h)
         /\ ~RemoveFits(r, h)
         /\ Alike(q, h)
<1>0. q \in Row /\ q /= NoRow /\ q.watched = TRUE /\ q.at = t
  <2>1. q \in Row
        BY DEF Row, Marked
  <2>2. q.watched = TRUE /\ q.at = t
        BY DEF Marked
  <2> QED BY <2>1, <2>2, NoRowAssumption
<1>r. r = NoRow \/ (r \in Row /\ r /= NoRow /\ r.watched \in BOOLEAN /\ r.at \in Times)
      BY NoRowAssumption DEF AnyRow, Row
<1>s. \A s \in AnyRow : s = NoRow \/ (s \in Row /\ s /= NoRow /\ s.watched \in BOOLEAN /\ s.at \in Times)
      BY NoRowAssumption DEF AnyRow, Row
<1> USE <1>0, <1>r, <1>s DEF Times, SeenFits, IsNews, MarkFits, Overrides, ResumeFits,
   AddFits, RemoveFits, Alike, Wins, Watched, Unwatched, Never
<1>1. \A s \in AnyRow, sync \in Times :
        SeenFits(s, r, h, p, sync) => SeenFits(s, q, h, p, sync)
  <2> SUFFICES ASSUME NEW s \in AnyRow, NEW sync \in Times, SeenFits(s, r, h, p, sync)
               PROVE  SeenFits(s, q, h, p, sync)
      OBVIOUS
  <2>1. CASE r = s /\ Watched(r)
    <3>1. r = q
          BY <2>1 DEF Row, Marked
    <3> QED BY <2>1, <3>1
  <2>2. CASE r = s /\ ~Watched(r)
        BY <2>2
  <2>3. CASE r /= s
        BY <2>3
  <2> QED BY <2>1, <2>2, <2>3
<1>2. \A sync \in Times : IsNews(q, h, sync)
      OBVIOUS
<1>3. \A u \in Times : MarkFits(u, r, h) /\ Overrides(u, r) => MarkFits(u, q, h) /\ Overrides(u, q)
      OBVIOUS
<1>4. \A u \in Times : ResumeFits(u, r, h, p) => u = Never
      OBVIOUS
<1>5. \A u \in Times : AddFits(u, r, h) => AddFits(u, q, h)
      OBVIOUS
<1>6. ~RemoveFits(r, h)
      OBVIOUS
<1>7. Alike(q, h)
      OBVIOUS
<1> QED BY <1>1, <1>2, <1>3, <1>4, <1>5, <1>6, <1>7

\* A resume point that fits leaves alone what others have read, and planned.
LEMMA ResumeSpares ==
  ASSUME NEW r \in AnyRow, NEW h \in Times, NEW p \in Times, NEW t \in Times,
         NEW q, q = Resumed(t),
         t /= Never, ResumeFits(t, r, h, p)
  PROVE  /\ \A s \in AnyRow, sync \in Times :
              SeenFits(s, r, h, p, sync) /\ IsNews(r, h, sync)
                => SeenFits(s, q, h, p, sync)
         /\ \A sync \in Times : IsNews(r, h, sync) => IsNews(q, h, sync)
         /\ \A u \in Times : MarkFits(u, r, h) /\ Overrides(u, r) => u = Never
         /\ \A u \in Times : ResumeFits(u, r, h, p) => ResumeFits(u, q, h, p)
         /\ \A u \in Times : AddFits(u, r, h) => u = Never
         /\ RemoveFits(r, h) => RemoveFits(q, h)
         /\ Alike(r, h) => Alike(q, h)
<1>0. q \in Row /\ q /= NoRow /\ q.watched = FALSE /\ q.at = t
  <2>1. q \in Row
        BY DEF Row, Resumed
  <2>2. q.watched = FALSE /\ q.at = t
        BY DEF Resumed
  <2> QED BY <2>1, <2>2, NoRowAssumption
<1>r. r = NoRow \/ (r \in Row /\ r /= NoRow /\ r.watched \in BOOLEAN /\ r.at \in Times)
      BY NoRowAssumption DEF AnyRow, Row
<1>s. \A s \in AnyRow : s = NoRow \/ (s \in Row /\ s /= NoRow /\ s.watched \in BOOLEAN /\ s.at \in Times)
      BY NoRowAssumption DEF AnyRow, Row
<1> USE <1>0, <1>r, <1>s DEF Times, SeenFits, IsNews, MarkFits, Overrides, ResumeFits,
   AddFits, RemoveFits, Alike, Wins, Watched, Unwatched, Never
<1>1. \A s \in AnyRow, sync \in Times :
        SeenFits(s, r, h, p, sync) /\ IsNews(r, h, sync)
        => SeenFits(s, q, h, p, sync)
      OBVIOUS
<1>2. \A sync \in Times : IsNews(r, h, sync) => IsNews(q, h, sync)
      OBVIOUS
<1>3. \A u \in Times : MarkFits(u, r, h) /\ Overrides(u, r) => u = Never
      OBVIOUS
<1>4. \A u \in Times : ResumeFits(u, r, h, p) => ResumeFits(u, q, h, p)
      OBVIOUS
<1>5. \A u \in Times : AddFits(u, r, h) => u = Never
      OBVIOUS
<1>6. RemoveFits(r, h) => RemoveFits(q, h)
      OBVIOUS
<1>7. Alike(r, h) => Alike(q, h)
      OBVIOUS
<1> QED BY <1>1, <1>2, <1>3, <1>4, <1>5, <1>6, <1>7

\* So does an addition, which records h2.
LEMMA AddSpares ==
  ASSUME NEW r \in AnyRow, NEW h \in Times, NEW p \in Times, NEW t \in Times,
         t /= Never, AddFits(t, r, h)
  PROVE  LET h2 == Later(h, t) IN
         /\ \A s \in AnyRow, sync \in Times :
              SeenFits(s, r, h, p, sync) => SeenFits(s, r, h2, p, sync)
         /\ \A s \in AnyRow, g \in Times, sync \in Times :
              SeenFits(s, r, h, p, sync) /\ RemoteFits(s, g, h, sync)
                => RemoteFits(s, g, h2, sync)
         /\ \A sync \in Times : IsNews(r, h2, sync)
         /\ \A u \in Times : MarkFits(u, r, h) /\ Overrides(u, r) => MarkFits(u, r, h2) /\ Overrides(u, r)
         /\ \A u \in Times : ResumeFits(u, r, h, p) => u = Never
         /\ \A u \in Times : AddFits(u, r, h) => AddFits(u, r, h2)
         /\ ~RemoveFits(r, h)
         /\ Alike(r, h2)
BY NoRowAssumption DEF AnyRow, Row, Times, SeenFits, RemoteFits, IsNews, MarkFits, Overrides, ResumeFits,
   AddFits, RemoveFits, Alike, Wins, Watched, Unwatched, Never, Later

\* So does a removal.
LEMMA RemoveSpares ==
  ASSUME NEW r \in AnyRow, NEW h \in Times, NEW p \in Times, RemoveFits(r, h)
  PROVE  /\ \A s \in AnyRow, sync \in Times :
              SeenFits(s, r, h, p, sync) => SeenFits(s, r, Never, p, sync)
         /\ \A s \in AnyRow, g \in Times, sync \in Times :
              SeenFits(s, r, h, p, sync) /\ RemoteFits(s, g, h, sync) /\ IsNews(r, h, sync)
                => RemoteFits(s, g, Never, sync)
         /\ \A sync \in Times : IsNews(r, Never, sync)
         /\ \A u \in Times : MarkFits(u, r, h) /\ Overrides(u, r) => u = Never
         /\ \A u \in Times : ResumeFits(u, r, h, p) => ResumeFits(u, r, Never, p)
         /\ \A u \in Times : AddFits(u, r, h) => u = Never
         /\ Alike(r, Never)
BY NoRowAssumption DEF AnyRow, Row, Times, SeenFits, RemoteFits, IsNews, MarkFits, Overrides, ResumeFits,
   AddFits, RemoveFits, Alike, Wins, Watched, Unwatched, Never

-----------------------------------------------------------------------------
(* Types and times *)

Stages == {"idle"} \cup Choosing \cup Writing

LEMMA RecentInit == Init => Recent
<1> SUFFICES ASSUME Init PROVE Recent
    OBVIOUS
<1>1. now \in Times /\ now = 1
      BY SyncAssumption DEF Init, Times
<1>2. row \in [Items -> RowAt(now) \cup {NoRow}]
      BY <1>1 DEF Init, RowAt
<1>3. /\ history \in [Items -> 0..now] /\ playback \in [Items -> 0..now]
      /\ link \in [linked: BOOLEAN, sync: 0..now, acts: BOOLEAN]
      BY <1>1 DEF Init, Never
<1>4. /\ pc \in [Nodes -> Stages] /\ since \in [Nodes -> 0..now]
      /\ seen \in [Nodes -> [Items -> RowAt(now) \cup {NoRow}]]
      /\ remote \in [Nodes -> [Items -> 0..now]]
      BY <1>1 DEF Init, Stages, Nothing, None, Never
<1>5. plan \in [Nodes -> PlanAt(now)]
      BY <1>1 DEF Init, NoPlan, None, Never, PlanAt
<1>6. /\ missed \in [Nodes -> SUBSET Items] /\ hidden \subseteq Items
      /\ known \in [Nodes -> BOOLEAN] /\ fresh \in [Nodes -> BOOLEAN]
      BY DEF Init
<1> QED BY <1>1, <1>2, <1>3, <1>4, <1>5, <1>6 DEF Recent, Stages

LEMMA NoPlanFits == ASSUME NEW t \in Nat PROVE NoPlan \in PlanAt(t) /\ Nothing \in [Items -> RowAt(t) \cup {NoRow}] /\ None \in [Items -> 0..t]
BY DEF NoPlan, PlanAt, None, Nothing, Never

\* What a change by the user leaves alone, and what it tells the passes.
LEMMA ChangeKeeps ==
  ASSUME Recent, NEW act, NEW x \in Items, NEW at, Change(act, x, at)
  PROVE  /\ UNCHANGED <<now, pc, since, seen, remote, plan>>
         /\ missed' \in [Nodes -> SUBSET Items] /\ hidden' \subseteq Items
BY DEF Change, Noticed, Recent, reads

LEMMA CopiesKept ==
  ASSUME Recent, TraktRests \/ TraktChanges
  PROVE  /\ link' \in [linked: BOOLEAN, sync: 0..now, acts: BOOLEAN]
         /\ known' \in [Nodes -> BOOLEAN] /\ fresh' \in [Nodes -> BOOLEAN]
<1>1. CASE TraktRests
      BY <1>1 DEF Recent, TraktRests, copies
<1>2. CASE TraktChanges
  <2>1. link' = [link EXCEPT !.acts = FALSE]
        BY <1>2 DEF TraktChanges
  <2>2. link' \in [linked: BOOLEAN, sync: 0..now, acts: BOOLEAN]
        BY <2>1 DEF Recent
  <2> QED BY <1>2, <2>2 DEF TraktChanges
<1> QED BY <1>1, <1>2

LEMMA WaitingStage == ASSUME NEW p PROVE Waiting(p) \in {"pull", "add", "remove", "record"}
BY DEF Waiting

LEMMA PlanFitsTimes ==
  ASSUME NEW t \in Nat, NEW rows \in [Items -> RowAt(t) \cup {NoRow}],
         NEW watched \in [Items -> 0..t], NEW paused \in [Items -> 0..t], NEW sync \in 0..t,
         NoRow \notin RowAt(t)
  PROVE  Plan(rows, watched, paused, sync) \in PlanAt(t)
<1> DEFINE p == Plan(rows, watched, paused, sync)
<1>1. ASSUME NEW x \in Items, Watched(rows[x]) PROVE rows[x].at \in 0..t
      BY <1>1 DEF Watched, RowAt
<1> QED BY <1>1 DEF Plan, PlanAt, Never

LEMMA RowsApart ==
  ASSUME Recent
  PROVE  NoRow \notin RowAt(now) /\ RowAt(now) \subseteq Row /\ now \in Nat /\ 0..now \subseteq Times
<1>1. now \in Nat /\ 0..now \subseteq Times
      BY SyncAssumption DEF Recent, Times
<1>2. RowAt(now) \subseteq Row
      BY <1>1 DEF RowAt, Row
<1> QED BY <1>1, <1>2, NoRowAssumption

LEMMA RecentStep == Recent /\ [Next]_vars => Recent'
<1> SUFFICES ASSUME Recent, [Next]_vars PROVE Recent'
    OBVIOUS
<1> USE RowsApart DEF Recent, Stages, Choosing, Reading, Writing
<1>1. CASE UNCHANGED vars
      BY <1>1 DEF vars, local, trakt, reads, copies
<1>2. CASE Unlink
      BY <1>2 DEF Unlink, trakt, reads, copies, Never
<1>3. CASE Link
      BY <1>3 DEF Link, local, trakt, reads, copies, Never
<1>4. CASE Tick
  <2>1. now' \in Times /\ now' > 0 /\ 0..now \subseteq 0..now'
        BY <1>4, SyncAssumption DEF Tick, Times
  <2>2. RowAt(now) \subseteq RowAt(now')
        BY <2>1 DEF RowAt
  <2>3. PlanAt(now) \subseteq PlanAt(now')
        BY <2>1 DEF PlanAt
  <2> HIDE DEF Stages, Choosing, Reading, Writing
  <2>4. UNCHANGED <<row, history, playback, link, pc, since, seen, remote, plan, known, fresh,
                      missed, hidden>>
        BY <1>4 DEF Tick, local, trakt, reads, copies
  <2>5. /\ row \in [Items -> RowAt(now') \cup {NoRow}]
        /\ history \in [Items -> 0..now'] /\ playback \in [Items -> 0..now']
        BY <2>1, <2>2
  <2>6. /\ since \in [Nodes -> 0..now'] /\ remote \in [Nodes -> [Items -> 0..now']]
        /\ link \in [linked: BOOLEAN, sync: 0..now', acts: BOOLEAN]
        BY <2>1
  <2>7. seen \in [Nodes -> [Items -> RowAt(now') \cup {NoRow}]]
        BY <2>2
  <2>8. plan \in [Nodes -> PlanAt(now')]
        BY <2>3
  <2> QED BY <2>1, <2>4, <2>5, <2>6, <2>7, <2>8
<1>5. ASSUME NEW x \in Items, User(x) PROVE Recent'
  <2> USE DEF RowAt
  <2>c. ASSUME NEW act, NEW at, Change(act, x, at)
        PROVE  /\ UNCHANGED <<now, pc, since, seen, remote, plan>>
               /\ missed' \in [Nodes -> SUBSET Items] /\ hidden' \subseteq Items
        BY <2>c, ChangeKeeps
  <2>1. CASE Mark(x)
        BY <2>1, <2>c DEF Mark, TraktRests, trakt, copies
  <2>2. CASE Unmark(x)
        BY <2>2, <2>c DEF Unmark, TraktRests, trakt, copies
  <2>3. CASE Start(x)
        BY <2>3 DEF Start, TraktRests, trakt, copies, reads
  <2>4. CASE Beat(x) \/ Replay(x)
    <3>1. PICK act \in {"play", "replay"}, at \in 1..now : Progress(x, at) /\ Change(act, x, at)
      <4>1. CASE Beat(x)
        <5>1. now \in 1..now
              OBVIOUS
        <5> QED BY <4>1, <5>1 DEF Beat
      <4>2. CASE Replay(x)
            BY <4>2 DEF Replay
      <4> QED BY <2>4, <4>1, <4>2
    <3>2. row' \in [Items -> RowAt(now) \cup {NoRow}]
          BY <3>1 DEF Progress, Watched
    <3> QED BY <3>1, <3>2, ChangeKeeps DEF Progress, TraktRests, trakt, copies
  <2>5. CASE Stopped(x)
    <3>1. CASE TraktChanges /\ history' = [history EXCEPT ![x] = now] /\ Noticed(x)
          BY <2>5, <3>1, CopiesKept DEF Stopped, Noticed, reads
    <3>2. CASE UNCHANGED <<history, link, copies, missed, hidden>>
          BY <2>5, <3>2 DEF Stopped, copies, reads
    <3> QED BY <2>5, <3>1, <3>2 DEF Stopped
  <2>6. CASE Sweep(x)
    <3>1. CASE TraktChanges /\ playback' = [playback EXCEPT ![x] = now] /\ Noticed(x)
          BY <2>6, <3>1, CopiesKept DEF Sweep, Noticed, reads
    <3>2. CASE UNCHANGED <<playback, link, copies, missed, hidden>>
          BY <2>6, <3>2 DEF Sweep, copies, reads
    <3> QED BY <2>6, <3>1, <3>2 DEF Sweep
  <2>7. CASE DeviceWatch(x)
    <3>1. PICK at \in 1..now :
             /\ history' = [history EXCEPT ![x] = Later(@, at)] /\ Change("watch", x, at)
             /\ TraktChanges /\ UNCHANGED <<local, playback>>
          BY <2>7 DEF DeviceWatch
    <3>2. history' \in [Items -> 0..now]
          BY <3>1 DEF Later
    <3> QED BY <3>1, <3>2, <2>c, CopiesKept DEF local
  <2>8. CASE DevicePause(x)
        BY <2>8, <2>c, CopiesKept DEF DevicePause, local
  <2>9. CASE DeviceForget(x)
    <3>1. PICK left \in Times :
             /\ left < history[x] /\ history' = [history EXCEPT ![x] = left]
             /\ Change("forget", x, IF left = Never THEN now ELSE left)
             /\ TraktChanges /\ UNCHANGED <<local, playback>>
          BY <2>9 DEF DeviceForget
    <3>2. left \in 0..now
          BY <3>1 DEF Times
    <3>3. history' \in [Items -> 0..now]
          BY <3>1, <3>2
    <3> HIDE DEF Stages, Choosing, Reading, Writing
    <3> QED BY <3>1, <3>3, ChangeKeeps, CopiesKept DEF local
  <2> QED BY <1>5, <2>1, <2>2, <2>3, <2>4, <2>5, <2>6, <2>7, <2>8, <2>9 DEF User
<1>6. ASSUME NEW n \in Nodes, Step(n) \/ BreakOff(n) PROVE Recent'
  <2>1. CASE Begin(n)
        BY <2>1 DEF Begin, Go, local, trakt
  <2>2. CASE ReadCandidates(n)
        BY <2>2 DEF ReadCandidates, Go, local, trakt, copies
  <2>e. ASSUME End(n) PROVE /\ pc' \in [Nodes -> Stages] /\ since' \in [Nodes -> 0..now]
                            /\ seen' \in [Nodes -> [Items -> RowAt(now) \cup {NoRow}]]
                            /\ remote' \in [Nodes -> [Items -> 0..now]]
                            /\ plan' \in [Nodes -> PlanAt(now)]
                            /\ missed' \in [Nodes -> SUBSET Items]
                            /\ known' \in [Nodes -> BOOLEAN] /\ fresh' \in [Nodes -> BOOLEAN]
        BY <2>e, NoPlanFits DEF End, Go, Never
  <2>3. CASE Gate(n)
    <3>1. CASE End(n)
          BY <2>3, <3>1, <2>e DEF Gate, local, trakt
    <3>2. CASE ~End(n)
          BY <2>3, <3>2 DEF Gate, Go, local, trakt, reads
    <3> QED BY <3>1, <3>2
  <2>4. CASE ReadWatched(n)
        BY <2>4 DEF ReadWatched, Go, local, trakt, copies
  <2>5. CASE ReadPlayback(n)
    <3> DEFINE p == Plan(seen[n], remote[n], playback, since[n])
    <3>1. p \in PlanAt(now)
      <4>1. /\ seen[n] \in [Items -> RowAt(now) \cup {NoRow}]
            /\ remote[n] \in [Items -> 0..now] /\ since[n] \in 0..now
            OBVIOUS
      <4> QED BY <4>1, PlanFitsTimes
    <3>2. plan' = [plan EXCEPT ![n] = p] /\ pc' = [pc EXCEPT ![n] = Waiting(p)]
          BY <2>5 DEF ReadPlayback, Go
    <3>3. Waiting(p) \in Stages
          BY WaitingStage
    <3> HIDE DEF p
    <3>4. plan' \in [Nodes -> PlanAt(now)] /\ pc' \in [Nodes -> Stages]
          BY <3>1, <3>2, <3>3
    <3>5. /\ since' = since /\ remote' \in [Nodes -> [Items -> 0..now]]
          /\ seen' \in [Nodes -> [Items -> RowAt(now) \cup {NoRow}]]
          BY <2>5, NoPlanFits DEF ReadPlayback, Never
    <3> QED BY <2>5, <3>4, <3>5 DEF ReadPlayback, local, trakt, copies
  <2>6. CASE Pull(n)
    <3>1. pc' \in [Nodes -> Stages]
          BY <2>6, WaitingStage DEF Pull, Go
    <3>2. missed' \in [Nodes -> SUBSET Items]
          BY <2>6 DEF Pull, Spread
    <3>3. plan' \in [Nodes -> PlanAt(now)] /\ row' \in [Items -> RowAt(now) \cup {NoRow}]
      <4>1. PICK x \in Items :
               \/ /\ plan[n].mark[x] /= Never
                  /\ row' = [row EXCEPT ![x] = [watched |-> TRUE, at |-> plan[n].mark[x]]]
                  /\ plan' = [plan EXCEPT ![n].mark[x] = Never]
               \/ /\ plan[n].resume[x] /= Never
                  /\ row' = [row EXCEPT ![x] = [watched |-> FALSE, at |-> plan[n].resume[x]]]
                  /\ plan' = [plan EXCEPT ![n].resume[x] = Never]
            BY <2>6 DEF Pull
      <4>2. plan[n].mark \in [Items -> 0..now] /\ plan[n].resume \in [Items -> 0..now]
            BY DEF PlanAt
      <4>3. row' \in [Items -> RowAt(now) \cup {NoRow}]
        <5>1. /\ plan[n].mark[x] /= Never => [watched |-> TRUE, at |-> plan[n].mark[x]] \in RowAt(now)
              /\ plan[n].resume[x] /= Never => [watched |-> FALSE, at |-> plan[n].resume[x]] \in RowAt(now)
              BY <4>2 DEF RowAt, Never
        <5> QED BY <4>1, <5>1
      <4>4. plan' \in [Nodes -> PlanAt(now)]
        <5>1. plan[n] \in PlanAt(now)
              OBVIOUS
        <5>a. /\ [plan[n].mark EXCEPT ![x] = Never] \in [Items -> 0..now]
              /\ [plan[n].resume EXCEPT ![x] = Never] \in [Items -> 0..now]
              BY <4>2 DEF Never
        <5>2. /\ [plan[n] EXCEPT !.mark = [plan[n].mark EXCEPT ![x] = Never]] \in PlanAt(now)
              /\ [plan[n] EXCEPT !.resume = [plan[n].resume EXCEPT ![x] = Never]] \in PlanAt(now)
              BY <5>1, <5>a DEF PlanAt
        <5> QED BY <4>1, <5>2
      <4> QED BY <4>3, <4>4
    <3> QED BY <2>6, <3>1, <3>2, <3>3 DEF Pull, trakt, reads, copies
  <2>7. CASE Add(n)
    <3>1. pc' \in [Nodes -> Stages]
          BY <2>7, WaitingStage DEF Add, Go
    <3>2. missed' \in [Nodes -> SUBSET Items]
          BY <2>7 DEF Add, Spread
    <3>p. plan[n] \in PlanAt(now) /\ plan[n].add \in [Items -> 0..now]
          BY DEF PlanAt
    <3>3. PICK chunk \in SUBSET {x \in Items : plan[n].add[x] /= Never} :
             /\ history' = [x \in Items |-> IF x \in chunk
                                            THEN Later(history[x], plan[n].add[x])
                                            ELSE history[x]]
             /\ plan' = [plan EXCEPT ![n].add = [x \in Items |-> IF x \in chunk THEN Never
                                                                  ELSE @[x]]]
          BY <2>7 DEF Add
    <3>4. history' \in [Items -> 0..now]
          BY <3>3, <3>p DEF Later
    <3>5. [x \in Items |-> IF x \in chunk THEN Never ELSE plan[n].add[x]] \in [Items -> 0..now]
          BY <3>p DEF Never
    <3>6. [plan[n] EXCEPT !.add = [x \in Items |-> IF x \in chunk THEN Never
                                                   ELSE plan[n].add[x]]] \in PlanAt(now)
          BY <3>p, <3>5 DEF PlanAt
    <3>7. plan' \in [Nodes -> PlanAt(now)]
          BY <3>3, <3>6
    <3> QED BY <2>7, <3>1, <3>2, <3>4, <3>7, CopiesKept DEF Add, local, reads
  <2>8. CASE Remove(n)
    <3>1. plan' \in [Nodes -> PlanAt(now)]
      <4>1. plan' = [plan EXCEPT ![n] = [plan[n] EXCEPT !.remove = {}]]
            BY <2>8 DEF Remove
      <4>2. plan[n] \in PlanAt(now)
            OBVIOUS
      <4>3. [plan[n] EXCEPT !.remove = {}] \in PlanAt(now)
            BY <4>2 DEF PlanAt
      <4> QED BY <4>1, <4>3
    <3>2. missed' \in [Nodes -> SUBSET Items]
          BY <2>8 DEF Remove, Spread
    <3>3. history' \in [Items -> 0..now]
          BY <2>8 DEF Remove, Never
    <3> QED BY <2>8, <3>1, <3>2, <3>3, CopiesKept DEF Remove, local, reads, Go
  <2>9. CASE Reread(n)
        BY <2>9 DEF Reread, Go, local, trakt, reads
  <2>10. CASE Record(n)
    <3>1. link' \in [linked: BOOLEAN, sync: 0..now, acts: BOOLEAN]
      <4>1. fresh[n] \in BOOLEAN /\ now \in 0..now
            OBVIOUS
      <4>2. [link EXCEPT !.sync = now, !.acts = fresh[n]] \in [linked: BOOLEAN, sync: 0..now, acts: BOOLEAN]
            BY <4>1
      <4> QED BY <2>10, <4>2 DEF Record
    <3>2. hidden' \subseteq Items
      <4>1. \A m \in Nodes : missed[m] \subseteq Items
            OBVIOUS
      <4>2. hidden' = UNION {missed[m] : m \in Running} /\ Running \subseteq Nodes
            BY <2>10 DEF Record, Running
      <4> QED BY <4>1, <4>2
    <3> QED BY <2>10, <2>e, <3>1, <3>2 DEF Record, local, trakt
  <2>11. CASE BreakOff(n)
        BY <2>11, <2>e DEF BreakOff, local, trakt
  <2> QED BY <1>6, <2>1, <2>2, <2>3, <2>4, <2>5, <2>6, <2>7, <2>8, <2>9, <2>10, <2>11 DEF Step
<1> QED BY <1>1, <1>2, <1>3, <1>4, <1>5, <1>6 DEF Next

LEMMA RestInit == Init => Rest
BY SyncAssumption DEF Init, Rest

LEMMA RestStep == Recent /\ Rest /\ [Next]_vars => Rest'
<1> SUFFICES ASSUME Recent, Rest, [Next]_vars PROVE Rest'
    OBVIOUS
<1> USE SyncAssumption DEF Rest
<1>1. CASE UNCHANGED vars
      BY <1>1 DEF vars, local
<1>2. CASE Unlink \/ Link \/ Tick
      BY <1>2 DEF Unlink, Link, Tick, local
<1>3. ASSUME NEW x \in Items, User(x) PROVE Rest'
  <2>1. CASE Mark(x) \/ Unmark(x) \/ DeviceWatch(x) \/ DevicePause(x) \/ DeviceForget(x)
        BY <2>1 DEF Mark, Unmark, DeviceWatch, DevicePause, DeviceForget, Change, local
  <2>2. CASE Start(x)
        BY <2>2 DEF Start
  <2>3. CASE Beat(x) \/ Replay(x)
        BY <2>3 DEF Beat, Replay, Progress, Change
  <2>4. CASE Stopped(x) \/ Sweep(x)
        BY <2>4 DEF Stopped, Sweep
  <2> QED BY <1>3, <2>1, <2>2, <2>3, <2>4 DEF User
<1>4. ASSUME NEW n \in Nodes, Step(n) \/ BreakOff(n) PROVE Rest'
  <2>1. CASE Begin(n) \/ ReadCandidates(n) \/ Gate(n) \/ ReadWatched(n) \/ ReadPlayback(n)
        BY <2>1 DEF Begin, ReadCandidates, Gate, ReadWatched, ReadPlayback, local
  <2>2. CASE Pull(n) \/ Add(n) \/ Remove(n)
        BY <2>2 DEF Pull, Add, Remove, local
  <2>3. CASE Reread(n) \/ Record(n) \/ BreakOff(n)
        BY <2>3 DEF Reread, Record, BreakOff, local
  <2> QED BY <1>4, <2>1, <2>2, <2>3 DEF Step
<1> QED BY <1>1, <1>2, <1>3, <1>4 DEF Next

\* Types, for any number of passes and items.
THEOREM TypesHold == Spec => []TypeOK
<1>1. Recent /\ Rest => TypeOK
  <2> SUFFICES ASSUME Recent, Rest PROVE TypeOK
      OBVIOUS
  <2>1. /\ 0..now \subseteq Times /\ RowAt(now) \subseteq Row
        BY RowsApart
  <2>2. /\ row \in [Items -> Row \cup {NoRow}]
        /\ seen \in [Nodes -> [Items -> Row \cup {NoRow}]]
        BY <2>1 DEF Recent
  <2>3. /\ history \in [Items -> Times] /\ playback \in [Items -> Times]
        /\ since \in [Nodes -> Times] /\ remote \in [Nodes -> [Items -> Times]]
        /\ link \in [linked: BOOLEAN, sync: Times, acts: BOOLEAN]
        BY <2>1 DEF Recent
  <2>4. PlanAt(now) \subseteq [mark: [Items -> Times], resume: [Items -> Times],
                              add: [Items -> Times], remove: SUBSET Items]
        BY <2>1 DEF PlanAt
  <2>5. pc \in [Nodes -> {"idle", "candidates", "gate", "watched", "playback",
                          "pull", "add", "remove", "reread", "record"}]
        BY DEF Recent, Choosing, Reading, Writing
  <2>6. plan \in [Nodes -> [mark: [Items -> Times], resume: [Items -> Times],
                            add: [Items -> Times], remove: SUBSET Items]]
        BY <2>4 DEF Recent
  <2> QED BY <2>2, <2>3, <2>5, <2>6 DEF Recent, Rest, TypeOK
<1> QED BY RecentInit, RecentStep, RestInit, RestStep, <1>1, PTL DEF Spec

\* No row, play, plan or last_sync_at is dated after the present, whatever the
\* dates of replays and of plays entered elsewhere.
THEOREM NothingIsOfTheFuture == Spec => []Recent
BY RecentInit, RecentStep, PTL DEF Spec

-----------------------------------------------------------------------------
(* Passes that overlap *)

\* What the user does, here or elsewhere, or what comes of it.
LEMMA UserTells ==
  ASSUME Recent, Told, NEW x \in Items, User(x)
  PROVE  /\ UNCHANGED <<now, pc, since, seen, remote, plan>>
         /\ hidden \subseteq hidden'
         /\ \/ UNCHANGED <<row, history, playback, missed, hidden>>
            \/ /\ missed' = [n \in Nodes |-> IF pc[n] /= "idle" THEN missed[n] \cup {x}
                                            ELSE missed[n]]
               /\ (\E n \in Nodes : pc[n] /= "idle") => hidden' = hidden \cup {x}
               /\ \A y \in Items \ {x} : /\ row'[y] = row[y] /\ history'[y] = history[y]
                                        /\ playback'[y] = playback[y]
<1> USE DEF Recent, reads, Noticed, Running
<1>c. ASSUME NEW act, NEW at, Change(act, x, at)
      PROVE  /\ UNCHANGED <<now, pc, since, seen, remote, plan>>
             /\ hidden \subseteq hidden'
             /\ missed' = [n \in Nodes |-> IF pc[n] /= "idle" THEN missed[n] \cup {x}
                                          ELSE missed[n]]
             /\ (\E n \in Nodes : pc[n] /= "idle") => hidden' = hidden \cup {x}
      BY <1>c DEF Change
<1>1. CASE Mark(x) \/ Unmark(x) \/ Beat(x) \/ Replay(x)
  <2>1. CASE Mark(x) \/ Unmark(x)
        BY <2>1, <1>c DEF Mark, Unmark, TraktRests, trakt
  <2>2. CASE Beat(x) \/ Replay(x)
    <3>1. PICK act, at : Progress(x, at) /\ Change(act, x, at)
          BY <2>2 DEF Beat, Replay
    <3>2. /\ UNCHANGED <<history, playback>>
          /\ \A y \in Items \ {x} : row'[y] = row[y]
          BY <3>1 DEF Progress, TraktRests, trakt
    <3> QED BY <3>1, <3>2, <1>c
  <2> QED BY <1>1, <2>1, <2>2
<1>2. CASE Start(x)
      BY <1>2 DEF Start, TraktRests, trakt
<1>3. CASE DeviceWatch(x) \/ DevicePause(x) \/ DeviceForget(x)
      BY <1>3, <1>c DEF DeviceWatch, DevicePause, DeviceForget, local
<1>4. CASE Stopped(x)
      BY <1>4 DEF Stopped
<1>5. CASE Sweep(x)
      BY <1>5 DEF Sweep
<1> QED BY <1>1, <1>2, <1>3, <1>4, <1>5 DEF User

LEMMA ToldInit == Init => Told
BY DEF Init, Told

LEMMA EndTells ==
  ASSUME Recent, Told, NEW n \in Nodes, End(n), pc[n] /= "idle"
  PROVE  /\ \A m \in Nodes \ {n} :
               /\ pc'[m] = pc[m] /\ since'[m] = since[m] /\ seen'[m] = seen[m]
               /\ remote'[m] = remote[m] /\ plan'[m] = plan[m] /\ missed'[m] = missed[m]
         /\ pc'[n] = "idle" /\ missed'[n] = {}
         /\ hidden' = hidden => Told'
         /\ hidden' = UNION {missed[m] : m \in Running}
              => Told' /\ hidden' \subseteq hidden
                 /\ \A m \in Nodes \ {n} : pc[m] /= "idle" => hidden' = hidden
<1>1. /\ \A m \in Nodes \ {n} :
            /\ pc'[m] = pc[m] /\ since'[m] = since[m] /\ seen'[m] = seen[m]
            /\ remote'[m] = remote[m] /\ plan'[m] = plan[m] /\ missed'[m] = missed[m]
      /\ pc'[n] = "idle" /\ missed'[n] = {}
      BY DEF Recent, End, Go
<1>2. hidden' = hidden => Told'
      BY <1>1 DEF Told
<1>3. ASSUME hidden' = UNION {missed[m] : m \in Running}
      PROVE  /\ Told' /\ hidden' \subseteq hidden
             /\ \A m \in Nodes \ {n} : pc[m] /= "idle" => hidden' = hidden
  <2>1. \A m \in Running : missed[m] \subseteq hidden /\ missed[m] \subseteq hidden'
        BY <1>3 DEF Told, Running
  <2>2. hidden' \subseteq hidden
        BY <1>3, <2>1
  <2>3. ASSUME NEW m \in Nodes \ {n}, pc[m] /= "idle" PROVE hidden' = hidden
    <3>1. missed[m] = hidden /\ m \in Running
          BY <2>3 DEF Told, Running
    <3> QED BY <3>1, <2>1, <2>2
  <2>4. Told'
    <3>1. \A m \in Nodes : missed'[m] \subseteq hidden'
          BY <1>1, <2>1 DEF Told, Running
    <3>2. \A m \in Nodes : pc'[m] = "idle" => missed'[m] = {}
          BY <1>1 DEF Told
    <3>3. ASSUME NEW k \in Nodes, NEW m \in Nodes, k /= m, pc'[k] /= "idle", pc'[m] /= "idle"
          PROVE  missed'[m] = hidden'
          BY <1>1, <2>3, <3>3 DEF Told
    <3> QED BY <3>1, <3>2, <3>3 DEF Told
  <2> QED BY <2>2, <2>3, <2>4
<1> QED BY <1>1, <1>2, <1>3

\* What a pass writes on an item that changed is known to all that overlap.
LEMMA SpreadTells ==
  ASSUME Recent, Told, NEW n \in Nodes, pc[n] /= "idle", NEW items \in SUBSET Items,
         Spread(n, items), hidden' = hidden,
         \A m \in Nodes \ {n} : pc'[m] = pc[m], pc'[n] /= "idle"
  PROVE  /\ missed' = missed /\ Told'
         /\ \A m \in Nodes \ {n} : pc[m] /= "idle" => missed[m] = hidden /\ missed[n] = hidden
<1>1. \A m \in Nodes \ {n} : pc[m] /= "idle" => missed[m] = hidden /\ missed[n] = hidden
      BY DEF Told
<1>2. \A m \in Nodes : missed'[m] = missed[m]
      BY <1>1 DEF Spread, Running, Recent
<1>3. missed' = missed
      BY <1>2 DEF Spread, Recent
<1> QED BY <1>1, <1>3 DEF Told

LEMMA ToldStep == Recent /\ Told /\ [Next]_vars => Told'
<1> SUFFICES ASSUME Recent, Told, [Next]_vars PROVE Told'
    OBVIOUS
<1>1. CASE UNCHANGED vars
      BY <1>1 DEF vars, Told
<1>2. CASE Unlink \/ Link \/ Tick
      BY <1>2 DEF Unlink, Link, Tick, Told
<1>3. ASSUME NEW x \in Items, User(x) PROVE Told'
  <2>1. CASE UNCHANGED <<pc, missed, hidden>>
        BY <2>1 DEF Told
  <2>2. CASE ~UNCHANGED <<pc, missed, hidden>>
    <3>1. /\ pc' = pc /\ hidden \subseteq hidden'
          /\ missed' = [n \in Nodes |-> IF pc[n] /= "idle" THEN missed[n] \cup {x}
                                       ELSE missed[n]]
          /\ (\E n \in Nodes : pc[n] /= "idle") => hidden' = hidden \cup {x}
          BY <1>3, <2>2, UserTells
    <3> QED BY <3>1 DEF Told
  <2> QED BY <2>1, <2>2
<1>4. ASSUME NEW n \in Nodes, Step(n) \/ BreakOff(n) PROVE Told'
  <2>1. CASE Begin(n)
    <3> USE <2>1 DEF Begin, Go, Running, Recent
    <3>1. CASE Running = {}
          BY <3>1 DEF Told
    <3>2. CASE Running /= {}
      <4>1. \A m \in Nodes : missed'[m] = IF pc[m] /= "idle" \/ m = n THEN missed[m] \cup hidden
                                         ELSE missed[m]
            BY <3>2
      <4>2. \A m \in Nodes : missed'[m] = IF pc[m] /= "idle" \/ m = n THEN hidden ELSE {}
            BY <4>1 DEF Told
      <4> QED BY <4>2 DEF Told
    <3> QED BY <3>1, <3>2
  <2>g. ASSUME NEW to, Go(n, to), to /= "idle", pc[n] /= "idle", UNCHANGED <<missed, hidden>>
        PROVE  Told'
    <3>1. pc'[n] /= "idle" /\ \A m \in Nodes \ {n} : pc'[m] = pc[m]
          BY <2>g DEF Go, Recent
    <3> QED BY <2>g, <3>1 DEF Told
  <2>2. CASE ReadCandidates(n) \/ ReadWatched(n) \/ Reread(n)
        BY <2>2, <2>g DEF ReadCandidates, ReadWatched, Reread
  <2>3. CASE Gate(n)
    <3>1. CASE End(n)
          BY <2>3, <3>1, EndTells DEF Gate
    <3>2. CASE ~End(n)
          BY <2>3, <3>2, <2>g DEF Gate
    <3> QED BY <3>1, <3>2
  <2>4. CASE ReadPlayback(n)
    <3>1. pc[n] = "playback" /\ UNCHANGED <<missed, hidden>>
          BY <2>4 DEF ReadPlayback
    <3>2. PICK p : Go(n, Waiting(p))
          BY <2>4 DEF ReadPlayback
    <3>3. Waiting(p) /= "idle"
          BY WaitingStage
    <3> QED BY <3>1, <3>2, <3>3, <2>g
  <2>5. CASE Pull(n) \/ Add(n) \/ Remove(n)
    <3>1. /\ pc[n] /= "idle" /\ hidden' = hidden
          /\ \E items \in SUBSET Items : Spread(n, items)
          BY <2>5 DEF Pull, Add, Remove, Recent, PlanAt
    <3>2. \E stage \in {"pull", "add", "remove", "reread", "record"} : pc' = [pc EXCEPT ![n] = stage]
          BY <2>5, WaitingStage DEF Pull, Add, Remove, Go
    <3>3. pc'[n] /= "idle" /\ \A m \in Nodes \ {n} : pc'[m] = pc[m]
          BY <3>2 DEF Recent
    <3> QED BY <3>1, <3>3, SpreadTells
  <2>6. CASE Record(n) \/ BreakOff(n)
        BY <2>6, EndTells DEF Record, BreakOff
  <2> QED BY <1>4, <2>1, <2>2, <2>3, <2>4, <2>5, <2>6 DEF Step
<1> QED BY <1>1, <1>2, <1>3, <1>4 DEF Next

-----------------------------------------------------------------------------
(* What a pass read and planned *)

LEMMA IdleFits == ASSUME NEW n \in Nodes, NEW x \in Items, pc'[n] = "idle" PROVE Fits(n, x)'
BY DEF Fits, Choosing, Reading, Writing

LEMMA Framed ==
  ASSUME NEW n \in Nodes, NEW x \in Items, Fits(n, x),
         pc'[n] = pc[n], since'[n] = since[n], seen'[n] = seen[n], remote'[n] = remote[n],
         plan'[n] = plan[n],
         row'[x] = row[x], history'[x] = history[x], playback'[x] = playback[x],
         x \in hidden => x \in hidden'
  PROVE  Fits(n, x)'
<1> USE DEF Fits
<1>1. (pc[n] \in Choosing => x \in hidden \/ IsNews(row[x], history[x], since[n]))'
      BY DEF IsNews
<1>2. (pc[n] \in Reading =>
       SeenFits(seen[n][x], row[x], history[x], playback[x], since[n]))'
      BY DEF SeenFits
<1>3. (pc[n] = "playback" => RemoteFits(seen[n][x], remote[n][x], history[x], since[n]))'
      BY DEF RemoteFits
<1>4. (pc[n] \in Writing =>
       /\ PlanFits(plan[n], x, row[x], history[x], playback[x])
       /\ x \in hidden \/ Overrides(plan[n].mark[x], row[x]))'
      BY DEF PlanFits, Overrides
<1> QED BY <1>1, <1>2, <1>3, <1>4

\* One item, for the lemmas above.
LEMMA Values ==
  ASSUME Recent, NEW n \in Nodes, NEW x \in Items
  PROVE  /\ row[x] \in AnyRow /\ history[x] \in Times /\ playback[x] \in Times
         /\ seen[n][x] /= NoRow => seen[n][x].at /= Never
         /\ since[n] \in Times /\ seen[n][x] \in AnyRow /\ remote[n][x] \in Times
         /\ plan[n].mark[x] \in Times /\ plan[n].resume[x] \in Times /\ plan[n].add[x] \in Times
<1>1. /\ 0..now \subseteq Times /\ RowAt(now) \subseteq Row
      BY RowsApart
<1>2. /\ row[x] \in AnyRow /\ history[x] \in Times /\ playback[x] \in Times
      /\ since[n] \in Times /\ remote[n][x] \in Times
      BY <1>1 DEF Recent, AnyRow
<1>3. seen[n][x] \in AnyRow /\ (seen[n][x] /= NoRow => seen[n][x].at /= Never)
  <2>1. seen[n] \in [Items -> RowAt(now) \cup {NoRow}]
        BY DEF Recent
  <2> QED BY <1>1, <2>1 DEF AnyRow, RowAt, Never
<1>4. plan[n].mark[x] \in Times /\ plan[n].resume[x] \in Times /\ plan[n].add[x] \in Times
  <2>1. plan[n] \in PlanAt(now)
        BY DEF Recent
  <2> QED BY <1>1, <2>1 DEF PlanAt
<1> QED BY <1>2, <1>3, <1>4

LEMMA StagesApart ==
  /\ \A stage \in Writing : stage \notin Choosing /\ stage \notin Reading /\ stage /= "playback"
                            /\ stage /= "idle"
  /\ {"pull", "add", "remove", "record", "reread"} \subseteq Writing
BY DEF Choosing, Reading, Writing

LEMMA PlanFramed ==
  ASSUME NEW n \in Nodes, NEW x \in Items, Fits(n, x), pc[n] \in Writing, pc'[n] \in Writing,
         plan'[n].mark[x] = plan[n].mark[x], plan'[n].resume[x] = plan[n].resume[x],
         plan'[n].add[x] = plan[n].add[x], x \in plan'[n].remove <=> x \in plan[n].remove,
         row'[x] = row[x], history'[x] = history[x], playback'[x] = playback[x],
         hidden' = hidden
  PROVE  Fits(n, x)'
<1>1. /\ PlanFits(plan[n], x, row[x], history[x], playback[x])
      /\ x \in hidden \/ Overrides(plan[n].mark[x], row[x])
      BY DEF Fits
<1>2. /\ PlanFits(plan[n], x, row[x], history[x], playback[x])'
      /\ (x \in hidden \/ Overrides(plan[n].mark[x], row[x]))'
      BY <1>1 DEF PlanFits, Overrides
<1> QED BY <1>2, StagesApart DEF Fits

\* What is left of a plan when x is marked, or resumed.
LEMMA PullPlan ==
  ASSUME Recent, NEW n \in Nodes, NEW x \in Items
  PROVE  /\ plan' = [plan EXCEPT ![n].mark[x] = Never] =>
              /\ plan'[n].mark = [plan[n].mark EXCEPT ![x] = Never]
              /\ plan'[n].resume = plan[n].resume /\ plan'[n].add = plan[n].add
              /\ plan'[n].remove = plan[n].remove
              /\ plan'[n].mark[x] = Never
              /\ \A y \in Items \ {x} : plan'[n].mark[y] = plan[n].mark[y]
              /\ \A m \in Nodes \ {n} : plan'[m] = plan[m]
         /\ plan' = [plan EXCEPT ![n].resume[x] = Never] =>
              /\ plan'[n].resume = [plan[n].resume EXCEPT ![x] = Never]
              /\ plan'[n].mark = plan[n].mark /\ plan'[n].add = plan[n].add
              /\ plan'[n].remove = plan[n].remove
              /\ plan'[n].resume[x] = Never
              /\ \A y \in Items \ {x} : plan'[n].resume[y] = plan[n].resume[y]
              /\ \A m \in Nodes \ {n} : plan'[m] = plan[m]
<1>1. plan[n] \in PlanAt(now) /\ plan \in [Nodes -> PlanAt(now)]
      BY DEF Recent
<1>2. plan[n].mark \in [Items -> 0..now] /\ plan[n].resume \in [Items -> 0..now]
      BY <1>1 DEF PlanAt
<1>3. ASSUME plan' = [plan EXCEPT ![n].mark[x] = Never]
      PROVE  /\ plan'[n] = [plan[n] EXCEPT !.mark = [plan[n].mark EXCEPT ![x] = Never]]
             /\ \A m \in Nodes \ {n} : plan'[m] = plan[m]
      BY <1>1, <1>3
<1>4. ASSUME plan' = [plan EXCEPT ![n].resume[x] = Never]
      PROVE  /\ plan'[n] = [plan[n] EXCEPT !.resume = [plan[n].resume EXCEPT ![x] = Never]]
             /\ \A m \in Nodes \ {n} : plan'[m] = plan[m]
      BY <1>1, <1>4
<1>5. ASSUME plan' = [plan EXCEPT ![n].mark[x] = Never]
      PROVE  /\ plan'[n].mark = [plan[n].mark EXCEPT ![x] = Never]
             /\ plan'[n].resume = plan[n].resume /\ plan'[n].add = plan[n].add
             /\ plan'[n].remove = plan[n].remove
      BY <1>1, <1>3, <1>5 DEF PlanAt
<1>6. ASSUME plan' = [plan EXCEPT ![n].resume[x] = Never]
      PROVE  /\ plan'[n].resume = [plan[n].resume EXCEPT ![x] = Never]
             /\ plan'[n].mark = plan[n].mark /\ plan'[n].add = plan[n].add
             /\ plan'[n].remove = plan[n].remove
      BY <1>1, <1>4, <1>6 DEF PlanAt
<1>7. ASSUME NEW f \in [Items -> 0..now]
      PROVE  /\ [f EXCEPT ![x] = Never][x] = Never
             /\ \A y \in Items \ {x} : [f EXCEPT ![x] = Never][y] = f[y]
      OBVIOUS
<1> QED BY <1>2, <1>3, <1>4, <1>5, <1>6, <1>7

\* A mark, by a pass that fits, of an item that did not change.
LEMMA MarkKeeps ==
  ASSUME Inv, NEW n \in Nodes, NEW x \in Items, NEW m \in Nodes, m /= n,
         x \notin hidden, pc[n] \in Writing, Fits(n, x), Fits(m, x), plan[n].mark[x] /= Never,
         row'[x] = Marked(plan[n].mark[x]), history'[x] = history[x],
         playback'[x] = playback[x], hidden' = hidden,
         pc'[m] = pc[m], since'[m] = since[m], seen'[m] = seen[m], remote'[m] = remote[m],
         plan'[m] = plan[m]
  PROVE  Fits(m, x)'
<1> DEFINE r == row[x]  h == history[x]  p == playback[x]  r2 == row'[x]  h2 == history'[x]
<1>1. Recent /\ MarkFits(plan[n].mark[x], r, h) /\ Overrides(plan[n].mark[x], r)
      BY DEF Inv, Fits, PlanFits
<1>2. r \in AnyRow /\ h \in Times /\ p \in Times /\ plan[n].mark[x] \in Times
      BY <1>1, Values
<1>3. /\ \A s \in AnyRow, sync \in Times :
            SeenFits(s, r, h, p, sync) => SeenFits(s, r2, h, p, sync)
      /\ \A sync \in Times : IsNews(r2, h, sync)
      /\ \A u \in Times : MarkFits(u, r, h) /\ Overrides(u, r) => MarkFits(u, r2, h) /\ Overrides(u, r2)
      /\ \A u \in Times : ResumeFits(u, r, h, p) => u = Never
      /\ \A u \in Times : AddFits(u, r, h) => AddFits(u, r2, h)
      /\ ~RemoveFits(r, h)
      /\ Alike(r2, h)
      BY <1>1, <1>2, MarkSpares
<1>4. since[m] \in Times /\ seen[m][x] \in AnyRow /\ remote[m][x] \in Times
      /\ plan[m].mark[x] \in Times /\ plan[m].resume[x] \in Times /\ plan[m].add[x] \in Times
      BY <1>1, Values
<1>5. /\ pc[m] \in Choosing => IsNews(r, h, since[m])
      /\ pc[m] \in Reading => SeenFits(seen[m][x], r, h, p, since[m])
      /\ pc[m] = "playback" => RemoteFits(seen[m][x], remote[m][x], h, since[m])
      /\ pc[m] \in Writing => PlanFits(plan[m], x, r, h, p) /\ Overrides(plan[m].mark[x], r)
      BY DEF Fits
<1>e. h2 = h
      OBVIOUS
<1> HIDE DEF r, h, p, r2, h2
<1>6. pc[m] \in Choosing => IsNews(r2, h2, since[m])
      BY <1>e, <1>3, <1>4, <1>5
<1>7. pc[m] \in Reading => SeenFits(seen[m][x], r2, h2, p, since[m])
      BY <1>e, <1>3, <1>4, <1>5 DEF Choosing
<1>8. pc[m] = "playback" => RemoteFits(seen[m][x], remote[m][x], h2, since[m])
      BY <1>e, <1>3, <1>4, <1>5 DEF Choosing, Reading
<1>9. ASSUME pc[m] \in Writing
      PROVE  PlanFits(plan[m], x, r2, h2, p) /\ Overrides(plan[m].mark[x], r2)
      BY <1>e, <1>3, <1>4, <1>5, <1>9 DEF PlanFits, MarkFits, Overrides, ResumeFits, AddFits, Never
<1> QED BY <1>6, <1>7, <1>8, <1>9 DEF Fits, r2, h2, p

\* A resume point.
LEMMA ResumeKeeps ==
  ASSUME Inv, NEW n \in Nodes, NEW x \in Items, NEW m \in Nodes, m /= n,
         x \notin hidden, pc[n] \in Writing, Fits(n, x), Fits(m, x), plan[n].resume[x] /= Never,
         row'[x] = Resumed(plan[n].resume[x]), history'[x] = history[x],
         playback'[x] = playback[x], hidden' = hidden,
         pc'[m] = pc[m], since'[m] = since[m], seen'[m] = seen[m], remote'[m] = remote[m],
         plan'[m] = plan[m]
  PROVE  Fits(m, x)'
<1> DEFINE r == row[x]  h == history[x]  p == playback[x]  r2 == row'[x]  h2 == history'[x]
<1>1. Recent /\ ResumeFits(plan[n].resume[x], r, h, p)
      BY DEF Inv, Fits, PlanFits
<1>2. r \in AnyRow /\ h \in Times /\ p \in Times /\ plan[n].resume[x] \in Times
      BY <1>1, Values
<1>3. /\ \A s \in AnyRow, sync \in Times :
            SeenFits(s, r, h, p, sync) /\ IsNews(r, h, sync)
              => SeenFits(s, r2, h, p, sync)
      /\ \A sync \in Times : IsNews(r, h, sync) => IsNews(r2, h, sync)
      /\ \A u \in Times : MarkFits(u, r, h) /\ Overrides(u, r) => u = Never
      /\ \A u \in Times : ResumeFits(u, r, h, p) => ResumeFits(u, r2, h, p)
      /\ \A u \in Times : AddFits(u, r, h) => u = Never
      /\ RemoveFits(r, h) => RemoveFits(r2, h)
      /\ Alike(r, h) => Alike(r2, h)
      BY <1>1, <1>2, ResumeSpares
<1>4. since[m] \in Times /\ seen[m][x] \in AnyRow /\ remote[m][x] \in Times
      /\ plan[m].mark[x] \in Times /\ plan[m].resume[x] \in Times /\ plan[m].add[x] \in Times
      BY <1>1, Values
<1>5. /\ pc[m] \in Choosing => IsNews(r, h, since[m])
      /\ pc[m] \in Reading => SeenFits(seen[m][x], r, h, p, since[m])
      /\ pc[m] = "playback" => RemoteFits(seen[m][x], remote[m][x], h, since[m])
      /\ pc[m] \in Writing => PlanFits(plan[m], x, r, h, p) /\ Overrides(plan[m].mark[x], r)
      BY DEF Fits
<1>e. h2 = h
      OBVIOUS
<1> HIDE DEF r, h, p, r2, h2
<1>6. pc[m] \in Choosing => IsNews(r2, h2, since[m])
      BY <1>e, <1>3, <1>4, <1>5
<1>7. pc[m] \in Reading => SeenFits(seen[m][x], r2, h2, p, since[m])
      BY <1>e, <1>3, <1>4, <1>5 DEF Choosing
<1>8. pc[m] = "playback" => RemoteFits(seen[m][x], remote[m][x], h2, since[m])
      BY <1>e, <1>3, <1>4, <1>5 DEF Choosing, Reading
<1>9. ASSUME pc[m] \in Writing
      PROVE  PlanFits(plan[m], x, r2, h2, p) /\ Overrides(plan[m].mark[x], r2)
      BY <1>e, <1>3, <1>4, <1>5, <1>9 DEF PlanFits, MarkFits, Overrides, ResumeFits, AddFits, Never
<1> QED BY <1>6, <1>7, <1>8, <1>9 DEF Fits, r2, h2, p

\* An addition.
LEMMA AddKeeps ==
  ASSUME Inv, NEW n \in Nodes, NEW x \in Items, NEW m \in Nodes, m /= n,
         x \notin hidden, pc[n] \in Writing, Fits(n, x), Fits(m, x), plan[n].add[x] /= Never,
         row'[x] = row[x], history'[x] = Later(history[x], plan[n].add[x]),
         playback'[x] = playback[x], hidden' = hidden,
         pc'[m] = pc[m], since'[m] = since[m], seen'[m] = seen[m], remote'[m] = remote[m],
         plan'[m] = plan[m]
  PROVE  Fits(m, x)'
<1> DEFINE r == row[x]  h == history[x]  p == playback[x]  r2 == row'[x]  h2 == history'[x]
<1>1. Recent /\ AddFits(plan[n].add[x], r, h)
      BY DEF Inv, Fits, PlanFits
<1>2. r \in AnyRow /\ h \in Times /\ p \in Times /\ plan[n].add[x] \in Times
      BY <1>1, Values
<1>3. /\ \A s \in AnyRow, sync \in Times :
            SeenFits(s, r, h, p, sync) => SeenFits(s, r, h2, p, sync)
      /\ \A s \in AnyRow, g \in Times, sync \in Times :
            SeenFits(s, r, h, p, sync) /\ RemoteFits(s, g, h, sync)
              => RemoteFits(s, g, h2, sync)
      /\ \A sync \in Times : IsNews(r, h2, sync)
      /\ \A u \in Times : MarkFits(u, r, h) /\ Overrides(u, r) => MarkFits(u, r, h2) /\ Overrides(u, r)
      /\ \A u \in Times : ResumeFits(u, r, h, p) => u = Never
      /\ \A u \in Times : AddFits(u, r, h) => AddFits(u, r, h2)
      /\ ~RemoveFits(r, h)
      /\ Alike(r, h2)
      BY <1>1, <1>2, AddSpares
<1>4. since[m] \in Times /\ seen[m][x] \in AnyRow /\ remote[m][x] \in Times
      /\ plan[m].mark[x] \in Times /\ plan[m].resume[x] \in Times /\ plan[m].add[x] \in Times
      BY <1>1, Values
<1>5. /\ pc[m] \in Choosing => IsNews(r, h, since[m])
      /\ pc[m] \in Reading => SeenFits(seen[m][x], r, h, p, since[m])
      /\ pc[m] = "playback" => RemoteFits(seen[m][x], remote[m][x], h, since[m])
      /\ pc[m] \in Writing => PlanFits(plan[m], x, r, h, p) /\ Overrides(plan[m].mark[x], r)
      BY DEF Fits
<1>e. r2 = r
      OBVIOUS
<1> HIDE DEF r, h, p, r2, h2
<1>6. pc[m] \in Choosing => IsNews(r2, h2, since[m])
      BY <1>e, <1>3, <1>4, <1>5
<1>7. pc[m] \in Reading => SeenFits(seen[m][x], r2, h2, p, since[m])
      BY <1>e, <1>3, <1>4, <1>5 DEF Choosing
<1>8. pc[m] = "playback" => RemoteFits(seen[m][x], remote[m][x], h2, since[m])
      BY <1>e, <1>3, <1>4, <1>5 DEF Choosing, Reading
<1>9. ASSUME pc[m] \in Writing
      PROVE  PlanFits(plan[m], x, r2, h2, p) /\ Overrides(plan[m].mark[x], r2)
      BY <1>e, <1>3, <1>4, <1>5, <1>9 DEF PlanFits, MarkFits, Overrides, ResumeFits, AddFits, Never
<1> QED BY <1>6, <1>7, <1>8, <1>9 DEF Fits, r2, h2, p

\* A removal.
LEMMA RemoveKeeps ==
  ASSUME Inv, NEW n \in Nodes, NEW x \in Items, NEW m \in Nodes, m /= n,
         x \notin hidden, pc[n] \in Writing, Fits(n, x), Fits(m, x), x \in plan[n].remove,
         row'[x] = row[x], history'[x] = Never,
         playback'[x] = playback[x], hidden' = hidden,
         pc'[m] = pc[m], since'[m] = since[m], seen'[m] = seen[m], remote'[m] = remote[m],
         plan'[m] = plan[m]
  PROVE  Fits(m, x)'
<1> DEFINE r == row[x]  h == history[x]  p == playback[x]  r2 == row'[x]  h2 == history'[x]
<1>1. Recent /\ RemoveFits(r, h)
      BY DEF Inv, Fits, PlanFits
<1>2. r \in AnyRow /\ h \in Times /\ p \in Times
      BY <1>1, Values
<1>3. /\ \A s \in AnyRow, sync \in Times :
            SeenFits(s, r, h, p, sync) => SeenFits(s, r, h2, p, sync)
      /\ \A s \in AnyRow, g \in Times, sync \in Times :
            SeenFits(s, r, h, p, sync) /\ RemoteFits(s, g, h, sync) /\ IsNews(r, h, sync)
              => RemoteFits(s, g, h2, sync)
      /\ \A sync \in Times : IsNews(r, h2, sync)
      /\ \A u \in Times : MarkFits(u, r, h) /\ Overrides(u, r) => u = Never
      /\ \A u \in Times : ResumeFits(u, r, h, p) => ResumeFits(u, r, h2, p)
      /\ \A u \in Times : AddFits(u, r, h) => u = Never
      /\ Alike(r, h2)
      BY <1>1, <1>2, RemoveSpares
<1>4. since[m] \in Times /\ seen[m][x] \in AnyRow /\ remote[m][x] \in Times
      /\ plan[m].mark[x] \in Times /\ plan[m].resume[x] \in Times /\ plan[m].add[x] \in Times
      BY <1>1, Values
<1>5. /\ pc[m] \in Choosing => IsNews(r, h, since[m])
      /\ pc[m] \in Reading => SeenFits(seen[m][x], r, h, p, since[m])
      /\ pc[m] = "playback" => RemoteFits(seen[m][x], remote[m][x], h, since[m])
      /\ pc[m] \in Writing => PlanFits(plan[m], x, r, h, p) /\ Overrides(plan[m].mark[x], r)
      BY DEF Fits
<1>e. r2 = r
      OBVIOUS
<1>f. RemoveFits(r, h2)
      BY <1>1 DEF RemoveFits
<1> HIDE DEF r, h, p, r2, h2
<1>6. pc[m] \in Choosing => IsNews(r2, h2, since[m])
      BY <1>e, <1>3, <1>4, <1>5
<1>7. pc[m] \in Reading => SeenFits(seen[m][x], r2, h2, p, since[m])
      BY <1>e, <1>3, <1>4, <1>5 DEF Choosing
<1>8. pc[m] = "playback" => RemoteFits(seen[m][x], remote[m][x], h2, since[m])
      BY <1>e, <1>3, <1>4, <1>5 DEF Choosing, Reading
<1>9. ASSUME pc[m] \in Writing
      PROVE  PlanFits(plan[m], x, r2, h2, p) /\ Overrides(plan[m].mark[x], r2)
      BY <1>e, <1>f, <1>3, <1>4, <1>5, <1>9 DEF PlanFits, MarkFits, Overrides, ResumeFits, AddFits, Never
<1> QED BY <1>6, <1>7, <1>8, <1>9 DEF Fits, r2, h2, p

-----------------------------------------------------------------------------
(* The steps of a pass *)

LEMMA OrderedInit == Init => Ordered
BY DEF Init, Ordered

LEMMA OrderedStep == Recent /\ Ordered /\ [Next]_vars => Ordered'
<1> SUFFICES ASSUME Recent, Ordered, [Next]_vars PROVE Ordered'
    OBVIOUS
<1>s. ASSUME UNCHANGED <<pc, plan>> PROVE Ordered'
      BY <1>s DEF Ordered
<1>1. CASE UNCHANGED vars
      BY <1>1, <1>s DEF vars
<1>2. CASE Unlink \/ Link \/ Tick
      BY <1>2, <1>s DEF Unlink, Link, Tick
<1>3. ASSUME NEW x \in Items, User(x) PROVE Ordered'
  <2>1. CASE Mark(x) \/ Unmark(x) \/ Beat(x) \/ Replay(x)
        BY <2>1, <1>s DEF Mark, Unmark, Beat, Replay, Change
  <2>2. CASE Start(x) \/ Stopped(x) \/ Sweep(x)
        BY <2>2, <1>s DEF Start, Stopped, Sweep
  <2>3. CASE DeviceWatch(x) \/ DevicePause(x) \/ DeviceForget(x)
        BY <2>3, <1>s DEF DeviceWatch, DevicePause, DeviceForget, Change
  <2> QED BY <1>3, <2>1, <2>2, <2>3 DEF User
<1>4. ASSUME NEW n \in Nodes, Step(n) \/ BreakOff(n) PROVE Ordered'
  <2>o. ASSUME NEW to, Go(n, to), \A m \in Nodes \ {n} : plan'[m] = plan[m],
               /\ to \in {"pull", "add", "remove", "record"} => Waiting(plan'[n]) = to
               /\ to = "reread" => Waiting(plan'[n]) = "record"
        PROVE  Ordered'
    <3>1. pc'[n] = to /\ \A m \in Nodes \ {n} : pc'[m] = pc[m]
          BY <2>o DEF Go, Recent
    <3>2. ASSUME NEW m \in Nodes, m /= n
          PROVE  /\ pc'[m] \in {"pull", "add", "remove", "record"} => Waiting(plan'[m]) = pc'[m]
                 /\ pc'[m] = "reread" => Waiting(plan'[m]) = "record"
      <4>1. pc'[m] = pc[m] /\ plan'[m] = plan[m]
            BY <2>o, <3>1, <3>2
      <4> QED BY <4>1 DEF Ordered
    <3>3. /\ pc'[n] \in {"pull", "add", "remove", "record"} => Waiting(plan'[n]) = pc'[n]
          /\ pc'[n] = "reread" => Waiting(plan'[n]) = "record"
          BY <2>o, <3>1
    <3> QED BY <3>2, <3>3 DEF Ordered
  <2>1. CASE Begin(n) \/ ReadCandidates(n) \/ ReadWatched(n)
        BY <2>1, <2>o DEF Begin, ReadCandidates, ReadWatched
  <2>e. CASE End(n)
        BY <2>e, <2>o DEF End, Recent
  <2>2. CASE Gate(n)
        BY <2>2, <2>e, <2>o DEF Gate
  <2>3. CASE ReadPlayback(n)
    <3>1. PICK p : plan' = [plan EXCEPT ![n] = p] /\ Go(n, Waiting(p))
          BY <2>3 DEF ReadPlayback
    <3>2. plan'[n] = p /\ \A m \in Nodes \ {n} : plan'[m] = plan[m]
          BY <3>1 DEF Recent
    <3>3. Waiting(p) \in {"pull", "add", "remove", "record"}
          BY WaitingStage
    <3> HIDE DEF Ordered
    <3> QED BY <3>1, <3>2, <3>3, <2>o
  <2>4. CASE Pull(n)
    <3>1. Go(n, Waiting(plan'[n])) /\ \A m \in Nodes \ {n} : plan'[m] = plan[m]
          BY <2>4 DEF Pull, Recent
    <3>2. Waiting(plan'[n]) \in {"pull", "add", "remove", "record"}
          BY WaitingStage
    <3> QED BY <3>1, <3>2, <2>o
  <2>5. CASE Add(n)
    <3>1. /\ Go(n, IF Waiting(plan'[n]) = "record" THEN "reread" ELSE Waiting(plan'[n]))
          /\ \A m \in Nodes \ {n} : plan'[m] = plan[m]
          BY <2>5 DEF Add, Recent
    <3>2. Waiting(plan'[n]) \in {"pull", "add", "remove", "record"}
          BY WaitingStage
    <3> QED BY <3>1, <3>2, <2>o
  <2>6. CASE Remove(n)
    <3>1. /\ Go(n, "reread") /\ pc[n] = "remove"
          /\ plan' = [plan EXCEPT ![n] = [plan[n] EXCEPT !.remove = {}]]
          BY <2>6 DEF Remove
    <3>2. plan'[n] = [plan[n] EXCEPT !.remove = {}] /\ \A m \in Nodes \ {n} : plan'[m] = plan[m]
          BY <3>1 DEF Recent
    <3>3. Waiting(plan[n]) = "remove" /\ plan[n] \in PlanAt(now)
          BY <3>1 DEF Ordered, Recent
    <3>4. plan[n].mark = None /\ plan[n].resume = None /\ plan[n].add = None
          BY <3>3 DEF Waiting
    <3>5. /\ plan'[n].mark = plan[n].mark /\ plan'[n].resume = plan[n].resume
          /\ plan'[n].add = plan[n].add /\ plan'[n].remove = {}
          BY <3>2, <3>3 DEF PlanAt
    <3>6. Waiting(plan'[n]) = "record"
          BY <3>4, <3>5 DEF Waiting
    <3> QED BY <3>1, <3>2, <3>6, <2>o
  <2>7. CASE Reread(n)
    <3>1. Go(n, "record") /\ plan' = plan /\ Waiting(plan[n]) = "record"
          BY <2>7 DEF Reread, Ordered
    <3> QED BY <3>1, <2>o
  <2>8. CASE Record(n) \/ BreakOff(n)
        BY <2>8, <2>e DEF Record, BreakOff
  <2> QED BY <1>4, <2>1, <2>2, <2>3, <2>4, <2>5, <2>6, <2>7, <2>8 DEF Step
<1> QED BY <1>1, <1>2, <1>3, <1>4 DEF Next

\* A pass that is not the one that steps.
LEMMA OthersFramed ==
  ASSUME Recent, NEW m \in Nodes, NEW y \in Items, y \notin missed[m] => Fits(m, y),
         pc'[m] = pc[m], since'[m] = since[m], seen'[m] = seen[m], remote'[m] = remote[m],
         plan'[m] = plan[m], missed[m] \subseteq missed'[m],
         row'[y] = row[y], history'[y] = history[y], playback'[y] = playback[y],
         pc[m] /= "idle" => hidden \subseteq hidden'
  PROVE  y \notin missed'[m] => Fits(m, y)'
<1>1. CASE pc[m] = "idle"
      BY <1>1, IdleFits
<1>2. CASE pc[m] /= "idle"
      BY <1>2, Framed
<1> QED BY <1>1, <1>2

LEMMA UserFits ==
  ASSUME Recent, Told, PassInv, NEW x \in Items, User(x)
  PROVE  PassInv'
<1> SUFFICES ASSUME NEW n \in Nodes, NEW y \in Items, y \notin missed'[n] PROVE Fits(n, y)'
    BY DEF PassInv
<1>1. UNCHANGED <<pc, since, seen, remote, plan>> /\ hidden \subseteq hidden'
      BY UserTells
<1>2. CASE pc[n] = "idle"
      BY <1>1, <1>2, IdleFits
<1>3. CASE pc[n] /= "idle"
  <2>1. y \notin missed[n] /\ row'[y] = row[y] /\ history'[y] = history[y] /\ playback'[y] = playback[y]
        BY <1>3, UserTells DEF Recent
  <2>2. Fits(n, y)
        BY <2>1 DEF PassInv
  <2> QED BY <1>1, <2>1, <2>2, Framed
<1> QED BY <1>2, <1>3

LEMMA ReadingFits ==
  ASSUME Inv, NEW n \in Nodes,
         Begin(n) \/ ReadCandidates(n) \/ ReadWatched(n) \/ ReadPlayback(n) \/ Reread(n)
  PROVE  PassInv'
<1>t. Recent /\ Told /\ PassInv
      BY DEF Inv
<1>f. UNCHANGED <<row, history, playback, hidden>> /\ \A m \in Nodes : missed[m] \subseteq missed'[m]
  <2>1. CASE Begin(n)
        BY <2>1, <1>t DEF Begin, local, trakt, Recent
  <2>2. CASE ReadCandidates(n) \/ ReadWatched(n) \/ ReadPlayback(n) \/ Reread(n)
        BY <2>2 DEF ReadCandidates, ReadWatched, ReadPlayback, Reread, local, trakt
  <2> QED BY <2>1, <2>2
<1>o. \A m \in Nodes \ {n} :
        /\ pc'[m] = pc[m] /\ since'[m] = since[m] /\ seen'[m] = seen[m]
        /\ remote'[m] = remote[m] /\ plan'[m] = plan[m]
      BY <1>t DEF Begin, ReadCandidates, ReadWatched, ReadPlayback, Reread, Go, Recent, reads
<1>n. ASSUME NEW y \in Items, y \notin missed'[n] PROVE Fits(n, y)'
  <2>f. y \notin missed[n] /\ Fits(n, y)
        BY <1>n, <1>f, <1>t DEF PassInv
  <2>1. CASE Begin(n)
    <3>1. pc'[n] = "candidates" /\ since'[n] = link.sync
          BY <2>1, <1>t DEF Begin, Go, Recent
    <3>2. y \in hidden \/ IsNews(row[y], history[y], link.sync)
          BY DEF Inv, SyncInv, Settled
    <3>3. (y \in hidden \/ IsNews(row[y], history[y], since[n]))'
          BY <3>1, <3>2, <1>f
    <3> QED BY <3>1, <3>3 DEF Fits, Reading, Writing
  <2>2. CASE ReadCandidates(n)
    <3>1. pc[n] = "candidates" /\ pc'[n] = "gate" /\ since'[n] = since[n] /\ seen'[n] = row
          BY <2>2, <1>t DEF ReadCandidates, Go, Recent
    <3>2. (y \in hidden \/ IsNews(row[y], history[y], since[n]))'
          BY <3>1, <1>f, <2>f DEF Fits, Choosing
    <3>3. SeenFits(seen[n][y], row[y], history[y], playback[y], since[n])'
          BY <3>1, <1>f DEF SeenFits
    <3> QED BY <3>1, <3>2, <3>3 DEF Fits, Writing
  <2>3. CASE ReadWatched(n)
    <3>1. /\ pc[n] = "watched" /\ pc'[n] = "playback" /\ since'[n] = since[n] /\ seen'[n] = seen[n]
          /\ remote'[n] = history
          BY <2>3, <1>t DEF ReadWatched, Go, Recent
    <3>2. (y \in hidden \/ IsNews(row[y], history[y], since[n]))'
          BY <3>1, <1>f, <2>f DEF Fits, Choosing, Reading
    <3>3. SeenFits(seen[n][y], row[y], history[y], playback[y], since[n])'
          BY <3>1, <1>f, <2>f DEF Fits, Reading
    <3>4. RemoteFits(seen[n][y], remote[n][y], history[y], since[n])'
          BY <3>1, <1>f DEF RemoteFits
    <3> QED BY <3>1, <3>2, <3>3, <3>4 DEF Fits, Writing
  <2>4. CASE ReadPlayback(n)
    <3> DEFINE p == Plan(seen[n], remote[n], playback, since[n])
               s == seen[n][y]  g == remote[n][y]  r == row[y]  h == history[y]  q == playback[y]
               wins == g /= Never /\ Wins(s, g, since[n])
               marks == g /= Never /\ ~wins /\ ~Watched(s)
    <3>1. pc[n] = "playback" /\ pc'[n] = Waiting(p) /\ plan'[n] = p
          BY <2>4, <1>t DEF ReadPlayback, Go, Recent
    <3>2. /\ y \in hidden \/ IsNews(r, h, since[n])
          /\ SeenFits(s, r, h, q, since[n]) /\ RemoteFits(s, g, h, since[n])
          BY <3>1, <2>f DEF Fits, Choosing, Reading
    <3>3. /\ p.mark[y] = IF marks THEN g ELSE Never
          /\ p.resume[y] = IF Resumes(s, marks, q) THEN q ELSE Never
          /\ p.add[y] = IF g = Never /\ Watched(s) THEN s.at ELSE Never
          /\ (y \in p.remove <=> wins)
          BY DEF Plan
    <3>4. /\ s \in AnyRow /\ g \in Times /\ r \in AnyRow /\ h \in Times /\ q \in Times
          /\ since[n] \in Times /\ (s /= NoRow => s.at /= Never)
          BY <1>t, Values
    <3> HIDE DEF p, s, g, r, h, q
    <3>5. /\ marks => MarkFits(g, r, h) /\ (IsNews(r, h, since[n]) => Overrides(g, r))
          /\ Resumes(s, marks, q) => ResumeFits(q, r, h, q)
          /\ g = Never /\ Watched(s) => AddFits(s.at, r, h)
          /\ wins => RemoveFits(r, h)
          /\ Alike(r, h) \/ marks \/ (g = Never /\ Watched(s)) \/ wins
          /\ marks => ~wins /\ ~(g = Never /\ Watched(s)) /\ ~Resumes(s, marks, q)
          BY <3>2, <3>4, Planning
    <3>d. (marks => g /= Never) /\ (g = Never /\ Watched(s) => s.at /= Never)
          BY <3>4 DEF Watched
    <3> HIDE DEF marks, wins
    <3>6. PlanFits(p, y, r, h, q) /\ (y \in hidden \/ Overrides(p.mark[y], r))
      <4>1. MarkFits(Never, r, h) /\ ResumeFits(Never, r, h, q) /\ AddFits(Never, r, h) /\ Overrides(Never, r)
            BY DEF MarkFits, ResumeFits, AddFits, Overrides
      <4>2. MarkFits(p.mark[y], r, h) /\ ResumeFits(p.resume[y], r, h, q) /\ AddFits(p.add[y], r, h)
            BY <4>1, <3>3, <3>5
      <4>3. y \in hidden \/ Overrides(p.mark[y], r)
            BY <4>1, <3>2, <3>3, <3>5
      <4>4. p.mark[y] /= Never => p.resume[y] = Never /\ p.add[y] = Never /\ y \notin p.remove
            BY <3>3, <3>5
      <4>5. y \in p.remove => RemoveFits(r, h)
            BY <3>3, <3>5
      <4>6. Alike(r, h) \/ p.mark[y] /= Never \/ p.add[y] /= Never \/ y \in p.remove
            BY <3>d, <3>3, <3>5
      <4> QED BY <4>2, <4>3, <4>4, <4>5, <4>6 DEF PlanFits
    <3>7. Waiting(p) \in Writing
          BY WaitingStage, StagesApart
    <3>8. PlanFits(plan[n], y, row[y], history[y], playback[y])'
          /\ (y \in hidden \/ Overrides(plan[n].mark[y], row[y]))'
          BY <3>1, <3>6, <1>f DEF r, h, q
    <3> QED BY <3>1, <3>7, <3>8, StagesApart DEF Fits
  <2>5. CASE Reread(n)
    <3>1. pc[n] = "reread" /\ pc'[n] = "record" /\ plan'[n] = plan[n]
          BY <2>5, <1>t DEF Reread, Go, Recent
    <3> QED BY <3>1, <1>f, <2>f, PlanFramed, StagesApart
  <2> QED BY <2>1, <2>2, <2>3, <2>4, <2>5
<1>m. ASSUME NEW m \in Nodes \ {n}, NEW y \in Items PROVE y \notin missed'[m] => Fits(m, y)'
  <2>1. y \notin missed[m] => Fits(m, y)
        BY <1>t DEF PassInv
  <2> QED BY <1>t, <1>f, <1>o, <2>1, OthersFramed
<1> QED BY <1>n, <1>m DEF PassInv

LEMMA EndFits ==
  ASSUME Inv, NEW n \in Nodes, (Gate(n) /\ End(n)) \/ Record(n) \/ BreakOff(n)
  PROVE  PassInv'
<1>t. Recent /\ Told /\ PassInv
      BY DEF Inv
<1>1. End(n) /\ pc[n] /= "idle" /\ UNCHANGED <<row, history, playback>>
      /\ (hidden' = hidden \/ hidden' = UNION {missed[m] : m \in Running})
      BY DEF Gate, Record, BreakOff, local, trakt
<1>2. /\ \A m \in Nodes \ {n} :
           /\ pc'[m] = pc[m] /\ since'[m] = since[m] /\ seen'[m] = seen[m]
           /\ remote'[m] = remote[m] /\ plan'[m] = plan[m] /\ missed'[m] = missed[m]
           /\ pc[m] /= "idle" => hidden \subseteq hidden'
      /\ pc'[n] = "idle"
      BY <1>1, <1>t, EndTells
<1>n. ASSUME NEW y \in Items PROVE Fits(n, y)'
      BY <1>2, IdleFits
<1>m. ASSUME NEW m \in Nodes \ {n}, NEW y \in Items PROVE y \notin missed'[m] => Fits(m, y)'
  <2>1. y \notin missed[m] => Fits(m, y)
        BY <1>t DEF PassInv
  <2> QED BY <1>t, <1>1, <1>2, <2>1, OthersFramed
<1> QED BY <1>n, <1>m DEF PassInv

\* What is left of the plan for the item that was written.
LEMMA OwnMark ==
  ASSUME Recent, NEW n \in Nodes, NEW x \in Items, Fits(n, x), pc[n] \in Writing, pc'[n] \in Writing,
         plan[n].mark[x] /= Never, plan' = [plan EXCEPT ![n].mark[x] = Never],
         row'[x] = Marked(plan[n].mark[x]), history'[x] = history[x], playback'[x] = playback[x]
  PROVE  Fits(n, x)'
<1>1. /\ plan'[n].mark[x] = Never /\ plan'[n].resume[x] = plan[n].resume[x]
      /\ plan'[n].add[x] = plan[n].add[x] /\ plan'[n].remove = plan[n].remove
      BY PullPlan
<1>2. /\ plan[n].resume[x] = Never /\ plan[n].add[x] = Never /\ x \notin plan[n].remove
      /\ MarkFits(plan[n].mark[x], row[x], history[x])
      BY DEF Fits, PlanFits
<1>3. Alike(row'[x], history'[x])
  <2>1. row'[x] \in Row /\ row'[x].watched = TRUE
        BY RowsApart, Values DEF Marked, Row
  <2> QED BY <1>2, <2>1, NoRowAssumption DEF MarkFits, Alike, Watched
<1>4. PlanFits(plan'[n], x, row'[x], history'[x], playback'[x])
      BY <1>1, <1>2, <1>3 DEF PlanFits, MarkFits, ResumeFits, AddFits
<1>5. Overrides(plan'[n].mark[x], row'[x])
      BY <1>1 DEF Overrides
<1> QED BY <1>4, <1>5, StagesApart DEF Fits

LEMMA OwnResume ==
  ASSUME Recent, NEW n \in Nodes, NEW x \in Items, Fits(n, x), pc[n] \in Writing, pc'[n] \in Writing,
         plan[n].mark = None,
         plan[n].resume[x] /= Never, plan' = [plan EXCEPT ![n].resume[x] = Never],
         row'[x] = Resumed(plan[n].resume[x]), history'[x] = history[x], playback'[x] = playback[x]
  PROVE  Fits(n, x)'
<1> DEFINE r == row[x]  h == history[x]  p == playback[x]  r2 == row'[x]
<1>1. /\ plan'[n].mark[x] = Never /\ plan'[n].resume[x] = Never
      /\ plan'[n].add[x] = plan[n].add[x] /\ plan'[n].remove = plan[n].remove
  <2>1. plan'[n].mark = None /\ plan'[n].resume[x] = Never
        /\ plan'[n].add = plan[n].add /\ plan'[n].remove = plan[n].remove
        BY PullPlan
  <2> QED BY <2>1 DEF None
<1>2. /\ plan[n].mark[x] = Never /\ ResumeFits(plan[n].resume[x], r, h, p)
      /\ AddFits(plan[n].add[x], r, h)
      /\ x \in plan[n].remove => RemoveFits(r, h)
      /\ Alike(r, h) \/ plan[n].add[x] /= Never \/ x \in plan[n].remove
      BY DEF Fits, PlanFits, None
<1>3. /\ AddFits(plan[n].add[x], r, h) => plan[n].add[x] = Never
      /\ RemoveFits(r, h) => RemoveFits(r2, h)
      /\ Alike(r, h) => Alike(r2, h)
  <2>1. /\ r \in AnyRow /\ h \in Times /\ p \in Times /\ plan[n].resume[x] \in Times
        /\ plan[n].add[x] \in Times
        BY Values
  <2> QED BY <1>2, <2>1, ResumeSpares
<1>4. PlanFits(plan'[n], x, r2, h, p)
      BY <1>1, <1>2, <1>3 DEF PlanFits, MarkFits, ResumeFits, AddFits
<1>5. Overrides(plan'[n].mark[x], r2)
      BY <1>1 DEF Overrides
<1> QED BY <1>4, <1>5, StagesApart DEF Fits

LEMMA PullFits ==
  ASSUME Inv, NEW n \in Nodes, Pull(n)
  PROVE  PassInv'
<1>t. Recent /\ Told /\ PassInv
      BY DEF Inv
<1>w. pc[n] = "pull" /\ pc[n] \in Writing /\ pc'[n] \in Writing
  <2>1. pc[n] = "pull" /\ pc' = [pc EXCEPT ![n] = Waiting(plan'[n])]
        BY DEF Pull, Go
  <2>2. pc'[n] = Waiting(plan'[n])
        BY <2>1, <1>t DEF Recent
  <2>3. Waiting(plan'[n]) \in {"pull", "add", "remove", "record"}
        BY WaitingStage
  <2> QED BY <2>1, <2>2, <2>3, StagesApart
<1>x. PICK x \in Items :
        /\ \/ /\ plan[n].mark[x] /= Never
              /\ row' = [row EXCEPT ![x] = Marked(plan[n].mark[x])]
              /\ plan' = [plan EXCEPT ![n].mark[x] = Never]
           \/ /\ plan[n].mark = None /\ plan[n].resume[x] /= Never
              /\ row' = [row EXCEPT ![x] = Resumed(plan[n].resume[x])]
              /\ plan' = [plan EXCEPT ![n].resume[x] = Never]
        /\ Spread(n, {x})
      BY DEF Pull, Marked, Resumed
<1>p. /\ \A m \in Nodes \ {n} : plan'[m] = plan[m]
      /\ \A y \in Items \ {x} : /\ plan'[n].mark[y] = plan[n].mark[y]
                               /\ plan'[n].resume[y] = plan[n].resume[y]
                               /\ plan'[n].add[y] = plan[n].add[y]
      /\ plan'[n].remove = plan[n].remove
  <2>1. \/ plan' = [plan EXCEPT ![n].mark[x] = Never]
        \/ plan' = [plan EXCEPT ![n].resume[x] = Never]
        BY <1>x
  <2>2. CASE plan' = [plan EXCEPT ![n].mark[x] = Never]
        BY <2>2, <1>t, PullPlan
  <2>3. CASE plan' = [plan EXCEPT ![n].resume[x] = Never]
        BY <2>3, <1>t, PullPlan
  <2> QED BY <2>1, <2>2, <2>3
<1>f. /\ UNCHANGED <<history, playback, since, seen, remote, hidden>>
      /\ \A m \in Nodes \ {n} : pc'[m] = pc[m]
      /\ \A y \in Items \ {x} : row'[y] = row[y]
      BY <1>t, <1>x DEF Pull, Go, trakt, reads, Recent
<1>s. /\ missed' = missed
      /\ \A m \in Nodes \ {n} : pc[m] /= "idle" => missed[m] = hidden /\ missed[n] = hidden
  <2>1. pc[n] /= "idle" /\ pc'[n] /= "idle" /\ hidden' = hidden /\ {x} \in SUBSET Items
        BY <1>w, <1>f, StagesApart
  <2> QED BY <2>1, <1>t, <1>x, <1>f, SpreadTells
<1>1. ASSUME NEW y \in Items, y /= x, y \notin missed'[n] PROVE Fits(n, y)'
  <2>1. Fits(n, y)
        BY <1>1, <1>s, <1>t DEF PassInv
  <2> QED BY <2>1, <1>1, <1>w, <1>p, <1>f, PlanFramed
<1>2. ASSUME NEW m \in Nodes, m /= n, NEW y \in Items, y /= x, y \notin missed'[m] PROVE Fits(m, y)'
  <2>1. y \notin missed[m] => Fits(m, y)
        BY <1>t DEF PassInv
  <2> QED BY <2>1, <1>2, <1>t, <1>p, <1>f, <1>s, OthersFramed
<1>3. ASSUME x \notin missed'[n] PROVE Fits(n, x)'
  <2>1. Fits(n, x)
        BY <1>3, <1>s, <1>t DEF PassInv
  <2>2. CASE /\ plan[n].mark[x] /= Never
             /\ row' = [row EXCEPT ![x] = Marked(plan[n].mark[x])]
             /\ plan' = [plan EXCEPT ![n].mark[x] = Never]
    <3>1. row'[x] = Marked(plan[n].mark[x])
          BY <2>2, <1>t DEF Recent
    <3> QED BY <2>1, <2>2, <3>1, <1>t, <1>w, <1>f, OwnMark
  <2>3. CASE /\ plan[n].mark = None /\ plan[n].resume[x] /= Never
             /\ row' = [row EXCEPT ![x] = Resumed(plan[n].resume[x])]
             /\ plan' = [plan EXCEPT ![n].resume[x] = Never]
    <3>1. row'[x] = Resumed(plan[n].resume[x])
          BY <2>3, <1>t DEF Recent
    <3> QED BY <2>1, <2>3, <3>1, <1>t, <1>w, <1>f, OwnResume
  <2> QED BY <1>x, <2>2, <2>3
<1>4. ASSUME NEW m \in Nodes, m /= n, x \notin missed'[m], pc[m] /= "idle" PROVE Fits(m, x)'
  <2>1. x \notin hidden /\ Fits(n, x) /\ Fits(m, x)
        BY <1>4, <1>s, <1>t DEF PassInv
  <2>2. CASE plan[n].mark[x] /= Never /\ row' = [row EXCEPT ![x] = Marked(plan[n].mark[x])]
    <3>1. row'[x] = Marked(plan[n].mark[x])
          BY <2>2, <1>t DEF Recent
    <3> QED BY <1>4, <2>1, <2>2, <3>1, <1>w, <1>p, <1>f, MarkKeeps
  <2>3. CASE plan[n].resume[x] /= Never /\ row' = [row EXCEPT ![x] = Resumed(plan[n].resume[x])]
    <3>1. row'[x] = Resumed(plan[n].resume[x])
          BY <2>3, <1>t DEF Recent
    <3> QED BY <1>4, <2>1, <2>3, <3>1, <1>w, <1>p, <1>f, ResumeKeeps
  <2> QED BY <1>x, <2>2, <2>3
<1>5. ASSUME NEW m \in Nodes, m /= n, pc[m] = "idle" PROVE Fits(m, x)'
      BY <1>5, <1>f, IdleFits
<1> QED BY <1>1, <1>2, <1>3, <1>4, <1>5 DEF PassInv

LEMMA PushFits ==
  ASSUME Inv, NEW n \in Nodes, Add(n) \/ Remove(n)
  PROVE  PassInv'
<1>t. Recent /\ Told /\ PassInv
      BY DEF Inv
<1>w. /\ pc[n] \in {"add", "remove"} /\ pc[n] \in Writing /\ pc'[n] \in Writing
      /\ \A m \in Nodes \ {n} : pc'[m] = pc[m]
  <2>1. /\ pc[n] \in {"add", "remove"}
        /\ \E to \in {"pull", "add", "remove", "record", "reread"} : Go(n, to)
        BY WaitingStage DEF Add, Remove
  <2>2. PICK to \in {"pull", "add", "remove", "record", "reread"} : pc' = [pc EXCEPT ![n] = to]
        BY <2>1 DEF Go
  <2>3. pc'[n] = to /\ \A m \in Nodes \ {n} : pc'[m] = pc[m]
        BY <2>2, <1>t DEF Recent
  <2> QED BY <2>1, <2>2, <2>3, StagesApart
<1>v. plan \in [Nodes -> PlanAt(now)] /\ plan[n] \in PlanAt(now) /\ history \in [Items -> 0..now]
      BY <1>t DEF Recent
<1>c. PICK chunk \in SUBSET Items :
        /\ Spread(n, chunk)
        /\ \A y \in Items \ chunk : history'[y] = history[y]
        /\ \A y \in chunk :
             \/ plan[n].add[y] /= Never /\ history'[y] = Later(history[y], plan[n].add[y])
             \/ y \in plan[n].remove /\ history'[y] = Never
        /\ \A m \in Nodes \ {n} : plan'[m] = plan[m]
        /\ plan'[n].mark = plan[n].mark /\ plan'[n].resume = plan[n].resume
        /\ \A y \in Items \ chunk : /\ plan'[n].add[y] = plan[n].add[y]
                                   /\ (y \in plan'[n].remove <=> y \in plan[n].remove)
        /\ \A y \in chunk : /\ plan'[n].add[y] \in {Never, plan[n].add[y]}
                            /\ y \in plan'[n].remove => y \in plan[n].remove
                            /\ plan[n].add[y] /= Never /\ y \notin plan[n].remove => plan'[n].add[y] = Never
                            /\ y \in plan[n].remove /\ plan[n].add[y] = Never => y \notin plan'[n].remove
  <2>1. CASE Add(n)
    <3>1. PICK chunk \in SUBSET {x \in Items : plan[n].add[x] /= Never} :
             /\ history' = [x \in Items |-> IF x \in chunk
                                            THEN Later(history[x], plan[n].add[x])
                                            ELSE history[x]]
             /\ plan' = [plan EXCEPT ![n].add = [x \in Items |-> IF x \in chunk THEN Never
                                                                  ELSE @[x]]]
             /\ Spread(n, chunk)
          BY <2>1 DEF Add
    <3>2. plan'[n] = [plan[n] EXCEPT !.add = [x \in Items |-> IF x \in chunk THEN Never
                                                             ELSE plan[n].add[x]]]
          /\ \A m \in Nodes \ {n} : plan'[m] = plan[m]
          BY <3>1, <1>v
    <3>3. /\ plan'[n].add = [x \in Items |-> IF x \in chunk THEN Never ELSE plan[n].add[x]]
          /\ plan'[n].mark = plan[n].mark /\ plan'[n].resume = plan[n].resume
          /\ plan'[n].remove = plan[n].remove
          BY <3>2, <1>v DEF PlanAt
    <3> WITNESS chunk \in SUBSET Items
    <3> QED BY <3>1, <3>2, <3>3
  <2>2. CASE Remove(n)
    <3>1. /\ history' = [x \in Items |-> IF x \in plan[n].remove THEN Never ELSE history[x]]
          /\ plan' = [plan EXCEPT ![n] = [plan[n] EXCEPT !.remove = {}]]
          /\ Spread(n, plan[n].remove)
          BY <2>2 DEF Remove
    <3>2. plan'[n] = [plan[n] EXCEPT !.remove = {}] /\ \A m \in Nodes \ {n} : plan'[m] = plan[m]
          BY <3>1, <1>v
    <3>3. /\ plan'[n].mark = plan[n].mark /\ plan'[n].resume = plan[n].resume
          /\ plan'[n].add = plan[n].add /\ plan'[n].remove = {} /\ plan[n].remove \in SUBSET Items
          BY <3>2, <1>v DEF PlanAt
    <3> USE <3>3
    <3> WITNESS plan[n].remove \in SUBSET Items
    <3> QED BY <3>1, <3>2, <3>3
  <2> QED BY <2>1, <2>2
<1>f. UNCHANGED <<row, playback, since, seen, remote, hidden>>
      BY DEF Add, Remove, local, reads
<1>s. /\ missed' = missed
      /\ \A m \in Nodes \ {n} : pc[m] /= "idle" => missed[m] = hidden /\ missed[n] = hidden
  <2>1. pc[n] /= "idle" /\ pc'[n] /= "idle" /\ hidden' = hidden
        BY <1>w, <1>f, StagesApart
  <2> QED BY <2>1, <1>t, <1>c, <1>w, SpreadTells
<1>1. ASSUME NEW y \in Items \ chunk, y \notin missed'[n] PROVE Fits(n, y)'
  <2>1. Fits(n, y)
        BY <1>1, <1>s, <1>t DEF PassInv
  <2>2. /\ plan'[n].mark[y] = plan[n].mark[y] /\ plan'[n].resume[y] = plan[n].resume[y]
        /\ plan'[n].add[y] = plan[n].add[y] /\ (y \in plan'[n].remove <=> y \in plan[n].remove)
        /\ row'[y] = row[y] /\ history'[y] = history[y] /\ playback'[y] = playback[y]
        BY <1>1, <1>c, <1>f
  <2> QED BY <2>1, <2>2, <1>1, <1>w, <1>f, PlanFramed
<1>2. ASSUME NEW m \in Nodes, m /= n, NEW y \in Items \ chunk, y \notin missed'[m] PROVE Fits(m, y)'
  <2>1. y \notin missed[m] => Fits(m, y)
        BY <1>t DEF PassInv
  <2>2. /\ row'[y] = row[y] /\ history'[y] = history[y] /\ playback'[y] = playback[y]
        /\ plan'[m] = plan[m] /\ pc'[m] = pc[m] /\ missed[m] \subseteq missed'[m]
        BY <1>2, <1>w, <1>c, <1>f, <1>s
  <2> QED BY <2>1, <2>2, <1>2, <1>t, <1>f, OthersFramed
<1>3. ASSUME NEW y \in chunk, y \notin missed'[n] PROVE Fits(n, y)'
  <2> DEFINE r == row[y]  h == history[y]  p == playback[y]  h2 == history'[y]
  <2>1. y \in Items /\ PlanFits(plan[n], y, r, h, p) /\ (y \in hidden \/ Overrides(plan[n].mark[y], r))
        BY <1>3, <1>s, <1>t, <1>w DEF PassInv, Fits
  <2>2. /\ r \in AnyRow /\ h \in Times /\ p \in Times
        /\ plan[n].mark[y] \in Times /\ plan[n].resume[y] \in Times /\ plan[n].add[y] \in Times
        BY <1>t, <2>1, Values
  <2>3. /\ MarkFits(plan[n].mark[y], r, h) /\ ResumeFits(plan[n].resume[y], r, h, p)
        /\ AddFits(plan[n].add[y], r, h) /\ (y \in plan[n].remove => RemoveFits(r, h))
        /\ plan[n].mark[y] = Never
        BY <2>1, <1>c DEF PlanFits
  <2>4. /\ plan'[n].mark[y] = Never /\ plan'[n].resume[y] = plan[n].resume[y]
        BY <2>3, <1>c
  <2> HIDE DEF r, h, p, h2
  <2>5. CASE plan[n].add[y] /= Never /\ h2 = Later(h, plan[n].add[y])
    <3>1. /\ plan[n].resume[y] = Never /\ ~RemoveFits(r, h) /\ Alike(r, h2)
          BY <2>2, <2>3, <2>5, AddSpares
    <3>2. y \notin plan[n].remove /\ y \notin plan'[n].remove /\ plan'[n].add[y] = Never
          BY <3>1, <2>3, <2>5, <1>c
    <3>3. PlanFits(plan'[n], y, r, h2, p)
          BY <3>1, <3>2, <2>4 DEF PlanFits, MarkFits, ResumeFits, AddFits
    <3>4. Overrides(plan'[n].mark[y], r)
          BY <2>4 DEF Overrides
    <3> QED BY <3>3, <3>4, <1>w, <1>f, StagesApart DEF Fits, r, h2, p
  <2>6. CASE y \in plan[n].remove /\ h2 = Never
    <3>0. RemoveFits(r, h)
          BY <2>3, <2>6
    <3>1. /\ plan[n].add[y] = Never /\ ResumeFits(plan[n].resume[y], r, Never, p) /\ Alike(r, Never)
          BY <2>2, <2>3, <3>0, RemoveSpares
    <3>2. y \notin plan'[n].remove /\ plan'[n].add[y] = Never
          BY <3>1, <2>6, <1>c
    <3>3. PlanFits(plan'[n], y, r, h2, p)
          BY <3>1, <3>2, <2>4, <2>6 DEF PlanFits, MarkFits, AddFits
    <3>4. Overrides(plan'[n].mark[y], r)
          BY <2>4 DEF Overrides
    <3> QED BY <3>3, <3>4, <1>w, <1>f, StagesApart DEF Fits, r, h2, p
  <2> QED BY <1>c, <2>5, <2>6 DEF h, h2
<1>4. ASSUME NEW m \in Nodes, m /= n, NEW y \in chunk, y \notin missed'[m], pc[m] /= "idle"
      PROVE  Fits(m, y)'
  <2>1. y \in Items /\ y \notin hidden /\ Fits(n, y) /\ Fits(m, y)
        BY <1>4, <1>s, <1>t DEF PassInv
  <2>2. /\ row'[y] = row[y] /\ playback'[y] = playback[y] /\ hidden' = hidden
        /\ pc'[m] = pc[m] /\ since'[m] = since[m] /\ seen'[m] = seen[m] /\ remote'[m] = remote[m]
        /\ plan'[m] = plan[m]
        BY <1>4, <1>w, <1>c, <1>f
  <2>3. CASE plan[n].add[y] /= Never /\ history'[y] = Later(history[y], plan[n].add[y])
        BY <2>1, <2>2, <2>3, <1>4, <1>w, AddKeeps
  <2>4. CASE y \in plan[n].remove /\ history'[y] = Never
        BY <2>1, <2>2, <2>4, <1>4, <1>w, RemoveKeeps
  <2> QED BY <1>c, <2>3, <2>4
<1>5. ASSUME NEW m \in Nodes, m /= n, pc[m] = "idle", NEW y \in Items PROVE Fits(m, y)'
  <2>1. pc'[m] = "idle"
        BY <1>5, <1>w
  <2> QED BY <2>1, IdleFits
<1> QED BY <1>1, <1>2, <1>3, <1>4, <1>5 DEF PassInv

LEMMA PassInit == Init => PassInv
BY DEF Init, PassInv, Fits, Choosing, Reading, Writing

LEMMA PassStep == Inv /\ [Next]_vars => PassInv'
<1> SUFFICES ASSUME Inv, [Next]_vars PROVE PassInv'
    OBVIOUS
<1>t. Recent /\ Told /\ PassInv
      BY DEF Inv
<1>s. ASSUME UNCHANGED <<row, history, playback, pc, since, seen, remote, plan, missed, hidden>>
      PROVE  PassInv'
  <2> SUFFICES ASSUME NEW n \in Nodes, NEW x \in Items, x \notin missed'[n] PROVE Fits(n, x)'
      BY DEF PassInv
  <2>1. Fits(n, x)
        BY <1>s, <1>t DEF PassInv
  <2> QED BY <1>s, <2>1, Framed
<1>1. CASE UNCHANGED vars
      BY <1>1, <1>s DEF vars, local, trakt, reads
<1>2. CASE Unlink \/ Link \/ Tick
      BY <1>2, <1>s DEF Unlink, Link, Tick, local, trakt, reads
<1>3. ASSUME NEW x \in Items, User(x) PROVE PassInv'
      BY <1>3, <1>t, UserFits
<1>4. ASSUME NEW n \in Nodes, Step(n) \/ BreakOff(n) PROVE PassInv'
  <2>1. CASE Begin(n) \/ ReadCandidates(n) \/ ReadWatched(n) \/ ReadPlayback(n) \/ Reread(n)
        BY <2>1, ReadingFits
  <2>2. CASE Gate(n)
    <3>1. CASE End(n)
          BY <2>2, <3>1, EndFits
    <3>2. CASE ~End(n)
      <4>1. /\ pc[n] = "gate" /\ pc' = [pc EXCEPT ![n] = "watched"]
            /\ UNCHANGED <<row, history, playback, since, seen, remote, plan, missed, hidden>>
            BY <2>2, <3>2 DEF Gate, Go, reads, local, trakt
      <4>2. pc'[n] = "watched" /\ \A m \in Nodes \ {n} : pc'[m] = pc[m]
            BY <4>1, <1>t DEF Recent
      <4>3. ASSUME NEW m \in Nodes, NEW x \in Items, x \notin missed'[m], m /= n PROVE Fits(m, x)'
        <5>1. Fits(m, x)
              BY <4>1, <4>3, <1>t DEF PassInv
        <5> QED BY <5>1, <4>1, <4>2, <4>3, Framed
      <4>4. ASSUME NEW x \in Items, x \notin missed'[n] PROVE Fits(n, x)'
        <5>1. Fits(n, x)
              BY <4>1, <4>4, <1>t DEF PassInv
        <5>2. /\ x \in hidden \/ IsNews(row[x], history[x], since[n])
              /\ SeenFits(seen[n][x], row[x], history[x], playback[x], since[n])
              BY <4>1, <5>1 DEF Fits, Choosing, Reading
        <5>3. (x \in hidden \/ IsNews(row[x], history[x], since[n]))'
              BY <4>1, <5>2
        <5>4. SeenFits(seen[n][x], row[x], history[x], playback[x], since[n])'
              BY <4>1, <5>2
        <5> QED BY <4>2, <5>3, <5>4 DEF Fits, Choosing, Reading, Writing
      <4> QED BY <4>3, <4>4 DEF PassInv
    <3> QED BY <3>1, <3>2
  <2>3. CASE Pull(n)
        BY <2>3, PullFits
  <2>4. CASE Add(n) \/ Remove(n)
        BY <2>4, PushFits
  <2>5. CASE Record(n) \/ BreakOff(n)
        BY <2>5, EndFits
  <2> QED BY <1>4, <2>1, <2>2, <2>3, <2>4, <2>5 DEF Step
<1> QED BY <1>1, <1>2, <1>3, <1>4 DEF Next

-----------------------------------------------------------------------------
(* Where the account stands *)

LEMMA AlikeSettles ==
  ASSUME NEW r \in AnyRow, NEW h \in Times, Alike(r, h), NEW sync, NEW acts
  PROVE  Settled(r, h, sync, acts)
BY DEF Settled, IsNews, Alike, Watched, Unwatched

\* What the account is after a step, if none of its own changes it.
LEMMA SettledKept ==
  ASSUME NEW x \in Items, Settled(row[x], history[x], link.sync, link.acts),
         row'[x] = row[x], history'[x] = history[x], link'.sync = link.sync,
         link'.acts => link.acts
  PROVE  Settled(row[x], history[x], link.sync, link.acts)'
BY DEF Settled, IsNews

\* Outside `hidden` the user writes what is newer than the last sync.
LEMMA UserSettles ==
  ASSUME Inv, NEW x \in Items, User(x)
  PROVE  SyncInv' /\ Unlinked'
<1>t. Recent /\ Told /\ SyncInv /\ Unlinked
      BY DEF Inv
<1>n. now \in Nat /\ link.sync \in 0..now /\ NoRow \notin Row /\ now \in Times /\ link.acts \in BOOLEAN
      BY <1>t, RowsApart, NoRowAssumption DEF Recent
<1>l. ASSUME TraktChanges \/ TraktRests
      PROVE  link'.sync = link.sync /\ link'.linked = link.linked /\ (link'.acts => link.acts)
             /\ (TraktChanges => link'.acts = FALSE)
  <2>1. CASE TraktRests /\ ~TraktChanges
        BY <2>1 DEF TraktRests
  <2>2. CASE TraktChanges
    <3>1. link' = [link EXCEPT !.acts = FALSE]
          BY <2>2 DEF TraktChanges
    <3> QED BY <3>1, <1>t DEF Recent
  <2> QED BY <1>l, <2>1, <2>2
<1>c. link'.sync = link.sync /\ link'.linked = link.linked /\ (link'.acts => link.acts)
      BY <1>l DEF User, Mark, Unmark, Start, Beat, Replay, Progress, Stopped, Sweep, DeviceWatch,
                  DevicePause, DeviceForget, TraktRests
<1>h. hidden \subseteq hidden'
      BY UserTells, <1>t
<1>o. ASSUME NEW y \in Items, y \notin hidden', row'[y] = row[y], history'[y] = history[y]
      PROVE  Settled(row[y], history[y], link.sync, link.acts)'
  <2>1. Settled(row[y], history[y], link.sync, link.acts)
        BY <1>o, <1>h, <1>t DEF SyncInv
  <2> QED BY <2>1, <1>o, <1>c, SettledKept
<1>r. ASSUME NEW act, NEW at \in 1..now, Change(act, x, at), x \notin hidden', NEW b \in BOOLEAN,
             row'[x] = [watched |-> b, at |-> at]
      PROVE  Settled(row[x], history[x], link.sync, link.acts)'
  <2>1. link.sync < at /\ at \in Times
        BY <1>r, <1>n, RowsApart, <1>t DEF Change
  <2>2. row'[x] /= NoRow /\ row'[x].at = at
    <3>1. row'[x] \in Row /\ row'[x].at = at
          BY <1>r, <2>1 DEF Row
    <3> QED BY <3>1, <1>n
  <2> QED BY <2>1, <2>2, <1>c, <1>n DEF Settled, IsNews
<1>d. ASSUME TraktChanges, row'[x] = row[x], history'[x] \in 0..now,
             \/ history'[x] \in {Never, now}
             \/ history'[x] > link.sync
             \/ x \notin hidden' /\ history'[x] = history[x]
      PROVE  Settled(row[x], history[x], link.sync, link.acts)'
  <2>1. row[x] \in AnyRow
        BY <1>t, RowsApart DEF Recent, AnyRow
  <2>2. row[x] /= NoRow => row[x].at =< now /\ row[x].at \in Nat
        BY <1>t, <1>n DEF Recent, RowAt
  <2>3. link'.acts = FALSE
        BY <1>d, <1>l
  <2>4. ~(Unwatched(row[x]) /\ row[x].at > now)
        BY <2>2, <1>n DEF Unwatched
  <2>5. IsNews(row'[x], history'[x], link'.sync)
    <3>1. CASE history'[x] \in {Never, now}
          BY <1>d, <3>1, <2>4 DEF IsNews
    <3>2. CASE history'[x] > link.sync
          BY <1>d, <3>2, <2>2, <1>c, <1>n DEF IsNews, Unwatched
    <3>3. CASE x \notin hidden' /\ history'[x] = history[x]
      <4>1. Settled(row[x], history[x], link.sync, link.acts)
            BY <3>3, <1>h, <1>t DEF SyncInv
      <4> QED BY <4>1, <1>d, <3>3, <1>c DEF Settled
    <3> QED BY <1>d, <3>1, <3>2, <3>3
  <2> QED BY <2>3, <2>5 DEF Settled
<1>1. ASSUME x \notin hidden' PROVE Settled(row[x], history[x], link.sync, link.acts)'
  <2>1. CASE Mark(x)
    <3>1. row'[x] = [watched |-> TRUE, at |-> now] /\ now \in 1..now
          BY <2>1, <1>t, <1>n DEF Mark, Recent
    <3> QED BY <2>1, <3>1, <1>1, <1>r DEF Mark
  <2>2. CASE Unmark(x)
    <3>1. row'[x] = [watched |-> FALSE, at |-> now] /\ now \in 1..now
          BY <2>2, <1>t, <1>n DEF Unmark, Recent
    <3> QED BY <2>2, <3>1, <1>1, <1>r DEF Unmark
  <2>3. CASE Beat(x) \/ Replay(x)
    <3>1. PICK act \in {"play", "replay"}, at \in 1..now : Progress(x, at) /\ Change(act, x, at)
      <4>1. CASE Beat(x)
        <5>1. now \in 1..now
              BY <1>t DEF Recent, Times
        <5> QED BY <4>1, <5>1 DEF Beat
      <4>2. CASE Replay(x)
            BY <4>2 DEF Replay
      <4> QED BY <2>3, <4>1, <4>2
    <3>2. \E b \in BOOLEAN : row'[x] = [watched |-> b, at |-> at]
      <4>1. PICK crosses \in BOOLEAN :
               row' = [row EXCEPT ![x] = [watched |-> crosses \/ Watched(row[x]), at |-> at]]
            BY <3>1 DEF Progress
      <4>2. row'[x] = [watched |-> crosses \/ Watched(row[x]), at |-> at]
            BY <4>1, <1>t DEF Recent
      <4>3. (crosses \/ Watched(row[x])) \in BOOLEAN
            BY DEF Watched
      <4> QED BY <4>2, <4>3
    <3> QED BY <3>1, <3>2, <1>1, <1>r
  <2>4. CASE Start(x)
        BY <2>4, <1>1, <1>o DEF Start, TraktRests, trakt
  <2>5. CASE Stopped(x)
    <3>1. CASE TraktChanges /\ history' = [history EXCEPT ![x] = now]
          BY <2>5, <3>1, <1>d, <1>t, <1>n DEF Stopped, Recent
    <3>2. CASE UNCHANGED history
          BY <2>5, <3>2, <1>1, <1>o DEF Stopped
    <3> QED BY <2>5, <3>1, <3>2 DEF Stopped
  <2>6. CASE Sweep(x)
        BY <2>6, <1>1, <1>o DEF Sweep
  <2>7. CASE DeviceWatch(x)
    <3>1. PICK at \in 1..now :
             /\ history' = [history EXCEPT ![x] = Later(@, at)] /\ Change("watch", x, at)
             /\ TraktChanges /\ UNCHANGED <<local, playback>>
          BY <2>7 DEF DeviceWatch
    <3>2. history'[x] = Later(history[x], at) /\ history[x] \in 0..now /\ row'[x] = row[x]
          BY <3>1, <1>t DEF Recent, local
    <3>3. at > link.sync
          BY <3>1, <1>1, <1>n DEF Change
    <3>4. history'[x] \in {at, history[x]} /\ history'[x] \in 0..now
          BY <3>2 DEF Later
    <3> QED BY <3>1, <3>2, <3>3, <3>4, <1>1, <1>d
  <2>8. CASE DevicePause(x)
        BY <2>8, <1>1, <1>o DEF DevicePause, local
  <2>9. CASE DeviceForget(x)
    <3>1. PICK left \in Times :
             /\ left < history[x] /\ history' = [history EXCEPT ![x] = left]
             /\ Change("forget", x, IF left = Never THEN now ELSE left)
             /\ TraktChanges /\ UNCHANGED <<local, playback>>
          BY <2>9 DEF DeviceForget
    <3>2. history'[x] = left /\ history[x] \in 0..now /\ row'[x] = row[x]
          BY <3>1, <1>t DEF Recent, local
    <3>3. left \in 0..now
          BY <3>1, <3>2, <1>n DEF Times
    <3>4. left = Never \/ left > link.sync
          BY <3>1, <1>1, <1>n, <3>3 DEF Change
    <3> QED BY <3>1, <3>2, <3>3, <3>4, <1>d
  <2> QED BY <2>1, <2>2, <2>3, <2>4, <2>5, <2>6, <2>7, <2>8, <2>9 DEF User
<1>2. ASSUME NEW y \in Items, y /= x PROVE row'[y] = row[y] /\ history'[y] = history[y]
      BY <1>2, <1>t, UserTells
<1>3. SyncInv'
      BY <1>1, <1>2, <1>o DEF SyncInv
<1>4. Unlinked'
      BY <1>c, <1>t DEF Unlinked
<1> QED BY <1>3, <1>4

LEMMA SyncInit == Init => SyncInv /\ Unlinked
<1> SUFFICES ASSUME Init PROVE SyncInv /\ Unlinked
    OBVIOUS
<1>1. link.linked = TRUE /\ link.acts = FALSE /\ link.sync = Never
      BY DEF Init
<1>2. ASSUME NEW x \in Items, Unwatched(row[x]) PROVE row[x].at > Never
      BY <1>2 DEF Init, Unwatched, Never
<1> QED BY <1>1, <1>2 DEF SyncInv, Settled, IsNews, Unlinked

LEMMA SyncStep == Inv /\ [Next]_vars => SyncInv' /\ Unlinked'
<1> SUFFICES ASSUME Inv, [Next]_vars PROVE SyncInv' /\ Unlinked'
    OBVIOUS
<1>t. Recent /\ Told /\ PassInv /\ SyncInv /\ Unlinked /\ Ordered
      BY DEF Inv
<1>v. \A x \in Items : /\ row[x] \in AnyRow /\ history[x] \in Times
                       /\ row[x] /= NoRow => row[x].at \in Nat /\ row[x].at > Never
      BY <1>t, RowsApart DEF Recent, AnyRow, RowAt, Never
<1>s. ASSUME UNCHANGED <<row, history, hidden>>, link'.sync = link.sync,
             link'.acts => link.acts, link'.linked = link.linked
      PROVE  SyncInv' /\ Unlinked'
  <2>1. \A x \in Items \ hidden' : Settled(row[x], history[x], link.sync, link.acts)'
        BY <1>s, <1>t, SettledKept DEF SyncInv
  <2> QED BY <2>1, <1>s, <1>t DEF SyncInv, Unlinked
<1>1. CASE UNCHANGED vars
      BY <1>1, <1>s DEF vars, local, trakt
<1>2. CASE Unlink \/ Link
  <2>1. UNCHANGED <<row, history>> /\ link'.sync = Never /\ link'.acts = FALSE
        BY <1>2 DEF Unlink, Link, local, trakt
  <2>2. \A x \in Items : Settled(row[x], history[x], link.sync, link.acts)'
        BY <2>1, <1>v DEF Settled, IsNews, Unwatched
  <2> QED BY <2>1, <2>2 DEF SyncInv, Unlinked
<1>3. CASE Tick
      BY <1>3, <1>s DEF Tick, local, trakt
<1>4. ASSUME NEW x \in Items, User(x) PROVE SyncInv' /\ Unlinked'
      BY <1>4, UserSettles
<1>5. ASSUME NEW n \in Nodes, Step(n) \/ BreakOff(n) PROVE SyncInv' /\ Unlinked'
  <2>1. CASE Begin(n) \/ ReadCandidates(n) \/ Gate(n) \/ ReadWatched(n) \/ ReadPlayback(n)
             \/ Reread(n) \/ BreakOff(n)
        BY <2>1, <1>s DEF Begin, ReadCandidates, Gate, ReadWatched, ReadPlayback, Reread, BreakOff,
                          local, trakt
  <2>2. CASE Pull(n)
    <3>1. /\ UNCHANGED <<history, hidden, link>> /\ pc[n] \in Writing
          BY <2>2, StagesApart DEF Pull, trakt
    <3>2. PICK x \in Items :
             /\ \A y \in Items \ {x} : row'[y] = row[y]
             /\ \/ plan[n].mark[x] /= Never /\ row'[x] = Marked(plan[n].mark[x])
                \/ plan[n].resume[x] /= Never /\ row'[x] = Resumed(plan[n].resume[x])
          BY <2>2, <1>t DEF Pull, Marked, Resumed, Recent
    <3>3. ASSUME x \notin hidden PROVE Settled(row[x], history[x], link.sync, link.acts)'
      <4> DEFINE r == row[x]  h == history[x]  p == playback[x]  r2 == row'[x]
      <4>1. Fits(n, x) /\ Settled(r, h, link.sync, link.acts) /\ link.sync \in Times
            BY <3>3, <1>t, RowsApart DEF PassInv, SyncInv, Told, Recent
      <4>2. /\ MarkFits(plan[n].mark[x], r, h) /\ Overrides(plan[n].mark[x], r)
            /\ ResumeFits(plan[n].resume[x], r, h, p)
            BY <4>1, <3>1, <3>3 DEF Fits, PlanFits
      <4>3. /\ r \in AnyRow /\ h \in Times /\ p \in Times
            /\ plan[n].mark[x] \in Times /\ plan[n].resume[x] \in Times
            BY <1>t, Values
      <4>4. CASE plan[n].mark[x] /= Never /\ r2 = Marked(plan[n].mark[x])
        <5>1. IsNews(r2, h, link.sync) /\ Alike(r2, h)
              BY <4>1, <4>2, <4>3, <4>4, MarkSpares
        <5> QED BY <5>1, <3>1 DEF Settled, IsNews
      <4>5. CASE plan[n].resume[x] /= Never /\ r2 = Resumed(plan[n].resume[x])
        <5>1. /\ IsNews(r, h, link.sync) => IsNews(r2, h, link.sync)
              /\ Alike(r, h) => Alike(r2, h)
              BY <4>1, <4>2, <4>3, <4>5, ResumeSpares
        <5>2. r2 \in Row /\ r2.at = plan[n].resume[x] /\ r2 /= NoRow
          <6>1. r2 \in Row /\ r2.at = plan[n].resume[x]
                BY <4>3, <4>5 DEF Resumed, Row
          <6> QED BY <6>1, NoRowAssumption
        <5>3. r /= NoRow => r.at \in Times /\ r.at =< plan[n].resume[x]
              BY <4>2, <4>3, <4>5 DEF ResumeFits, AnyRow, Row
        <5>4. r2.at =< link.sync => (r /= NoRow => r.at =< link.sync)
              BY <4>1, <4>3, <5>2, <5>3 DEF Times
        <5>5. link.acts /\ (r2 /= NoRow => r2.at =< link.sync) => Alike(r2, h)
              BY <4>1, <5>1, <5>2, <5>4 DEF Settled
        <5> QED BY <4>1, <5>1, <5>5, <3>1 DEF Settled
      <4> QED BY <3>2, <4>4, <4>5
    <3>4. ASSUME NEW y \in Items \ hidden', y /= x
          PROVE  Settled(row[y], history[y], link.sync, link.acts)'
      <4>1. Settled(row[y], history[y], link.sync, link.acts)
            BY <3>1, <3>4, <1>t DEF SyncInv
      <4> QED BY <4>1, <3>1, <3>2, <3>4, SettledKept
    <3>5. Unlinked'
          BY <3>1, <1>t DEF Unlinked
    <3> QED BY <3>1, <3>3, <3>4, <3>5 DEF SyncInv
  <2>3. CASE Add(n) \/ Remove(n)
    <3>1. /\ UNCHANGED <<row, hidden>> /\ pc[n] \in Writing /\ TraktChanges
          BY <2>3, StagesApart DEF Add, Remove, local
    <3>2. link' = [link EXCEPT !.acts = FALSE]
          BY <3>1 DEF TraktChanges
    <3>3. link'.acts = FALSE /\ link'.sync = link.sync /\ link'.linked = link.linked
          BY <3>2, <1>t DEF Recent
    <3>4. \A x \in Items :
            \/ history'[x] = history[x]
            \/ plan[n].add[x] /= Never /\ history'[x] = Later(history[x], plan[n].add[x])
            \/ history'[x] = Never
          BY <2>3, <1>t DEF Add, Remove, Recent
    <3>5. ASSUME NEW x \in Items \ hidden' PROVE Settled(row[x], history[x], link.sync, link.acts)'
      <4>1. Fits(n, x) /\ Settled(row[x], history[x], link.sync, link.acts) /\ link.sync \in Times
            BY <3>1, <1>t, RowsApart DEF PassInv, SyncInv, Told, Recent
      <4>2. CASE history'[x] = history[x]
            BY <4>1, <4>2, <3>1, <3>3, SettledKept
      <4>3. CASE plan[n].add[x] /= Never /\ history'[x] = Later(history[x], plan[n].add[x])
        <5>1. AddFits(plan[n].add[x], row[x], history[x])
              BY <4>1, <3>1 DEF Fits, PlanFits
        <5>2. /\ row[x] \in AnyRow /\ history[x] \in Times /\ playback[x] \in Times
              /\ plan[n].add[x] \in Times
              BY <1>t, Values
        <5>3. IsNews(row[x], history'[x], link.sync)
              BY <4>1, <4>3, <5>1, <5>2, AddSpares
        <5> QED BY <5>3, <3>1, <3>3 DEF Settled
      <4>4. CASE history'[x] = Never
            BY <4>4, <3>3 DEF Settled, IsNews
      <4> QED BY <3>4, <4>2, <4>3, <4>4
    <3>6. Unlinked'
          BY <3>3, <1>t DEF Unlinked
    <3> QED BY <3>5, <3>6 DEF SyncInv
  <2>4. CASE Record(n)
    <3>1. /\ UNCHANGED <<row, history>> /\ hidden' = UNION {missed[m] : m \in Running}
          /\ pc[n] = "record" /\ n \in Running
          BY <2>4 DEF Record, local, trakt, Running
    <3>2. ASSUME NEW x \in Items \ hidden' PROVE Settled(row[x], history[x], link.sync, link.acts)'
      <4>1. x \notin missed[n]
            BY <3>1, <3>2
      <4>2. PlanFits(plan[n], x, row[x], history[x], playback[x])
            BY <4>1, <3>1, <1>t, StagesApart DEF PassInv, Fits
      <4>3. plan[n].mark = None /\ plan[n].add = None /\ plan[n].remove = {}
            BY <3>1, <1>t DEF Ordered, Waiting
      <4>4. Alike(row[x], history[x])
            BY <4>2, <4>3 DEF PlanFits, None
      <4>5. Alike(row'[x], history'[x]) /\ row'[x] \in AnyRow /\ history'[x] \in Times
            BY <4>4, <3>1, <1>v
      <4> QED BY <4>5, AlikeSettles
    <3>3. Unlinked'
      <4>1. CASE link.linked
        <5>1. link' = [link EXCEPT !.sync = now, !.acts = fresh[n]]
              BY <2>4, <4>1 DEF Record
        <5>2. link'.linked = link.linked
              BY <5>1, <1>t DEF Recent
        <5> QED BY <5>2, <4>1 DEF Unlinked
      <4>2. CASE ~link.linked
            BY <2>4, <4>2, <1>t DEF Record, Unlinked
      <4> QED BY <4>1, <4>2
    <3> QED BY <3>2, <3>3 DEF SyncInv
  <2> QED BY <1>5, <2>1, <2>2, <2>3, <2>4 DEF Step
<1> QED BY <1>1, <1>2, <1>3, <1>4, <1>5 DEF Next

-----------------------------------------------------------------------------
(* What a pass reads and plans of a hidden item *)

LEMMA HiddenInit == Init => HiddenInv
BY DEF Init, HiddenInv

\* A hidden item that a pass was not told of is no other pass's business.
LEMMA Alone ==
  ASSUME Told, NEW n \in Nodes, NEW x \in hidden \ missed[n], pc[n] /= "idle",
         NEW m \in Nodes, m /= n
  PROVE  pc[m] = "idle"
BY DEF Told

LEMMA AsReadKept ==
  ASSUME NEW n \in Nodes, NEW x \in Items, AsRead(n, x), row'[x] = row[x], seen'[n] = seen[n],
         since'[n] = since[n], plan'[n].mark[x] = plan[n].mark[x],
         pc'[n] \in Reading => pc[n] \in Reading, pc'[n] \in Writing => pc[n] \in Writing
  PROVE  AsRead(n, x)'
BY DEF AsRead, Overrides

LEMMA IdleReads == ASSUME NEW n \in Nodes, NEW x, pc'[n] \notin Reading \cup Writing PROVE AsRead(n, x)'
BY DEF AsRead

LEMMA PassReads ==
  ASSUME Recent, Told, HiddenInv, NEW n \in Nodes, Step(n) \/ BreakOff(n), Told',
         NEW x \in Items, x \in hidden', x \notin missed'[n]
  PROVE  AsRead(n, x)'
<1>i. "idle" \notin Reading \cup Writing /\ "candidates" \notin Reading \cup Writing
      BY DEF Reading, Writing
<1>1. CASE Begin(n)
  <2>1. pc'[n] = "candidates"
        BY <1>1 DEF Begin, Go, Recent
  <2> QED BY <2>1, <1>i, IdleReads
<1>2. CASE ReadCandidates(n)
  <2>1. pc'[n] = "gate" /\ seen'[n] = row /\ row' = row
        BY <1>2 DEF ReadCandidates, Go, Recent, local
  <2> QED BY <2>1 DEF AsRead, Writing
<1>e. ASSUME End(n) PROVE AsRead(n, x)'
  <2>1. pc'[n] = "idle"
        BY <1>e DEF End, Go, Recent
  <2> QED BY <2>1, <1>i, IdleReads
<1>k. ASSUME UNCHANGED <<row, hidden, missed>> PROVE AsRead(n, x)
      BY <1>k DEF HiddenInv
<1>3. CASE Gate(n) /\ ~End(n)
  <2>1. /\ UNCHANGED <<row, hidden, missed, seen, since, plan>>
        /\ pc[n] = "gate" /\ pc'[n] = "watched"
        BY <1>3 DEF Gate, Go, Recent, local, reads
  <2> QED BY <2>1, <1>k, AsReadKept DEF Reading, Writing
<1>4. CASE ReadWatched(n)
  <2>1. /\ UNCHANGED <<row, hidden, missed, seen, since, plan>>
        /\ pc[n] = "watched" /\ pc'[n] = "playback"
        BY <1>4 DEF ReadWatched, Go, Recent, local
  <2> QED BY <2>1, <1>k, AsReadKept DEF Reading, Writing
<1>5. CASE ReadPlayback(n)
  <2> DEFINE p == Plan(seen[n], remote[n], playback, since[n])
             s == seen[n][x]  g == remote[n][x]
  <2>1. /\ UNCHANGED <<row, hidden, missed, since>> /\ pc[n] = "playback"
        /\ pc'[n] = Waiting(p) /\ plan'[n] = p
        BY <1>5 DEF ReadPlayback, Go, Recent, local
  <2>2. s = row[x]
        BY <2>1, <1>k DEF AsRead, Reading
  <2>3. p.mark[x] \in {g, Never}
        /\ (p.mark[x] /= Never => g /= Never /\ ~Wins(s, g, since[n]))
        BY DEF Plan
  <2>4. s \in AnyRow /\ g \in Times /\ since[n] \in Times
        BY Values
  <2> HIDE DEF p, s, g
  <2>5. Overrides(p.mark[x], s) \/ (Unwatched(s) => s.at =< since[n])
    <3>1. CASE p.mark[x] = Never
          BY <3>1 DEF Overrides
    <3>2. CASE p.mark[x] /= Never
      <4>1. ASSUME Unwatched(s), ~(s.at =< g) PROVE s.at =< since[n]
        <5>1. s.at \in Nat /\ g \in Nat /\ since[n] \in Nat
              BY <4>1, <2>4 DEF AnyRow, Row, Times, Unwatched
        <5> QED BY <4>1, <5>1, <2>3, <3>2 DEF Wins
      <4> QED BY <4>1, <2>3, <3>2 DEF Overrides
    <3> QED BY <3>1, <3>2
  <2>6. Waiting(p) \in Writing
        BY WaitingStage, StagesApart
  <2>7. (Overrides(plan[n].mark[x], row[x]) \/ (Unwatched(row[x]) => row[x].at =< since[n]))'
        BY <2>1, <2>2, <2>5
  <2> QED BY <2>1, <2>6, <2>7, StagesApart DEF AsRead
<1>6. CASE Pull(n)
  <2>1. /\ UNCHANGED <<hidden, since, seen>> /\ pc[n] \in Writing /\ pc[n] /= "idle"
        BY <1>6, StagesApart DEF Pull, reads
  <2>2. PICK y \in Items :
          /\ \/ /\ row' = [row EXCEPT ![y] = [watched |-> TRUE, at |-> plan[n].mark[y]]]
                /\ plan' = [plan EXCEPT ![n].mark[y] = Never]
             \/ /\ plan[n].mark = None
                /\ row' = [row EXCEPT ![y] = [watched |-> FALSE, at |-> plan[n].resume[y]]]
                /\ plan' = [plan EXCEPT ![n].resume[y] = Never]
          /\ Spread(n, {y}) /\ Go(n, Waiting(plan'[n]))
        BY <1>6 DEF Pull
  <2>3. pc'[n] \in Writing
    <3>1. pc'[n] = Waiting(plan'[n])
          BY <2>2 DEF Go, Recent
    <3> QED BY <3>1, WaitingStage, StagesApart
  <2>4. x \notin missed[n]
    <3>1. missed[n] \subseteq missed'[n]
          BY <2>2 DEF Spread, Recent
    <3> QED BY <3>1
  <2>5. AsRead(n, x)
        BY <2>1, <2>4 DEF HiddenInv
  <2>6. CASE plan'[n].mark[x] = Never
        BY <2>6, <2>3, StagesApart DEF AsRead, Overrides
  <2>7. CASE plan'[n].mark[x] /= Never
    <3>1. \/ plan' = [plan EXCEPT ![n].mark[y] = Never]
          \/ plan[n].mark = None /\ plan' = [plan EXCEPT ![n].resume[y] = Never]
          BY <2>2
    <3>2. ~(plan[n].mark = None /\ plan' = [plan EXCEPT ![n].resume[y] = Never])
      <4>1. ASSUME plan[n].mark = None, plan' = [plan EXCEPT ![n].resume[y] = Never] PROVE FALSE
        <5>1. plan'[n].mark = None
              BY <4>1, PullPlan
        <5> QED BY <5>1, <2>7 DEF None
      <4> QED BY <4>1
    <3>3. y /= x /\ plan'[n].mark[x] = plan[n].mark[x]
      <4>1. /\ plan'[n].mark[y] = Never
            /\ \A z \in Items \ {y} : plan'[n].mark[z] = plan[n].mark[z]
            BY <3>1, <3>2, PullPlan
      <4> QED BY <2>7, <4>1
    <3>4. row'[x] = row[x]
          BY <3>3, <2>2 DEF Recent
    <3> QED BY <3>3, <3>4, <2>1, <2>3, <2>5, AsReadKept, StagesApart
  <2> QED BY <2>6, <2>7
<1>7. CASE Add(n) \/ Remove(n) \/ Reread(n)
  <2>1. /\ UNCHANGED <<row, hidden, since, seen>> /\ pc[n] \in Writing
        BY <1>7, StagesApart DEF Add, Remove, Reread, local, reads
  <2>2. plan'[n].mark = plan[n].mark
    <3>1. plan[n] \in PlanAt(now) /\ plan \in [Nodes -> PlanAt(now)]
          BY DEF Recent
    <3>2. \/ plan' = plan
          \/ plan' = [plan EXCEPT ![n] = [plan[n] EXCEPT !.remove = {}]]
          \/ \E a : plan' = [plan EXCEPT ![n] = [plan[n] EXCEPT !.add = a]]
          BY <1>7 DEF Add, Remove, Reread
    <3>3. CASE plan' = plan
          BY <3>3
    <3>4. CASE plan' = [plan EXCEPT ![n] = [plan[n] EXCEPT !.remove = {}]]
      <4>1. plan'[n] = [plan[n] EXCEPT !.remove = {}]
            BY <3>1, <3>4
      <4> QED BY <4>1, <3>1 DEF PlanAt
    <3>5. CASE \E a : plan' = [plan EXCEPT ![n] = [plan[n] EXCEPT !.add = a]]
      <4>1. PICK a : plan' = [plan EXCEPT ![n] = [plan[n] EXCEPT !.add = a]]
            BY <3>5
      <4>2. plan'[n] = [plan[n] EXCEPT !.add = a]
            BY <3>1, <4>1
      <4> QED BY <4>2, <3>1 DEF PlanAt
    <3> QED BY <3>2, <3>3, <3>4, <3>5
  <2>3. pc'[n] \in Writing
    <3>1. PICK to \in {"pull", "add", "remove", "record", "reread"} : Go(n, to)
          BY <1>7, WaitingStage DEF Add, Remove, Reread
    <3> QED BY <3>1, StagesApart DEF Go, Recent
  <2>4. x \notin missed[n]
    <3>1. missed[n] \subseteq missed'[n]
          BY <1>7 DEF Add, Remove, Reread, Spread, Recent
    <3> QED BY <3>1
  <2>5. AsRead(n, x)
        BY <2>1, <2>4 DEF HiddenInv
  <2> QED BY <2>1, <2>2, <2>3, <2>5, AsReadKept, StagesApart
<1>8. CASE Record(n) \/ BreakOff(n)
      BY <1>8, <1>e DEF Record, BreakOff
<1> QED BY <1>1, <1>2, <1>3, <1>4, <1>5, <1>6, <1>7, <1>8, <1>e DEF Step

LEMMA HiddenStep == Recent /\ Told /\ HiddenInv /\ [Next]_vars => HiddenInv'
<1> SUFFICES ASSUME Recent, Told, HiddenInv, [Next]_vars PROVE HiddenInv'
    OBVIOUS
<1>t. Told'
      BY ToldStep
<1>r. Recent'
      BY RecentStep
<1>s. ASSUME UNCHANGED <<row, pc, since, seen, plan, missed, hidden>> PROVE HiddenInv'
      BY <1>s DEF HiddenInv, AsRead, Overrides
<1>1. CASE UNCHANGED vars
      BY <1>1, <1>s DEF vars, local, reads
<1>2. CASE Unlink \/ Link \/ Tick
      BY <1>2, <1>s DEF Unlink, Link, Tick, local, reads
<1>3. ASSUME NEW y \in Items, User(y) PROVE HiddenInv'
  <2> SUFFICES ASSUME NEW n \in Nodes, NEW x \in hidden' \ missed'[n] PROVE AsRead(n, x)'
      BY DEF HiddenInv
  <2>0. /\ UNCHANGED <<pc, since, seen, plan>> /\ x \in Items
        /\ "idle" \notin Reading \cup Writing
        BY <1>3, <1>r, UserTells DEF Recent, Reading, Writing
  <2>1. CASE pc[n] = "idle"
        BY <2>0, <2>1, IdleReads
  <2>2. CASE pc[n] /= "idle"
    <3>1. \/ UNCHANGED <<row, missed, hidden>>
          \/ /\ missed' = [k \in Nodes |-> IF pc[k] /= "idle" THEN missed[k] \cup {y}
                                           ELSE missed[k]]
             /\ hidden' = hidden \cup {y}
             /\ \A z \in Items \ {y} : row'[z] = row[z]
          BY <1>3, <2>2, UserTells
    <3>2. x \in hidden /\ x \notin missed[n] /\ row'[x] = row[x]
          BY <3>1, <2>0, <2>2
    <3>3. AsRead(n, x)
          BY <3>2 DEF HiddenInv
    <3> QED BY <3>2, <3>3, <2>0, AsReadKept
  <2> QED BY <2>1, <2>2
<1>4. ASSUME NEW n \in Nodes, Step(n) \/ BreakOff(n) PROVE HiddenInv'
  <2>1. ASSUME NEW x \in hidden' \ missed'[n] PROVE AsRead(n, x)'
        BY <1>4, <1>t, <1>r, <2>1, PassReads DEF Recent
  <2>2. ASSUME NEW m \in Nodes, m /= n, NEW x \in hidden' \ missed'[m] PROVE AsRead(m, x)'
    <3>1. pc'[m] = pc[m] /\ seen'[m] = seen[m] /\ since'[m] = since[m] /\ plan'[m] = plan[m]
      <4>1. CASE End(n)
            BY <4>1, <2>2 DEF End, Go, Recent
      <4>2. CASE ~End(n)
            BY <1>4, <2>2, <4>2 DEF Step, Begin, ReadCandidates, Gate, ReadWatched, ReadPlayback,
               Pull, Add, Remove, Reread, Record, BreakOff, Go, Recent, reads
      <4> QED BY <4>1, <4>2
    <3>2. CASE pc[m] \notin Reading \cup Writing
          BY <3>1, <3>2, IdleReads
    <3>3. CASE pc'[n] /= "idle"
      <4>1. pc'[m] = "idle" \/ missed'[m] = hidden'
            BY <3>3, <2>2, <1>t DEF Told
      <4>2. pc'[m] = "idle"
            BY <4>1, <2>2
      <4> QED BY <4>2, IdleReads DEF Reading, Writing
    <3>4. CASE pc'[n] = "idle" /\ pc[m] \in Reading \cup Writing
      <4>1. pc[m] /= "idle"
            BY <3>4 DEF Reading, Writing
      <4>2. /\ End(n) /\ pc[n] /= "idle" /\ row' = row
            /\ (hidden' = hidden \/ hidden' = UNION {missed[k] : k \in Running})
        <5>1. CASE (Gate(n) /\ End(n)) \/ Record(n) \/ BreakOff(n)
              BY <5>1 DEF Gate, Record, BreakOff, local
        <5>2. CASE \E to \in {"candidates", "gate", "watched", "pull", "add", "remove", "reread",
                             "record", "playback"} : Go(n, to)
              BY <5>2, <3>4 DEF Go, Recent
        <5> QED BY <1>4, <5>1, <5>2, WaitingStage DEF Step, Begin, ReadCandidates, Gate, ReadWatched,
                   ReadPlayback, Pull, Add, Remove, Reread
      <4>3. missed[m] = hidden
            BY <4>1, <4>2, <2>2 DEF Told
      <4>4. missed'[m] = missed[m] /\ hidden' \subseteq hidden
            BY <4>2, <2>2, EndTells
      <4> QED BY <4>3, <4>4, <2>2
    <3> QED BY <3>2, <3>3, <3>4
  <2> QED BY <2>1, <2>2 DEF HiddenInv
<1> QED BY <1>1, <1>2, <1>3, <1>4 DEF Next

-----------------------------------------------------------------------------
LEMMA InvHolds == Spec => []Inv
<1>1. Init => Inv
      BY RecentInit, ToldInit, PassInit, HiddenInit, SyncInit, OrderedInit DEF Inv
<1>2. Inv /\ [Next]_vars => Inv'
      BY RecentStep, ToldStep, PassStep, HiddenStep, SyncStep, OrderedStep DEF Inv
<1> QED BY <1>1, <1>2, PTL DEF Spec

\* The change gate never hides a difference: where the next pass would skip,
\* Trakt and the library agree on every item but the hidden ones.
THEOREM SkippingIsSafe == Spec => []SkipIsSafe
<1>1. Inv => SkipIsSafe
  <2> SUFFICES ASSUME Inv, link.linked, Skips(link.acts, row, link.sync), NEW x \in Items \ hidden
               PROVE  Agree(x)
      BY DEF SkipIsSafe
  <2>1. Settled(row[x], history[x], link.sync, link.acts)
        BY DEF Inv, SyncInv
  <2>2. link.acts /\ (row[x] /= NoRow => ~(row[x].at > link.sync))
        BY DEF Skips, Dirty
  <2>3. link.sync \in Nat /\ (row[x] /= NoRow => row[x].at \in Nat)
        BY RowsApart DEF Inv, Recent, RowAt
  <2> QED BY <2>1, <2>2, <2>3 DEF Settled, Alike, Agree
<1> QED BY <1>1, InvHolds, PTL

\* No pass takes the mark of a watched item away, unless the item changed
\* under it.
THEOREM PassesNeverErase == Spec => NothingErased
<1>1. Inv /\ [Next]_vars =>
        [\A n \in Nodes : \A x \in Items :
           Pull(n) /\ Watched(row[x]) /\ ~Watched(row'[x]) => x \in missed[n]]_vars
  <2> SUFFICES ASSUME Inv, NEW n \in Nodes, NEW x \in Items, Pull(n), Watched(row[x]),
                      ~Watched(row'[x]), x \notin missed[n]
               PROVE  FALSE
      OBVIOUS
  <2>1. Recent /\ PassInv /\ pc[n] \in Writing
        BY StagesApart DEF Inv, Pull
  <2>2. ResumeFits(plan[n].resume[x], row[x], history[x], playback[x])
        BY <2>1 DEF PassInv, Fits, PlanFits
  <2>3. PICK y \in Items :
           \/ plan[n].mark[y] /= Never /\ row' = [row EXCEPT ![y] = Marked(plan[n].mark[y])]
           \/ plan[n].resume[y] /= Never /\ row' = [row EXCEPT ![y] = Resumed(plan[n].resume[y])]
        BY DEF Pull, Marked, Resumed
  <2>4. y = x
        BY <2>1, <2>3 DEF Recent
  <2>5. plan[n].resume[x] = Never
        BY <2>2 DEF ResumeFits
  <2>6. row'[x] = Marked(plan[n].mark[x])
        BY <2>1, <2>3, <2>4, <2>5 DEF Recent
  <2>7. plan[n].mark[x] \in Times
        BY <2>1, Values
  <2>8. row'[x] \in Row /\ row'[x].watched
        BY <2>6, <2>7 DEF Marked, Row
  <2> QED BY <2>8, NoRowAssumption DEF Watched
<1> QED BY <1>1, InvHolds, PTL DEF Spec, NothingErased

\* A pass marks an unwatched item only with a watch that is not older, save an
\* item that changed under it, and an un-watch from before the last sync it
\* knows of an item that changed while another pass ran or with an old date.
THEOREM UnwatchesStand == Spec => UnwatchStands
<1>1. Inv /\ [Next]_vars =>
        [\A n \in Nodes : \A x \in Items :
           Pull(n) /\ Unwatched(row[x]) /\ Watched(row'[x])
             => \/ x \in missed[n]
                \/ row'[x].at >= row[x].at
                \/ x \in hidden /\ row[x].at =< since[n]]_vars
  <2> SUFFICES ASSUME Inv, NEW n \in Nodes, NEW x \in Items, Pull(n), Unwatched(row[x]),
                      Watched(row'[x]), x \notin missed[n], ~(x \in hidden /\ row[x].at =< since[n])
               PROVE  row'[x].at >= row[x].at
      OBVIOUS
  <2>1. Recent /\ PassInv /\ HiddenInv /\ pc[n] \in Writing
        BY StagesApart DEF Inv, Pull
  <2>2. Overrides(plan[n].mark[x], row[x])
    <3>1. CASE x \in hidden
          BY <3>1, <2>1 DEF HiddenInv, AsRead
    <3>2. CASE x \notin hidden
          BY <3>2, <2>1 DEF PassInv, Fits
    <3> QED BY <3>1, <3>2
  <2>3. PICK y \in Items :
           \/ plan[n].mark[y] /= Never /\ row' = [row EXCEPT ![y] = Marked(plan[n].mark[y])]
           \/ plan[n].resume[y] /= Never /\ row' = [row EXCEPT ![y] = Resumed(plan[n].resume[y])]
        BY DEF Pull, Marked, Resumed
  <2>4. y = x
    <3>1. ~Watched(row[x]) /\ Watched(row'[x])
          BY DEF Unwatched, Watched
    <3> QED BY <3>1, <2>1, <2>3 DEF Recent
  <2>5. plan[n].mark[x] /= Never /\ row'[x] = Marked(plan[n].mark[x])
        BY <2>1, <2>3, <2>4 DEF Recent, Resumed, Watched
  <2>6. row[x] \in AnyRow /\ plan[n].mark[x] \in Times
        BY <2>1, Values
  <2>7. row'[x].at = plan[n].mark[x]
        BY <2>5 DEF Marked
  <2>8. row[x].at \in Nat /\ plan[n].mark[x] \in Nat
        BY <2>6 DEF AnyRow, Row, Times, Unwatched
  <2> QED BY <2>2, <2>5, <2>7, <2>8 DEF Overrides
<1> QED BY <1>1, InvHolds, PTL DEF Spec, UnwatchStands
=============================================================================
