--------------------------- MODULE WatchedOutbox ---------------------------
(***************************************************************************)
(* The watched notifications plurx posts to monarr (watched.rs) from the   *)
(* table watched_outbox (outbox.rs, hiqlite_durable.rs).  Every node runs  *)
(* the loop: it claims a batch of due rows for Claim seconds, posts them   *)
(* one after another, each with a timeout, and settles each under the      *)
(* claim it has read.  The batch may outlast the claim.                    *)
(*                                                                         *)
(* Times are relative: nextAt, claim and until say how many seconds a      *)
(* deadline lies ahead, and TimePasses moves them.  One further back than  *)
(* any batch can last stays at Past, so a row's claim equals the claim of  *)
(* a batch exactly when the two timestamps do.  The payload and its target *)
(* (the user, the ids) and the switch that enables the feed are left out.  *)
(***************************************************************************)
EXTENDS Integers, Sequences, FiniteSets

CONSTANTS
  Rows,        \* ids of notifications
  Posters,     \* the nodes
  Claim,       \* CLAIM_SECS
  Batch,       \* BATCH
  Timeout,     \* of one post
  BackOff,     \* BACKOFF, in seconds
  OutboxFaults, \* "crash": a node stops; "store": a settlement or the reading
               \* of a setting fails; "admin": monarr is (un)paired
  MaxOutboxFaults \* bound

Idle == 0      \* no post: rows have positive ids
Past == Claim - Batch * Timeout - 1

ASSUME OutboxAssumption ==
  /\ Rows \subseteq Nat \ {Idle}
  /\ IsFiniteSet(Rows)
  /\ Claim \in Nat \ {0} /\ Batch \in Nat \ {0} /\ Timeout \in Nat \ {0}
  /\ Claim =< Batch * Timeout
  /\ BackOff \in Seq(Nat \ {0})
  /\ MaxOutboxFaults \in Nat

VARIABLES
  status,      \* watched_outbox.status, "none" before the row exists
  attempts,    \* .attempts
  nextAt,      \* .next_at
  claim,       \* .claim_until
  paired,      \* monarr's URL and key are set
  batch,       \* a node: the rows of its batch it has not posted yet
  until,       \* the claim_until its rows came with
  count,       \* the attempts they came with
  target,      \* the settings it read say where to post
  posting,     \* the row it is posting
  clock,       \* how long the post has taken
  refused,     \* rows monarr answered with a client error
  outboxFaults

durable == <<status, attempts, nextAt, claim>>
inMemory == <<batch, until, count, target, posting, clock>>
outboxVars == <<durable, paired, inMemory, refused, outboxFaults>>

MaxAttempts == Len(BackOff) + 1
Deadlines == Past..Claim
Delays == {d \in Int : d >= Past}

OutboxTypeOK ==
  /\ status \in [Rows -> {"none", "pending", "ok", "failed"}]
  /\ attempts \in [Rows -> 0..MaxAttempts]
  /\ nextAt \in [Rows -> Delays]
  /\ claim \in [Rows -> Deadlines]
  /\ paired \in BOOLEAN
  /\ batch \in [Posters -> SUBSET Rows]
  /\ until \in [Posters -> Deadlines]
  /\ count \in [Posters -> [Rows -> 0..MaxAttempts]]
  /\ target \in [Posters -> BOOLEAN]
  /\ posting \in [Posters -> Rows \cup {Idle}]
  /\ clock \in [Posters -> 0..Timeout]
  /\ refused \subseteq Rows
  /\ outboxFaults \in 0..MaxOutboxFaults

OutboxInit ==
  /\ status = [r \in Rows |-> "none"]
  /\ attempts = [r \in Rows |-> 0]
  /\ nextAt = [r \in Rows |-> Past]
  /\ claim = [r \in Rows |-> Past]
  /\ paired \in BOOLEAN
  /\ batch = [n \in Posters |-> {}]
  /\ until = [n \in Posters |-> Past]
  /\ count = [n \in Posters |-> [r \in Rows |-> 0]]
  /\ target = [n \in Posters |-> FALSE]
  /\ posting = [n \in Posters |-> Idle]
  /\ clock = [n \in Posters |-> 0]
  /\ refused = {}
  /\ outboxFaults = 0

OutboxFault(f) ==
  /\ f \in OutboxFaults /\ outboxFaults < MaxOutboxFaults
  /\ outboxFaults' = outboxFaults + 1

-----------------------------------------------------------------------------
\* enqueue_watched: the row is due at once and unclaimed.
Enqueue(r) ==
  /\ status[r] = "none"
  /\ status' = [status EXCEPT ![r] = "pending"]
  /\ nextAt' = [nextAt EXCEPT ![r] = 0]
  /\ UNCHANGED <<attempts, claim, paired, inMemory, refused, outboxFaults>>

\* Plausible bug: a claim does not keep other nodes from a row.
DueAnyway == {r \in Rows : status[r] = "pending" /\ nextAt[r] =< 0}
Due == {r \in Rows : status[r] = "pending" /\ nextAt[r] =< 0 /\ claim[r] =< 0}

\* ORDER BY next_at, id LIMIT Batch.  Of two rows due since Past either may be
\* the older.
Before(r, q) ==
  \/ nextAt[r] < nextAt[q]
  \/ nextAt[r] = nextAt[q] /\ (r < q \/ nextAt[r] = Past)
Batches ==
  {rows \in SUBSET Due :
     /\ rows /= {}
     /\ Cardinality(rows) =< Batch
     /\ rows = Due \/ Cardinality(rows) = Batch
     /\ \A r \in rows, q \in Due \ rows : Before(r, q)}

\* deliver_due, up to the posts.  The settings are read after the claim, and a
\* reading that fails counts as a setting that is not there.
ClaimDue(n) ==
  /\ batch[n] = {} /\ posting[n] = Idle
  /\ \E rows \in Batches :
        /\ batch' = [batch EXCEPT ![n] = rows]
        /\ claim' = [r \in Rows |-> IF r \in rows THEN Claim ELSE claim[r]]
  /\ until' = [until EXCEPT ![n] = Claim]
  /\ count' = [count EXCEPT ![n] = attempts]
  /\ \/ target' = [target EXCEPT ![n] = paired] /\ UNCHANGED outboxFaults
     \/ target' = [target EXCEPT ![n] = FALSE] /\ OutboxFault("store")
  /\ UNCHANGED <<status, attempts, nextAt, paired, posting, clock, refused>>

\* post: the request leaves.
Post(n) ==
  /\ posting[n] = Idle
  /\ target[n]
  /\ \E r \in batch[n] :
        /\ posting' = [posting EXCEPT ![n] = r]
        /\ batch' = [batch EXCEPT ![n] = @ \ {r}]
  /\ clock' = [clock EXCEPT ![n] = 0]
  /\ UNCHANGED <<durable, paired, until, count, target, refused, outboxFaults>>

\* Plausible bug: the update does not ask for the claim.
SettleAnyway(n, r, result, delay) ==
  /\ status' = [status EXCEPT ![r] = result]
  /\ attempts' = [attempts EXCEPT ![r] = count[n][r] + 1]
  /\ nextAt' = [nextAt EXCEPT ![r] = delay]
  /\ claim' = [claim EXCEPT ![r] = Past]

\* settle_watched: nothing, if the row is no longer under the claim it came
\* with.
SettleHeld(n, r, result, delay) ==
  IF claim[r] = until[n]
  THEN /\ status' = [status EXCEPT ![r] = result]
       /\ attempts' = [attempts EXCEPT ![r] = count[n][r] + 1]
       /\ nextAt' = [nextAt EXCEPT ![r] = delay]
       /\ claim' = [claim EXCEPT ![r] = Past]
  ELSE UNCHANGED durable

Settle(n, r, result, delay) ==
  \/ SettleHeld(n, r, result, delay) /\ UNCHANGED outboxFaults
  \/ UNCHANGED durable /\ OutboxFault("store")

GiveUp(n, r) == Settle(n, r, "failed", Past)

\* Plausible bug: a retry does not count.
RetryUncounted(n, r) ==
  \/ GiveUp(n, r) /\ count[n][r] + 1 > Len(BackOff)
  \/ /\ count[n][r] + 1 =< Len(BackOff)
     /\ claim[r] = until[n] /\ UNCHANGED outboxFaults
     /\ nextAt' = [nextAt EXCEPT ![r] = BackOff[count[n][r] + 1]]
     /\ claim' = [claim EXCEPT ![r] = Past]
     /\ UNCHANGED <<status, attempts>>

\* A transient failure: back off, or give up after the last attempt.
Retry(n, r) ==
  \/ /\ count[n][r] + 1 > Len(BackOff)
     /\ GiveUp(n, r)
  \/ /\ count[n][r] + 1 =< Len(BackOff)
     /\ Settle(n, r, "pending", BackOff[count[n][r] + 1])

\* attempt: the post ends, with an answer or without one.  A post that timed
\* out may have been accepted, like one that is answered.
Answer(n) ==
  /\ posting[n] /= Idle
  /\ posting' = [posting EXCEPT ![n] = Idle]
  /\ \/ Settle(n, posting[n], "ok", Past) /\ UNCHANGED refused
     \/ Retry(n, posting[n]) /\ UNCHANGED refused
     \/ GiveUp(n, posting[n]) /\ refused' = refused \cup {posting[n]}
  /\ clock' = [clock EXCEPT ![n] = 0]
  /\ UNCHANGED <<paired, batch, until, count, target>>

\* attempt, without a URL or a key: given up without a post.
Unconfigured(n) ==
  /\ posting[n] = Idle
  /\ ~target[n]
  /\ \E r \in batch[n] :
        /\ batch' = [batch EXCEPT ![n] = @ \ {r}]
        /\ GiveUp(n, r)
  /\ UNCHANGED <<paired, until, count, target, posting, clock, refused>>

\* The process ends; its batch was in memory.
Crash(n) ==
  /\ OutboxFault("crash")
  /\ batch[n] /= {} \/ posting[n] /= Idle
  /\ batch' = [batch EXCEPT ![n] = {}]
  /\ posting' = [posting EXCEPT ![n] = Idle]
  /\ clock' = [clock EXCEPT ![n] = 0]
  /\ UNCHANGED <<durable, paired, until, count, target, refused>>

\* An admin pairs monarr, or unpairs it.
Pairing ==
  /\ OutboxFault("admin")
  /\ paired' = ~paired
  /\ UNCHANGED <<durable, inMemory, refused>>

\* A second passes.  Only posts take time: the steps between two of them do
\* not, and none outlasts its timeout.
Working(n) == batch[n] /= {} \/ posting[n] /= Idle
Earlier(d) == IF d = Past THEN Past ELSE d - 1
TimePasses ==
  /\ \A n \in Posters : Working(n) => posting[n] /= Idle /\ clock[n] < Timeout
  /\ nextAt' = [r \in Rows |-> Earlier(nextAt[r])]
  /\ claim' = [r \in Rows |-> Earlier(claim[r])]
  /\ until' = [n \in Posters |-> IF Working(n) THEN Earlier(until[n]) ELSE Past]
  /\ clock' = [n \in Posters |-> IF Working(n) THEN clock[n] + 1 ELSE 0]
  /\ UNCHANGED <<status, attempts, paired, batch, count, target, posting,
                 refused, outboxFaults>>

Loop(n) == ClaimDue(n) \/ Post(n) \/ Answer(n) \/ Unconfigured(n)

OutboxNext ==
  \/ \E r \in Rows : Enqueue(r)
  \/ \E n \in Posters : Loop(n) \/ Crash(n)
  \/ Pairing
  \/ TimePasses

OutboxSpec == OutboxInit /\ [][OutboxNext]_outboxVars

\* Time passes, every post ends, and the loop of every node runs on.
OutboxFairSpec ==
  /\ OutboxSpec
  /\ WF_outboxVars(TimePasses) /\ \A n \in Posters : WF_outboxVars(Loop(n))

-----------------------------------------------------------------------------
(* Properties *)

\* A row under a claim that still counts for a batch is in no other batch
\* that counts: of the nodes that hold a row, at most one can settle it.
InHand(n) == batch[n] \cup ({posting[n]} \ {Idle})
Holds(n, r) == r \in InHand(n) /\ until[n] = claim[r]
ClaimHasOneHolder ==
  \A r \in Rows : \A n, m \in Posters : Holds(n, r) /\ Holds(m, r) => n = m

\* "watched delivery rows carry short claims so several voters cannot settle
\* the same attempt over one another" (CLUSTERING-PLAN.md:537): the rows go
\* through the attempts one by one, at most MaxAttempts of them, and a row
\* that is sent or given up stays so, though batches outlast their claims,
\* settlements get lost and nodes crash between a post and its settlement.
Ledger == INSTANCE DeliveryLedger
LedgerSpec == Ledger!Spec

\* "Restart plurx mid-retry and the retry still happens" (INTEGRATION.md:438):
\* every notification is sent or given up in the end, also the rows of a batch
\* that a crash lost.
EveryNotificationEnds ==
  \A r \in Rows : status[r] = "pending" ~> status[r] \in {"ok", "failed"}

\* "`failed` is terminal — the delivery was classified as permanently
\* unfixable (a rejected key, a 4xx that will never become a 2xx)"
\* (INTEGRATION.md:457): a row is given up only if monarr refused it, or is
\* not paired.
GivenUpForCause ==
  [][\A r \in Rows :
       status[r] = "pending" /\ status'[r] = "failed"
         => r \in refused' \/ ~paired]_outboxVars
=============================================================================
