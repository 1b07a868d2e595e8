----------------------------- MODULE TraktLink -----------------------------
(***************************************************************************)
(* The Trakt account of one user: the row of trakt_auth and the callers    *)
(* that take an access token from it (access() in plurxd's trakt.rs: a     *)
(* sync pass, a scrobble, the sweep; on every node).  Trakt's refresh      *)
(* tokens rotate: a refresh makes the token it was given useless and       *)
(* answers with the next one.  What decides between callers that refresh   *)
(* at the same time is the compare-and-set on the stored token.            *)
(*                                                                         *)
(* A token is its number: Trakt issues 1, 2, ...  The access token belongs *)
(* to the refresh token it came with.  Sealing is left out: an envelope    *)
(* is the token, and the compare is on the envelope that was read.         *)
(***************************************************************************)
EXTENDS Naturals

CONSTANTS
  Callers,
  MaxToken,   \* bound: tokens issued
  MaxFaults,  \* bound: lost answers and failed store calls
  Faults      \* "lost": Trakt's answer; "store": a store call fails

NoToken == 0
ASSUME LinkAssumption == MaxToken \in Nat \ {0} /\ MaxFaults \in Nat

VARIABLES
  stored,     \* trakt_auth.refresh_token, NoToken without a row
  stale,      \* its access token is within REFRESH_MARGIN_SECS of its expiry
  issued,     \* how many tokens Trakt has issued
  live,       \* the refresh tokens Trakt takes
  caller,     \* a caller: "idle" | "refresh" | "store" | "drop" | "reread"
  read,       \* the refresh token it read
  got,        \* the refresh token Trakt answered with
  faults

linkVars == <<stored, stale, issued, live, caller, read, got, faults>>

Tokens == 0..MaxToken

LinkTypeOK ==
  /\ stored \in Tokens /\ stale \in BOOLEAN
  /\ issued \in Tokens /\ live \subseteq 1..issued
  /\ caller \in [Callers -> {"idle", "refresh", "store", "drop", "reread"}]
  /\ read \in [Callers -> Tokens] /\ got \in [Callers -> Tokens]
  /\ faults \in 0..MaxFaults

LinkInit ==
  /\ stored = NoToken /\ stale = FALSE
  /\ issued = 0 /\ live = {}
  /\ caller = [c \in Callers |-> "idle"]
  /\ read = [c \in Callers |-> NoToken]
  /\ got = [c \in Callers |-> NoToken]
  /\ faults = 0

Fault(f) == f \in Faults /\ faults < MaxFaults /\ faults' = faults + 1
CallerGoes(c, to) == caller' = [caller EXCEPT ![c] = to]

-----------------------------------------------------------------------------
\* poll_device answers Ready and put_trakt_auth replaces whatever row there is.
LinkAccount ==
  /\ issued < MaxToken
  /\ issued' = issued + 1
  /\ stored' = issued'
  /\ live' = live \cup {issued'}
  /\ stale' = FALSE
  /\ UNCHANGED <<caller, read, got, faults>>

\* delete_trakt_auth
UnlinkAccount ==
  /\ stored /= NoToken
  /\ stored' = NoToken
  /\ stale' = FALSE
  /\ UNCHANGED <<issued, live, caller, read, got, faults>>

\* The access token nears its expiry; the user revokes the application.
Expire ==
  /\ stored /= NoToken /\ ~stale
  /\ stale' = TRUE
  /\ UNCHANGED <<stored, issued, live, caller, read, got, faults>>

Revoke ==
  /\ live /= {}
  /\ live' = {}
  /\ UNCHANGED <<stored, stale, issued, caller, read, got, faults>>

\* access: only a stale token is refreshed; any other is used as it is.
Read(c) ==
  /\ caller[c] = "idle"
  /\ stored /= NoToken /\ stale
  /\ read' = [read EXCEPT ![c] = stored]
  /\ CallerGoes(c, "refresh")
  /\ UNCHANGED <<stored, stale, issued, live, got, faults>>

\* client.refresh: Trakt rotates the token, rejects it, or its answer is lost.
\* The caller of a lost answer goes on with the access token it has.
Refresh(c) ==
  /\ caller[c] = "refresh"
  /\ \/ /\ read[c] \in live
        /\ issued < MaxToken
        /\ issued' = issued + 1
        /\ live' = (live \ {read[c]}) \cup {issued'}
        /\ \/ CallerGoes(c, "store") /\ got' = [got EXCEPT ![c] = issued'] /\ UNCHANGED faults
           \/ CallerGoes(c, "idle") /\ Fault("lost") /\ UNCHANGED got
     \/ /\ read[c] \notin live
        /\ \/ CallerGoes(c, "drop") /\ UNCHANGED faults
           \/ CallerGoes(c, "idle") /\ Fault("lost")
        /\ UNCHANGED <<issued, live, got>>
     \/ CallerGoes(c, "idle") /\ Fault("lost") /\ UNCHANGED <<issued, live, got>>
  /\ UNCHANGED <<stored, stale, read>>

\* update_trakt_tokens: only over the token that was read.  A failed call
\* counts as one that lost (unwrap_or(false)).
StoreIfCurrent(c) ==
  IF stored = read[c]
  THEN stored' = got[c] /\ stale' = FALSE /\ CallerGoes(c, "idle")
  ELSE UNCHANGED <<stored, stale>> /\ CallerGoes(c, "reread")

Store(c) ==
  /\ caller[c] = "store"
  /\ \/ StoreIfCurrent(c) /\ UNCHANGED faults
     \/ UNCHANGED <<stored, stale>> /\ CallerGoes(c, "reread") /\ Fault("store")
  /\ UNCHANGED <<issued, live, read, got>>

\* Plausible bug: the plain delete_trakt_auth.
DropAnyway(c) == stored' = NoToken /\ stale' = FALSE /\ CallerGoes(c, "idle")

\* delete_trakt_auth_if_current: the account is unlinked, unless another
\* caller has stored a newer token.
DropIfCurrent(c) ==
  IF stored = read[c]
  THEN stored' = NoToken /\ stale' = FALSE /\ CallerGoes(c, "idle")
  ELSE UNCHANGED <<stored, stale>> /\ CallerGoes(c, "reread")

Drop(c) ==
  /\ caller[c] = "drop"
  /\ \/ DropIfCurrent(c) /\ UNCHANGED faults
     \/ UNCHANGED <<stored, stale>> /\ CallerGoes(c, "idle") /\ Fault("store")
  /\ UNCHANGED <<issued, live, read, got>>

\* The loser takes the winner's access token, if there is one.
TakeWinners(c) ==
  /\ caller[c] = "reread"
  /\ CallerGoes(c, "idle")
  /\ UNCHANGED <<stored, stale, issued, live, read, got, faults>>

Call(c) == Read(c) \/ Refresh(c) \/ Store(c) \/ Drop(c) \/ TakeWinners(c)

LinkNext ==
  \/ LinkAccount \/ UnlinkAccount \/ Expire \/ Revoke
  \/ \E c \in Callers : Call(c)

LinkSpec == LinkInit /\ [][LinkNext]_linkVars

-----------------------------------------------------------------------------
(* Properties *)

\* No caller, however late, overwrites or deletes a refresh token that Trakt
\* still takes: not that of another caller who won the refresh, and not that
\* of an account the user has linked anew meanwhile.
LiveTokenIsKept ==
  [][\A c \in Callers : Call(c) /\ stored \in live => stored' = stored]_linkVars

\* "Delete a rejected OAuth link only if no other voter has already rotated
\* the refresh token" (store/mod.rs:858): no caller drops the link while
\* another holds the token that follows the dropped one.
DropsNoRotatedLink ==
  [][\A c, d \in Callers :
       Drop(c) /\ stored /= NoToken /\ stored' = NoToken
         => ~(caller[d] = "store" /\ read[d] = stored /\ got[d] \in live)]_linkVars
=============================================================================
