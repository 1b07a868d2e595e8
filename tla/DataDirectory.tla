---------------------------- MODULE DataDirectory ----------------------------
(* How plurxd chooses its durable store at start-up, and hands it from SQLite  *)
(* to Hiqlite once: select_daemon_store in                                     *)
(* crates/plurx-core/src/cluster/migration.rs, with the activation of a fresh  *)
(* directory, the one-voter readdress and the recovery of either when it was   *)
(* interrupted.  The process may die between any two steps; a power loss also  *)
(* undoes what was done to the data directory since it was last synced.        *)
(*                                                                             *)
(* A target is one Hiqlite directory: the rows of its state machine, the rows  *)
(* its Raft log (with its snapshots) can rebuild, its activation marker,       *)
(* Hiqlite's lock file and the address its Raft membership names.  Hiqlite     *)
(* itself is external and modelled by what the code says of it: it locks a     *)
(* target it runs from, unlocks it when stopped, and rebuilds the state        *)
(* machine of a target it finds locked.                                        *)
EXTENDS Naturals

CONSTANTS
  Writes,       \* writes a client can be answered for
  InstanceId,   \* the row settings['instance.id']
  Admitted,     \* a row of cluster_nodes that names another node
  Hosts,        \* values of cluster.advertise_host other than the loopback
  Loopback,     \* the loopback address
  Unset,        \* an empty cluster.advertise_host
  NoAddress,    \* an absent address
  MaxFaults,    \* crashes, power losses and failed steps
  MaxChanges,   \* changes of the configuration
  Faults        \* which faults happen

ASSUME RowsDistinct ==
  /\ InstanceId \notin Writes
  /\ Admitted \notin Writes \cup {InstanceId}
ASSUME AddressesDistinct ==
  /\ Loopback \notin Hosts
  /\ Unset \notin Hosts \cup {Loopback}
  /\ NoAddress \notin Hosts \cup {Loopback, Unset}
ASSUME BoundsAreNaturals == MaxFaults \in Nat /\ MaxChanges \in Nat

Rows      == Writes \cup {InstanceId, Admitted}
Addresses == Hosts \cup {Loopback}
Configs   == Addresses \cup {Unset}

(* Three targets are enough: one per name.  None is an absent directory. *)
Targets == 1 .. 3
None    == 0

Content == [rows : SUBSET Rows, log : SUBSET Rows, marker : BOOLEAN,
            lock : BOOLEAN, address : Addresses \cup {NoAddress}]

(* The entries of the data directory that a sync makes durable together. *)
Directory == [incoming   : Targets \cup {None},
              active     : Targets \cup {None},
              backup     : Targets \cup {None},
              activated  : BOOLEAN,
              record     : Addresses \cup {NoAddress},
              membership : Addresses \cup {NoAddress}]

Steps == {"down", "recover", "restored", "dropped", "select",
          "givingUp", "sqlite",
          "attempted", "staged", "imported", "marked", "stopped", "renamed", "synced",
          "readdress", "cleared", "copied", "recorded", "parked", "swapped", "published",
          "open", "opened", "breadcrumb", "member", "tidied", "clean", "unparked",
          "serving"}

VARIABLES
  sqlite,    \* rows of plurx.db
  target,    \* contents of the Hiqlite directories
  dir,       \* the data directory as the process sees it
  behind,    \* the states of the data directory a power loss may leave
  shelf,     \* the target the operator moved away
  attempt,   \* migration/hiqlite-activation.in-progress exists
  pc,        \* the step of select_daemon_store the process is at
  fresh,     \* this boot activated the directory
  config,    \* cluster.advertise_host
  peer,      \* whether the admitted node is a voter that holds what this one does
  faults,    \* faults so far
  changes    \* changes of the configuration so far

vars == <<sqlite, target, dir, behind, shelf, attempt, pc, fresh, config, peer, faults, changes>>

disk == <<sqlite, target, dir, behind, shelf, attempt>>
env  == <<config, peer, faults, changes>>

Empty == [rows |-> {}, log |-> {}, marker |-> FALSE, lock |-> FALSE, address |-> NoAddress]

Active == target[dir.active]

(* A change of a directory entry a power loss may undo, and one synced. *)
Change(d) == dir' = d /\ behind' = behind \cup {d}
Sync(d)   == dir' = d /\ behind' = {d}

Goto(step) == pc' = step

(* The process exits with an error; the supervisor starts it again. *)
Exit == pc' = "down"

(* remove_abandoned_incoming syncs what it removes. *)
DropIncoming ==
  IF dir.incoming = None THEN UNCHANGED <<dir, behind>>
  ELSE Sync([dir EXCEPT !.incoming = None])

Fault(kind) == kind \in Faults /\ faults < MaxFaults /\ faults' = faults + 1

(* A target no entry, durable or not, refers to. *)
Unused(t) == t # shelf /\ \A d \in behind : t \notin {d.incoming, d.active, d.backup}
NextTarget(t) == Unused(t) /\ \A u \in Targets : Unused(u) => t <= u

-----------------------------------------------------------------------------
(* Recovery of an interrupted readdress, before anything else is looked at. *)

Boot ==
  /\ pc = "down"
  /\ Goto("recover")
  /\ fresh' = FALSE
  /\ UNCHANGED <<disk, env>>

RecoverNothing ==
  /\ pc = "recover" /\ dir.record = NoAddress
  /\ Goto("select")
  /\ UNCHANGED <<disk, fresh, env>>

(* Both renames were done: publish the record's address. *)
RecoverPublish ==
  /\ pc = "recover" /\ dir.record # NoAddress
  /\ dir.active # None /\ dir.backup # None
  /\ Sync([dir EXCEPT !.membership = dir.record])
  /\ Goto("select")
  /\ UNCHANGED <<sqlite, target, attempt, fresh, env, shelf>>

(* The prepared target never replaced the active one. *)
RecoverKeep ==
  /\ pc = "recover" /\ dir.record # NoAddress
  /\ dir.active # None /\ dir.backup = None
  /\ Goto("restored")
  /\ UNCHANGED <<disk, fresh, env>>

(* Plausible bug: an interrupted swap is refused, not undone. *)
RecoverRefuse ==
  /\ pc = "recover" /\ dir.record # NoAddress
  /\ dir.active = None /\ dir.backup # None
  /\ Exit
  /\ UNCHANGED <<disk, fresh, env>>

(* Interrupted between the two renames. *)
RecoverRestore ==
  /\ pc = "recover" /\ dir.record # NoAddress
  /\ dir.active = None /\ dir.backup # None
  /\ Change([dir EXCEPT !.active = dir.backup, !.backup = None])
  /\ Goto("restored")
  /\ UNCHANGED <<sqlite, target, attempt, fresh, env, shelf>>

RecoverLost ==
  /\ pc = "recover" /\ dir.record # NoAddress
  /\ dir.active = None /\ dir.backup = None
  /\ Exit
  /\ UNCHANGED <<disk, fresh, env>>

RecoverDropIncoming ==
  /\ pc = "restored"
  /\ Change([dir EXCEPT !.incoming = None])
  /\ Goto("dropped")
  /\ UNCHANGED <<sqlite, target, attempt, fresh, env, shelf>>

RecoverDropRecord ==
  /\ pc = "dropped"
  /\ Sync([dir EXCEPT !.record = NoAddress])
  /\ Goto("select")
  /\ UNCHANGED <<sqlite, target, attempt, fresh, env, shelf>>

-----------------------------------------------------------------------------
(* The choice of the backend. *)

SelectActive ==
  /\ pc = "select" /\ dir.active # None
  /\ Goto("readdress")
  /\ UNCHANGED <<disk, fresh, env>>

(* The directory handed its authority over, and the target is gone. *)
SelectRefuse ==
  /\ pc = "select" /\ dir.active = None /\ dir.activated
  /\ Exit
  /\ UNCHANGED <<disk, fresh, env>>

Interrupted == attempt \/ dir.incoming # None

(* Plausible bug: the attempt outlives the boot on SQLite. *)
KeepAttempt ==
  /\ pc = "givingUp"
  /\ Goto("sqlite")
  /\ UNCHANGED <<disk, fresh, env>>

(* An interrupted activation is given up for one boot on SQLite. *)
SelectRecoveryBoot ==
  /\ pc = "select" /\ dir.active = None /\ ~dir.activated /\ Interrupted
  /\ DropIncoming
  /\ Goto("givingUp")
  /\ UNCHANGED <<sqlite, target, attempt, fresh, env, shelf>>

GiveUpAttempt ==
  /\ pc = "givingUp"
  /\ attempt' = FALSE
  /\ Goto("sqlite")
  /\ UNCHANGED <<sqlite, target, dir, behind, fresh, env, shelf>>

(* write_activation_attempt, synced in a directory of its own. *)
SelectActivation ==
  /\ pc = "select" /\ dir.active = None /\ ~dir.activated /\ ~Interrupted
  /\ attempt' = TRUE
  /\ fresh' = TRUE
  /\ Sync(dir)
  /\ Goto("attempted")
  /\ UNCHANGED <<sqlite, target, env, shelf>>

-----------------------------------------------------------------------------
(* activate_fresh_store. *)

Stage ==
  /\ pc = "attempted"
  /\ \E t \in Targets :
       /\ NextTarget(t)
       /\ target' = [target EXCEPT ![t] = Empty]
       /\ Sync([dir EXCEPT !.incoming = t])
  /\ Goto("staged")
  /\ UNCHANGED <<sqlite, attempt, fresh, env, shelf>>

(* The staging voter runs on the loopback; the import goes through its log. *)
Import ==
  /\ pc = "staged"
  /\ target' = [target EXCEPT ![dir.incoming] =
       [rows |-> sqlite, log |-> sqlite, marker |-> FALSE, lock |-> TRUE,
        address |-> Loopback]]
  /\ Goto("imported")
  /\ UNCHANGED <<sqlite, dir, behind, attempt, fresh, env, shelf>>

(* A failure of any step before the rename removes the incoming target; the    *)
(* attempt stays, so that the next boot is the one on SQLite.                  *)
ActivationFails ==
  /\ pc \in {"attempted", "staged", "imported", "marked", "stopped"}
  /\ Fault("step")
  /\ DropIncoming
  /\ Exit
  /\ UNCHANGED <<sqlite, target, attempt, fresh, config, peer, changes, shelf>>

Mark ==
  /\ pc = "imported"
  /\ target' = [target EXCEPT ![dir.incoming].marker = TRUE]
  /\ Goto("marked")
  /\ UNCHANGED <<sqlite, dir, behind, attempt, fresh, env, shelf>>

StopStaging ==
  /\ pc = "marked"
  /\ target' = [target EXCEPT ![dir.incoming].lock = FALSE]
  /\ Goto("stopped")
  /\ UNCHANGED <<sqlite, dir, behind, attempt, fresh, env, shelf>>

Activate ==
  /\ pc = "stopped"
  /\ Change([dir EXCEPT !.active = dir.incoming, !.incoming = None])
  /\ Goto("renamed")
  /\ UNCHANGED <<sqlite, target, attempt, fresh, env, shelf>>

SyncActivation ==
  /\ pc = "renamed"
  /\ Sync(dir)
  /\ Goto("synced")
  /\ UNCHANGED <<sqlite, target, attempt, fresh, env, shelf>>

EndAttempt ==
  /\ pc = "synced"
  /\ attempt' = FALSE
  /\ Goto("readdress")
  /\ UNCHANGED <<sqlite, target, dir, behind, fresh, env, shelf>>

-----------------------------------------------------------------------------
(* readdress_single_voter_if_needed. *)

Advertised == config # Unset

(* configured_local_peer, with listeners bound to the loopback. *)
ConfiguredAddress == IF Advertised THEN config ELSE Loopback

AddressChanged == Advertised /\ dir.membership # ConfiguredAddress

(* Plausible bug: only a changed address, and no ungraceful stop, is repaired. *)
ReaddressForAddress == AddressChanged

(* admitted_peer_count: by the rows of the closed state machine. *)
HasPeers == Admitted \in Active.rows

ReaddressNeeded == AddressChanged \/ Active.lock

ReaddressNotNeeded ==
  /\ pc = "readdress"
  /\ \/ ~ReaddressNeeded
     \/ HasPeers /\ ~AddressChanged
  /\ Goto("open")
  /\ UNCHANGED <<disk, fresh, env>>

(* The address of a member cannot change, and a parked target is in the way. *)
ReaddressRefused ==
  /\ pc = "readdress" /\ ReaddressNeeded
  /\ IF HasPeers THEN AddressChanged ELSE dir.backup # None
  /\ Exit
  /\ UNCHANGED <<disk, fresh, env>>

ReaddressClear ==
  /\ pc = "readdress" /\ ReaddressNeeded /\ ~HasPeers
  /\ dir.backup = None
  /\ DropIncoming
  /\ Goto("cleared")
  /\ UNCHANGED <<sqlite, target, attempt, fresh, env, shelf>>

(* Plausible bug: the copy keeps the applied membership. *)
ReaddressCopyWithMetadata ==
  /\ pc = "cleared"
  /\ \E t \in Targets :
       /\ NextTarget(t)
       /\ target' = [target EXCEPT ![t] =
            [rows |-> Active.rows, log |-> {}, marker |-> TRUE, lock |-> FALSE,
             address |-> Active.address]]
       /\ Change([dir EXCEPT !.incoming = t])
  /\ Goto("copied")
  /\ UNCHANGED <<sqlite, attempt, shelf, fresh, env>>

(* The rows are copied, the Raft log is not. *)
ReaddressCopy ==
  /\ pc = "cleared"
  /\ \E t \in Targets :
       /\ NextTarget(t)
       /\ target' = [target EXCEPT ![t] =
            [rows |-> Active.rows, log |-> {}, marker |-> TRUE, lock |-> FALSE,
             address |-> NoAddress]]
       /\ Change([dir EXCEPT !.incoming = t])
  /\ Goto("copied")
  /\ UNCHANGED <<sqlite, attempt, fresh, env, shelf>>

(* Only a copy of this cluster's state machine gets a record. *)
ReaddressRecord ==
  /\ pc = "copied"
  /\ IF InstanceId \in target[dir.incoming].rows
     THEN Sync([dir EXCEPT !.record = ConfiguredAddress]) /\ Goto("recorded")
     ELSE Exit /\ UNCHANGED <<dir, behind>>
  /\ UNCHANGED <<sqlite, target, attempt, fresh, env, shelf>>

ReaddressPark ==
  /\ pc = "recorded"
  /\ Change([dir EXCEPT !.backup = dir.active, !.active = None])
  /\ Goto("parked")
  /\ UNCHANGED <<sqlite, target, attempt, fresh, env, shelf>>

ReaddressSwap ==
  /\ pc = "parked"
  /\ Change([dir EXCEPT !.active = dir.incoming, !.incoming = None])
  /\ Goto("swapped")
  /\ UNCHANGED <<sqlite, target, attempt, fresh, env, shelf>>

(* The second rename fails: the first is undone, and the start refused. *)
ReaddressSwapFails ==
  /\ pc = "parked"
  /\ Fault("step")
  /\ Change([dir EXCEPT !.active = dir.backup, !.backup = None])
  /\ Exit
  /\ UNCHANGED <<sqlite, target, attempt, fresh, config, peer, changes, shelf>>

ReaddressSync ==
  /\ pc = "swapped"
  /\ Sync(dir)
  /\ Goto("published")
  /\ UNCHANGED <<sqlite, target, attempt, fresh, env, shelf>>

ReaddressPublish ==
  /\ pc = "published"
  /\ Sync([dir EXCEPT !.membership = dir.record])
  /\ Goto("open")
  /\ UNCHANGED <<sqlite, target, attempt, fresh, env, shelf>>

-----------------------------------------------------------------------------
(* open_active_store_with_key. *)

(* The address the voter runs at: the loopback when nothing is advertised and  *)
(* the membership names no other, the membership's, or the configured one.  An *)
(* advertised address the membership disagrees with is refused here, too: the  *)
(* readdress before has excluded it (AddressesAgree).                          *)
LocalAddress ==
  IF ~Advertised /\ dir.membership \in {NoAddress, Loopback} THEN Loopback
  ELSE IF Advertised /\ dir.membership \in {NoAddress, Loopback} THEN config
  ELSE dir.membership

(* Hiqlite rebuilds a locked state machine from the log, and from the other    *)
(* voter when there is one.                                                    *)
Healed(c) == c.log \cup (IF peer THEN c.rows ELSE {})

StartVoter ==
  /\ pc = "open"
  /\ target' = [target EXCEPT ![dir.active] =
       [Active EXCEPT !.rows    = IF Active.lock THEN Healed(Active) ELSE @,
                      !.lock    = TRUE,
                      !.address = IF @ = NoAddress THEN LocalAddress ELSE @]]
  /\ Goto("opened")
  /\ UNCHANGED <<sqlite, dir, behind, attempt, fresh, env, shelf>>

(* A listener's port is taken: Hiqlite was not started. *)
PortTaken ==
  /\ pc = "open"
  /\ Fault("step")
  /\ Exit
  /\ UNCHANGED <<disk, fresh, config, peer, changes>>

(* The store must be this cluster's: the process exits, without stopping the   *)
(* voter, otherwise.                                                           *)
WriteBreadcrumb ==
  /\ pc = "opened"
  /\ IF dir.activated \/ InstanceId \notin Active.rows THEN UNCHANGED <<dir, behind>>
     ELSE Sync([dir EXCEPT !.activated = TRUE])
  /\ IF InstanceId \in Active.rows THEN Goto("breadcrumb") ELSE Exit
  /\ UNCHANGED <<sqlite, target, attempt, fresh, env, shelf>>

WriteMembership ==
  /\ pc = "breadcrumb"
  /\ IF dir.membership = LocalAddress THEN UNCHANGED <<dir, behind>>
     ELSE Sync([dir EXCEPT !.membership = LocalAddress])
  /\ Goto(IF fresh THEN "clean" ELSE "member")
  /\ UNCHANGED <<sqlite, target, attempt, fresh, env, shelf>>

-----------------------------------------------------------------------------
(* The leftovers of interrupted starts go once the target is open. *)

TidyIncoming ==
  /\ pc = "member"
  /\ Sync([dir EXCEPT !.incoming = None])
  /\ Goto("tidied")
  /\ UNCHANGED <<sqlite, target, attempt, fresh, env, shelf>>

TidyAttempt ==
  /\ pc = "tidied"
  /\ attempt' = FALSE
  /\ Goto("clean")
  /\ UNCHANGED <<sqlite, target, dir, behind, fresh, env, shelf>>

FinishNothing ==
  /\ pc = "clean" /\ dir.record = NoAddress
  /\ Goto("serving")
  /\ UNCHANGED <<disk, fresh, env>>

FinishUnpark ==
  /\ pc = "clean" /\ dir.record # NoAddress
  /\ Change([dir EXCEPT !.backup = None])
  /\ Goto("unparked")
  /\ UNCHANGED <<sqlite, target, attempt, fresh, env, shelf>>

FinishRecord ==
  /\ pc = "unparked"
  /\ Sync([dir EXCEPT !.record = NoAddress])
  /\ Goto("serving")
  /\ UNCHANGED <<sqlite, target, attempt, fresh, env, shelf>>

-----------------------------------------------------------------------------
(* The daemon serves its clients. *)

WriteSqlite(w) ==
  /\ pc = "sqlite"
  /\ sqlite' = sqlite \cup {w}
  /\ UNCHANGED <<target, dir, behind, attempt, pc, fresh, env, shelf>>

(* A replicated write is answered once it is applied. *)
Apply(add, remove) ==
  target' = [target EXCEPT ![dir.active] =
    [Active EXCEPT !.rows = (@ \cup add) \ remove, !.log = (@ \cup add) \ remove]]

WriteReplicated(w) ==
  /\ pc = "serving"
  /\ Apply({w}, {})
  /\ UNCHANGED <<sqlite, dir, behind, attempt, pc, fresh, env, shelf>>

(* Hiqlite's snapshot, which a rebuild starts from. *)
Snapshot ==
  /\ pc = "serving"
  /\ target' = [target EXCEPT ![dir.active].log = Active.rows]
  /\ UNCHANGED <<sqlite, dir, behind, attempt, pc, fresh, env, shelf>>

(* MembershipManager::redeem records the node before it is told so ... *)
RedeemPeer ==
  /\ pc = "serving" /\ ~HasPeers
  /\ Apply({Admitted}, {})
  /\ UNCHANGED <<sqlite, dir, behind, attempt, pc, fresh, env, shelf>>

(* ... and the node becomes a voter when it has started and caught up. *)
PeerJoins ==
  /\ pc = "serving" /\ HasPeers /\ ~peer
  /\ peer' = TRUE
  /\ UNCHANGED <<disk, pc, fresh, config, faults, changes>>

(* remove_voter takes the voter out of the Raft membership, then writes the    *)
(* tombstone.                                                                  *)
PeerLeaves ==
  /\ pc = "serving" /\ peer
  /\ peer' = FALSE
  /\ UNCHANGED <<disk, pc, fresh, config, faults, changes>>

TombstonePeer ==
  /\ pc = "serving" /\ HasPeers /\ ~peer
  /\ Apply({}, {Admitted})
  /\ UNCHANGED <<sqlite, dir, behind, attempt, pc, fresh, env, shelf>>

(* SelectedStore::shutdown stops the voter, which removes its lock. *)
Stop ==
  /\ pc \in {"serving", "sqlite"}
  /\ target' = IF pc = "serving" THEN [target EXCEPT ![dir.active].lock = FALSE]
               ELSE target
  /\ Exit
  /\ UNCHANGED <<sqlite, dir, behind, attempt, fresh, env, shelf>>

-----------------------------------------------------------------------------
(* Faults, and the operator. *)

(* An admitted node that is not, or no longer, a voter: nobody else holds what *)
(* this one does.  Without the fault "lone" no crash happens then.             *)
Alone == dir.active # None /\ HasPeers /\ ~peer
MayCrash == "lone" \in Faults \/ ~Alone

Crash ==
  /\ pc # "down" /\ MayCrash
  /\ Fault("crash")
  /\ Exit
  /\ UNCHANGED <<disk, fresh, config, peer, changes>>

PowerLoss ==
  /\ MayCrash
  /\ Fault("power")
  /\ \E d \in behind : dir' = d /\ behind' = {d}
  /\ Exit
  /\ UNCHANGED <<sqlite, target, attempt, fresh, config, peer, changes, shelf>>

(* The operator moves hiqlite/ away from an activated directory, none of whose *)
(* readdresses is parked, and back.                                            *)
Misplace ==
  /\ pc = "down" /\ dir.activated /\ shelf = None
  /\ dir.active # None /\ dir.backup = None
  /\ Fault("lost")
  /\ shelf' = dir.active
  /\ Sync([dir EXCEPT !.active = None])
  /\ UNCHANGED <<sqlite, target, attempt, pc, fresh, config, peer, changes>>

PutBack ==
  /\ pc = "down" /\ dir.active = None /\ shelf # None
  /\ Sync([dir EXCEPT !.active = shelf])
  /\ shelf' = None
  /\ UNCHANGED <<sqlite, target, attempt, pc, fresh, env>>

Reconfigure ==
  /\ pc = "down" /\ changes < MaxChanges
  /\ \E c \in Configs \ {config} : config' = c
  /\ changes' = changes + 1
  /\ UNCHANGED <<disk, pc, fresh, peer, faults>>

-----------------------------------------------------------------------------
Init ==
  /\ sqlite \in {W \cup {InstanceId} : W \in SUBSET Writes}
  /\ target = [t \in Targets |-> Empty]
  /\ dir = [incoming |-> None, active |-> None, backup |-> None, activated |-> FALSE,
            record |-> NoAddress, membership |-> NoAddress]
  /\ behind = {dir}
  /\ shelf = None
  /\ attempt = FALSE
  /\ pc = "down"
  /\ fresh = FALSE
  /\ config \in Configs
  /\ peer = FALSE
  /\ faults = 0
  /\ changes = 0

Recover == RecoverNothing \/ RecoverPublish \/ RecoverKeep \/ RecoverRestore
             \/ RecoverLost \/ RecoverDropIncoming \/ RecoverDropRecord

Select == SelectActive \/ SelectRefuse \/ SelectRecoveryBoot \/ GiveUpAttempt
             \/ SelectActivation

Activation == Stage \/ Import \/ Mark \/ StopStaging \/ Activate \/ SyncActivation
             \/ EndAttempt

Readdress == ReaddressNotNeeded \/ ReaddressRefused \/ ReaddressClear \/ ReaddressCopy
             \/ ReaddressRecord \/ ReaddressPark \/ ReaddressSwap \/ ReaddressSync
             \/ ReaddressPublish

Open == StartVoter \/ WriteBreadcrumb \/ WriteMembership

Finish == TidyIncoming \/ TidyAttempt \/ FinishNothing \/ FinishUnpark \/ FinishRecord

StartUp == Boot \/ Recover \/ Select \/ Activation \/ Readdress \/ Open \/ Finish

Failure == ActivationFails \/ ReaddressSwapFails \/ PortTaken \/ Crash \/ PowerLoss

Serve ==
  \/ \E w \in Writes : WriteSqlite(w) \/ WriteReplicated(w)
  \/ Snapshot \/ RedeemPeer \/ PeerJoins \/ PeerLeaves \/ TombstonePeer \/ Stop

Operator == Misplace \/ PutBack \/ Reconfigure

Next == StartUp \/ Failure \/ Serve \/ Operator

Spec == Init /\ [][Next]_vars

(* start-up is one sequential procedure of a supervised process. *)
FairSpec == Spec /\ WF_vars(StartUp)

-----------------------------------------------------------------------------
(* Every variable has its type, and no target is under two names. *)
TypeOK ==
  /\ sqlite \in SUBSET Rows
  /\ target \in [Targets -> Content]
  /\ dir \in Directory
  /\ behind \in SUBSET Directory
  /\ shelf \in Targets \cup {None}
  /\ attempt \in BOOLEAN
  /\ pc \in Steps
  /\ fresh \in BOOLEAN
  /\ config \in Configs
  /\ peer \in BOOLEAN
  /\ faults \in 0 .. MaxFaults
  /\ changes \in 0 .. MaxChanges
  /\ dir.incoming # None => dir.incoming \notin {dir.active, dir.backup}
  /\ dir.active # None => dir.active # dir.backup

(* The rows of the store the directory d says is authoritative. *)
StoreOf(d) ==
  CASE d.active # None -> target[d.active].rows
    [] d.active = None /\ d.backup # None -> target[d.backup].rows
    [] d.active = None /\ d.backup = None /\ shelf # None -> target[shelf].rows
    [] OTHER -> sqlite

Kept == INSTANCE DurableStore WITH kept <- StoreOf(dir) \cap Writes

(* No boot, crash, power loss, activation or readdress adds or takes a write:  *)
(* the data directory is one store that only its clients change, although the  *)
(* rows move from SQLite to Hiqlite and from one target to the next.           *)
OneStore == Kept!Spec

(* The voter is only started at an address it will not refuse, and a served    *)
(* target runs at the address membership.json names and its own Raft membership*)
(* has: an interrupted readdress changes all of them or none.                  *)
AddressesAgree ==
  /\ pc = "open" =>
       ~Advertised \/ dir.membership \in {NoAddress, Loopback, config}
  /\ pc = "serving" => /\ dir.membership = Active.address
                       /\ ~Advertised \/ dir.membership = config

(* The boot on SQLite leaves nothing that would make the next boot another     *)
(* one: activation is retried.                                                 *)
RecoveryBootIsConsumed ==
  pc = "sqlite" => ~attempt /\ \A d \in behind : d.incoming = None

(* A target that needs a readdress while the old one of the last is parked:    *)
(* what a crash leaves between the start of a readdressed voter and the        *)
(* removal of the old target, or a change of the address after the renames.    *)
Parked ==
  /\ dir.active # None /\ dir.backup # None
  /\ Active.lock \/ (Advertised /\ dir.record # config)

(* The target was moved away. *)
Missing == dir.active = None /\ shelf # None

(* The configured address of a node with peers was changed. *)
Pinned == dir.active # None /\ HasPeers /\ AddressChanged

(* Once faults and changes end, the daemon serves again and again, unless a    *)
(* crash left a parked target, peers pin an address the operator changed, or   *)
(* the operator took the target away.                                          *)
ServesUnlessParked ==
  []<>(pc = "serving" \/ pc = "sqlite" \/ Parked \/ Pinned \/ Missing)

(* "... turns that into an ordinary crash recovery" (migration.rs:931): a sole *)
(* voter that died starts again.                                               *)
SoleVoterRecovers == []<>(pc = "serving" \/ pc = "sqlite" \/ Pinned)
=============================================================================
