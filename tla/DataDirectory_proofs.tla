------------------------ MODULE DataDirectory_proofs ------------------------
(* Proofs about DataDirectory, for any writes and addresses and any number of  *)
(* faults, as long as no crash meets a node alone with an admitted peer.       *)
EXTENDS DataDirectory, TLAPS

NoLoneCrash == "lone" \notin Faults

(* The target a boot would serve from directory d; None is SQLite's. *)
Authority(d) ==
  IF d.active # None THEN d.active
  ELSE IF d.backup # None THEN d.backup ELSE shelf

WritesOf(d) == StoreOf(d) \cap Writes

(* A step that does not change what the directory holds, or by a client's write. *)
Keeps == WritesOf(dir)' = WritesOf(dir)
Grows == Keeps \/ \E w \in Writes : WritesOf(dir)' = WritesOf(dir) \cup {w}

(* What holds of every state of the data directory a power loss may leave.     *)
Recoverable(d) ==
  /\ d \in Directory
  /\ d.incoming # None => d.incoming \notin {d.active, d.backup, shelf}
  /\ d.active # None => d.active \notin {d.backup, shelf}
  /\ d.backup # None => d.backup # shelf /\ d.record # NoAddress
  /\ WritesOf(d) = WritesOf(dir)
  /\ InstanceId \in StoreOf(d)
  /\ d.membership = dir.membership
  /\ d.activated = dir.activated
  /\ d.record = dir.record

(* SQLite is the authority only before the first activation is recorded; then  *)
(* nothing is pending, and the directory is durable as it is.                  *)
BeforeActivation(d) ==
  Authority(d) = None => d.membership = NoAddress /\ d.record = NoAddress /\ ~d.activated

(* A moved target leaves a directory without another. *)
Shelved(d) ==
  shelf # None => /\ d.active = None /\ d.backup = None /\ d.activated
                  /\ pc \in {"down", "recover", "select"}

Running == {"opened", "breadcrumb", "member", "tidied", "clean", "unparked", "serving"}

(* A locked target of a node with peers can be rebuilt from one of them, but   *)
(* for the one this process runs.                                              *)
Rebuildable(d) ==
  Authority(d) # None /\ target[Authority(d)].lock /\ Admitted \in target[Authority(d)].rows
    => peer \/ (pc \in Running /\ Authority(d) = dir.active)

(* The Raft membership of the authority names the address of membership.json.  *)
Addressed(d) ==
  Authority(d) # None =>
    \/ target[Authority(d)].address \in {NoAddress, d.membership}
    \/ d.membership = NoAddress /\ target[Authority(d)].address = Loopback

(* A readdressed target has no address yet, or the recorded one. *)
Readdressed(d) ==
  d.active # None /\ d.backup # None => target[d.active].address \in {NoAddress, d.record}

Good(d) == /\ Recoverable(d) /\ BeforeActivation(d) /\ Shelved(d)
           /\ Rebuildable(d) /\ Addressed(d) /\ Readdressed(d)

(* Until a target is renamed to its place nothing of the directory is pending. *)
Settled == Authority(dir) = None => behind = {dir}

Incoming == target[dir.incoming]
Backup   == target[dir.backup]

Staging == {"attempted", "staged", "imported", "marked", "stopped"}

(* Where the procedure is, and what it has established there: while SQLite is  *)
(* the authority, ...                                                          *)
SqlitePhase ==
  /\ pc \in Staging \cup {"givingUp", "sqlite"} => Authority(dir) = None
  /\ pc \in {"attempted", "givingUp", "sqlite"} => dir.incoming = None
  /\ pc = "sqlite" => ~attempt /\ behind = {dir}
  /\ pc \in Staging \ {"attempted"} => dir.incoming # None
  /\ pc \in {"imported", "marked", "stopped"} =>
       Incoming.rows = sqlite /\ Incoming.address = Loopback
  /\ pc = "stopped" => ~Incoming.lock

(* ... once a target is, ...                                                   *)
ActivePhase ==
  /\ pc \in {"renamed", "synced", "readdress", "cleared", "copied", "recorded",
             "swapped", "published", "restored", "dropped", "open"} \cup Running
       => dir.active # None
  /\ pc \in {"renamed", "synced", "cleared", "copied", "recorded", "restored",
             "dropped", "unparked", "serving"} => dir.backup = None
  /\ pc \in {"select", "renamed", "synced", "readdress", "cleared", "copied", "open"}
             \cup (Running \ {"unparked"}) /\ dir.backup = None
       => dir.record = NoAddress
  /\ pc = "dropped" => dir.incoming = None

(* ... while it is replaced by its copy ...                                    *)
ReaddressPhase ==
  /\ pc \in {"cleared", "copied", "recorded"} => ~HasPeers
  /\ pc \in {"copied", "recorded", "parked"} =>
       /\ dir.incoming # None
       /\ ~Incoming.lock /\ Incoming.address = NoAddress
       /\ Admitted \notin Incoming.rows
  /\ pc \in {"copied", "recorded"} => Incoming.rows = Active.rows
  /\ pc = "parked" => /\ dir.active = None /\ dir.backup # None
                      /\ Incoming.rows = Backup.rows
  /\ pc \in {"recorded", "parked", "swapped", "published"} =>
       dir.record = ConfiguredAddress
  /\ pc \in {"swapped", "published"} =>
       dir.backup # None /\ Active.address = NoAddress /\ ~Active.lock
  /\ dir.backup # None /\ pc \in {"select", "readdress", "open"} \cup Running =>
       dir.membership = dir.record /\ dir.active # None

(* ... and from the start of its voter.                                        *)
OpenPhase ==
  /\ pc = "open" /\ Active.lock => HasPeers
  /\ pc \in {"open"} \cup Running => ~Advertised \/ dir.membership = config
  /\ pc \in Running => Active.address # NoAddress
  /\ pc \in Running \ {"opened", "breadcrumb"} =>
       dir.membership = Active.address
  /\ pc \in {"tidied", "clean", "serving"} => behind = {dir}
  /\ fresh /\ pc = "breadcrumb" => behind = {dir}
  /\ pc = "unparked" => \A d \in behind : d.active = dir.active
  /\ pc = "serving" => dir.record = NoAddress

(* A boot that activates starts with no breadcrumb, which opening writes.      *)
FreshBoot ==
  /\ pc \in {"recover", "restored", "dropped", "select", "givingUp"} => ~fresh
  /\ fresh /\ pc \in Staging \cup {"renamed", "synced", "readdress", "cleared", "copied",
               "recorded", "parked", "swapped", "published", "open", "opened"}
       => ~dir.activated

LogsBehind == \A t \in Targets : target[t].log \subseteq target[t].rows

Types ==
  /\ sqlite \in SUBSET Rows /\ InstanceId \in sqlite
  /\ target \in [Targets -> Content]
  /\ dir \in Directory /\ dir \in behind
  /\ shelf \in Targets \cup {None}
  /\ attempt \in BOOLEAN
  /\ pc \in Steps
  /\ fresh \in BOOLEAN
  /\ config \in Configs
  /\ peer \in BOOLEAN
  /\ faults \in 0 .. MaxFaults
  /\ changes \in 0 .. MaxChanges

Disk == (\A d \in behind : Good(d)) /\ Settled /\ LogsBehind

Phase == SqlitePhase /\ ActivePhase /\ ReaddressPhase /\ OpenPhase /\ FreshBoot

IInv == Types /\ Disk /\ Phase

-----------------------------------------------------------------------------
(* Steps that leave the disk alone.                                            *)

(* The disk stays good when neither it nor the peer changes, the process does  *)
(* not go past the choice of a moved target, and a crash finds no lone node.   *)
LEMMA SameDisk ==
  ASSUME Types, Disk, ActivePhase, UNCHANGED <<sqlite, target, dir, behind, shelf, peer>>,
         shelf # None => pc' \in {"down", "recover", "select"},
         pc \in Running => pc' \in Running \/ ~Alone
  PROVE  Disk'
<1>1. ASSUME NEW d \in behind PROVE Good(d)'
  <2>1. Good(d)
    BY <1>1 DEF Disk
  <2>2. Recoverable(d)' /\ BeforeActivation(d)' /\ Addressed(d)' /\ Readdressed(d)'
    BY <2>1 DEF Good, Recoverable, BeforeActivation, Addressed, Readdressed, StoreOf,
         WritesOf, Authority
  <2>3. Shelved(d)'
    BY <2>1 DEF Good, Shelved
  <2>4. Rebuildable(d)'
    BY <2>1 DEF Good, Rebuildable, Authority, ActivePhase, Alone, HasPeers, Active, Types
  <2> QED
    BY <2>2, <2>3, <2>4 DEF Good
<1>2. (\A d \in behind : Good(d))'
  BY <1>1
<1>3. Settled' /\ LogsBehind'
  BY DEF Disk, Settled, LogsBehind, Authority
<1> QED
  BY <1>2, <1>3 DEF Disk

(* The steps that only move the process, or end it. *)
Quiet == Boot \/ RecoverNothing \/ RecoverKeep \/ RecoverLost \/ SelectActive \/ SelectRefuse
           \/ GiveUpAttempt \/ EndAttempt \/ ReaddressNotNeeded \/ ReaddressRefused
           \/ TidyAttempt \/ FinishNothing \/ PortTaken \/ Crash \/ Reconfigure

LEMMA QuietStep ==
  ASSUME IInv, NoLoneCrash, Quiet PROVE IInv' /\ Keeps
<1> USE DEF Quiet, Boot, RecoverNothing, RecoverKeep, RecoverLost, SelectActive, SelectRefuse,
      GiveUpAttempt, EndAttempt, ReaddressNotNeeded, ReaddressRefused, TidyAttempt,
      FinishNothing, PortTaken, Crash, Reconfigure, Goto, Exit, Fault, disk, env
<1>1. Types'
  <2>1. pc' \in Steps
    BY DEF IInv, Types, Steps
  <2>2. faults' \in 0 .. MaxFaults /\ changes' \in 0 .. MaxChanges
    BY BoundsAreNaturals DEF IInv, Types
  <2> QED
    BY <2>1, <2>2 DEF IInv, Types
<1>2. pc \in Running => pc' \in Running \/ ~Alone
  BY DEF NoLoneCrash, MayCrash, Running
<1>3. shelf # None => pc' \in {"down", "recover", "select"}
  BY DEF IInv, Types, Disk, Good, Shelved
<1>4. Disk'
  BY <1>2, <1>3, SameDisk DEF IInv, Phase
<1>5. SqlitePhase'
  BY DEF IInv, Types, Disk, Settled, Phase, SqlitePhase, Staging, Interrupted, Authority, Incoming
<1>6. ActivePhase'
  BY DEF IInv, Types, Disk, Good, Recoverable, Phase, ActivePhase, Running
<1>7. ReaddressPhase'
  BY DEF IInv, Types, Disk, Good, Recoverable, Phase, ReaddressPhase, ActivePhase, Running, Incoming, Backup, Active, HasPeers
<1>8. OpenPhase'
  BY DEF IInv, Types, Phase, OpenPhase, Running, Active, HasPeers, ReaddressNeeded, AddressChanged, ConfiguredAddress, Advertised
<1>9. FreshBoot'
  BY DEF IInv, Phase, FreshBoot, Staging
<1>20. Keeps
  BY DEF Keeps, WritesOf, StoreOf
<1> QED
  BY <1>20, <1>1, <1>4, <1>5, <1>6, <1>7, <1>8, <1>9 DEF IInv, Phase

-----------------------------------------------------------------------------
(* Steps that make the directory durable, its entries changed or not.          *)

(* A synced directory is good when it is good as the process sees it. *)
LEMMA SyncedDisk ==
  ASSUME Disk, behind' = {dir'}, Good(dir)', UNCHANGED target PROVE Disk'
<1>1. (\A d \in behind : Good(d))'
  <2> SUFFICES ASSUME NEW d \in behind' PROVE Good(d)'
    OBVIOUS
  <2>1. d = dir'
    OBVIOUS
  <2> QED
    BY <2>1
<1> QED
  BY <1>1 DEF Disk, Settled, LogsBehind

(* A step that at most drops the incoming target keeps the disk good. *)
LEMMA ClearedDisk ==
  ASSUME Types, Disk, UNCHANGED <<sqlite, target, shelf, peer>>,
         behind' = {dir'}, dir' \in {dir, [dir EXCEPT !.incoming = None]},
         shelf # None => pc' \in {"down", "recover", "select"},
         pc \in Running => pc' \in Running
  PROVE  Disk'
<1>1. Good(dir) /\ dir \in Directory
  BY DEF Types, Disk
<1>2. /\ dir' \in Directory
      /\ dir'.incoming \in {dir.incoming, None}
      /\ dir'.active = dir.active /\ dir'.backup = dir.backup
      /\ dir'.record = dir.record /\ dir'.membership = dir.membership
      /\ dir'.activated = dir.activated
  BY <1>1 DEF Directory
<1>3. Recoverable(dir)'
  BY <1>1, <1>2 DEF Types, Good, Recoverable, StoreOf, WritesOf
<1>4. BeforeActivation(dir)' /\ Addressed(dir)' /\ Readdressed(dir)'
  BY <1>1, <1>2 DEF Good, BeforeActivation, Addressed, Readdressed, Authority
<1>5. Shelved(dir)' /\ Rebuildable(dir)'
  BY <1>1, <1>2 DEF Good, Shelved, Rebuildable, Authority
<1> QED
  BY <1>3, <1>4, <1>5, SyncedDisk DEF Good

(* The steps that drop the incoming target, or change no entry. *)
Clearing == SelectRecoveryBoot \/ ActivationFails \/ ReaddressClear \/ TidyIncoming
              \/ SelectActivation \/ SyncActivation \/ ReaddressSync

LEMMA ClearingStep ==
  ASSUME IInv, Clearing PROVE IInv' /\ Keeps
<1> USE DEF Clearing, SelectRecoveryBoot, ActivationFails, ReaddressClear, TidyIncoming,
      SelectActivation, SyncActivation, ReaddressSync, Goto, Exit, Fault, env
<1>0. Good(dir) /\ dir \in Directory /\ dir \in behind
  BY DEF IInv, Types, Disk
<1>1. /\ UNCHANGED <<sqlite, target, shelf, peer, config, changes>>
      /\ dir' \in {dir, [dir EXCEPT !.incoming = None]}
      /\ UNCHANGED <<dir, behind>> \/ behind' = {dir'}
  BY DEF DropIncoming, Sync
<1>2. /\ dir' \in Directory
      /\ dir'.incoming \in {dir.incoming, None}
      /\ dir'.active = dir.active /\ dir'.backup = dir.backup
      /\ dir'.record = dir.record /\ dir'.membership = dir.membership
      /\ dir'.activated = dir.activated
  BY <1>0, <1>1 DEF Directory
<1>3. pc \in Running => pc' \in Running
  BY DEF Running
<1>4. shelf # None => pc' \in {"down", "recover", "select"}
  BY <1>0 DEF Good, Shelved
<1>5. Types'
  <2>1. pc' \in Steps /\ faults' \in 0 .. MaxFaults
    BY BoundsAreNaturals DEF IInv, Types, Steps
  <2>2. attempt' \in BOOLEAN /\ fresh' \in BOOLEAN /\ dir' \in behind'
    BY <1>0, <1>1 DEF IInv, Types
  <2> QED
    BY <1>1, <1>2, <2>1, <2>2 DEF IInv, Types
<1>6. Disk'
  <2>1. CASE UNCHANGED <<dir, behind>>
    BY <1>1, <1>3, <1>4, <2>1, SameDisk DEF IInv, Phase
  <2>2. CASE behind' = {dir'}
    BY <1>1, <1>3, <1>4, <2>2, ClearedDisk DEF IInv
  <2> QED
    BY <1>1, <2>1, <2>2
<1>7. SqlitePhase'
  BY <1>0, <1>1, <1>2 DEF IInv, Phase, SqlitePhase, Staging, Interrupted, Authority,
       Good, Shelved, Recoverable, DropIncoming, Sync, Directory, ActivePhase, ReaddressPhase
<1>8. ActivePhase'
  BY <1>1, <1>2 DEF IInv, Phase, ActivePhase, Running
<1>9. ReaddressPhase'
  BY <1>1, <1>2 DEF IInv, Phase, ReaddressPhase, Running, Incoming, Backup, Active, HasPeers,
       ConfiguredAddress, Advertised
<1>10. OpenPhase'
  BY <1>1, <1>2 DEF IInv, Phase, OpenPhase, Running, Active, HasPeers, Advertised, Sync
<1>11. FreshBoot'
  BY <1>1, <1>2 DEF IInv, Phase, FreshBoot, Staging
<1>20. Keeps
  BY <1>1, <1>2 DEF Keeps, WritesOf, StoreOf
<1> QED
  BY <1>20, <1>5, <1>6, <1>7, <1>8, <1>9, <1>10, <1>11 DEF IInv, Phase

(* The steps that write or remove the record of a readdress. *)
Recording == RecoverDropRecord \/ FinishRecord \/ ReaddressRecord

LEMMA RecordingStep ==
  ASSUME IInv, Recording PROVE IInv' /\ Keeps
<1> USE DEF Recording, RecoverDropRecord, FinishRecord, ReaddressRecord, Goto, Exit, Sync, env
<1>0. Good(dir) /\ dir \in Directory /\ dir \in behind
  BY DEF IInv, Types, Disk
<1>1. /\ UNCHANGED <<sqlite, target, shelf, peer, config, attempt, fresh>>
      /\ dir.active # None /\ dir.backup = None
      /\ pc' # "down"
      /\ pc = "copied" => InstanceId \in Incoming.rows
  BY <1>0 DEF IInv, Phase, ActivePhase, ReaddressPhase, Good, Recoverable, StoreOf, Running,
       Incoming, Active
<1>2. /\ dir' \in Directory /\ behind' = {dir'}
      /\ dir'.record = IF pc = "copied" THEN ConfiguredAddress ELSE NoAddress
      /\ dir'.incoming = dir.incoming
      /\ dir'.active = dir.active /\ dir'.backup = dir.backup
      /\ dir'.membership = dir.membership /\ dir'.activated = dir.activated
  BY <1>0, <1>1 DEF Directory, ConfiguredAddress, Advertised, Configs, Addresses, IInv, Types
<1>3. Types'
  BY <1>1, <1>2 DEF IInv, Types, Steps
<1>4. Good(dir)'
  <2>1. Recoverable(dir)'
    BY <1>0, <1>1, <1>2 DEF Good, Recoverable, StoreOf, WritesOf
  <2>2. BeforeActivation(dir)' /\ Addressed(dir)' /\ Readdressed(dir)'
    BY <1>0, <1>1, <1>2 DEF Good, BeforeActivation, Addressed, Readdressed, Authority
  <2>3. Shelved(dir)' /\ Rebuildable(dir)'
    BY <1>0, <1>1, <1>2 DEF Good, Shelved, Rebuildable, Authority, Running
  <2> QED
    BY <2>1, <2>2, <2>3 DEF Good
<1>5. Disk'
  BY <1>1, <1>2, <1>4, SyncedDisk DEF IInv
<1>6. SqlitePhase' /\ ActivePhase' /\ FreshBoot'
  BY <1>1, <1>2 DEF IInv, Phase, SqlitePhase, ActivePhase, FreshBoot, Staging, Running
<1>7. ReaddressPhase'
  BY <1>1, <1>2 DEF IInv, Phase, ReaddressPhase, Running, Incoming, Backup, Active, HasPeers,
       ConfiguredAddress, Advertised
<1>8. OpenPhase'
  BY <1>1, <1>2 DEF IInv, Phase, OpenPhase, Running, Active, HasPeers, Advertised
<1>20. Keeps
  BY <1>1, <1>2 DEF Keeps, WritesOf, StoreOf
<1> QED
  BY <1>20, <1>3, <1>5, <1>6, <1>7, <1>8 DEF IInv, Phase

(* The steps that write membership.json. *)
Publishing == RecoverPublish \/ ReaddressPublish \/ WriteMembership

LEMMA PublishingStep ==
  ASSUME IInv, Publishing PROVE IInv' /\ Keeps
<1> USE DEF Publishing, RecoverPublish, ReaddressPublish, WriteMembership, Goto, Sync, env
<1>0. Good(dir) /\ dir \in Directory /\ dir \in behind
  BY DEF IInv, Types, Disk
<1>1. /\ UNCHANGED <<sqlite, target, shelf, peer, config, attempt, fresh>>
      /\ dir.active # None
      /\ pc # "breadcrumb" => dir.backup # None
  BY <1>0 DEF IInv, Phase, ActivePhase, ReaddressPhase, Running
<1>2. LocalAddress \in Addresses
  BY <1>0 DEF LocalAddress, Directory, Advertised, Configs, Addresses, IInv, Types
<1>2a. pc = "breadcrumb" /\ dir.membership # NoAddress => LocalAddress = dir.membership
  BY DEF IInv, Phase, OpenPhase, Running, LocalAddress, Advertised
<1>2b. pc = "breadcrumb" /\ dir.membership = NoAddress => LocalAddress = Loopback
  BY AddressesDistinct DEF IInv, Types, Phase, OpenPhase, Running, LocalAddress, Advertised, Configs,
       Addresses
<1>2c. dir' \in behind' /\ (UNCHANGED <<dir, behind>> \/ behind' = {dir'})
  BY <1>0
<1>3. /\ dir' \in Directory
      /\ dir'.membership = IF pc = "breadcrumb" THEN LocalAddress ELSE dir.record
      /\ dir'.incoming = dir.incoming /\ dir'.record = dir.record
      /\ dir'.active = dir.active /\ dir'.backup = dir.backup
      /\ dir'.activated = dir.activated
  BY <1>0, <1>2 DEF Directory
<1>4. Types'
  BY <1>1, <1>2c, <1>3 DEF IInv, Types, Steps
<1>5. pc = "breadcrumb" => Active.address = LocalAddress
  BY <1>0, <1>1, <1>2a, <1>2b DEF IInv, Phase, OpenPhase, Good, Addressed, Authority, Running,
       Active
<1>6. Good(dir)'
  <2>1. Recoverable(dir)'
    <3>1. StoreOf(dir)' = StoreOf(dir)
      BY <1>1, <1>3 DEF StoreOf
    <3> QED
      BY <1>0, <1>1, <1>3, <3>1 DEF Good, Recoverable, WritesOf
  <2>2. BeforeActivation(dir)' /\ Readdressed(dir)'
    BY <1>0, <1>1, <1>3 DEF Good, BeforeActivation, Readdressed, Authority
  <2>3. Addressed(dir)'
    BY <1>0, <1>1, <1>3, <1>5 DEF IInv, Phase, ReaddressPhase, Good, Addressed, Readdressed, Authority, Active
  <2>4. Shelved(dir)' /\ Rebuildable(dir)'
    BY <1>0, <1>1, <1>3 DEF Good, Shelved, Rebuildable, Authority, Running
  <2> QED
    BY <2>1, <2>2, <2>3, <2>4 DEF Good
<1>7. Disk'
  <2>1. CASE UNCHANGED <<dir, behind>>
    BY <1>0, <1>1, <2>1, SameDisk DEF IInv, Phase, Running, Good, Shelved
  <2>2. CASE behind' = {dir'}
    BY <1>1, <1>6, <2>2, SyncedDisk DEF IInv
  <2> QED
    BY <1>2c, <2>1, <2>2
<1>8. SqlitePhase' /\ ActivePhase' /\ FreshBoot'
  BY <1>1, <1>3 DEF IInv, Phase, SqlitePhase, ActivePhase, FreshBoot, Staging, Running
<1>9. ReaddressPhase'
  BY <1>0, <1>1, <1>2a, <1>3, <1>5 DEF Good, Recoverable, IInv, Phase, ReaddressPhase, Running, Incoming, Backup, Active, HasPeers,
       LocalAddress, ConfiguredAddress, Advertised
<1>10. OpenPhase'
  BY <1>1, <1>3, <1>5 DEF IInv, Phase, OpenPhase, ReaddressPhase, Running, Active, HasPeers, Advertised,
       ConfiguredAddress, LocalAddress
<1>20. Keeps
  BY <1>1, <1>3 DEF Keeps, WritesOf, StoreOf
<1> QED
  BY <1>20, <1>4, <1>7, <1>8, <1>9, <1>10 DEF IInv, Phase

LEMMA BreadcrumbStep ==
  ASSUME IInv, WriteBreadcrumb PROVE IInv' /\ Keeps
<1> USE DEF WriteBreadcrumb, Goto, Exit, Sync, env
<1>0. Good(dir) /\ dir \in Directory /\ dir \in behind /\ dir.active # None
  BY DEF IInv, Types, Disk, Phase, ActivePhase, Running
<1>1. InstanceId \in Active.rows
  BY <1>0 DEF Good, Recoverable, StoreOf, Active
<1>2. /\ dir' \in behind' /\ (UNCHANGED <<dir, behind>> \/ behind' = {dir'})
  <2>1. CASE dir.activated
    BY <1>0, <2>1
  <2>2. CASE ~dir.activated
    BY <1>0, <1>1, <2>2
  <2> QED
    BY <2>1, <2>2
<1>2a. /\ UNCHANGED <<sqlite, target, shelf, peer, config, attempt, fresh>>
       /\ pc = "opened" /\ pc' = "breadcrumb"
  BY <1>1
<1>3. /\ dir' \in Directory /\ dir'.activated
      /\ dir'.incoming = dir.incoming /\ dir'.record = dir.record
      /\ dir'.active = dir.active /\ dir'.backup = dir.backup
      /\ dir'.membership = dir.membership
  BY <1>0, <1>1 DEF Directory
<1>4. Types'
  BY <1>2, <1>2a, <1>3 DEF IInv, Types, Steps
<1>5. Good(dir)'
  <2>1. Recoverable(dir)'
    <3>1. StoreOf(dir)' = StoreOf(dir)
      BY <1>2, <1>2a, <1>3 DEF StoreOf
    <3> QED
      BY <1>0, <1>2, <1>2a, <1>3, <3>1 DEF Good, Recoverable, WritesOf
  <2>2. BeforeActivation(dir)' /\ Readdressed(dir)' /\ Addressed(dir)'
    BY <1>0, <1>2, <1>2a, <1>3 DEF Good, BeforeActivation, Readdressed, Addressed, Authority
  <2>3. Shelved(dir)' /\ Rebuildable(dir)'
    BY <1>0, <1>2, <1>2a, <1>3 DEF Good, Shelved, Rebuildable, Authority, Running
  <2> QED
    BY <2>1, <2>2, <2>3 DEF Good
<1>6. Disk'
  <2>1. CASE UNCHANGED <<dir, behind>>
    BY <1>0, <1>2, <1>2a, <2>1, SameDisk DEF IInv, Phase, Running, Good, Shelved
  <2>2. CASE behind' = {dir'}
    BY <1>2, <1>2a, <1>5, <2>2, SyncedDisk DEF IInv
  <2> QED
    BY <1>2, <1>2a, <2>1, <2>2
<1>7. SqlitePhase' /\ ActivePhase' /\ FreshBoot'
  BY <1>2, <1>2a, <1>3 DEF IInv, Phase, SqlitePhase, ActivePhase, FreshBoot, Staging, Running
<1>8. ReaddressPhase'
  BY <1>2, <1>2a, <1>3 DEF IInv, Phase, ReaddressPhase, Running, Active, HasPeers
<1>9. OpenPhase'
  BY <1>0, <1>2, <1>2a, <1>3 DEF IInv, Phase, OpenPhase, FreshBoot, Running, Active, HasPeers, Advertised
<1>20. Keeps
  BY <1>2a, <1>3 DEF Keeps, WritesOf, StoreOf
<1> QED
  BY <1>20, <1>4, <1>6, <1>7, <1>8, <1>9 DEF IInv, Phase

-----------------------------------------------------------------------------
(* Steps that rename or remove an entry, which a power loss may undo.          *)

(* The states a power loss may leave stay good when the one the process sees   *)
(* is, and holds the same writes under the same names.                         *)
LEMMA ChangedDisk ==
  ASSUME Types, Disk, UNCHANGED <<sqlite, target, shelf, peer>>,
         behind' = behind \cup {dir'}, Good(dir)', dir'.active # None \/ dir'.backup # None,
         WritesOf(dir)' = WritesOf(dir), dir'.membership = dir.membership,
         dir'.activated = dir.activated, dir'.record = dir.record,
         shelf # None => pc' \in {"down", "recover", "select"},
         pc \in Running => pc' \in Running /\ dir'.active = dir.active
  PROVE  Disk'
<1>1. ASSUME NEW d \in behind PROVE Good(d)'
  <2>1. Good(d)
    BY <1>1 DEF Disk
  <2>2. StoreOf(d)' = StoreOf(d)
    BY DEF StoreOf
  <2>3. Recoverable(d)'
    BY <2>1, <2>2 DEF Good, Recoverable, WritesOf
  <2>4. BeforeActivation(d)' /\ Addressed(d)' /\ Readdressed(d)'
    BY <2>1 DEF Good, BeforeActivation, Addressed, Readdressed, Authority
  <2>5. Shelved(d)' /\ Rebuildable(d)'
    BY <2>1 DEF Good, Shelved, Rebuildable, Authority
  <2> QED
    BY <2>3, <2>4, <2>5 DEF Good
<1>2. (\A d \in behind : Good(d))'
  <2> SUFFICES ASSUME NEW d \in behind', d \notin behind PROVE Good(d)'
    BY <1>1
  <2>1. d = dir'
    OBVIOUS
  <2> QED
    BY <2>1
<1>3. Settled' /\ LogsBehind'
  BY DEF Types, Disk, Settled, LogsBehind, Authority
<1> QED
  BY <1>2, <1>3 DEF Disk

Renaming == RecoverRestore \/ RecoverDropIncoming \/ Activate \/ ReaddressPark
              \/ ReaddressSwap \/ ReaddressSwapFails \/ FinishUnpark

(* Where the targets go. *)
Moved(incoming, active, backup) ==
  dir'.incoming = incoming /\ dir'.active = active /\ dir'.backup = backup

Renamed ==
  \/ pc = "recover" /\ pc' = "restored" /\ Moved(dir.incoming, dir.backup, None)
       /\ dir.active = None /\ dir.backup # None
  \/ pc = "restored" /\ pc' = "dropped" /\ Moved(None, dir.active, dir.backup)
  \/ pc = "stopped" /\ pc' = "renamed" /\ Moved(None, dir.incoming, dir.backup)
  \/ pc = "recorded" /\ pc' = "parked" /\ Moved(dir.incoming, None, dir.active)
  \/ pc = "parked" /\ pc' = "swapped" /\ Moved(None, dir.incoming, dir.backup)
  \/ pc = "parked" /\ pc' = "down" /\ Moved(dir.incoming, dir.backup, None)
  \/ pc = "clean" /\ pc' = "unparked" /\ Moved(dir.incoming, dir.active, None)

LEMMA RenamingStep ==
  ASSUME IInv, Renaming PROVE IInv' /\ Keeps
<1> USE DEF Renaming, RecoverRestore, RecoverDropIncoming, Activate, ReaddressPark,
      ReaddressSwap, ReaddressSwapFails, FinishUnpark, Goto, Exit, Fault, env
<1>0. Good(dir) /\ dir \in Directory /\ dir \in behind
  BY DEF IInv, Types, Disk
<1>1. /\ UNCHANGED <<sqlite, target, shelf, peer, config, attempt, fresh, changes>>
      /\ pc' \in Steps /\ pc' # "serving"
  BY DEF Steps
<1>2. /\ dir' \in Directory /\ dir' \in behind' /\ behind' = behind \cup {dir'}
      /\ dir'.record = dir.record /\ dir'.membership = dir.membership
      /\ dir'.activated = dir.activated
  BY <1>0 DEF Directory, Change
<1>3. Renamed
  <2> USE <1>0 DEF Directory, Change, Renamed, Moved
  <2>1. CASE RecoverRestore \/ RecoverDropIncoming
    BY <2>1
  <2>2. CASE Activate \/ ReaddressPark
    BY <2>2
  <2>3. CASE ReaddressSwap \/ ReaddressSwapFails
    BY <2>3
  <2>4. CASE FinishUnpark
    BY <2>4
  <2> QED
    BY <2>1, <2>2, <2>3, <2>4
<1>4. Types'
  <2>1. faults' \in 0 .. MaxFaults
    BY BoundsAreNaturals DEF IInv, Types
  <2> QED
    BY <1>1, <1>2, <2>1 DEF IInv, Types
<1>5. shelf = None /\ (dir'.active # None \/ dir'.backup # None)
  BY <1>0, <1>3 DEF IInv, Phase, SqlitePhase, ActivePhase, ReaddressPhase, Good, Shelved, Renamed, Moved,
       Staging, Running, Authority
<1>6. StoreOf(dir)' = StoreOf(dir)
  BY <1>0, <1>1, <1>3, <1>5 DEF IInv, Phase, SqlitePhase, ActivePhase, ReaddressPhase, Good, Shelved,
       Renamed, Moved, Staging, Running, Authority, StoreOf, Incoming, Backup, Active
<1>7. Good(dir)'
  <2>1. Recoverable(dir)'
    <3>1. pc = "recorded" => dir.record # NoAddress
      BY AddressesDistinct DEF IInv, Types, Phase, ReaddressPhase, ConfiguredAddress, Configs,
           Addresses, Advertised
    <3>2. dir'.backup # None => dir'.record # NoAddress
      BY <1>0, <1>2, <1>3, <3>1 DEF Renamed, Moved, Good, Recoverable
    <3>3. dir'.incoming # None => dir'.incoming \notin {dir'.active, dir'.backup}
      BY <1>0, <1>3 DEF Renamed, Moved, Good, Recoverable
    <3>4. dir'.active # None => dir'.active # dir'.backup
      BY <1>0, <1>3 DEF Renamed, Moved, Good, Recoverable
    <3> QED
      BY <1>0, <1>1, <1>2, <1>5, <1>6, <3>2, <3>3, <3>4 DEF Good, Recoverable, WritesOf
  <2>2. BeforeActivation(dir)' /\ Shelved(dir)'
    BY <1>1, <1>5 DEF BeforeActivation, Shelved, Authority
  <2>3. Rebuildable(dir)'
    BY <1>0, <1>1, <1>3 DEF IInv, Phase, SqlitePhase, ActivePhase, ReaddressPhase, Renamed, Moved, Rebuildable,
         Good, Authority, Staging, Running, Incoming
  <2>4. Addressed(dir)'
    BY <1>0, <1>1, <1>2, <1>3 DEF IInv, Phase, SqlitePhase, ActivePhase, ReaddressPhase, Renamed, Moved, Addressed,
         BeforeActivation, Good, Authority, Staging, Running, Incoming
  <2>5. Readdressed(dir)'
    BY <1>0, <1>1, <1>2, <1>3 DEF IInv, Phase, SqlitePhase, ActivePhase, ReaddressPhase, Renamed, Moved, Readdressed, Authority,
         Good, Staging, Running, Incoming
  <2> QED
    BY <2>1, <2>2, <2>3, <2>4, <2>5 DEF Good
<1>8. Disk'
  <2>1. pc \in Running => pc' \in Running /\ dir'.active = dir.active
    BY <1>3 DEF Running, Renamed, Moved
  <2> QED
    BY <1>0, <1>1, <1>2, <1>5, <1>6, <1>7, <2>1, ChangedDisk DEF IInv, WritesOf
<1>9. SqlitePhase' /\ FreshBoot'
  BY <1>1, <1>2 DEF IInv, Phase, SqlitePhase, FreshBoot, Staging
<1>10. ActivePhase'
  BY <1>0, <1>2, <1>3, <1>5 DEF IInv, Phase, ActivePhase, SqlitePhase, ReaddressPhase, Good,
       BeforeActivation, Renamed, Moved, Running, Staging, Authority
<1>11. ReaddressPhase'
  BY <1>1, <1>2, <1>3 DEF IInv, Phase, ActivePhase, ReaddressPhase, Renamed, Moved, Running, Incoming, Backup, Active,
       HasPeers, ConfiguredAddress, Advertised
<1>12. OpenPhase'
  BY <1>0, <1>1, <1>2, <1>3 DEF IInv, Phase, OpenPhase, Renamed, Moved, Running, Active, HasPeers, Advertised
<1>20. Keeps
  BY <1>6 DEF Keeps, WritesOf
<1> QED
  BY <1>20, <1>4, <1>8, <1>9, <1>10, <1>11, <1>12 DEF IInv, Phase

-----------------------------------------------------------------------------
(* Steps that change a target no state of the directory would serve from.      *)

LEMMA EmptyTarget ==
  /\ Empty \in Content /\ Empty.log \subseteq Empty.rows
  BY DEF Empty, Content

Preparing == Stage \/ Import \/ Mark \/ StopStaging

LEMMA PreparingStep ==
  ASSUME IInv, Preparing PROVE IInv' /\ Keeps
<1> USE DEF Preparing, Stage, Import, Mark, StopStaging, Goto, env
<1>0. /\ Good(dir) /\ dir \in Directory /\ behind = {dir}
      /\ target \in [Targets -> Content]
      /\ dir.active = None /\ dir.backup = None /\ shelf = None
  BY DEF IInv, Types, Disk, Settled, Phase, SqlitePhase, Staging, Authority, Good, Shelved, Recoverable
<1>1. /\ UNCHANGED <<sqlite, shelf, peer, config, attempt, fresh, faults, changes>>
      /\ pc' \in Steps /\ pc' \notin Running
  BY DEF Steps, Running
<1>2. /\ dir' \in Directory /\ behind' = {dir'} /\ dir'.incoming \in Targets
      /\ dir'.active = None /\ dir'.backup = None
      /\ dir'.record = dir.record /\ dir'.membership = dir.membership
      /\ dir'.activated = dir.activated
  BY <1>0 DEF Directory, Sync, IInv, Phase, SqlitePhase, Staging
<1>3. target' \in [Targets -> Content]
  <2>1. CASE Stage
    BY <1>0, <2>1, EmptyTarget
  <2>2. CASE Import
    BY <1>0, <2>2 DEF IInv, Types, Content, Addresses
  <2>3. CASE Mark
    BY <1>0, <2>3 DEF Content
  <2>4. CASE StopStaging
    BY <1>0, <2>4 DEF Content
  <2> QED
    BY <2>1, <2>2, <2>3, <2>4
<1>4. LogsBehind'
  <2>1. CASE Stage
    BY <1>0, <2>1, EmptyTarget DEF IInv, Disk, LogsBehind
  <2>2. CASE Import
    BY <1>0, <2>2 DEF IInv, Disk, LogsBehind
  <2>3. CASE Mark \/ StopStaging
    BY <1>0, <2>3 DEF IInv, Disk, LogsBehind, Content
  <2> QED
    BY <2>1, <2>2, <2>3
<1>5. /\ pc \in {"staged", "imported", "marked"} =>
           Incoming'.rows = sqlite /\ Incoming'.address = Loopback
      /\ pc = "marked" => ~Incoming'.lock
  BY <1>0, <1>2 DEF IInv, Phase, SqlitePhase, Staging, Incoming, Content
<1>6. Types'
  BY <1>1, <1>2, <1>3 DEF IInv, Types
<1>7. Good(dir)'
  BY <1>0, <1>1, <1>2 DEF IInv, Types, Good, Recoverable, BeforeActivation, Shelved, Rebuildable,
       Addressed, Readdressed, Authority, StoreOf, WritesOf, None
<1>8. Disk'
  <2>1. (\A d \in behind : Good(d))'
    <3> SUFFICES ASSUME NEW d \in behind' PROVE Good(d)'
      OBVIOUS
    <3>1. d = dir'
      BY <1>2
    <3> QED
      BY <1>7, <3>1
  <2> QED
    BY <1>2, <1>4, <2>1 DEF Disk, Settled
<1>9. SqlitePhase'
  BY <1>0, <1>1, <1>2, <1>5 DEF IInv, Phase, SqlitePhase, Staging, Authority, None, Targets
<1>10. ActivePhase' /\ ReaddressPhase' /\ OpenPhase' /\ FreshBoot'
  BY <1>0, <1>1, <1>2 DEF IInv, Phase, ActivePhase, ReaddressPhase, OpenPhase, FreshBoot, Staging,
       Running
<1>20. Keeps
  BY <1>0, <1>1, <1>2 DEF Keeps, WritesOf, StoreOf, None
<1> QED
  BY <1>20, <1>6, <1>8, <1>9, <1>10 DEF IInv, Phase

LEMMA CopyStep ==
  ASSUME IInv, ReaddressCopy PROVE IInv' /\ Keeps
<1> DEFINE copy == [rows |-> Active.rows, log |-> {}, marker |-> TRUE, lock |-> FALSE,
                    address |-> NoAddress]
<1>0. /\ Good(dir) /\ dir \in Directory /\ dir \in behind
      /\ target \in [Targets -> Content]
      /\ pc = "cleared" /\ dir.active # None /\ dir.backup = None
  BY DEF IInv, Types, Disk, Phase, ActivePhase, ReaddressCopy
<1>1. /\ UNCHANGED <<sqlite, shelf, peer, config, attempt, fresh, faults, changes>>
      /\ pc' = "copied"
  BY DEF ReaddressCopy, Goto, env
<1>2. PICK t \in Targets : /\ NextTarget(t) /\ target' = [target EXCEPT ![t] = copy]
                           /\ Change([dir EXCEPT !.incoming = t])
  BY DEF ReaddressCopy
<1>3. /\ dir' \in Directory /\ dir' \in behind' /\ behind' = behind \cup {dir'}
      /\ dir'.incoming = t
      /\ dir'.active = dir.active /\ dir'.backup = dir.backup
      /\ dir'.record = dir.record /\ dir'.membership = dir.membership
      /\ dir'.activated = dir.activated
  BY <1>0, <1>2 DEF Directory, Change
<1>4. copy \in Content /\ copy.log \subseteq copy.rows
  <2>1. dir.active \in Targets /\ Active.rows \subseteq Rows
    BY <1>0 DEF Active, Content, Directory, None
  <2> QED
    BY <2>1 DEF Content
<1>5. /\ target' \in [Targets -> Content] /\ target'[t] = copy
      /\ \A u \in Targets \ {t} : target'[u] = target[u]
  BY <1>0, <1>2, <1>4
<1>6. /\ t # None /\ t # shelf
      /\ \A d \in behind : t \notin {d.active, d.backup}
  BY <1>2 DEF NextTarget, Unused, Targets, None
<1>7. \A d \in behind : /\ d \in Directory /\ StoreOf(d)' = StoreOf(d)
                        /\ Authority(d)' = Authority(d)
                        /\ Authority(d) # None =>
                             target'[Authority(d)] = target[Authority(d)]
                        /\ d.active # None => target'[d.active] = target[d.active]
  <2> SUFFICES ASSUME NEW d \in behind
               PROVE  /\ d \in Directory /\ StoreOf(d)' = StoreOf(d)
                      /\ Authority(d)' = Authority(d)
                      /\ Authority(d) # None => target'[Authority(d)] = target[Authority(d)]
                      /\ d.active # None => target'[d.active] = target[d.active]
    OBVIOUS
  <2>1. d \in Directory /\ shelf \in Targets \cup {None}
    BY DEF IInv, Types, Disk, Good, Recoverable
  <2> QED
    BY <1>1, <1>5, <1>6, <2>1 DEF StoreOf, Authority, Directory
<1>8. Types'
  BY <1>1, <1>3, <1>5 DEF IInv, Types, Steps
<1>9. ASSUME NEW d \in behind PROVE Good(d)'
  <2>1. Good(d)
    BY <1>9 DEF IInv, Disk
  <2>2. StoreOf(dir)' = StoreOf(dir)
    BY <1>0, <1>1, <1>3, <1>7 DEF StoreOf
  <2>3. Recoverable(d)'
    BY <1>1, <1>3, <1>7, <2>1, <2>2 DEF Good, Recoverable, WritesOf
  <2>4. BeforeActivation(d)' /\ Addressed(d)' /\ Readdressed(d)'
    BY <1>7, <2>1 DEF Good, BeforeActivation, Addressed, Readdressed
  <2>5. Shelved(d)' /\ Rebuildable(d)'
    BY <1>0, <1>1, <1>7, <2>1 DEF Good, Shelved, Rebuildable, Running
  <2> QED
    BY <2>3, <2>4, <2>5 DEF Good
<1>10. Good(dir)'
  <2>2. StoreOf(dir)' = StoreOf(dir)
    BY <1>0, <1>1, <1>3, <1>7 DEF StoreOf
  <2>3. Recoverable(dir)'
    BY <1>0, <1>1, <1>3, <1>6, <2>2 DEF Good, Recoverable, WritesOf
  <2>4. BeforeActivation(dir)' /\ Addressed(dir)' /\ Readdressed(dir)'
    BY <1>0, <1>3, <1>7 DEF Good, BeforeActivation, Addressed, Readdressed, Authority
  <2>5. Shelved(dir)' /\ Rebuildable(dir)'
    BY <1>0, <1>1, <1>3, <1>7 DEF Good, Shelved, Rebuildable, Running, Authority
  <2> QED
    BY <2>3, <2>4, <2>5 DEF Good
<1>11. Disk'
  <2>1. (\A d \in behind : Good(d))'
    <3> SUFFICES ASSUME NEW d \in behind' PROVE Good(d)'
      OBVIOUS
    <3>1. CASE d = dir'
      BY <1>10, <3>1
    <3> QED
      BY <1>3, <1>9, <3>1
  <2>2. LogsBehind'
    BY <1>4, <1>5 DEF IInv, Disk, LogsBehind
  <2> QED
    BY <1>0, <1>3, <2>1, <2>2 DEF Disk, Settled, Authority
<1>12. Active' = Active
  BY <1>0, <1>3, <1>7 DEF Active
<1>13. SqlitePhase' /\ ActivePhase' /\ OpenPhase' /\ FreshBoot'
  BY <1>0, <1>1, <1>3 DEF IInv, Phase, SqlitePhase, ActivePhase, OpenPhase, FreshBoot, Staging, Running
<1>14. ReaddressPhase'
  BY <1>0, <1>1, <1>3, <1>5, <1>6, <1>12 DEF IInv, Phase, ReaddressPhase, Running, Incoming, HasPeers
<1>20. Keeps
  BY <1>0, <1>1, <1>3, <1>7 DEF Keeps, WritesOf, StoreOf
<1> QED
  BY <1>20, <1>8, <1>11, <1>13, <1>14 DEF IInv, Phase

-----------------------------------------------------------------------------
(* The start of the voter, and what it then does.                              *)

(* A locked target is only opened with a peer, which holds what it did. *)
LEMMA StartStep ==
  ASSUME IInv, StartVoter PROVE IInv' /\ Keeps
<1>0. /\ Good(dir) /\ dir \in Directory /\ dir \in behind
      /\ target \in [Targets -> Content]
      /\ pc = "open" /\ dir.active # None /\ dir.active \in Targets /\ shelf = None
  BY DEF IInv, Types, Disk, Phase, ActivePhase, StartVoter, Good, Shelved, Directory
<1>1. /\ UNCHANGED <<sqlite, dir, behind, shelf, peer, config, attempt, fresh, faults, changes>>
      /\ pc' = "opened"
  BY DEF StartVoter, Goto, env
<1>2. Active \in Content /\ Active.log \subseteq Active.rows
  BY <1>0 DEF IInv, Disk, LogsBehind, Active
<1>3. Active.lock => Healed(Active) = Active.rows
  <2>1. Active.lock => peer
    BY <1>0 DEF IInv, Phase, OpenPhase, Good, Rebuildable, Authority, HasPeers, Active, Running
  <2> QED
    BY <1>2, <2>1 DEF Healed
<1>4. /\ dir.membership # NoAddress => LocalAddress = dir.membership
      /\ dir.membership = NoAddress => LocalAddress = Loopback
      /\ LocalAddress \in Addresses
  BY <1>0, AddressesDistinct DEF IInv, Types, Phase, OpenPhase, Running, LocalAddress, Advertised,
       Configs, Addresses, Directory
<1>5. target' = [target EXCEPT ![dir.active] =
        [Active EXCEPT !.rows    = IF Active.lock THEN Healed(Active) ELSE @,
                       !.lock    = TRUE,
                       !.address = IF @ = NoAddress THEN LocalAddress ELSE @]]
  BY DEF StartVoter
<1>6. /\ target'[dir.active] \in Content
      /\ target'[dir.active].rows = Active.rows /\ target'[dir.active].log = Active.log
      /\ target'[dir.active].address =
           IF Active.address = NoAddress THEN LocalAddress ELSE Active.address
  BY <1>0, <1>2, <1>3, <1>4, <1>5 DEF Content
<1>7. /\ target' \in [Targets -> Content]
      /\ \A u \in Targets : u # dir.active => target'[u] = target[u]
      /\ \A u \in Targets : target'[u].rows = target[u].rows /\ target'[u].log = target[u].log
  BY <1>0, <1>5, <1>6 DEF Active
<1>8. Types'
  BY <1>1, <1>7 DEF IInv, Types, Steps
<1>9. ASSUME NEW d \in behind PROVE Good(d)'
  <2>1. /\ Good(d) /\ d \in Directory
        /\ d.membership = dir.membership /\ d.record = dir.record
    BY <1>9 DEF IInv, Disk, Good, Recoverable
  <2>2. StoreOf(d)' = StoreOf(d) /\ StoreOf(dir)' = StoreOf(dir)
    BY <1>0, <1>1, <1>7, <2>1 DEF StoreOf, Directory
  <2>3. Recoverable(d)' /\ BeforeActivation(d)' /\ Shelved(d)'
    BY <1>0, <1>1, <2>1, <2>2 DEF Good, Recoverable, BeforeActivation, Shelved, WritesOf, Authority
  <2>4. Authority(d) \in Targets \cup {None}
    BY <1>0, <2>1 DEF Authority, Directory
  <2>5. Rebuildable(d)'
    BY <1>0, <1>1, <1>7, <2>1, <2>4 DEF Good, Rebuildable, Running, Authority
  <2>6. Addressed(d)'
    BY <1>0, <1>1, <1>4, <1>6, <1>7, <2>1, <2>4 DEF Good, Addressed, Authority, Active
  <2>7. Readdressed(d)'
    <3>1. d.backup # None => dir.membership = d.record /\ d.record # NoAddress
      BY <1>0, <2>1 DEF IInv, Phase, ActivePhase, ReaddressPhase, Good, Recoverable
    <3> QED
      BY <1>0, <1>1, <1>4, <1>6, <1>7, <2>1, <3>1 DEF Good, Readdressed, Directory, Active
  <2> QED
    BY <2>3, <2>5, <2>6, <2>7 DEF Good
<1>10. Disk'
  BY <1>0, <1>1, <1>7, <1>9 DEF IInv, Disk, Settled, LogsBehind, Authority
<1>11. SqlitePhase' /\ ActivePhase' /\ ReaddressPhase' /\ FreshBoot'
  BY <1>0, <1>1 DEF IInv, Phase, SqlitePhase, ActivePhase, ReaddressPhase, FreshBoot, Staging, Running
<1>12. OpenPhase'
  BY <1>0, <1>1, <1>4, <1>6, AddressesDistinct DEF IInv, Phase, OpenPhase, Running, Active, Advertised,
       Addresses
<1>20. Keeps
  BY <1>0, <1>1, <1>7 DEF Keeps, WritesOf, StoreOf
<1> QED
  BY <1>20, <1>8, <1>10, <1>11, <1>12 DEF IInv, Phase

(* What a served target, the only one of the directory, may become. *)
Served(content) ==
  /\ content \in Content /\ content.log \subseteq content.rows
  /\ InstanceId \in content.rows
  /\ content.address = Active.address
  /\ \/ content.rows \cap Writes = Active.rows \cap Writes
     \/ \E w \in Writes : content.rows \cap Writes = (Active.rows \cap Writes) \cup {w}

(* The steps of a serving voter, and its stop. *)
Serving == \/ \E w \in Writes : WriteReplicated(w)
           \/ Snapshot \/ RedeemPeer \/ TombstonePeer
           \/ pc = "serving" /\ Stop
           \/ PeerJoins \/ PeerLeaves

LEMMA ServingStep ==
  ASSUME IInv, Serving PROVE IInv' /\ Grows
<1>0. /\ Good(dir) /\ dir \in Directory /\ behind = {dir}
      /\ target \in [Targets -> Content]
      /\ pc = "serving" /\ dir.active # None /\ dir.active \in Targets /\ shelf = None
      /\ dir.backup = None /\ dir.record = NoAddress
  BY DEF IInv, Types, Disk, Phase, ActivePhase, OpenPhase, Running, Good, Shelved, Directory,
         Serving, WriteReplicated, Snapshot, RedeemPeer, TombstonePeer, PeerJoins, PeerLeaves
<1>1. Served(Active)
  BY <1>0 DEF IInv, Disk, LogsBehind, Served, Active, Good, Recoverable, StoreOf
<1>2. /\ UNCHANGED <<sqlite, dir, behind, shelf, config, attempt, fresh, faults, changes>>
      /\ peer' \in BOOLEAN
      /\ pc' = "serving" \/ (pc' = "down" /\ Stop /\ UNCHANGED peer)
  BY DEF IInv, Types, Serving, WriteReplicated, Snapshot, RedeemPeer, TombstonePeer, PeerJoins,
         PeerLeaves, Stop, Exit, env, disk
<1>3. PICK c \in Content : /\ Served(c) /\ target' = [target EXCEPT ![dir.active] = c]
                           /\ pc' = "down" => ~c.lock
  <2>1. ASSUME NEW w \in Writes, WriteReplicated(w)
        PROVE  \E c \in Content : /\ Served(c) /\ target' = [target EXCEPT ![dir.active] = c]
                                  /\ pc' = "down" => ~c.lock
    <3> DEFINE c == [Active EXCEPT !.rows = (@ \cup {w}) \ {}, !.log = (@ \cup {w}) \ {}]
    <3>1. Served(c)
      BY <1>1 DEF Served, Content, Rows
    <3>2. target' = [target EXCEPT ![dir.active] = c] /\ pc' = "serving"
      BY <1>0, <2>1 DEF WriteReplicated, Apply
    <3> QED
      BY <3>1, <3>2 DEF Served
  <2>2. CASE Snapshot
    <3> DEFINE c == [Active EXCEPT !.log = Active.rows]
    <3>1. Served(c)
      BY <1>1 DEF Served, Content
    <3>2. target' = [target EXCEPT ![dir.active] = c] /\ pc' = "serving"
      BY <1>0, <1>1, <2>2 DEF Snapshot, Active, Content
    <3> QED
      BY <3>1, <3>2 DEF Served
  <2>3. CASE RedeemPeer
    <3> DEFINE c == [Active EXCEPT !.rows = (@ \cup {Admitted}) \ {}, !.log = (@ \cup {Admitted}) \ {}]
    <3>1. Served(c)
      BY <1>1, RowsDistinct DEF Served, Content, Rows
    <3>2. target' = [target EXCEPT ![dir.active] = c] /\ pc' = "serving"
      BY <1>0, <2>3 DEF RedeemPeer, Apply
    <3> QED
      BY <3>1, <3>2 DEF Served
  <2>4. CASE TombstonePeer
    <3> DEFINE c == [Active EXCEPT !.rows = (@ \cup {}) \ {Admitted}, !.log = (@ \cup {}) \ {Admitted}]
    <3>1. Served(c)
      BY <1>1, RowsDistinct DEF Served, Content, Rows
    <3>2. target' = [target EXCEPT ![dir.active] = c] /\ pc' = "serving"
      BY <1>0, <2>4 DEF TombstonePeer, Apply
    <3> QED
      BY <3>1, <3>2 DEF Served
  <2>5. CASE Stop
    <3> DEFINE c == [Active EXCEPT !.lock = FALSE]
    <3>1. Served(c) /\ ~c.lock
      BY <1>1 DEF Served, Content
    <3>2. target' = [target EXCEPT ![dir.active] = c]
      BY <1>0, <2>5 DEF Stop, Active, Content
    <3> QED
      BY <3>1, <3>2 DEF Served
  <2>6. CASE PeerJoins \/ PeerLeaves
    <3>1. target' = [target EXCEPT ![dir.active] = Active] /\ pc' = "serving"
      BY <1>0, <2>6 DEF PeerJoins, PeerLeaves, Active, disk
    <3> QED
      BY <1>1, <3>1 DEF Served
  <2> QED
    BY <2>1, <2>2, <2>3, <2>4, <2>5, <2>6 DEF Serving
<1>4. /\ target' \in [Targets -> Content] /\ target'[dir.active] = c
      /\ \A u \in Targets : u # dir.active => target'[u] = target[u]
  BY <1>0, <1>3
<1>5. Types'
  BY <1>0, <1>2, <1>4 DEF IInv, Types, Steps
<1>6. Good(dir)'
  <2>1. Authority(dir) = dir.active /\ Authority(dir)' = dir.active /\ StoreOf(dir)' = c.rows
    BY <1>0, <1>2, <1>4 DEF Authority, StoreOf
  <2>2. Recoverable(dir)' /\ BeforeActivation(dir)' /\ Shelved(dir)'
    BY <1>0, <1>2, <1>3, <2>1 DEF Good, Recoverable, BeforeActivation, Shelved, Served
  <2>3. Rebuildable(dir)'
    BY <1>0, <1>2, <1>3, <1>4, <2>1 DEF Rebuildable, Running
  <2>4. Addressed(dir)' /\ Readdressed(dir)'
    BY <1>0, <1>2, <1>3, <1>4, <2>1 DEF Good, Addressed, Readdressed, Served, Active
  <2> QED
    BY <2>2, <2>3, <2>4 DEF Good
<1>7. Disk'
  <2>1. (\A d \in behind : Good(d))'
    <3> SUFFICES ASSUME NEW d \in behind' PROVE Good(d)'
      OBVIOUS
    <3>1. d = dir'
      BY <1>0, <1>2
    <3> QED
      BY <1>6, <3>1
  <2>2. LogsBehind'
    BY <1>0, <1>3, <1>4 DEF IInv, Disk, LogsBehind, Served
  <2> QED
    BY <1>0, <1>2, <2>1, <2>2 DEF Disk, Settled
<1>8. SqlitePhase' /\ ActivePhase' /\ ReaddressPhase' /\ FreshBoot'
  BY <1>0, <1>2 DEF IInv, Phase, SqlitePhase, ActivePhase, ReaddressPhase, FreshBoot, Staging, Running
<1>9. OpenPhase'
  BY <1>0, <1>2, <1>3, <1>4 DEF IInv, Phase, OpenPhase, Running, Active, Advertised, Served
<1>20. Grows
  <2>1. StoreOf(dir) = Active.rows /\ StoreOf(dir)' = c.rows
    BY <1>0, <1>2, <1>4 DEF StoreOf, Active
  <2> QED
    BY <1>3, <2>1 DEF Grows, Keeps, WritesOf, Served
<1> QED
  BY <1>20, <1>5, <1>7, <1>8, <1>9 DEF IInv, Phase

-----------------------------------------------------------------------------
(* The boot on SQLite, the loss of power and the operator.                     *)

LEMMA SqliteStep ==
  ASSUME IInv, (\E w \in Writes : WriteSqlite(w)) \/ (pc = "sqlite" /\ Stop) PROVE IInv' /\ Grows
<1>0. /\ Good(dir) /\ dir \in Directory /\ behind = {dir} /\ pc = "sqlite"
      /\ dir.active = None /\ dir.backup = None /\ shelf = None /\ dir.incoming = None
  BY DEF IInv, Types, Disk, Phase, SqlitePhase, Authority, Good, Shelved, WriteSqlite, Staging
<1>1. /\ UNCHANGED <<target, dir, behind, shelf, peer, config, attempt, fresh, faults, changes>>
      /\ sqlite' \in SUBSET Rows /\ InstanceId \in sqlite' /\ pc' \in {"sqlite", "down"}
  BY <1>0 DEF WriteSqlite, Stop, Exit, env, IInv, Types, Rows
<1>2. Types'
  BY <1>1 DEF IInv, Types, Steps
<1>3. Good(dir)'
  BY <1>0, <1>1 DEF Good, Recoverable, BeforeActivation, Shelved, Rebuildable, Addressed, Readdressed,
       Authority, StoreOf, WritesOf
<1>4. Disk'
  <2>1. (\A d \in behind : Good(d))'
    BY <1>0, <1>1, <1>3
  <2> QED
    BY <1>0, <1>1, <2>1 DEF IInv, Disk, Settled, LogsBehind
<1>5. SqlitePhase' /\ ActivePhase' /\ ReaddressPhase' /\ OpenPhase' /\ FreshBoot'
  BY <1>0, <1>1 DEF IInv, Phase, SqlitePhase, ActivePhase, ReaddressPhase, OpenPhase, FreshBoot,
       Staging, Running, Authority
<1>20. Grows
  BY <1>0, <1>1 DEF Grows, Keeps, WritesOf, StoreOf, WriteSqlite, Stop
<1> QED
  BY <1>20, <1>2, <1>4, <1>5 DEF IInv, Phase

(* Every state of the directory a power loss may leave is one a boot can use. *)
LEMMA PowerLossStep ==
  ASSUME IInv, NoLoneCrash, PowerLoss PROVE IInv' /\ Keeps
<1>1. PICK d \in behind : dir' = d /\ behind' = {d}
  BY DEF PowerLoss
<1>2. /\ UNCHANGED <<sqlite, target, shelf, peer, config, attempt, fresh, changes>>
      /\ pc' = "down" /\ ~Alone
  BY DEF PowerLoss, NoLoneCrash, MayCrash, Exit
<1>3. Good(d) /\ d \in Directory
  BY DEF IInv, Disk, Good, Recoverable
<1>4. Types'
  <2>1. faults' \in 0 .. MaxFaults
    BY BoundsAreNaturals DEF IInv, Types, PowerLoss, Fault
  <2> QED
    BY <1>1, <1>2, <1>3, <2>1 DEF IInv, Types, Steps
<1>5. Good(dir)'
  <2>1. StoreOf(dir)' = StoreOf(d) /\ Authority(dir)' = Authority(d)
    BY <1>1, <1>2 DEF StoreOf, Authority
  <2>2. Recoverable(dir)' /\ BeforeActivation(dir)' /\ Shelved(dir)'
    BY <1>1, <1>2, <1>3, <2>1 DEF Good, Recoverable, BeforeActivation, Shelved
  <2>3. Rebuildable(dir)'
    BY <1>1, <1>2, <1>3, <2>1 DEF IInv, Phase, ActivePhase, Good, Rebuildable, Alone, HasPeers, Active,
         Running
  <2>4. Addressed(dir)' /\ Readdressed(dir)'
    BY <1>1, <1>2, <1>3, <2>1 DEF Good, Addressed, Readdressed
  <2> QED
    BY <2>2, <2>3, <2>4 DEF Good
<1>6. Disk'
  BY <1>1, <1>2, <1>5, SyncedDisk DEF IInv
<1>7. Phase'
  BY <1>2 DEF Phase, SqlitePhase, ActivePhase, ReaddressPhase, OpenPhase, FreshBoot, Staging, Running
<1>20. Keeps
  BY <1>1, <1>2, <1>3 DEF Keeps, Good, Recoverable, WritesOf, StoreOf
<1> QED
  BY <1>20, <1>4, <1>6, <1>7 DEF IInv

(* The operator takes the target away, and puts it back. *)
LEMMA ShelfStep ==
  ASSUME IInv, Misplace \/ PutBack PROVE IInv' /\ Keeps
<1>0. Good(dir) /\ dir \in Directory /\ dir \in behind
  BY DEF IInv, Types, Disk
<1>1. /\ UNCHANGED <<sqlite, target, peer, config, attempt, fresh, changes>>
      /\ pc = "down" /\ pc' = "down"
      /\ \/ /\ shelf = None /\ shelf' = dir.active
            /\ dir.active # None /\ dir.backup = None /\ dir.activated
            /\ dir' = [dir EXCEPT !.active = None]
         \/ /\ shelf # None /\ shelf' = None /\ dir.active = None
            /\ dir' = [dir EXCEPT !.active = shelf]
  BY DEF Misplace, PutBack, Sync, env
<1>2. behind' = {dir'}
  BY DEF Misplace, PutBack, Sync
<1>3. /\ dir' \in Directory /\ dir'.active \in {None, shelf}
      /\ dir'.active = None => shelf' # None /\ dir.backup = None /\ dir.activated
      /\ dir'.incoming = dir.incoming /\ dir'.record = dir.record
      /\ dir'.backup = dir.backup
      /\ dir'.membership = dir.membership /\ dir'.activated = dir.activated
  BY <1>0, <1>1 DEF Directory, IInv, Types
<1>4. dir.backup = None /\ shelf' \in Targets \cup {None}
  BY <1>0, <1>1 DEF Good, Shelved, Directory
<1>5. Types'
  <2>1. faults' \in 0 .. MaxFaults
    BY BoundsAreNaturals DEF IInv, Types, Misplace, PutBack, Fault, env
  <2> QED
    BY <1>1, <1>2, <1>3, <1>4, <2>1 DEF IInv, Types
<1>6. Authority(dir)' = Authority(dir) /\ StoreOf(dir)' = StoreOf(dir) /\ Authority(dir) # None
  BY <1>0, <1>1, <1>3, <1>4 DEF Authority, StoreOf, Directory
<1>7. Good(dir)'
  <2>1. Recoverable(dir)'
    BY <1>0, <1>1, <1>3, <1>4, <1>6 DEF Good, Recoverable, WritesOf, Directory
  <2>2. BeforeActivation(dir)' /\ Shelved(dir)' /\ Rebuildable(dir)'
    BY <1>0, <1>1, <1>3, <1>4, <1>6 DEF Good, BeforeActivation, Shelved, Rebuildable, Running, Directory
  <2>3. Addressed(dir)' /\ Readdressed(dir)'
    BY <1>0, <1>1, <1>3, <1>4, <1>6 DEF Good, Addressed, Readdressed
  <2> QED
    BY <2>1, <2>2, <2>3 DEF Good
<1>8. Disk'
  BY <1>1, <1>2, <1>7, SyncedDisk DEF IInv
<1>9. Phase'
  BY <1>1 DEF Phase, SqlitePhase, ActivePhase, ReaddressPhase, OpenPhase, FreshBoot, Staging, Running
<1>20. Keeps
  BY <1>6 DEF Keeps, WritesOf
<1> QED
  BY <1>20, <1>5, <1>8, <1>9 DEF IInv

-----------------------------------------------------------------------------
LEMMA Initially ==
  ASSUME Init PROVE IInv
<1>1. /\ sqlite \in SUBSET Rows /\ InstanceId \in sqlite
      /\ dir \in Directory /\ behind = {dir} /\ shelf = None
      /\ dir.active = None /\ dir.backup = None /\ dir.incoming = None
      /\ dir.record = NoAddress /\ dir.membership = NoAddress /\ ~dir.activated
  BY DEF Init, Directory, Rows
<1>2. Types
  <2>1. target \in [Targets -> Content] /\ pc \in Steps
    BY EmptyTarget DEF Init, Steps
  <2>2. faults \in 0 .. MaxFaults /\ changes \in 0 .. MaxChanges
    BY BoundsAreNaturals DEF Init
  <2> QED
    BY <1>1, <2>1, <2>2 DEF Init, Types
<1>3. Good(dir)
  BY <1>1 DEF Init, Good, Recoverable, BeforeActivation, Shelved, Rebuildable, Addressed, Readdressed,
       Authority, StoreOf
<1>4. Disk
  BY <1>1, <1>3, EmptyTarget DEF Init, Disk, Settled, LogsBehind
<1>5. Phase
  BY DEF Init, Phase, SqlitePhase, ActivePhase, ReaddressPhase, OpenPhase, FreshBoot, Staging, Running
<1> QED
  BY <1>2, <1>4, <1>5 DEF IInv

LEMMA Step ==
  ASSUME NoLoneCrash, IInv, [Next]_vars PROVE IInv' /\ Grows
<1>1. CASE StartUp
  BY <1>1, QuietStep, ClearingStep, RecordingStep, PublishingStep, BreadcrumbStep, RenamingStep,
     PreparingStep, CopyStep, StartStep
     DEF Grows, StartUp, Recover, Select, Activation, Readdress, Open, Finish,
         Quiet, Clearing, Recording, Publishing, Renaming, Preparing
<1>2. CASE Failure
  BY <1>2, QuietStep, ClearingStep, RenamingStep, PowerLossStep DEF Grows, Failure, Quiet, Clearing, Renaming
<1>3. CASE Serve
  <2>1. pc \in {"serving", "sqlite"} \/ ~Stop
    BY DEF Stop
  <2> QED
    BY <1>3, <2>1, ServingStep, SqliteStep DEF Serve, Serving
<1>4. CASE Operator
  BY <1>4, QuietStep, ShelfStep DEF Grows, Operator, Quiet
<1>5. CASE UNCHANGED vars
  <2>1. Types' /\ Phase'
    BY <1>5 DEF vars, IInv, Types, Phase, SqlitePhase, ActivePhase, ReaddressPhase, OpenPhase, FreshBoot,
         Incoming, Backup, Active, HasPeers, Authority, ConfiguredAddress, Advertised
  <2>2. Disk'
    <3>1. pc \in Running => pc' \in Running
      BY <1>5 DEF vars
    <3>2. shelf # None => pc' \in {"down", "recover", "select"}
      BY <1>5 DEF vars, IInv, Types, Disk, Good, Shelved
    <3> QED
      BY <1>5, <3>1, <3>2, SameDisk DEF vars, IInv, Phase
  <2>3. Grows
    BY <1>5 DEF vars, Grows, Keeps, WritesOf, StoreOf
  <2> QED
    BY <2>1, <2>2, <2>3 DEF IInv
<1> QED
  BY <1>1, <1>2, <1>3, <1>4, <1>5 DEF Next

-----------------------------------------------------------------------------
(* The inductive invariant, whatever crashes and is lost, but a lone node.     *)
THEOREM Invariance ==
  ASSUME NoLoneCrash PROVE Spec => []IInv
<1>1. Init => IInv
  BY Initially
<1>2. IInv /\ [Next]_vars => IInv'
  BY Step
<1> QED
  BY <1>1, <1>2, PTL DEF Spec

(* Every variable keeps its type, and no target is under two names: the        *)
(* renames of the activation and of the readdress never lose one, or serve one *)
(* that is also a leftover, whatever interrupts them.                          *)
THEOREM TypeCorrect ==
  ASSUME NoLoneCrash PROVE Spec => []TypeOK
<1>1. IInv => TypeOK
  BY DEF IInv, Types, TypeOK, Disk, Good, Recoverable
<1> QED
  BY <1>1, Invariance, PTL

(* The voter is only started at an address its Raft membership accepts, and    *)
(* serves at the one membership.json names.                                    *)
THEOREM AddressAgreement ==
  ASSUME NoLoneCrash PROVE Spec => []AddressesAgree
<1>1. IInv => AddressesAgree
  BY DEF IInv, Phase, OpenPhase, AddressesAgree, Running
<1> QED
  BY <1>1, Invariance, PTL

(* A boot on SQLite after an interrupted activation leaves neither its attempt *)
(* nor its incoming target: the next boot activates again.                     *)
THEOREM RecoveryBootConsumption ==
  ASSUME NoLoneCrash PROVE Spec => []RecoveryBootIsConsumed
<1>1. IInv => RecoveryBootIsConsumed
  BY DEF IInv, Phase, SqlitePhase, RecoveryBootIsConsumed
<1> QED
  BY <1>1, Invariance, PTL

(* Whatever interrupts the activation and the readdress, and whatever a power  *)
(* loss undoes, the data directory is one store that only clients change: the  *)
(* choice of the backend implements DurableStore.                              *)
THEOREM OneStoreRefinement ==
  ASSUME NoLoneCrash PROVE Spec => OneStore
<1>1. Init => Kept!Init
  BY DEF Kept!Init
<1>2. IInv /\ [Next]_vars => [Kept!Next]_(StoreOf(dir) \cap Writes)
  BY Step DEF Grows, Keeps, WritesOf, Kept!Next, Kept!Store
<1> QED
  BY <1>1, <1>2, Invariance, PTL DEF Spec, OneStore, Kept!Spec
=============================================================================
