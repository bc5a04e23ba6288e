------------------------------ MODULE VssRestore ------------------------------
(***************************************************************************)
(* Preparing a wallet from its VSS archive (src/uniffi_api/vss_restore.rs  *)
(* in the runtime patch).  A node that is locked reads the remote version, *)
(* downloads the archive, unpacks it in a private directory, seals it with *)
(* a receipt signed by a local key, and renames it into place; a prepare   *)
(* that finds a wallet in place verifies that receipt instead.             *)
(*                                                                         *)
(* The nodes of Nodes share one storage directory.  Any effect may fail,   *)
(* a node's process may die between two effects, and the machine may lose  *)
(* what it had not synced.                                                 *)
(*                                                                         *)
(* Abstractions.  A wallet directory is the version it was unpacked from,  *)
(* the version and key its receipt names, and which of its three parts are *)
(* there.  The key is named after the node that made it.  An archive that  *)
(* is malformed, oversized or of another identity fails the download.      *)
(* Nobody edits the storage directory by hand, and the remote version      *)
(* never goes back.                                                        *)
(***************************************************************************)
EXTENDS Naturals, Sequences, Functions

CONSTANTS
  Nodes,          \* SDK nodes on one storage directory
  None,           \* no key, no wallet
  MaxVersion,     \* bound on the remote archive's version
  MaxFaults,      \* bound on failed effects, crashes and power losses
  OrderedRenames  \* a power loss keeps unsynced renames in their order

ASSUME ConstantsAssumption ==
  /\ None \notin Nodes
  /\ MaxVersion \in Nat /\ MaxFaults \in Nat
  /\ OrderedRenames \in BOOLEAN

VARIABLES
  remote,  \* the archive's version on the VSS store, 0 when there is none
  key,     \* the receipt key's entry in the storage directory
  wallet,  \* the fingerprint directory
  pending, \* the renames into the storage directory that no sync has covered
  node,    \* each node: "locked", "unlocked", "stopping" or "off"
  job,     \* the prepare each node runs
  answer,  \* what each node's last call returned
  faults,
  hist     \* history: a version whose restore was acknowledged by the node that
           \* promoted it, and whether an unlock has checked the wallet in place

vars == <<remote, key, wallet, pending, node, job, answer, faults, hist>>

storage == <<key, wallet, pending>>

Version == 0..MaxVersion

Parts == {"files", "receipt", "marker"}

(* version and key: what the receipt names; content: the version of the    *)
(* archive that was unpacked; parts: what a program sees; durable: what a  *)
(* power loss leaves of it.                                                *)
Wallet == [version : Version, content : Version, key : Nodes \cup {None},
           parts : SUBSET Parts, durable : SUBSET Parts]

ASSUME NoneAssumption == None \notin Wallet

Places == {"idle", "scan", "version", "download", "extract", "confirm", "key", "newkey",
           "keysync", "seal", "flush", "promote", "settle"}

Job == [at : Places, version : Version, stage : Wallet \cup {None}]

Answer == [what : {"none", "error", "not_found", "restored", "null", "info"},
           version : Version, unlocked : BOOLEAN]

TypeOK ==
  /\ remote \in Version
  /\ key \in Nodes \cup {None}
  /\ wallet \in Wallet \cup {None}
  /\ pending \in {<<>>, <<"key">>, <<"wallet">>, <<"key", "wallet">>, <<"wallet", "key">>}
  /\ node \in [Nodes -> {"locked", "unlocked", "stopping", "off"}]
  /\ job \in [Nodes -> Job]
  /\ answer \in [Nodes -> Answer]
  /\ faults \in 0..MaxFaults
  /\ hist \in [acked : Version, checked : BOOLEAN]

Idle == [at |-> "idle", version |-> 0, stage |-> None]

Reply(what, version, unlocked) == [what |-> what, version |-> version, unlocked |-> unlocked]

Silent == Reply("none", 0, FALSE)

Init ==
  /\ remote \in Version
  /\ key = None /\ wallet = None /\ pending = <<>>
  /\ node = [n \in Nodes |-> "locked"]
  /\ job = [n \in Nodes |-> Idle]
  /\ answer = [n \in Nodes |-> Silent]
  /\ faults = 0
  /\ hist = [acked |-> 0, checked |-> FALSE]

-----------------------------------------------------------------------------
(* The way out of a call, and to its next place.                           *)

Return(n, reply) ==
  /\ answer' = [answer EXCEPT ![n] = reply]
  /\ job' = [job EXCEPT ![n] = Idle]

Refuse(n) == Return(n, Reply("error", 0, FALSE))

Goto(n, at) ==
  /\ job' = [job EXCEPT ![n].at = at]
  /\ UNCHANGED answer

(* The prepare goes on with stage in its private directory.                *)
Stage(n, at, stage) ==
  /\ job' = [job EXCEPT ![n] = [at |-> at, version |-> job[n].version, stage |-> stage]]
  /\ UNCHANGED answer

(* check_state: a shutdown has not begun.                                  *)
Admitted(n) == node[n] # "stopping"

(* load_receipt accepts the wallet in place.                               *)
Verifies ==
  /\ wallet # None
  /\ {"files", "receipt"} \subseteq wallet.parts
  /\ wallet.version > 0
  /\ wallet.key = key

(* There is no wallet, or none that a prepare has put there.               *)
Unreceipted == wallet # None => "receipt" \notin wallet.parts

(* promote: a rename that never replaces, and the sync of the directory.   *)
Renamed(entry) == pending' = Append(pending, entry)

SyncBase == pending' = <<>>

(* Some effect of n's prepare fails; the private directory is dropped.     *)
Fail(n) ==
  /\ job[n].at # "idle"
  /\ faults < MaxFaults /\ faults' = faults + 1
  /\ Refuse(n)
  /\ UNCHANGED <<remote, storage, node, hist>>

-----------------------------------------------------------------------------
(* prepare.                                                                *)

(* The node is held locked from here on: the guard is the job.             *)
Prepare(n) ==
  /\ job[n].at = "idle" /\ node[n] # "off"
  /\ \/ /\ ~Admitted(n) \/ node[n] = "unlocked" \/ (wallet # None /\ ~Verifies)
        /\ Refuse(n)
     \/ /\ node[n] = "locked" /\ wallet = None
        /\ job' = [job EXCEPT ![n].at = "scan"]
        /\ answer' = [answer EXCEPT ![n] = Silent]
     \/ /\ node[n] = "locked" /\ Verifies
        /\ Return(n, Reply("restored", wallet.version, FALSE))
  /\ UNCHANGED <<remote, storage, node, faults, hist>>

(* No wallet directory may have appeared since.                            *)
Scan(n) ==
  /\ job[n].at = "scan"
  /\ IF wallet = None THEN Goto(n, "version") ELSE Refuse(n)
  /\ UNCHANGED <<remote, storage, node, faults, hist>>

ReadVersion(n) ==
  /\ job[n].at = "version"
  /\ IF remote = 0
     THEN Return(n, Reply("not_found", 0, FALSE))
     ELSE /\ job' = [job EXCEPT ![n] = [at |-> "download", version |-> remote, stage |-> None]]
          /\ UNCHANGED answer
  /\ UNCHANGED <<remote, storage, node, faults, hist>>

(* The archive is whatever version the store has by now; archive_plan      *)
(* accepts it and extract writes and syncs its files, but not the          *)
(* directories that name them.                                             *)
Download(n) ==
  /\ job[n].at = "download"
  /\ Stage(n, "extract", [version |-> 0, content |-> remote, key |-> None,
                          parts |-> {}, durable |-> {}])
  /\ UNCHANGED <<remote, storage, node, faults, hist>>

Extract(n) ==
  /\ job[n].at = "extract"
  /\ Stage(n, "confirm", [job[n].stage EXCEPT !.parts = {"files"}])
  /\ UNCHANGED <<remote, storage, node, faults, hist>>

(* mutant: the version is not read again *)
ConfirmUnread(n) ==
  /\ job[n].at = "confirm"
  /\ IF Admitted(n) THEN Goto(n, "key") ELSE Refuse(n)
  /\ UNCHANGED <<remote, storage, node, faults, hist>>

(* The archive must not have changed across the download.                  *)
ConfirmVersion(n) ==
  /\ job[n].at = "confirm"
  /\ IF remote = job[n].version /\ Admitted(n) THEN Goto(n, "key") ELSE Refuse(n)
  /\ UNCHANGED <<remote, storage, node, faults, hist>>

(* mutant: a key of an earlier attempt is a conflict *)
TakeOnlyNewKey(n) ==
  /\ job[n].at = "key"
  /\ IF key = None THEN Goto(n, "newkey") ELSE Refuse(n)
  /\ UNCHANGED <<remote, storage, node, faults, hist>>

(* receipt_key: a key in place is used as it is.                           *)
TakeKey(n) ==
  /\ job[n].at = "key"
  /\ IF key = None
     THEN Goto(n, "newkey")
     ELSE Stage(n, "seal", [job[n].stage EXCEPT !.key = key])
  /\ UNCHANGED <<remote, storage, node, faults, hist>>

(* mutant: the key that appeared meanwhile is left there and not used *)
KeepOwnKey(n) ==
  /\ job[n].at = "newkey"
  /\ \/ /\ key = None
        /\ key' = n /\ Renamed("key")
        /\ Stage(n, "keysync", [job[n].stage EXCEPT !.key = n])
     \/ /\ key # None
        /\ Stage(n, "seal", [job[n].stage EXCEPT !.key = n])
        /\ UNCHANGED <<key, pending>>
  /\ UNCHANGED <<remote, wallet, node, faults, hist>>

(* A new key is renamed into place, unless one has appeared meanwhile,     *)
(* which is then used.                                                     *)
PublishKey(n) ==
  /\ job[n].at = "newkey"
  /\ \/ /\ key = None
        /\ key' = n /\ Renamed("key")
        /\ Stage(n, "keysync", [job[n].stage EXCEPT !.key = n])
     \/ /\ key # None
        /\ Stage(n, "seal", [job[n].stage EXCEPT !.key = key])
        /\ UNCHANGED <<key, pending>>
  /\ UNCHANGED <<remote, wallet, node, faults, hist>>

SyncKey(n) ==
  /\ job[n].at = "keysync"
  /\ SyncBase
  /\ Goto(n, "seal")
  /\ UNCHANGED <<remote, key, wallet, node, faults, hist>>

(* The receipt and the marker of the SDK's check are written.              *)
Seal(n) ==
  /\ job[n].at = "seal"
  /\ Stage(n, "flush", [job[n].stage EXCEPT !.version = job[n].version,
                                            !.parts = @ \cup {"receipt", "marker"}])
  /\ UNCHANGED <<remote, storage, node, faults, hist>>

(* mutant: only what extract wrote is synced *)
FlushFiles(n) ==
  /\ job[n].at = "flush"
  /\ IF Admitted(n)
     THEN Stage(n, "promote", [job[n].stage EXCEPT !.durable = {"files", "receipt"}])
     ELSE Refuse(n)
  /\ UNCHANGED <<remote, storage, node, faults, hist>>

(* Every file and directory of the tree is synced, contents first.         *)
Flush(n) ==
  /\ job[n].at = "flush"
  /\ IF Admitted(n)
     THEN Stage(n, "promote", [job[n].stage EXCEPT !.durable = job[n].stage.parts])
     ELSE Refuse(n)
  /\ UNCHANGED <<remote, storage, node, faults, hist>>

Promote(n) ==
  /\ job[n].at = "promote"
  /\ \/ /\ wallet = None
        /\ wallet' = job[n].stage /\ Renamed("wallet")
        /\ hist' = [hist EXCEPT !.checked = FALSE]
        /\ Goto(n, "settle")
     \/ /\ wallet # None
        /\ Refuse(n)
        /\ UNCHANGED <<wallet, pending, hist>>
  /\ UNCHANGED <<remote, key, node, faults>>

(* mutant: the answer does not wait for the sync *)
SettleUnsynced(n) ==
  /\ job[n].at = "settle"
  /\ hist' = [hist EXCEPT !.acked = job[n].version]
  /\ Return(n, Reply("restored", job[n].version, FALSE))
  /\ UNCHANGED <<remote, storage, node, faults>>

Settle(n) ==
  /\ job[n].at = "settle"
  /\ SyncBase
  /\ hist' = [hist EXCEPT !.acked = job[n].version]
  /\ Return(n, Reply("restored", job[n].version, FALSE))
  /\ UNCHANGED <<remote, key, wallet, node, faults>>

-----------------------------------------------------------------------------
(* info, and what else nodes do with the directory.                        *)

Info(n) ==
  /\ job[n].at = "idle" /\ node[n] # "off"
  /\ \/ /\ ~Admitted(n) \/ (~Unreceipted /\ ~Verifies)
        /\ Refuse(n)
     \/ /\ Admitted(n) /\ Unreceipted
        /\ Return(n, Reply("null", 0, FALSE))
     \/ /\ Admitted(n) /\ Verifies
        /\ Return(n, Reply("info", wallet.version,
                           node[n] = "unlocked" /\ "marker" \notin wallet.parts))
  /\ UNCHANGED <<remote, storage, node, faults, hist>>

(* An unlock without a wallet makes one of its own; with one, the SDK's    *)
(* check passes and consumes the marker, or the node stays locked.         *)
Unlock(n) ==
  /\ node[n] = "locked" /\ job[n].at = "idle"
  /\ node' = [node EXCEPT ![n] = "unlocked"]
  /\ answer' = [answer EXCEPT ![n] = Silent]
  /\ IF wallet = None
     THEN /\ wallet' = [version |-> 0, content |-> 0, key |-> None,
                        parts |-> {"files"}, durable |-> {"files"}]
          /\ Renamed("wallet")
          /\ hist' = [hist EXCEPT !.checked = FALSE]
     ELSE /\ wallet' = [wallet EXCEPT !.parts = @ \ {"marker"}]
          /\ hist' = [hist EXCEPT !.checked = @ \/ "marker" \in wallet.parts]
          /\ UNCHANGED pending
  /\ UNCHANGED <<remote, key, job, faults>>

Lock(n) ==
  /\ node[n] = "unlocked" /\ job[n].at = "idle"
  /\ node' = [node EXCEPT ![n] = "locked"]
  /\ answer' = [answer EXCEPT ![n] = Silent]
  /\ UNCHANGED <<remote, storage, job, faults, hist>>

(* NodeHandle::shutdown cancels at once and then waits for the guard.      *)
Cancel(n) ==
  /\ node[n] \in {"locked", "unlocked"}
  /\ faults < MaxFaults /\ faults' = faults + 1
  /\ node' = [node EXCEPT ![n] = "stopping"]
  /\ answer' = [answer EXCEPT ![n] = Silent]
  /\ UNCHANGED <<remote, storage, job, hist>>

Stopped(n) ==
  /\ node[n] = "stopping" /\ job[n].at = "idle"
  /\ node' = [node EXCEPT ![n] = "off"]
  /\ answer' = [answer EXCEPT ![n] = Silent]
  /\ UNCHANGED <<remote, storage, job, faults, hist>>

Start(n) ==
  /\ node[n] = "off"
  /\ node' = [node EXCEPT ![n] = "locked"]
  /\ UNCHANGED <<remote, storage, job, answer, faults, hist>>

-----------------------------------------------------------------------------
(* Everything else.                                                        *)

(* n's process dies; its private directory stays behind, unread.           *)
Crash(n) ==
  /\ node[n] # "off"
  /\ faults < MaxFaults /\ faults' = faults + 1
  /\ node' = [node EXCEPT ![n] = "off"]
  /\ job' = [job EXCEPT ![n] = Idle]
  /\ answer' = [answer EXCEPT ![n] = Silent]
  /\ UNCHANGED <<remote, storage, hist>>

(* The renames that a power loss may leave.                                *)
Survivors ==
  IF OrderedRenames
  THEN {Range(SubSeq(pending, 1, i)) : i \in 0..Len(pending)}
  ELSE SUBSET Range(pending)

PowerLoss ==
  /\ faults < MaxFaults /\ faults' = faults + 1
  /\ \E kept \in Survivors :
       LET lost == Range(pending) \ kept IN
       /\ key' = IF "key" \in lost THEN None ELSE key
       /\ wallet' = IF wallet = None \/ "wallet" \in lost
                    THEN None ELSE [wallet EXCEPT !.parts = wallet.durable]
  /\ pending' = <<>>
  /\ node' = [n \in Nodes |-> "off"]
  /\ job' = [n \in Nodes |-> Idle]
  /\ answer' = [n \in Nodes |-> Silent]
  /\ UNCHANGED <<remote, hist>>

(* Another device uploads its wallet.                                      *)
ForeignUpload ==
  /\ remote < MaxVersion /\ remote' = remote + 1
  /\ UNCHANGED <<storage, node, job, answer, faults, hist>>

Preparing(n) ==
  \/ Prepare(n) \/ Scan(n) \/ ReadVersion(n) \/ Download(n) \/ Extract(n) \/ ConfirmVersion(n)
  \/ TakeKey(n) \/ PublishKey(n) \/ SyncKey(n) \/ Seal(n) \/ Flush(n) \/ Promote(n) \/ Settle(n)
  \/ Fail(n)

Next ==
  \/ \E n \in Nodes : \/ Preparing(n) \/ Info(n) \/ Unlock(n) \/ Lock(n)
                      \/ Cancel(n) \/ Stopped(n) \/ Start(n) \/ Crash(n)
  \/ PowerLoss
  \/ ForeignUpload

Spec == Init /\ [][Next]_vars

(* The program starts its nodes and asks again until it is told that the   *)
(* wallet is there; what a prepare has begun goes on.                      *)
Fairness ==
  \A n \in Nodes : WF_vars(Preparing(n)) /\ WF_vars(Stopped(n)) /\ WF_vars(Start(n))

FairSpec == Spec /\ Fairness

-----------------------------------------------------------------------------
(* Properties.                                                             *)

(* A wallet prepared from the archive is whole whenever it is in place: it *)
(* has its files and its receipt, and the receipt names the version that   *)
(* was unpacked.  It holds between any two effects and after any crash or  *)
(* power loss (vss_restore.rs, prepare from the download to promote).      *)
RestoredIsWhole ==
  wallet # None /\ wallet.key # None =>
    /\ {"files", "receipt"} \subseteq wallet.parts
    /\ wallet.version = wallet.content /\ wallet.version > 0

(* A later process can resume an interrupted preparation: the receipt in   *)
(* place verifies with the key in place (receipt_key, load_receipt).       *)
ResumeVerifies == wallet # None /\ wallet.key # None => Verifies

(* A restored wallet that no unlock has checked still has its marker, so   *)
(* the SDK's check cannot be skipped (prepare's marker and its sync).      *)
UncheckedIsMarked ==
  wallet # None /\ wallet.key # None /\ ~hist.checked => "marker" \in wallet.parts

(* info says unlocked only while its node is, and of a wallet that passed   *)
(* the check (info).                                                       *)
UnlockedIsChecked ==
  \A n \in Nodes : answer[n].unlocked => node[n] = "unlocked" /\ hist.checked

(* The SDK's check of a restored wallet is never skipped, nor reported      *)
(* without having passed (prepare, info).                                  *)
CheckNotSkipped == UncheckedIsMarked /\ UnlockedIsChecked

(* A version acknowledged by the prepare that put it in place is there for *)
(* good, whatever crashes (prepare's last sync).                           *)
AcknowledgedStays ==
  hist.acked > 0 => wallet # None /\ wallet.version = hist.acked /\ "wallet" \notin Range(pending)

(* No prepare changes a wallet directory that exists (promote).            *)
NeverReplaced ==
  [][(\E n \in Nodes : Preparing(n)) /\ wallet # None => wallet' = wallet]_vars

(* However often it is interrupted, a preparation that is tried again ends *)
(* with a wallet in place, prepared or made by an unlock.                  *)
PreparationResumes == (remote > 0) ~> (wallet # None)

=============================================================================
