--------------------------- MODULE SnapshotPolicy ---------------------------
(***************************************************************************)
(* Automatic VSS snapshots of the RGB wallet (src/vss_snapshot_policy.rs   *)
(* and the wallet guards of src/rgb.rs in the runtime patch): a saved      *)
(* on/off choice, a durable marker of unsaved wallet state, a receipt of   *)
(* the last confirmed upload, and the mutations that drive them.           *)
(*                                                                         *)
(* Every operation holds the wallet mutex from start to end, so at most    *)
(* one is in progress; vss_backup_info alone reads the flags after it let  *)
(* go of the mutex.  The process may die, and the machine lose its         *)
(* unsynced directory entries, between any two file or network effects.    *)
(*                                                                         *)
(* Abstractions.  The wallet's contents are one bit: do the uploads cover  *)
(* its changes.  A file is its decoded contents; one that is unreadable or  *)
(* of another scope is an error of the read.  A sync's effect is assumed   *)
(* to show in the balances, transactions and unspents it is compared by.   *)
(***************************************************************************)
EXTENDS Naturals

CONSTANT MaxVersion  \* bound on the remote manifest version

ASSUME MaxVersionAssumption == MaxVersion \in Nat

VARIABLES
  seen,    \* the policy's directory as the file system shows it
  kept,    \* the directory as a power loss would leave it
  io,      \* the write_atomic in progress
  mem,     \* SnapshotPolicy's four atomics
  op,      \* the operation that holds the wallet mutex
  server,  \* the manifest version, and the ones our acknowledged uploads made
  saved,   \* every change of the wallet is in an applied upload
  dirty,   \* the SDK's dirty flag, which misses some changes
  info,    \* a vss_backup_info call
  hist     \* history: what the properties compare with

vars == <<seen, kept, io, mem, op, server, saved, dirty, info, hist>>

files == <<seen, kept>>
wallet == <<server, saved, dirty>>

Choice == {"on", "off"}

Version == 0..MaxVersion

Directory == [marker : BOOLEAN, policy : Choice \cup {"absent"}, receipt : Version]

(* kind: the operation; at: its place; quiet: a sync that may turn out to  *)
(* change nothing; choice: the setting to commit; before: the version read *)
(* ahead of the upload.                                                    *)
Kinds == {"down", "idle", "load", "mutate", "sync", "manual", "set"}

Places == {"rest", "commit", "startup", "admitted", "work", "drop", "clear", "cleared",
           "marked", "before", "upload", "after", "receipt", "remove", "removed"}

TypeOK ==
  /\ seen \in Directory /\ kept \in Directory
  /\ io \in [at : {"none", "rename", "sync", "restore", "resync", "ok", "err"},
             old : Directory, new : Directory]
  /\ mem \in [enabled : Choice, failed : BOOLEAN, unknown : BOOLEAN, unsaved : BOOLEAN]
  /\ op \in [kind : Kinds, at : Places, quiet : BOOLEAN, choice : Choice, before : Version]
  /\ server \in [version : Version, acked : SUBSET Version]
  /\ saved \in BOOLEAN /\ dirty \in BOOLEAN
  /\ info \in [at : {"none", "unsaved", "marker", "report"}, required : BOOLEAN, clean : BOOLEAN]
  /\ hist \in [cover : {"marked", "memory", "lost"}, ack : Choice \cup {"none"}, skipped : BOOLEAN]

Fresh(choice) == [enabled |-> choice, failed |-> FALSE, unknown |-> FALSE, unsaved |-> FALSE]

At(kind, at) == [kind |-> kind, at |-> at, quiet |-> FALSE, choice |-> "off", before |-> 0]

Idle == At("idle", "rest")
Down == At("down", "rest")

Empty == [marker |-> FALSE, policy |-> "absent", receipt |-> 0]

NoWrite == [at |-> "none", old |-> Empty, new |-> Empty]

Quiescent == [at |-> "none", required |-> FALSE, clean |-> FALSE]

Init ==
  /\ seen = Empty /\ kept = Empty
  /\ io = NoWrite
  /\ mem = Fresh("off")
  /\ op = Down
  /\ server = [version |-> 0, acked |-> {}]
  /\ saved = TRUE /\ dirty = FALSE
  /\ info = Quiescent
  /\ hist = [cover |-> "marked", ack |-> "none", skipped |-> FALSE]

Pending == mem.unsaved \/ seen.marker

-----------------------------------------------------------------------------
(* write_atomic: the new directory becomes visible with the rename and     *)
(* lasting with the sync of the parent.  The sync ahead of the rename makes *)
(* earlier changes lasting; a failed call may or may not have got that far. *)

Write(d) == io' = [at |-> "rename", old |-> seen, new |-> d]

WriteMarker == Write([seen EXCEPT !.marker = TRUE])

Rename ==
  /\ io.at = "rename"
  /\ kept' = seen
  /\ seen' = io.new
  /\ io' = [io EXCEPT !.at = "sync"]

RenameFails ==
  /\ io.at = "rename"
  /\ kept' \in {kept, seen}
  /\ io' = [io EXCEPT !.at = "err"]
  /\ UNCHANGED seen

Sync ==
  /\ io.at = "sync"
  /\ kept' = seen
  /\ io' = [io EXCEPT !.at = "ok"]
  /\ UNCHANGED seen

SyncFails ==
  /\ io.at = "sync"
  /\ io' = [io EXCEPT !.at = "restore"]
  /\ UNCHANGED files

Restore ==
  /\ io.at = "restore"
  /\ kept' \in {kept, seen}
  /\ seen' = io.old
  /\ io' = [io EXCEPT !.at = "resync"]

RestoreFails ==
  /\ io.at = "restore"
  /\ kept' \in {kept, seen}
  /\ io' = [io EXCEPT !.at = "err"]
  /\ UNCHANGED seen

Resync ==
  /\ io.at = "resync"
  /\ kept' \in {kept, seen}
  /\ io' = [io EXCEPT !.at = "err"]
  /\ UNCHANGED seen

FileStep ==
  /\ Rename \/ RenameFails \/ Sync \/ SyncFails \/ Restore \/ RestoreFails \/ Resync
  /\ UNCHANGED <<mem, op, wallet, hist>>

(* remove_file of the marker, without the sync of the parent after it *)
Unlink ==
  /\ seen.marker
  /\ seen' = [seen EXCEPT !.marker = FALSE]
  /\ UNCHANGED kept

-----------------------------------------------------------------------------
(* Places of an operation *)

Here(at) == op.at = at /\ io.at = "none"

(* the write_atomic begun at this place has returned *)
Wrote(at) == op.at = at /\ io.at = "ok" /\ io' = NoWrite

Failed(at) == op.at = at /\ io.at = "err" /\ io' = NoWrite

Goto(at) == op' = [op EXCEPT !.at = at]

Finish == op' = Idle

(* load's error fails the startup and drops the policy object *)
Abort == op' = Down /\ mem' = Fresh("off")

BeginBackup == WriteMarker /\ Goto("marked")

\* mutant: only a rejected upload raises the failure flag
BackupFailsQuietly(failed) ==
  \/ op.kind = "load" /\ Abort
  \/ op.kind # "load" /\ Finish /\ mem' = [mem EXCEPT !.failed = failed]

(* An error of backup; `failed' is the flag as backup itself left it *)
BackupFails(failed) ==
  \/ op.kind = "load" /\ Abort
  \/ /\ op.kind # "load"
     /\ Finish
     /\ mem' = [mem EXCEPT !.failed = failed \/ op.kind \in {"mutate", "sync"}]

-----------------------------------------------------------------------------
(* load and the startup's catch-up snapshot *)

Load(initial) ==
  /\ op = Down
  /\ IF seen.policy = "absent"
       THEN /\ mem' = Fresh(initial)
            /\ Write([seen EXCEPT !.policy = initial])
            /\ op' = [At("load", "commit") EXCEPT !.choice = initial]
       ELSE /\ mem' = Fresh(seen.policy)
            /\ op' = At("load", "startup")
            /\ UNCHANGED io
  /\ UNCHANGED <<files, wallet, hist>>

LoadSaved ==
  /\ Wrote("commit") /\ op.kind = "load"
  /\ Goto("startup")
  /\ UNCHANGED <<files, mem, wallet, hist>>

LoadFails ==
  /\ Failed("commit") /\ op.kind = "load"
  /\ Abort
  /\ UNCHANGED <<files, wallet, hist>>

NeedsCatchUp == mem.enabled = "on" /\ (server.version = 0 \/ dirty \/ Pending)

StartupNeedsNothing ==
  /\ Here("startup")
  /\ ~NeedsCatchUp
  /\ Finish
  /\ UNCHANGED <<files, io, mem, wallet, hist>>

StartupCatchesUp ==
  /\ Here("startup")
  /\ NeedsCatchUp
  /\ BeginBackup
  /\ UNCHANGED <<files, mem, wallet, hist>>

(* the status of the remote store could not be read *)
StartupFails ==
  /\ Here("startup")
  /\ Abort
  /\ UNCHANGED <<files, io, wallet, hist>>

-----------------------------------------------------------------------------
(* backup, one effect at a time *)

Marked ==
  /\ Wrote("marked")
  /\ Goto("before")
  /\ UNCHANGED <<files, mem, wallet, hist>>

MarkFails ==
  /\ Failed("marked")
  /\ BackupFails(mem.failed)
  /\ UNCHANGED <<files, wallet, hist>>

ReadBefore ==
  /\ Here("before")
  /\ op' = [op EXCEPT !.at = "upload", !.before = server.version]
  /\ UNCHANGED <<files, io, mem, wallet, hist>>

(* a version, the clock or the removal of the marker failed, or the sync   *)
(* of the directory after it                                               *)
EffectFails ==
  /\ \E at \in {"before", "after", "remove", "removed"} : Here(at)
  /\ BackupFails(mem.failed)
  /\ UNCHANGED <<files, io, wallet, hist>>

(* The store applied the upload: the wallet's changes are in it *)
Applied ==
  /\ server.version < MaxVersion
  /\ saved' = TRUE
  /\ hist' = [hist EXCEPT !.cover = "marked", !.skipped = FALSE]

Upload ==
  /\ Here("upload")
  /\ Applied
  /\ server' = [version |-> server.version + 1,
                acked |-> server.acked \cup {server.version + 1}]
  /\ dirty' = FALSE
  /\ Goto("after")
  /\ UNCHANGED <<files, io, mem>>

(* the store applied the upload and its acknowledgement was lost *)
UploadUnacknowledged ==
  /\ Here("upload")
  /\ Applied
  /\ server' = [server EXCEPT !.version = @ + 1]
  /\ BackupFails(TRUE)
  /\ UNCHANGED <<files, io, dirty>>

UploadRejected ==
  /\ Here("upload")
  /\ BackupFails(TRUE)
  /\ UNCHANGED <<files, io, wallet, hist>>

\* mutant: any later version confirms the upload
ConfirmedByAny == server.version > op.before

(* confirmed_manifest_successor *)
Confirmed == server.version = op.before + 1

ReadAfter ==
  /\ Here("after")
  /\ Confirmed
  /\ Write([seen EXCEPT !.receipt = server.version])
  /\ Goto("receipt")
  /\ UNCHANGED <<files, mem, wallet, hist>>

NotSuccessor ==
  /\ Here("after")
  /\ ~Confirmed
  /\ BackupFails(mem.failed)
  /\ UNCHANGED <<files, io, wallet, hist>>

ReceiptWritten ==
  /\ Wrote("receipt")
  /\ Goto("remove")
  /\ UNCHANGED <<files, mem, wallet, hist>>

ReceiptFails ==
  /\ Failed("receipt")
  /\ BackupFails(mem.failed)
  /\ UNCHANGED <<files, wallet, hist>>

RemoveMarker ==
  /\ Here("remove")
  /\ Unlink
  /\ Goto("removed")
  /\ UNCHANGED <<io, mem, wallet, hist>>

(* commit_enabled up to its write *)
BeginCommit(choice) ==
  /\ Write([seen EXCEPT !.policy = choice])
  /\ hist' = [hist EXCEPT !.ack = "none"]

Covered == [mem EXCEPT !.unsaved = FALSE, !.failed = FALSE]

(* backup returns Ok, and a re-enabling setter goes on to its commit *)
BackupDone ==
  /\ Here("removed")
  /\ kept' = seen
  /\ mem' = Covered
  /\ \/ /\ op.kind # "set" \/ mem.unknown
        /\ Finish
        /\ UNCHANGED <<io, hist>>
     \/ /\ op.kind = "set" /\ ~mem.unknown
        /\ BeginCommit(op.choice)
        /\ Goto("commit")
  /\ UNCHANGED <<seen, wallet>>

-----------------------------------------------------------------------------
(* Mutating and syncing wallet guards *)

(* before_mutation, as get_rgb_wallet_mutating takes the guard *)
BeginMutation ==
  /\ op = Idle
  /\ op' = At("mutate", "admitted")
  /\ mem' = [mem EXCEPT !.unsaved = TRUE]
  /\ WriteMarker
  /\ UNCHANGED <<files, wallet, hist>>

\* mutant: the SDK's dirty flag alone says that nothing was pending
QuietWhenClean == ~dirty

(* get_rgb_wallet_for_sync: the earlier state is clean and could be viewed *)
MayBeQuiet == ~Pending /\ ~dirty

BeginSync ==
  /\ op = Idle
  /\ \E viewed \in BOOLEAN :
       op' = [At("sync", "admitted") EXCEPT !.quiet = viewed /\ MayBeQuiet]
  /\ mem' = [mem EXCEPT !.unsaved = TRUE]
  /\ WriteMarker
  /\ UNCHANGED <<files, wallet, hist>>

Admitted ==
  /\ Wrote("admitted")
  /\ hist' = [hist EXCEPT !.cover = IF @ = "memory" THEN "marked" ELSE @]
  /\ Goto("work")
  /\ UNCHANGED <<files, mem, wallet>>

AdmittedUnmarked ==
  /\ Failed("admitted")
  /\ mem' = [mem EXCEPT !.failed = TRUE]
  /\ hist' = [hist EXCEPT !.cover = IF @ = "marked" THEN "memory" ELSE @]
  /\ Goto("work")
  /\ UNCHANGED <<files, wallet>>

(* the SDK call: it may change the wallet, with or without the dirty flag, *)
(* and the view after a sync may fail                                      *)
Work ==
  /\ Here("work")
  /\ \E changed, flagged, viewed \in BOOLEAN :
       /\ saved' = (saved /\ ~changed)
       /\ dirty' = (dirty \/ (changed /\ flagged))
       /\ op' = [op EXCEPT !.at = "drop", !.quiet = @ /\ ~changed /\ viewed]
  /\ UNCHANGED <<files, io, mem, server, hist>>

(* after_mutation *)
AfterMutation ==
  \/ /\ mem.unknown \/ mem.enabled = "off"
     /\ Finish
     /\ UNCHANGED io
  \/ /\ ~mem.unknown /\ mem.enabled = "on"
     /\ BeginBackup

DropGuard ==
  /\ Here("drop")
  /\ ~op.quiet
  /\ AfterMutation
  /\ UNCHANGED <<files, mem, wallet, hist>>

DropWhilePanicking ==
  /\ Here("drop")
  /\ Finish
  /\ hist' = [hist EXCEPT !.skipped = TRUE]
  /\ UNCHANGED <<files, io, mem, wallet>>

(* clear_unchanged_intent *)
ClearIntent ==
  /\ Here("drop") /\ op.quiet
  /\ Unlink
  /\ Goto("cleared")
  /\ UNCHANGED <<io, mem, wallet, hist>>

IntentCleared ==
  /\ Here("cleared")
  /\ kept' = seen
  /\ mem' = [mem EXCEPT !.unsaved = FALSE]
  /\ Finish
  /\ UNCHANGED <<seen, io, wallet, hist>>

ClearFails ==
  /\ (Here("drop") /\ op.quiet) \/ Here("cleared")
  /\ AfterMutation
  /\ UNCHANGED <<files, mem, wallet, hist>>

-----------------------------------------------------------------------------
(* Manual backup and the setter *)

ManualBackup ==
  /\ op = Idle
  /\ WriteMarker
  /\ op' = At("manual", "marked")
  /\ UNCHANGED <<files, mem, wallet, hist>>

\* mutant: turning backup on uploads nothing by itself
NeverCatchesUp(choice) == choice # choice

CatchesUp(choice) == choice = "on" /\ mem.enabled = "off"

SetEnabled(choice) ==
  /\ op = Idle
  /\ IF CatchesUp(choice)
       THEN /\ WriteMarker
            /\ op' = [At("set", "marked") EXCEPT !.choice = choice]
            /\ UNCHANGED hist
       ELSE /\ ~mem.unknown
            /\ BeginCommit(choice)
            /\ op' = [At("set", "commit") EXCEPT !.choice = choice]
  /\ UNCHANGED <<files, mem, wallet>>

Committed ==
  /\ Wrote("commit") /\ op.kind = "set"
  /\ mem' = [mem EXCEPT !.enabled = op.choice]
  /\ hist' = [hist EXCEPT !.ack = op.choice]
  /\ Finish
  /\ UNCHANGED <<files, wallet>>

(* the failed commit reads the choice back, if the file can be read *)
CommitFails ==
  /\ Failed("commit") /\ op.kind = "set"
  /\ \/ seen.policy # "absent" /\ mem' = [mem EXCEPT !.enabled = seen.policy]
     \/ mem' = [mem EXCEPT !.unknown = TRUE, !.failed = TRUE]
  /\ Finish
  /\ UNCHANGED <<files, wallet, hist>>

-----------------------------------------------------------------------------
(* The environment *)

(* another writer of the same store *)
ForeignUpload ==
  /\ server.version < MaxVersion
  /\ server' = [server EXCEPT !.version = @ + 1]
  /\ UNCHANGED <<files, io, mem, op, saved, dirty, hist>>

Dies ==
  /\ op # Down
  /\ op' = Down
  /\ io' = NoWrite
  /\ mem' = Fresh("off")
  /\ hist' = [hist EXCEPT !.cover = IF @ = "memory" THEN "lost" ELSE @]
  /\ UNCHANGED wallet

Crash == Dies /\ UNCHANGED files

(* each file comes back as it was last synced, or later *)
PowerLoss ==
  /\ Dies
  /\ \E d \in [marker : {kept.marker, seen.marker},
               policy : {kept.policy, seen.policy},
               receipt : {kept.receipt, seen.receipt}] :
       seen' = d /\ kept' = d

-----------------------------------------------------------------------------
(* vss_backup_info: the dirty flag under the mutex, then the policy's *)
(* flags without it.  `clean' is history: everything was saved at some *)
(* moment of the call.                                                 *)

InfoDirty ==
  /\ op = Idle /\ info = Quiescent
  /\ info' = [at |-> "unsaved", required |-> dirty, clean |-> saved]

InfoUnsaved ==
  /\ info.at = "unsaved"
  /\ info' = [info EXCEPT !.at = "marker", !.required = @ \/ mem.unsaved]

\* mutant: asks the memory flag only
InfoIgnoresMarker ==
  /\ info.at = "marker"
  /\ info' = [info EXCEPT !.at = "report"]

InfoMarker ==
  /\ info.at = "marker"
  /\ info' = [info EXCEPT !.at = "report", !.required = @ \/ seen.marker]

InfoReports == info.at = "report" /\ info' = Quiescent

InfoStep ==
  /\ InfoDirty \/ InfoUnsaved \/ InfoMarker \/ InfoReports
  /\ UNCHANGED <<files, io, mem, op, wallet, hist>>

(* what the call sees go by; it ends with the process *)
Observe ==
  info' = IF op' = Down \/ info = Quiescent THEN Quiescent
                                  ELSE [info EXCEPT !.clean = @ \/ saved']

-----------------------------------------------------------------------------

Startup ==
  \/ \E initial \in Choice : Load(initial)
  \/ LoadSaved \/ LoadFails
  \/ StartupNeedsNothing \/ StartupCatchesUp \/ StartupFails

Backup ==
  \/ Marked \/ MarkFails \/ ReadBefore \/ EffectFails
  \/ Upload \/ UploadUnacknowledged \/ UploadRejected
  \/ ReadAfter \/ NotSuccessor \/ ReceiptWritten \/ ReceiptFails
  \/ RemoveMarker \/ BackupDone

Mutation ==
  \/ BeginMutation \/ BeginSync \/ Admitted \/ AdmittedUnmarked \/ Work
  \/ DropGuard \/ DropWhilePanicking
  \/ ClearIntent \/ IntentCleared \/ ClearFails

Setting ==
  \/ ManualBackup
  \/ \E choice \in Choice : SetEnabled(choice)
  \/ Committed \/ CommitFails

Next ==
  \/ /\ FileStep \/ Startup \/ Backup \/ Mutation \/ Setting
        \/ ForeignUpload \/ Crash \/ PowerLoss
     /\ Observe
  \/ InfoStep

Spec == Init /\ [][Next]_vars

-----------------------------------------------------------------------------
(* Properties *)

(* Unsaved wallet state is reported as such by the status call, in this    *)
(* process and after any crash or power loss: by the SDK's flag, by memory *)
(* or by the marker.  VSS-SAFETY.md excepts the process that could not     *)
(* write its marker and died.                                              *)
UnsavedIsKnown ==
  (op.kind # "down" /\ ~saved /\ hist.cover # "lost") => (dirty \/ Pending)

(* vss_backup_info never says that no backup is required unless everything *)
(* was saved at some moment of the call, although it reads the flags in    *)
(* three steps and after it released the wallet.                           *)
InfoNeverHides ==
  (info.at = "report" /\ ~info.required /\ hist.cover # "lost") => info.clean

(* With automatic backup on and no operation in progress, unsaved changes  *)
(* mean a reported failure.  Excepted: the lost marker; an operation that  *)
(* panicked, which leaves the marker but neither uploads nor fails; and an *)
(* unknown choice, where metadata fails and a manual backup may have       *)
(* cleared the failure of the commit.                                      *)
FailureIsShown ==
  (/\ op = Idle /\ mem.enabled = "on" /\ ~mem.unknown
   /\ hist.cover # "lost" /\ ~hist.skipped
   /\ ~saved)
  => mem.failed

(* A receipt names a version that one of our acknowledged uploads made,    *)
(* never one that another writer or an unacknowledged upload made, and     *)
(* never one that a power loss could bring back.                           *)
ReceiptsAreOurs ==
  \A d \in {seen, kept} : d.receipt # 0 => d.receipt \in server.acked

(* The choice a setter acknowledged is the one in force and the one a      *)
(* restart will load, until a later setter reaches its commit: a rejected  *)
(* catch-up, a crash or a power loss does not change it.                   *)
AcknowledgedChoiceHolds ==
  hist.ack # "none" =>
    /\ seen.policy = hist.ack /\ kept.policy = hist.ack
    /\ op # Down => mem.enabled = hist.ack

(* What vss_backup_metadata reports is what the file says, whatever became *)
(* of a failed commit and its rollback.                                    *)
ReportedChoiceIsStored ==
  (op = Idle /\ ~mem.unknown) => mem.enabled = seen.policy

(* Every variable keeps its type; receipts and the saved choice are true.   *)
SnapshotInv ==
  TypeOK /\ ReceiptsAreOurs /\ AcknowledgedChoiceHolds /\ ReportedChoiceIsStored

(* Once a setter has acknowledged "off", only a manual backup or a setter  *)
(* that turns it on again uploads a snapshot: no mutation, and no startup. *)
OffUploadsNothing ==
  [][(hist.ack = "off" /\ Here("upload") /\ server' # server /\ op' # op)
       => op.kind \in {"manual", "set"}]_vars

(* A setter that turns backup on is acknowledged only with every earlier   *)
(* change uploaded and the marker of it durably gone.                      *)
EnablingCatchesUp ==
  [][(hist.ack' = "on" /\ hist.ack # "on" /\ mem.enabled = "off")
       => (saved /\ ~mem.unsaved /\ ~kept.marker)]_vars

(* The choice decides what reaches the server, in both directions.          *)
UploadsFollowTheChoice == OffUploadsNothing /\ EnablingCatchesUp

=============================================================================
