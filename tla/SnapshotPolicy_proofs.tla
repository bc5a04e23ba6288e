----------------------- MODULE SnapshotPolicy_proofs ------------------------
(***************************************************************************)
(* Proofs about SnapshotPolicy, for any number of manifest versions: the   *)
(* invariant that ties each place of an operation to the write in          *)
(* progress, the flags and the files, and the properties that follow.      *)
(***************************************************************************)
EXTENDS SnapshotPolicy, TLAPS

Writing == {"commit", "admitted", "marked", "receipt"}
Backing == {"marked", "before", "upload", "after", "receipt", "remove", "removed"}
Uploaded == {"after", "receipt", "remove", "removed"}
Working == {"admitted", "work", "drop", "cleared"}

(* The places of each kind of operation.  A backup that no manual call and  *)
(* no setter began runs with automatic backup on.                           *)
PlaceInv ==
  /\ op.kind = "down" => op = Down
  /\ op.kind = "idle" => op = Idle
  /\ op.kind = "load" => op.at \in Backing \cup {"commit", "startup"}
  /\ op.kind \in {"mutate", "sync"} => op.at \in Backing \cup Working
  /\ op.kind = "manual" => op.at \in Backing
  /\ op.kind = "set" => op.at \in Backing \cup {"commit"}
  /\ op.quiet => op.kind = "sync"
  /\ op.at = "cleared" => op.quiet
  /\ op.at \in Working => mem.unsaved
  /\ op.at \in Backing /\ op.kind \in {"load", "mutate", "sync"} => mem.enabled = "on"

(* The write in progress: what it changes, and how much of it is visible.   *)
IoInv ==
  /\ io.at # "none" <=> op.at \in Writing
  /\ io.at = "none" => io = NoWrite
  /\ io.at \in {"rename", "resync"} => seen = io.old
  /\ io.at \in {"sync", "restore", "ok"} => seen = io.new
  /\ io.at = "err" => seen \in {io.old, io.new}
  /\ io.at = "ok" => kept = seen
  /\ op.at \in {"admitted", "marked"} => io.new = [io.old EXCEPT !.marker = TRUE]
  /\ op.at = "receipt" => io.new = [io.old EXCEPT !.receipt = io.new.receipt]
  /\ op.at = "commit" => io.new = [io.old EXCEPT !.policy = op.choice]

(* Receipts are true, also in a directory that may come back.  A version    *)
(* that follows the one read ahead of the upload is the upload's own.       *)
ReceiptInv ==
  /\ \A d \in {seen, kept, io.old, io.new} : d.receipt # 0 => d.receipt \in server.acked
  /\ op.at = "upload" => op.before <= server.version
  /\ op.at = "after" => op.before < server.version
  /\ op.at = "after" /\ Confirmed => server.version \in server.acked

(* The choice in memory, in the file and in a commit under way.             *)
ChoiceInv ==
  /\ hist.ack # "none" => op.at # "commit"
  /\ op.kind # "down" /\ op.at # "commit" /\ ~mem.unknown =>
       mem.enabled = seen.policy /\ (io.at # "none" => io.old.policy = seen.policy)
  /\ op.at = "commit" /\ op.kind = "load" => mem.enabled = op.choice
  /\ op.at = "commit" /\ op.kind = "set" => ~mem.unknown /\ io.old.policy = mem.enabled
  /\ AcknowledgedChoiceHolds
  /\ hist.ack # "none" /\ io.at # "none" => io.old.policy = hist.ack

(* Unsaved changes the SDK does not flag have a durable marker, or, until   *)
(* the process ends, the flag in memory.                                    *)
MarkerStands == seen.marker /\ kept.marker /\ (io.at # "none" => io.old.marker)

KnownInv ==
  /\ ~saved /\ ~dirty /\ hist.cover = "marked" => MarkerStands
  /\ ~saved /\ ~dirty /\ hist.cover = "memory" => mem.unsaved
  /\ hist.cover = "memory" => op.kind \notin {"down", "load"}
  /\ op.at = "work" /\ hist.cover = "marked" => seen.marker /\ kept.marker
  /\ op.quiet => saved \/ hist.cover = "lost"
  /\ op.at \in Uploaded => saved
  /\ op.at = "removed" => ~seen.marker
  /\ op.at = "commit" /\ op.kind = "set" /\ op.choice = "on" /\ mem.enabled = "off" =>
       saved /\ ~mem.unsaved /\ ~seen.marker /\ ~kept.marker /\ ~io.old.marker

(* A failure that was shown is shown until an upload, also while a manual   *)
(* backup or a setter is at work.                                           *)
ShownInv ==
  (/\ op.kind \in {"idle", "manual", "set"} /\ mem.enabled = "on" /\ ~mem.unknown
   /\ hist.cover # "lost" /\ ~hist.skipped
   /\ ~saved)
  => mem.failed

(* What the status call still has to read will tell of a change that was    *)
(* unsaved from its first read on.                                          *)
InfoInv ==
  LET Hiding(at) == info.at = at /\ ~info.required /\ ~info.clean /\ hist.cover # "lost"
      Marked1 == seen.marker /\ (io.at # "none" => io.old.marker) IN
  /\ info.at = "none" => info = Quiescent
  /\ info.at # "none" /\ saved => info.clean
  /\ op.kind = "down" => info = Quiescent
  /\ Hiding("unsaved") => mem.unsaved \/ Marked1
  /\ Hiding("marker") => Marked1
  /\ ~Hiding("report")

PolicyInv ==
  TypeOK /\ PlaceInv /\ IoInv /\ ReceiptInv /\ ChoiceInv /\ KnownInv /\ ShownInv /\ InfoInv

-----------------------------------------------------------------------------
(* Types *)

WriteType ==
  [at : {"none", "rename", "sync", "restore", "resync", "ok", "err"},
   old : Directory, new : Directory]
MemType == [enabled : Choice, failed : BOOLEAN, unknown : BOOLEAN, unsaved : BOOLEAN]
OpType == [kind : Kinds, at : Places, quiet : BOOLEAN, choice : Choice, before : Version]
ServerType == [version : Version, acked : SUBSET Version]
InfoType == [at : {"none", "unsaved", "marker", "report"}, required : BOOLEAN, clean : BOOLEAN]
HistType ==
  [cover : {"marked", "memory", "lost"}, ack : Choice \cup {"none"}, skipped : BOOLEAN]

LEMMA EmptyTyped == Empty \in Directory /\ NoWrite \in WriteType
BY MaxVersionAssumption DEF Empty, Directory, NoWrite, WriteType, Version

LEMMA PlacesTyped ==
  ASSUME NEW kind \in Kinds, NEW at \in Places
  PROVE  At(kind, at) \in OpType
BY MaxVersionAssumption DEF At, OpType, Choice, Version

LEMMA IdleTyped == Idle \in OpType /\ Down \in OpType
BY PlacesTyped DEF Idle, Down, Kinds, Places

LEMMA FreshTyped == \A choice \in Choice : Fresh(choice) \in MemType
BY DEF Fresh, MemType

LEMMA DirectoryTyped ==
  ASSUME NEW d \in Directory
  PROVE  /\ \A marker \in BOOLEAN : [d EXCEPT !.marker = marker] \in Directory
         /\ \A policy \in Choice : [d EXCEPT !.policy = policy] \in Directory
         /\ \A receipt \in Version : [d EXCEPT !.receipt = receipt] \in Directory
         /\ d.marker \in BOOLEAN /\ d.policy \in Choice \cup {"absent"} /\ d.receipt \in Version
BY DEF Directory

LEMMA WriteTyped ==
  ASSUME TypeOK, NEW d, Write(d)
  PROVE  d \in Directory => io' \in WriteType
BY DEF TypeOK, Write, WriteType

LEMMA ObserveTyped ==
  ASSUME TypeOK, Observe, saved' \in BOOLEAN
  PROVE  info' \in InfoType
BY DEF TypeOK, Observe, Quiescent, InfoType

-----------------------------------------------------------------------------
(* Every step keeps the invariant: one lemma per action, in the order of     *)
(* the module.                                                              *)

(* One effect of write_atomic: what is visible stays old or new.            *)
LEMMA FileStepKeeps ==
  ASSUME PolicyInv, FileStep, Observe
  PROVE  PolicyInv'
<1> USE DEF PolicyInv
<1> DEFINE At1 == {"rename", "sync", "restore", "resync", "ok", "err"}
<1>1. UNCHANGED <<mem, op, server, saved, dirty, hist>>
      BY DEF FileStep, wallet
<1>2. PICK at \in At1 : io' = [io EXCEPT !.at = at]
      BY DEF FileStep, Rename, RenameFails, Sync, SyncFails, Restore, RestoreFails, Resync
<1>3. /\ io.at \in At1 /\ io'.at = at /\ io'.old = io.old /\ io'.new = io.new
      /\ io.old \in Directory /\ io.new \in Directory
  <2>1. io.at \in At1
        BY DEF FileStep, Rename, RenameFails, Sync, SyncFails, Restore, RestoreFails, Resync
  <2> QED BY <1>2, <2>1 DEF TypeOK
<1>4. /\ seen \in {io.old, io.new} /\ seen' \in {io.old, io.new}
      /\ kept' \in {kept, io.old, io.new}
  <2>1. seen \in {io.old, io.new}
        BY <1>3 DEF IoInv
  <2> QED BY <2>1
             DEF TypeOK, IoInv, files, FileStep, Rename, RenameFails, Sync, SyncFails,
                 Restore, RestoreFails, Resync
<1>5. TypeOK'
  <2>1. io' \in WriteType
        BY <1>2 DEF TypeOK, WriteType
  <2>2. info' \in InfoType
        BY <1>1, ObserveTyped DEF TypeOK
  <2> QED BY <1>1, <1>3, <1>4, <2>1, <2>2 DEF TypeOK, WriteType, InfoType
<1>6. PlaceInv'
      BY <1>1 DEF PlaceInv
<1>7. IoInv'
      BY <1>3
         DEF TypeOK, IoInv, files, FileStep, Rename, RenameFails, Sync, SyncFails, Restore,
             RestoreFails, Resync
<1>8. io.new.marker = io.old.marker \/ io.new.marker
      BY <1>3 DEF Directory, IoInv, Writing
<1>9. op.at # "commit" => io.new.policy = io.old.policy
      BY <1>3 DEF Directory, IoInv, Writing
<1>10. ReceiptInv'
      BY <1>1, <1>3, <1>4 DEF ReceiptInv, Confirmed
<1>11. ChoiceInv'
      BY <1>1, <1>3, <1>4, <1>9 DEF ChoiceInv, AcknowledgedChoiceHolds
<1>12. KnownInv'
  <2>1. io.at # "none" /\ op.at \in Writing
        BY <1>3 DEF IoInv
  <2>2. op.at = "commit" => io.new.marker = io.old.marker
        BY <1>3 DEF Directory, IoInv
  <2>3. ~saved /\ ~dirty /\ hist.cover = "marked" => MarkerStands'
        BY <1>3, <1>4, <1>8 DEF KnownInv, MarkerStands
  <2> QED BY <1>1, <1>3, <1>4, <2>1, <2>2, <2>3 DEF KnownInv, Writing
<1>13. ShownInv'
      BY <1>1 DEF ShownInv
<1>14. InfoInv'
      BY <1>1, <1>3, <1>4, <1>8 DEF TypeOK, Observe, Quiescent, InfoInv
<1> QED BY <1>5, <1>6, <1>7, <1>10, <1>11, <1>12, <1>13, <1>14

(* Startup: load, commit_enabled and catch_up.                              *)
LEMMA LoadKeeps ==
  ASSUME PolicyInv, NEW initial \in Choice, Load(initial), Observe
  PROVE  PolicyInv'
<1> USE DEF PolicyInv
<1>1. CASE seen.policy = "absent"
  <2>1. TypeOK'
    <3>1. (io \in WriteType)'
          BY DEF Directory, TypeOK, Write, Load, WriteType
    <3>2. (mem \in MemType)'
          BY <1>1, FreshTyped DEF Load
    <3>3. (op \in OpType)'
      <4>1. op' = [At("load", "commit") EXCEPT !.choice = initial]
            BY <1>1 DEF Load
      <4>2. At("load", "commit") \in OpType
            BY PlacesTyped DEF Kinds, Places
      <4> QED BY <4>1, <4>2 DEF OpType
    <3>4. (info \in InfoType)'
          BY ObserveTyped DEF wallet, TypeOK, Load
    <3> QED BY <1>1, <3>1, <3>2, <3>3, <3>4
               DEF TypeOK, WriteType, MemType, OpType, ServerType, InfoType, HistType,
                   files, wallet, Fresh, At, Down, Write, Load
  <2>2. PlaceInv'
        BY DEF At, Load, Backing, Working, PlaceInv
  <2>3. IoInv'
        BY <1>1 DEF files, At, Write, Load, Writing, IoInv
  <2>4. ReceiptInv'
        BY DEF TypeOK, files, wallet, Directory, At, Write, Load, ReceiptInv
  <2>5. ChoiceInv'
        BY <1>1 DEF TypeOK, Choice, Fresh, At, Load, AcknowledgedChoiceHolds, ChoiceInv
  <2>6. KnownInv'
        BY DEF files, wallet, At, Down, Write, Load, Uploaded, MarkerStands, KnownInv
  <2>7. ShownInv'
        BY DEF At, Load, ShownInv
  <2>8. InfoInv'
        BY DEF At, Down, Quiescent, Load, Observe, InfoInv
  <2> QED BY <2>1, <2>2, <2>3, <2>4, <2>5, <2>6, <2>7, <2>8
<1>2. CASE seen.policy # "absent"
  <2>1. TypeOK'
    <3>1. (io \in WriteType)'
          BY <1>2 DEF TypeOK, Load, WriteType
    <3>2. (mem \in MemType)'
          BY FreshTyped DEF Load, TypeOK, Directory
    <3>3. (op \in OpType)'
          BY <1>2, PlacesTyped DEF Kinds, Places, Load
    <3>4. (info \in InfoType)'
          BY ObserveTyped DEF wallet, TypeOK, Load
    <3> QED BY <1>2, <3>1, <3>2, <3>3, <3>4
               DEF TypeOK, WriteType, MemType, OpType, ServerType, InfoType, HistType,
                   files, wallet, Fresh, At, Down, Write, Load
  <2>2. PlaceInv'
        BY DEF At, Load, Backing, Working, PlaceInv
  <2>3. IoInv'
        BY <1>2 DEF At, Down, Load, Writing, IoInv
  <2>4. ReceiptInv'
        BY <1>2 DEF files, wallet, At, Load, ReceiptInv
  <2>5. ChoiceInv'
        BY <1>2
           DEF files, Fresh, At, Down, Load, AcknowledgedChoiceHolds, Writing, IoInv,
               ChoiceInv
  <2>6. KnownInv'
        BY <1>2 DEF files, wallet, At, Down, Load, Uploaded, MarkerStands, KnownInv
  <2>7. ShownInv'
        BY DEF At, Load, ShownInv
  <2>8. InfoInv'
        BY DEF At, Down, Quiescent, Load, Observe, InfoInv
  <2> QED BY <2>1, <2>2, <2>3, <2>4, <2>5, <2>6, <2>7, <2>8
<1> QED BY <1>1, <1>2 DEF Load

LEMMA LoadSavedKeeps ==
  ASSUME PolicyInv, LoadSaved, Observe
  PROVE  PolicyInv'
<1> USE DEF PolicyInv
<1>1. TypeOK'
  <2>1. (io \in WriteType)'
        BY MaxVersionAssumption
           DEF Version, Directory, Empty, NoWrite, Wrote, LoadSaved, WriteType
  <2>2. (op \in OpType)'
        BY DEF Places, TypeOK, Goto, LoadSaved, OpType
  <2>3. (info \in InfoType)'
        BY ObserveTyped DEF wallet, TypeOK, LoadSaved
  <2> QED BY <2>1, <2>2, <2>3
             DEF TypeOK, WriteType, MemType, OpType, ServerType, InfoType, HistType, files,
                 wallet, Empty, NoWrite, Wrote, Goto, LoadSaved
<1>2. PlaceInv'
      BY DEF Goto, LoadSaved, Backing, Working, PlaceInv
<1>3. IoInv'
      BY DEF NoWrite, Wrote, Goto, LoadSaved, Writing, IoInv
<1>4. ReceiptInv'
      BY DEF files, wallet, Empty, NoWrite, Wrote, Goto, LoadSaved, ReceiptInv
<1>5. ChoiceInv'
      BY DEF TypeOK, files, Directory, NoWrite, Wrote, Goto, LoadSaved,
             AcknowledgedChoiceHolds, IoInv, ChoiceInv
<1>6. KnownInv'
      BY DEF files, wallet, NoWrite, Wrote, Goto, LoadSaved, Uploaded, MarkerStands, KnownInv
<1>7. ShownInv'
      BY DEF Goto, LoadSaved, ShownInv
<1>8. InfoInv'
      BY DEF TypeOK, files, wallet, At, Down, NoWrite, Wrote, Goto, LoadSaved, Observe, InfoInv
<1> QED BY <1>1, <1>2, <1>3, <1>4, <1>5, <1>6, <1>7, <1>8

LEMMA LoadFailsKeeps ==
  ASSUME PolicyInv, LoadFails, Observe
  PROVE  PolicyInv'
<1> USE DEF PolicyInv
<1>1. TypeOK'
  <2>1. (io \in WriteType)'
        BY MaxVersionAssumption
           DEF Version, Directory, Empty, NoWrite, Failed, LoadFails, WriteType
  <2>2. (mem \in MemType)'
        BY DEF Choice, Fresh, Abort, LoadFails, MemType
  <2>3. (op \in OpType)'
        BY MaxVersionAssumption
           DEF Choice, Version, Kinds, Places, At, Down, Abort, LoadFails, OpType
  <2>4. (info \in InfoType)'
        BY ObserveTyped DEF wallet, TypeOK, LoadFails
  <2> QED BY <2>1, <2>2, <2>3, <2>4
             DEF TypeOK, WriteType, MemType, OpType, ServerType, InfoType, HistType, files,
                 wallet, Fresh, At, Down, Empty, NoWrite, Failed, Abort, LoadFails
<1>2. PlaceInv'
      BY DEF At, Down, Abort, LoadFails, Working, PlaceInv
<1>3. IoInv'
      BY DEF At, Down, NoWrite, Failed, Abort, LoadFails, Writing, IoInv
<1>4. ReceiptInv'
      BY DEF files, wallet, At, Down, Empty, NoWrite, Failed, Abort, LoadFails, ReceiptInv
<1>5. ChoiceInv'
      BY DEF At, Down, Failed, Abort, LoadFails, AcknowledgedChoiceHolds, ChoiceInv
<1>6. KnownInv'
      BY DEF files, wallet, At, Down, NoWrite, Failed, Abort, LoadFails, Uploaded,
             MarkerStands, KnownInv
<1>7. ShownInv'
      BY DEF Fresh, Abort, LoadFails, ShownInv
<1>8. InfoInv'
      BY DEF Quiescent, Abort, LoadFails, Observe, InfoInv
<1> QED BY <1>1, <1>2, <1>3, <1>4, <1>5, <1>6, <1>7, <1>8

LEMMA StartupNeedsNothingKeeps ==
  ASSUME PolicyInv, StartupNeedsNothing, Observe
  PROVE  PolicyInv'
<1> USE DEF PolicyInv
<1>1. TypeOK'
  <2>1. (op \in OpType)'
        BY MaxVersionAssumption
           DEF Choice, Version, Kinds, Places, At, Idle, Finish, StartupNeedsNothing,
               OpType
  <2>2. (info \in InfoType)'
        BY ObserveTyped DEF wallet, TypeOK, StartupNeedsNothing
  <2> QED BY <2>1, <2>2
             DEF TypeOK, WriteType, MemType, OpType, ServerType, InfoType, HistType, files,
                 wallet, At, Idle, Pending, Here, Finish, NeedsCatchUp, StartupNeedsNothing
<1>2. PlaceInv'
      BY DEF At, Idle, Finish, StartupNeedsNothing, Working, PlaceInv
<1>3. IoInv'
      BY DEF At, Idle, Here, Finish, StartupNeedsNothing, Writing, IoInv
<1>4. ReceiptInv'
      BY DEF files, wallet, At, Idle, Finish, StartupNeedsNothing, ReceiptInv
<1>5. ChoiceInv'
      BY DEF files, At, Idle, Down, Here, Finish, StartupNeedsNothing,
             AcknowledgedChoiceHolds, PlaceInv, ChoiceInv
<1>6. KnownInv'
      BY DEF files, wallet, At, Idle, Finish, StartupNeedsNothing, Uploaded, MarkerStands,
             KnownInv
<1>7. ShownInv'
      BY DEF TypeOK, wallet, Pending, NeedsCatchUp, StartupNeedsNothing, MarkerStands,
             KnownInv, ShownInv
<1>8. InfoInv'
      BY DEF TypeOK, files, wallet, At, Idle, Down, Finish, StartupNeedsNothing, Observe,
             InfoInv
<1> QED BY <1>1, <1>2, <1>3, <1>4, <1>5, <1>6, <1>7, <1>8

LEMMA StartupCatchesUpKeeps ==
  ASSUME PolicyInv, StartupCatchesUp, Observe
  PROVE  PolicyInv'
<1> USE DEF PolicyInv
<1>1. TypeOK'
  <2>1. (io \in WriteType)'
        BY DEF Directory, TypeOK, Write, WriteMarker, BeginBackup, StartupCatchesUp, WriteType
  <2>2. (op \in OpType)'
        BY DEF Places, TypeOK, Goto, BeginBackup, StartupCatchesUp, OpType
  <2>3. (info \in InfoType)'
        BY ObserveTyped DEF wallet, TypeOK, StartupCatchesUp
  <2> QED BY <2>1, <2>2, <2>3
             DEF TypeOK, WriteType, MemType, OpType, ServerType, InfoType, HistType, files,
                 wallet, Pending, Write, WriteMarker, Here, Goto, BeginBackup,
                 NeedsCatchUp, StartupCatchesUp
<1>2. PlaceInv'
      BY DEF At, Idle, Down, Here, Goto, BeginBackup, NeedsCatchUp, StartupCatchesUp,
             Backing, Working, PlaceInv
<1>3. IoInv'
      BY DEF files, Write, WriteMarker, Goto, BeginBackup, StartupCatchesUp, Writing, IoInv
<1>4. ReceiptInv'
      BY DEF files, wallet, Write, WriteMarker, Goto, BeginBackup, StartupCatchesUp, ReceiptInv
<1>5. ChoiceInv'
      BY DEF files, At, Down, Write, WriteMarker, Here, Goto, BeginBackup,
             StartupCatchesUp, AcknowledgedChoiceHolds, ChoiceInv
<1>6. KnownInv'
      BY DEF files, wallet, Write, WriteMarker, Goto, BeginBackup, StartupCatchesUp,
             Uploaded, MarkerStands, KnownInv
<1>7. ShownInv'
      BY DEF wallet, Goto, BeginBackup, StartupCatchesUp, ShownInv
<1>8. InfoInv'
      BY DEF TypeOK, files, wallet, At, Down, Write, WriteMarker, Goto, BeginBackup,
             StartupCatchesUp, Observe, InfoInv
<1> QED BY <1>1, <1>2, <1>3, <1>4, <1>5, <1>6, <1>7, <1>8

LEMMA StartupFailsKeeps ==
  ASSUME PolicyInv, StartupFails, Observe
  PROVE  PolicyInv'
<1> USE DEF PolicyInv
<1>1. TypeOK'
  <2>1. (mem \in MemType)'
        BY DEF Choice, Fresh, Abort, StartupFails, MemType
  <2>2. (op \in OpType)'
        BY MaxVersionAssumption
           DEF Choice, Version, Kinds, Places, At, Down, Abort, StartupFails, OpType
  <2>3. (info \in InfoType)'
        BY ObserveTyped DEF wallet, TypeOK, StartupFails
  <2> QED BY <2>1, <2>2, <2>3
             DEF TypeOK, WriteType, MemType, OpType, ServerType, InfoType, HistType, files,
                 wallet, Fresh, At, Down, Here, Abort, StartupFails
<1>2. PlaceInv'
      BY DEF At, Down, Abort, StartupFails, Working, PlaceInv
<1>3. IoInv'
      BY DEF At, Down, Here, Abort, StartupFails, Writing, IoInv
<1>4. ReceiptInv'
      BY DEF files, wallet, At, Down, Abort, StartupFails, ReceiptInv
<1>5. ChoiceInv'
      BY DEF files, At, Down, Abort, StartupFails, AcknowledgedChoiceHolds, ChoiceInv
<1>6. KnownInv'
      BY DEF TypeOK, files, wallet, Kinds, At, Idle, Down, Here, Abort, StartupFails,
             Backing, Uploaded, Working, PlaceInv, MarkerStands, KnownInv
<1>7. ShownInv'
      BY DEF Fresh, Abort, StartupFails, ShownInv
<1>8. InfoInv'
      BY DEF Quiescent, Abort, StartupFails, Observe, InfoInv
<1> QED BY <1>1, <1>2, <1>3, <1>4, <1>5, <1>6, <1>7, <1>8

(* An error of a backup, at whichever place; five actions end in it.        *)
LEMMA BackupFailsKeeps ==
  ASSUME PolicyInv, op.at \in Backing, NEW failed \in BOOLEAN, mem.failed => failed,
         BackupFails(failed), io' = NoWrite, UNCHANGED <<files, wallet, hist>>, Observe
  PROVE  PolicyInv'
<1> USE DEF PolicyInv
<1>1. CASE op.kind = "load"
  <2>1. TypeOK'
    <3>1. (io \in WriteType)'
          BY MaxVersionAssumption DEF Version, Directory, Empty, NoWrite, WriteType
    <3>2. (mem \in MemType)'
          BY <1>1, FreshTyped DEF Choice, Abort, BackupFails
    <3>3. (op \in OpType)'
          BY <1>1, IdleTyped DEF BackupFails, Abort
    <3>4. (info \in InfoType)'
          BY DEF TypeOK, Quiescent, Observe, InfoType
    <3> QED BY <1>1, <3>1, <3>2, <3>3, <3>4
               DEF TypeOK, WriteType, MemType, OpType, ServerType, InfoType, HistType,
                   files, wallet, Fresh, At, Idle, Down, Empty, NoWrite, Finish, Abort,
                   BackupFails
  <2>2. PlaceInv'
        BY <1>1 DEF At, Down, Abort, BackupFails, Working, PlaceInv
  <2>3. IoInv'
        BY <1>1 DEF At, Down, NoWrite, Abort, BackupFails, Writing, IoInv
  <2>4. ReceiptInv'
        BY <1>1 DEF files, wallet, At, Down, Empty, NoWrite, Abort, BackupFails, ReceiptInv
  <2>5. ChoiceInv'
        BY <1>1
           DEF files, At, Down, NoWrite, Abort, BackupFails, AcknowledgedChoiceHolds,
               ChoiceInv
  <2>6. KnownInv'
        BY <1>1
           DEF files, wallet, At, Down, NoWrite, Abort, BackupFails, Uploaded,
               MarkerStands, KnownInv
  <2>7. ShownInv'
        BY <1>1 DEF Fresh, Abort, BackupFails, ShownInv
  <2>8. InfoInv'
        BY <1>1 DEF Quiescent, Abort, BackupFails, Observe, InfoInv
  <2> QED BY <2>1, <2>2, <2>3, <2>4, <2>5, <2>6, <2>7, <2>8
<1>2. CASE op.kind # "load"
  <2>1. TypeOK'
    <3>1. (io \in WriteType)'
          BY MaxVersionAssumption DEF Version, Directory, Empty, NoWrite, WriteType
    <3>2. (mem \in MemType)'
          BY <1>2
             DEF files, Version, Kinds, Places, TypeOK, Fresh, At, Idle, Down, Empty,
                 NoWrite, Finish, Abort, BackupFails, MemType
    <3>3. (op \in OpType)'
          BY <1>2, IdleTyped DEF BackupFails, Finish
    <3>4. (info \in InfoType)'
          BY DEF TypeOK, Quiescent, Observe, InfoType
    <3> QED BY <1>2, <3>1, <3>2, <3>3, <3>4
               DEF TypeOK, WriteType, MemType, OpType, ServerType, InfoType, HistType,
                   files, wallet, Fresh, At, Idle, Down, Empty, NoWrite, Finish, Abort,
                   BackupFails
  <2>2. PlaceInv'
        BY <1>2 DEF At, Idle, Finish, BackupFails, Working, PlaceInv
  <2>3. IoInv'
        BY <1>2 DEF At, Idle, NoWrite, Finish, BackupFails, Writing, IoInv
  <2>4. ReceiptInv'
        BY <1>2 DEF files, wallet, At, Idle, Empty, NoWrite, Finish, BackupFails, ReceiptInv
  <2>5. ChoiceInv'
        BY <1>2
           DEF TypeOK, files, At, Idle, Down, NoWrite, Finish, BackupFails,
               AcknowledgedChoiceHolds, Backing, PlaceInv, ChoiceInv
  <2>6. KnownInv'
        BY <1>2
           DEF TypeOK, files, wallet, At, Idle, NoWrite, Finish, BackupFails, Uploaded,
               MarkerStands, KnownInv
  <2>7. ShownInv'
        BY <1>2
           DEF TypeOK, wallet, Directory, Kinds, At, Down, BackupFails, Backing, PlaceInv,
               MarkerStands, KnownInv, ShownInv
  <2>8. InfoInv'
        BY <1>2
           DEF TypeOK, files, wallet, At, Idle, Down, NoWrite, Finish, BackupFails,
               Observe, InfoInv
  <2> QED BY <2>1, <2>2, <2>3, <2>4, <2>5, <2>6, <2>7, <2>8
<1> QED BY <1>1, <1>2 DEF BackupFails

LEMMA MarkFailsKeeps ==
  ASSUME PolicyInv, MarkFails, Observe
  PROVE  PolicyInv'
BY BackupFailsKeeps DEF PolicyInv, TypeOK, Backing, Failed, MarkFails

LEMMA EffectFailsKeeps ==
  ASSUME PolicyInv, EffectFails, Observe
  PROVE  PolicyInv'
BY BackupFailsKeeps DEF PolicyInv, TypeOK, Backing, Here, IoInv, EffectFails

LEMMA UploadRejectedKeeps ==
  ASSUME PolicyInv, UploadRejected, Observe
  PROVE  PolicyInv'
BY BackupFailsKeeps DEF PolicyInv, Backing, Here, IoInv, UploadRejected

LEMMA NotSuccessorKeeps ==
  ASSUME PolicyInv, NotSuccessor, Observe
  PROVE  PolicyInv'
BY BackupFailsKeeps DEF PolicyInv, TypeOK, Backing, Here, IoInv, NotSuccessor

LEMMA ReceiptFailsKeeps ==
  ASSUME PolicyInv, ReceiptFails, Observe
  PROVE  PolicyInv'
BY BackupFailsKeeps DEF PolicyInv, TypeOK, Backing, Failed, ReceiptFails

(* The places of backup, in order.                                          *)
LEMMA MarkedKeeps ==
  ASSUME PolicyInv, Marked, Observe
  PROVE  PolicyInv'
<1> USE DEF PolicyInv
<1>1. TypeOK'
  <2>1. (io \in WriteType)'
        BY MaxVersionAssumption DEF Version, Directory, Empty, NoWrite, Wrote, Marked, WriteType
  <2>2. (op \in OpType)'
        BY DEF Places, TypeOK, Goto, Marked, OpType
  <2>3. (info \in InfoType)'
        BY ObserveTyped DEF wallet, TypeOK, Marked
  <2> QED BY <2>1, <2>2, <2>3
             DEF TypeOK, WriteType, MemType, OpType, ServerType, InfoType, HistType, files,
                 wallet, Empty, NoWrite, Wrote, Goto, Marked
<1>2. PlaceInv'
      BY DEF At, Idle, Down, Wrote, Goto, Marked, Backing, Working, PlaceInv
<1>3. IoInv'
      BY DEF NoWrite, Wrote, Goto, Marked, Writing, IoInv
<1>4. ReceiptInv'
      BY DEF files, wallet, Empty, NoWrite, Wrote, Goto, Marked, ReceiptInv
<1>5. ChoiceInv'
      BY DEF files, At, Down, NoWrite, Wrote, Goto, Marked, AcknowledgedChoiceHolds, ChoiceInv
<1>6. KnownInv'
      BY DEF files, wallet, NoWrite, Wrote, Goto, Marked, Uploaded, MarkerStands, KnownInv
<1>7. ShownInv'
      BY DEF wallet, Goto, Marked, ShownInv
<1>8. InfoInv'
      BY DEF TypeOK, files, wallet, At, Down, NoWrite, Wrote, Goto, Marked, Observe, InfoInv
<1> QED BY <1>1, <1>2, <1>3, <1>4, <1>5, <1>6, <1>7, <1>8

LEMMA ReadBeforeKeeps ==
  ASSUME PolicyInv, ReadBefore, Observe
  PROVE  PolicyInv'
<1> USE DEF PolicyInv
<1>1. TypeOK'
  <2>1. (op \in OpType)'
        BY DEF Places, TypeOK, ReadBefore, OpType
  <2>2. (info \in InfoType)'
        BY ObserveTyped DEF wallet, TypeOK, ReadBefore
  <2> QED BY <2>1, <2>2
             DEF TypeOK, WriteType, MemType, OpType, ServerType, InfoType, HistType, files,
                 wallet, Here, ReadBefore
<1>2. PlaceInv'
      BY DEF At, Idle, Down, Here, ReadBefore, Backing, Working, PlaceInv
<1>3. IoInv'
      BY DEF Here, ReadBefore, Writing, IoInv
<1>4. ReceiptInv'
      BY DEF TypeOK, files, wallet, Version, ReadBefore, ReceiptInv
<1>5. ChoiceInv'
      BY DEF files, At, Down, Here, ReadBefore, AcknowledgedChoiceHolds, ChoiceInv
<1>6. KnownInv'
      BY DEF files, wallet, ReadBefore, Uploaded, MarkerStands, KnownInv
<1>7. ShownInv'
      BY DEF wallet, ReadBefore, ShownInv
<1>8. InfoInv'
      BY DEF TypeOK, files, Quiescent, ReadBefore, Observe, InfoInv
<1> QED BY <1>1, <1>2, <1>3, <1>4, <1>5, <1>6, <1>7, <1>8

LEMMA UploadKeeps ==
  ASSUME PolicyInv, Upload, Observe
  PROVE  PolicyInv'
<1> USE DEF PolicyInv
<1>1. TypeOK'
  <2>1. (op \in OpType)'
        BY DEF Places, TypeOK, Goto, Upload, OpType
  <2>2. (server \in ServerType)'
        BY MaxVersionAssumption DEF Version, TypeOK, Applied, Upload, ServerType
  <2>3. (saved \in BOOLEAN)'
        BY DEF Applied, Upload
  <2>4. (dirty \in BOOLEAN)'
        BY DEF Upload
  <2>5. (hist \in HistType)'
        BY DEF TypeOK, Applied, Upload, HistType
  <2>6. (info \in InfoType)'
        BY ObserveTyped DEF Applied, Upload
  <2> QED BY <2>1, <2>2, <2>3, <2>4, <2>5, <2>6
             DEF TypeOK, WriteType, MemType, OpType, ServerType, InfoType, HistType, files,
                 wallet, Here, Goto, Applied, Upload
<1>2. PlaceInv'
      BY DEF At, Idle, Down, Here, Goto, Upload, Backing, Working, PlaceInv
<1>3. IoInv'
      BY DEF Here, Goto, Upload, Writing, IoInv
<1>4. ReceiptInv'
      BY DEF TypeOK, files, Version, Here, Goto, Upload, ReceiptInv
<1>5. ChoiceInv'
      BY DEF files, At, Down, Here, Goto, Applied, Upload, AcknowledgedChoiceHolds, ChoiceInv
<1>6. KnownInv'
      BY DEF Goto, Applied, Upload, KnownInv
<1>7. ShownInv'
      BY DEF Applied, Upload, ShownInv
<1>8. InfoInv'
      BY DEF TypeOK, Quiescent, Goto, Applied, Upload, Observe, InfoInv
<1> QED BY <1>1, <1>2, <1>3, <1>4, <1>5, <1>6, <1>7, <1>8

LEMMA UploadUnacknowledgedKeeps ==
  ASSUME PolicyInv, UploadUnacknowledged, Observe
  PROVE  PolicyInv'
<1> USE DEF PolicyInv
<1>1. CASE op.kind = "load"
  <2>1. TypeOK'
    <3>1. (mem \in MemType)'
          BY <1>1, FreshTyped DEF Choice, Abort, BackupFails, UploadUnacknowledged
    <3>2. (op \in OpType)'
          BY <1>1, IdleTyped DEF UploadUnacknowledged, BackupFails, Abort
    <3>3. (server \in ServerType)'
          BY MaxVersionAssumption DEF Version, TypeOK, Applied, UploadUnacknowledged, ServerType
    <3>4. (saved \in BOOLEAN)'
          BY DEF Applied, UploadUnacknowledged
    <3>5. (hist \in HistType)'
          BY DEF TypeOK, Applied, UploadUnacknowledged, HistType
    <3>6. (info \in InfoType)'
          BY ObserveTyped DEF Applied, UploadUnacknowledged
    <3> QED BY <1>1, <3>1, <3>2, <3>3, <3>4, <3>5, <3>6
               DEF TypeOK, WriteType, MemType, OpType, ServerType, InfoType, HistType,
                   files, wallet, Fresh, At, Idle, Down, Here, Finish, Abort, BackupFails,
                   Applied, UploadUnacknowledged
  <2>2. PlaceInv'
        BY <1>1 DEF At, Down, Abort, BackupFails, UploadUnacknowledged, Working, PlaceInv
  <2>3. IoInv'
        BY <1>1 DEF At, Down, Here, Abort, BackupFails, UploadUnacknowledged, Writing, IoInv
  <2>4. ReceiptInv'
        BY <1>1 DEF files, At, Down, Abort, BackupFails, UploadUnacknowledged, ReceiptInv
  <2>5. ChoiceInv'
        BY <1>1
           DEF files, At, Down, Abort, BackupFails, Applied, UploadUnacknowledged,
               AcknowledgedChoiceHolds, ChoiceInv
  <2>6. KnownInv'
        BY <1>1 DEF At, Down, Abort, BackupFails, Applied, UploadUnacknowledged, KnownInv
  <2>7. ShownInv'
        BY <1>1 DEF Fresh, Abort, BackupFails, UploadUnacknowledged, ShownInv
  <2>8. InfoInv'
        BY <1>1 DEF Quiescent, Abort, BackupFails, UploadUnacknowledged, Observe, InfoInv
  <2> QED BY <2>1, <2>2, <2>3, <2>4, <2>5, <2>6, <2>7, <2>8
<1>2. CASE op.kind # "load"
  <2>1. TypeOK'
    <3>1. (mem \in MemType)'
          BY <1>2
             DEF Kinds, Places, TypeOK, Fresh, At, Idle, Down, Here, Finish, Abort,
                 BackupFails, Applied, UploadUnacknowledged, MemType
    <3>2. (op \in OpType)'
          BY <1>2, IdleTyped DEF UploadUnacknowledged, BackupFails, Finish
    <3>3. (server \in ServerType)'
          BY MaxVersionAssumption DEF Version, TypeOK, Applied, UploadUnacknowledged, ServerType
    <3>4. (saved \in BOOLEAN)'
          BY DEF Applied, UploadUnacknowledged
    <3>5. (hist \in HistType)'
          BY DEF TypeOK, Applied, UploadUnacknowledged, HistType
    <3>6. (info \in InfoType)'
          BY ObserveTyped DEF Applied, UploadUnacknowledged
    <3> QED BY <1>2, <3>1, <3>2, <3>3, <3>4, <3>5, <3>6
               DEF TypeOK, WriteType, MemType, OpType, ServerType, InfoType, HistType,
                   files, wallet, Fresh, At, Idle, Down, Here, Finish, Abort, BackupFails,
                   Applied, UploadUnacknowledged
  <2>2. PlaceInv'
        BY <1>2 DEF At, Idle, Finish, BackupFails, UploadUnacknowledged, Working, PlaceInv
  <2>3. IoInv'
        BY <1>2 DEF At, Idle, Here, Finish, BackupFails, UploadUnacknowledged, Writing, IoInv
  <2>4. ReceiptInv'
        BY <1>2 DEF files, At, Idle, Finish, BackupFails, UploadUnacknowledged, ReceiptInv
  <2>5. ChoiceInv'
        BY <1>2
           DEF TypeOK, files, At, Idle, Down, Here, Finish, BackupFails, Applied,
               UploadUnacknowledged, AcknowledgedChoiceHolds, PlaceInv, ChoiceInv
  <2>6. KnownInv'
        BY <1>2 DEF At, Idle, Finish, BackupFails, Applied, UploadUnacknowledged, KnownInv
  <2>7. ShownInv'
        BY <1>2 DEF TypeOK, BackupFails, UploadUnacknowledged, ShownInv
  <2>8. InfoInv'
    <3>1. saved' /\ op' = Idle
          BY <1>2 DEF UploadUnacknowledged, Applied, BackupFails, Finish
    <3> QED BY <3>1 DEF Observe, Quiescent, InfoInv, TypeOK, Down, Idle, At
  <2> QED BY <2>1, <2>2, <2>3, <2>4, <2>5, <2>6, <2>7, <2>8
<1> QED BY <1>1, <1>2 DEF UploadUnacknowledged

LEMMA ReadAfterKeeps ==
  ASSUME PolicyInv, ReadAfter, Observe
  PROVE  PolicyInv'
<1> USE DEF PolicyInv
<1>1. TypeOK'
  <2>1. (io \in WriteType)'
        BY DEF Directory, TypeOK, Write, ReadAfter, WriteType
  <2>2. (op \in OpType)'
        BY DEF Places, TypeOK, Goto, ReadAfter, OpType
  <2>3. (info \in InfoType)'
        BY ObserveTyped DEF wallet, TypeOK, ReadAfter
  <2> QED BY <2>1, <2>2, <2>3
             DEF TypeOK, WriteType, MemType, OpType, ServerType, InfoType, HistType, files,
                 wallet, Write, Here, Goto, Confirmed, ReadAfter
<1>2. PlaceInv'
      BY DEF At, Idle, Down, Here, Goto, ReadAfter, Backing, Working, PlaceInv
<1>3. IoInv'
      BY DEF files, Write, Goto, ReadAfter, Writing, IoInv
<1>4. ReceiptInv'
      BY DEF files, wallet, Write, Here, Goto, ReadAfter, ReceiptInv
<1>5. ChoiceInv'
      BY DEF files, At, Down, Write, Here, Goto, ReadAfter, AcknowledgedChoiceHolds, ChoiceInv
<1>6. KnownInv'
      BY DEF wallet, Here, Goto, ReadAfter, Uploaded, KnownInv
<1>7. ShownInv'
      BY DEF wallet, Goto, ReadAfter, ShownInv
<1>8. InfoInv'
      BY DEF TypeOK, files, wallet, At, Down, Write, Goto, ReadAfter, Observe, InfoInv
<1> QED BY <1>1, <1>2, <1>3, <1>4, <1>5, <1>6, <1>7, <1>8

LEMMA ReceiptWrittenKeeps ==
  ASSUME PolicyInv, ReceiptWritten, Observe
  PROVE  PolicyInv'
<1> USE DEF PolicyInv
<1>1. TypeOK'
  <2>1. (io \in WriteType)'
        BY MaxVersionAssumption
           DEF Version, Directory, Empty, NoWrite, Wrote, ReceiptWritten, WriteType
  <2>2. (op \in OpType)'
        BY DEF Places, TypeOK, Goto, ReceiptWritten, OpType
  <2>3. (info \in InfoType)'
        BY ObserveTyped DEF wallet, TypeOK, ReceiptWritten
  <2> QED BY <2>1, <2>2, <2>3
             DEF TypeOK, WriteType, MemType, OpType, ServerType, InfoType, HistType, files,
                 wallet, Empty, NoWrite, Wrote, Goto, ReceiptWritten
<1>2. PlaceInv'
      BY DEF At, Idle, Down, Wrote, Goto, ReceiptWritten, Backing, Working, PlaceInv
<1>3. IoInv'
      BY DEF NoWrite, Wrote, Goto, ReceiptWritten, Writing, IoInv
<1>4. ReceiptInv'
      BY DEF files, wallet, Empty, NoWrite, Wrote, Goto, ReceiptWritten, ReceiptInv
<1>5. ChoiceInv'
      BY DEF files, At, Down, NoWrite, Wrote, Goto, ReceiptWritten,
             AcknowledgedChoiceHolds, ChoiceInv
<1>6. KnownInv'
      BY DEF wallet, Wrote, Goto, ReceiptWritten, Uploaded, KnownInv
<1>7. ShownInv'
      BY DEF wallet, Goto, ReceiptWritten, ShownInv
<1>8. InfoInv'
      BY DEF TypeOK, files, wallet, At, Down, NoWrite, Wrote, Goto, ReceiptWritten,
             Observe, InfoInv
<1> QED BY <1>1, <1>2, <1>3, <1>4, <1>5, <1>6, <1>7, <1>8

LEMMA RemoveMarkerKeeps ==
  ASSUME PolicyInv, RemoveMarker, Observe
  PROVE  PolicyInv'
<1> USE DEF PolicyInv
<1>1. TypeOK'
  <2>1. (seen \in Directory)'
        BY DEF Directory, TypeOK, Unlink, RemoveMarker
  <2>2. (op \in OpType)'
        BY DEF Places, TypeOK, Goto, RemoveMarker, OpType
  <2>3. (info \in InfoType)'
        BY ObserveTyped DEF wallet, TypeOK, RemoveMarker
  <2> QED BY <2>1, <2>2, <2>3
             DEF TypeOK, WriteType, MemType, OpType, ServerType, InfoType, HistType, files,
                 wallet, Unlink, Here, Goto, RemoveMarker
<1>2. PlaceInv'
      BY DEF At, Idle, Down, Here, Goto, RemoveMarker, Backing, Working, PlaceInv
<1>3. IoInv'
      BY DEF Here, Goto, RemoveMarker, Writing, IoInv
<1>4. ReceiptInv'
      BY DEF wallet, Unlink, Goto, RemoveMarker, ReceiptInv
<1>5. ChoiceInv'
      BY DEF At, Down, Unlink, Here, Goto, RemoveMarker, AcknowledgedChoiceHolds, ChoiceInv
<1>6. KnownInv'
      BY DEF wallet, Unlink, Here, Goto, RemoveMarker, Uploaded, KnownInv
<1>7. ShownInv'
      BY DEF wallet, Goto, RemoveMarker, ShownInv
<1>8. InfoInv'
      BY DEF TypeOK, At, Down, Here, Goto, RemoveMarker, Observe, Uploaded, KnownInv, InfoInv
<1> QED BY <1>1, <1>2, <1>3, <1>4, <1>5, <1>6, <1>7, <1>8

LEMMA BackupDoneKeeps ==
  ASSUME PolicyInv, BackupDone, Observe
  PROVE  PolicyInv'
<1> USE DEF PolicyInv
<1>1. CASE op.kind # "set" \/ mem.unknown
  <2>1. TypeOK'
    <3>1. (kept \in Directory)'
          BY DEF TypeOK, BackupDone
    <3>2. (io \in WriteType)'
          BY <1>1 DEF TypeOK, BackupDone, WriteType
    <3>3. (mem \in MemType)'
          BY DEF TypeOK, Covered, BackupDone, MemType
    <3>4. (op \in OpType)'
          BY <1>1, IdleTyped DEF BackupDone, Finish
    <3>5. (hist \in HistType)'
          BY <1>1 DEF TypeOK, BackupDone, HistType
    <3>6. (info \in InfoType)'
          BY ObserveTyped DEF wallet, TypeOK, BackupDone
    <3> QED BY <1>1, <3>1, <3>2, <3>3, <3>4, <3>5, <3>6
               DEF TypeOK, WriteType, MemType, OpType, ServerType, InfoType, HistType,
                   files, wallet, At, Idle, Write, Here, Goto, Finish, BeginCommit,
                   Covered, BackupDone
  <2>2. PlaceInv'
        BY <1>1 DEF At, Idle, Finish, BackupDone, Working, PlaceInv
  <2>3. IoInv'
        BY <1>1 DEF At, Idle, Here, Finish, BackupDone, Writing, IoInv
  <2>4. ReceiptInv'
        BY <1>1 DEF wallet, At, Idle, Finish, BackupDone, ReceiptInv
  <2>5. ChoiceInv'
        BY <1>1
           DEF At, Idle, Down, Here, Finish, Covered, BackupDone, AcknowledgedChoiceHolds,
               PlaceInv, ChoiceInv
  <2>6. KnownInv'
        BY <1>1 DEF wallet, At, Idle, Here, Finish, BackupDone, Uploaded, KnownInv
  <2>7. ShownInv'
        BY DEF wallet, Here, BackupDone, Uploaded, KnownInv, ShownInv
  <2>8. InfoInv'
        BY <1>1
           DEF TypeOK, At, Idle, Down, Here, Finish, BackupDone, Observe, Uploaded,
               KnownInv, InfoInv
  <2> QED BY <2>1, <2>2, <2>3, <2>4, <2>5, <2>6, <2>7, <2>8
<1>2. CASE op.kind = "set" /\ ~mem.unknown
  <2>1. TypeOK'
    <3>1. (kept \in Directory)'
          BY DEF TypeOK, BackupDone
    <3>2. (io \in WriteType)'
          BY DEF Directory, TypeOK, Write, BeginCommit, BackupDone, WriteType
    <3>3. (mem \in MemType)'
          BY DEF TypeOK, Covered, BackupDone, MemType
    <3>4. (op \in OpType)'
          BY <1>2 DEF Places, TypeOK, Goto, BackupDone, OpType
    <3>5. (hist \in HistType)'
          BY DEF TypeOK, BeginCommit, BackupDone, HistType
    <3>6. (info \in InfoType)'
          BY ObserveTyped DEF wallet, TypeOK, BackupDone
    <3> QED BY <1>2, <3>1, <3>2, <3>3, <3>4, <3>5, <3>6
               DEF TypeOK, WriteType, MemType, OpType, ServerType, InfoType, HistType,
                   files, wallet, At, Idle, Write, Here, Goto, Finish, BeginCommit,
                   Covered, BackupDone
  <2>2. PlaceInv'
        BY <1>2 DEF TypeOK, Goto, BackupDone, Working, PlaceInv
  <2>3. IoInv'
        BY <1>2 DEF TypeOK, Write, Goto, BeginCommit, BackupDone, Writing, IoInv
  <2>4. ReceiptInv'
        BY <1>2 DEF TypeOK, wallet, Directory, Write, Goto, BeginCommit, BackupDone, ReceiptInv
  <2>5. ChoiceInv'
        BY <1>2
           DEF TypeOK, Write, Here, Goto, BeginCommit, Covered, BackupDone,
               AcknowledgedChoiceHolds, ChoiceInv
  <2>6. KnownInv'
        BY <1>2
           DEF TypeOK, wallet, Write, Here, Goto, BeginCommit, Covered, BackupDone,
               Uploaded, KnownInv
  <2>7. ShownInv'
        BY DEF wallet, Here, BackupDone, Uploaded, KnownInv, ShownInv
  <2>8. InfoInv'
        BY <1>2
           DEF TypeOK, At, Down, Here, Goto, BackupDone, Observe, Uploaded, KnownInv,
               InfoInv
  <2> QED BY <2>1, <2>2, <2>3, <2>4, <2>5, <2>6, <2>7, <2>8
<1> QED BY <1>1, <1>2 DEF BackupDone

(* The guards of mutations and syncs: before_mutation to the drop.          *)
LEMMA BeginMutationKeeps ==
  ASSUME PolicyInv, BeginMutation, Observe
  PROVE  PolicyInv'
<1> USE DEF PolicyInv
<1>1. TypeOK'
  <2>1. (io \in WriteType)'
        BY DEF Directory, TypeOK, Write, WriteMarker, BeginMutation, WriteType
  <2>2. (mem \in MemType)'
        BY DEF TypeOK, BeginMutation, MemType
  <2>3. (op \in OpType)'
        BY MaxVersionAssumption DEF Choice, Version, Kinds, Places, At, BeginMutation, OpType
  <2>4. (info \in InfoType)'
        BY ObserveTyped DEF wallet, TypeOK, BeginMutation
  <2> QED BY <2>1, <2>2, <2>3, <2>4
             DEF TypeOK, WriteType, MemType, OpType, ServerType, InfoType, HistType, files,
                 wallet, At, Idle, Write, WriteMarker, BeginMutation
<1>2. PlaceInv'
      BY DEF At, BeginMutation, Backing, Working, PlaceInv
<1>3. IoInv'
      BY DEF files, At, Write, WriteMarker, BeginMutation, Writing, IoInv
<1>4. ReceiptInv'
      BY DEF files, wallet, At, Write, WriteMarker, BeginMutation, ReceiptInv
<1>5. ChoiceInv'
      BY DEF files, At, Idle, Down, Write, WriteMarker, BeginMutation,
             AcknowledgedChoiceHolds, ChoiceInv
<1>6. KnownInv'
      BY DEF files, wallet, At, Write, WriteMarker, BeginMutation, Uploaded, MarkerStands,
             KnownInv
<1>7. ShownInv'
      BY DEF At, BeginMutation, ShownInv
<1>8. InfoInv'
      BY DEF TypeOK, files, wallet, At, Down, Write, WriteMarker, BeginMutation, Observe,
             InfoInv
<1> QED BY <1>1, <1>2, <1>3, <1>4, <1>5, <1>6, <1>7, <1>8

LEMMA BeginSyncKeeps ==
  ASSUME PolicyInv, BeginSync, Observe
  PROVE  PolicyInv'
<1> USE DEF PolicyInv
<1>1. TypeOK'
  <2>1. (io \in WriteType)'
        BY DEF Directory, TypeOK, Write, WriteMarker, BeginSync, WriteType
  <2>2. (mem \in MemType)'
        BY DEF TypeOK, BeginSync, MemType
  <2>3. (op \in OpType)'
    <3>1. PICK viewed \in BOOLEAN :
             op' = [At("sync", "admitted") EXCEPT !.quiet = viewed /\ MayBeQuiet]
          BY DEF BeginSync
    <3>2. op' = [kind |-> "sync", at |-> "admitted", quiet |-> viewed /\ MayBeQuiet,
                 choice |-> "off", before |-> 0]
          BY <3>1 DEF At
    <3>3. (viewed /\ MayBeQuiet) \in BOOLEAN
          OBVIOUS
    <3> QED BY <3>2, <3>3, MaxVersionAssumption DEF OpType, Kinds, Places, Choice, Version
  <2>4. (info \in InfoType)'
        BY ObserveTyped DEF wallet, TypeOK, BeginSync
  <2> QED BY <2>1, <2>2, <2>3, <2>4
             DEF TypeOK, WriteType, MemType, OpType, ServerType, InfoType, HistType, files,
                 wallet, At, Idle, Pending, Write, WriteMarker, MayBeQuiet, BeginSync
<1>2. PlaceInv'
      BY DEF At, BeginSync, Backing, Working, PlaceInv
<1>3. IoInv'
      BY DEF files, At, Write, WriteMarker, BeginSync, Writing, IoInv
<1>4. ReceiptInv'
      BY DEF files, wallet, At, Write, WriteMarker, BeginSync, ReceiptInv
<1>5. ChoiceInv'
      BY DEF files, At, Idle, Down, Write, WriteMarker, BeginSync, AcknowledgedChoiceHolds,
             ChoiceInv
<1>6. KnownInv'
      BY DEF TypeOK, files, wallet, At, Pending, Write, WriteMarker, MayBeQuiet, BeginSync,
             Uploaded, MarkerStands, KnownInv
<1>7. ShownInv'
      BY DEF At, BeginSync, ShownInv
<1>8. InfoInv'
      BY DEF TypeOK, files, wallet, At, Down, Write, WriteMarker, BeginSync, Observe, InfoInv
<1> QED BY <1>1, <1>2, <1>3, <1>4, <1>5, <1>6, <1>7, <1>8

LEMMA AdmittedKeeps ==
  ASSUME PolicyInv, Admitted, Observe
  PROVE  PolicyInv'
<1> USE DEF PolicyInv
<1>1. TypeOK'
  <2>1. (io \in WriteType)'
        BY MaxVersionAssumption
           DEF Version, Directory, Empty, NoWrite, Wrote, Admitted, WriteType
  <2>2. (op \in OpType)'
        BY DEF Places, TypeOK, Goto, Admitted, OpType
  <2>3. (hist \in HistType)'
        BY DEF TypeOK, Admitted, HistType
  <2>4. (info \in InfoType)'
        BY ObserveTyped DEF wallet, TypeOK, Admitted
  <2> QED BY <2>1, <2>2, <2>3, <2>4
             DEF TypeOK, WriteType, MemType, OpType, ServerType, InfoType, HistType, files,
                 wallet, Empty, NoWrite, Wrote, Goto, Admitted
<1>2. PlaceInv'
      BY DEF At, Idle, Down, Wrote, Goto, Admitted, Backing, Working, PlaceInv
<1>3. IoInv'
      BY DEF NoWrite, Wrote, Goto, Admitted, Writing, IoInv
<1>4. ReceiptInv'
      BY DEF files, wallet, Empty, NoWrite, Wrote, Goto, Admitted, ReceiptInv
<1>5. ChoiceInv'
      BY DEF files, At, Down, NoWrite, Wrote, Goto, Admitted, AcknowledgedChoiceHolds, ChoiceInv
<1>6. KnownInv'
      BY DEF TypeOK, files, wallet, Directory, NoWrite, Wrote, Goto, Admitted, Uploaded,
             IoInv, MarkerStands, KnownInv
<1>7. ShownInv'
      BY DEF wallet, Goto, Admitted, ShownInv
<1>8. InfoInv'
      BY DEF TypeOK, files, wallet, At, Down, NoWrite, Wrote, Goto, Admitted, Observe, InfoInv
<1> QED BY <1>1, <1>2, <1>3, <1>4, <1>5, <1>6, <1>7, <1>8

LEMMA AdmittedUnmarkedKeeps ==
  ASSUME PolicyInv, AdmittedUnmarked, Observe
  PROVE  PolicyInv'
<1> USE DEF PolicyInv
<1>1. TypeOK'
  <2>1. (io \in WriteType)'
        BY MaxVersionAssumption
           DEF Version, Directory, Empty, NoWrite, Failed, AdmittedUnmarked, WriteType
  <2>2. (mem \in MemType)'
        BY DEF TypeOK, AdmittedUnmarked, MemType
  <2>3. (op \in OpType)'
        BY DEF Places, TypeOK, Goto, AdmittedUnmarked, OpType
  <2>4. (hist \in HistType)'
        BY DEF TypeOK, AdmittedUnmarked, HistType
  <2>5. (info \in InfoType)'
        BY ObserveTyped DEF wallet, TypeOK, AdmittedUnmarked
  <2> QED BY <2>1, <2>2, <2>3, <2>4, <2>5
             DEF TypeOK, WriteType, MemType, OpType, ServerType, InfoType, HistType, files,
                 wallet, Empty, NoWrite, Failed, Goto, AdmittedUnmarked
<1>2. PlaceInv'
      BY DEF At, Idle, Down, Failed, Goto, AdmittedUnmarked, Backing, Working, PlaceInv
<1>3. IoInv'
      BY DEF NoWrite, Failed, Goto, AdmittedUnmarked, Writing, IoInv
<1>4. ReceiptInv'
      BY DEF files, wallet, Empty, NoWrite, Failed, Goto, AdmittedUnmarked, ReceiptInv
<1>5. ChoiceInv'
      BY DEF files, At, Down, NoWrite, Failed, Goto, AdmittedUnmarked,
             AcknowledgedChoiceHolds, ChoiceInv
<1>6. KnownInv'
      BY DEF TypeOK, wallet, Kinds, At, Idle, Down, Failed, Goto, AdmittedUnmarked,
             Backing, Uploaded, PlaceInv, KnownInv
<1>7. ShownInv'
      BY DEF AdmittedUnmarked, ShownInv
<1>8. InfoInv'
      BY DEF TypeOK, files, wallet, At, Down, NoWrite, Failed, Goto, AdmittedUnmarked,
             Observe, InfoInv
<1> QED BY <1>1, <1>2, <1>3, <1>4, <1>5, <1>6, <1>7, <1>8

LEMMA WorkKeeps ==
  ASSUME PolicyInv, Work, Observe
  PROVE  PolicyInv'
<1> USE DEF PolicyInv
<1>1. TypeOK'
  <2>1. (op \in OpType)'
    <3>1. PICK quiet \in BOOLEAN : op' = [op EXCEPT !.at = "drop", !.quiet = quiet]
          BY DEF TypeOK, OpType, Work
    <3> QED BY <3>1 DEF TypeOK, OpType, Places
  <2>2. (saved \in BOOLEAN)'
        BY DEF Work
  <2>3. (dirty \in BOOLEAN)'
        BY DEF Work
  <2>4. (info \in InfoType)'
        BY ObserveTyped DEF Work
  <2> QED BY <2>1, <2>2, <2>3, <2>4
             DEF TypeOK, WriteType, MemType, OpType, ServerType, InfoType, HistType, files,
                 wallet, Here, Work
<1>2. PlaceInv'
      BY DEF TypeOK, At, Idle, Down, Here, Work, Backing, Working, PlaceInv
<1>3. IoInv'
      BY DEF Here, Work, Writing, IoInv
<1>4. ReceiptInv'
      BY DEF files, Work, ReceiptInv
<1>5. ChoiceInv'
      BY DEF files, At, Down, Here, Work, AcknowledgedChoiceHolds, ChoiceInv
<1>6. KnownInv'
      BY DEF TypeOK, files, Kinds, At, Idle, Here, Work, Backing, Uploaded, PlaceInv,
             MarkerStands, KnownInv
<1>7. ShownInv'
      BY DEF At, Idle, Here, Work, Backing, PlaceInv, ShownInv
<1>8. InfoInv'
      BY DEF TypeOK, files, Quiescent, Work, Observe, InfoInv
<1> QED BY <1>1, <1>2, <1>3, <1>4, <1>5, <1>6, <1>7, <1>8

LEMMA AfterMutationKeeps ==
  ASSUME PolicyInv, op.at \in {"drop", "cleared"}, io.at = "none", AfterMutation,
         UNCHANGED <<files, mem, wallet, hist>>, Observe
  PROVE  PolicyInv'
<1> USE DEF PolicyInv
<1>1. CASE mem.unknown \/ mem.enabled = "off"
  <2>1. TypeOK'
    <3>1. (io \in WriteType)'
          BY <1>1 DEF TypeOK, AfterMutation, WriteType
    <3>2. (op \in OpType)'
          BY <1>1, IdleTyped DEF AfterMutation, Finish
    <3>3. (info \in InfoType)'
          BY DEF TypeOK, Quiescent, Observe, InfoType
    <3> QED BY <1>1, <3>1, <3>2, <3>3
               DEF TypeOK, WriteType, MemType, OpType, ServerType, InfoType, HistType,
                   files, wallet, At, Idle, Write, WriteMarker, Goto, Finish, BeginBackup,
                   AfterMutation
  <2>2. PlaceInv'
        BY <1>1 DEF TypeOK, Kinds, At, Idle, Down, Finish, AfterMutation, Backing, PlaceInv
  <2>3. IoInv'
        BY <1>1 DEF At, Idle, Finish, AfterMutation, Writing, IoInv
  <2>4. ReceiptInv'
        BY <1>1 DEF files, wallet, At, Idle, Finish, AfterMutation, ReceiptInv
  <2>5. ChoiceInv'
        BY <1>1
           DEF files, At, Idle, Down, Finish, AfterMutation, AcknowledgedChoiceHolds,
               PlaceInv, ChoiceInv
  <2>6. KnownInv'
        BY <1>1
           DEF files, wallet, At, Idle, Finish, AfterMutation, Uploaded, MarkerStands,
               KnownInv
  <2>7. ShownInv'
        BY <1>1 DEF ShownInv
  <2>8. InfoInv'
        BY <1>1
           DEF TypeOK, files, wallet, At, Idle, Down, Finish, AfterMutation, Observe,
               InfoInv
  <2> QED BY <2>1, <2>2, <2>3, <2>4, <2>5, <2>6, <2>7, <2>8
<1>2. CASE ~mem.unknown /\ mem.enabled = "on"
  <2>1. TypeOK'
    <3>1. (io \in WriteType)'
          BY <1>2, WriteTyped, DirectoryTyped
             DEF TypeOK, WriteMarker, BeginBackup, AfterMutation
    <3>2. (op \in OpType)'
          BY <1>2 DEF Places, TypeOK, Goto, BeginBackup, AfterMutation, OpType
    <3>3. (info \in InfoType)'
          BY DEF TypeOK, Quiescent, Observe, InfoType
    <3> QED BY <1>2, <3>1, <3>2, <3>3
               DEF TypeOK, WriteType, MemType, OpType, ServerType, InfoType, HistType,
                   files, wallet, At, Idle, Write, WriteMarker, Goto, Finish, BeginBackup,
                   AfterMutation
  <2>2. PlaceInv'
        BY <1>2
           DEF TypeOK, Kinds, At, Idle, Down, Goto, BeginBackup, AfterMutation, Backing,
               PlaceInv
  <2>3. IoInv'
    <3>1. /\ seen' = seen /\ op' = [op EXCEPT !.at = "marked"]
          /\ io' = [at |-> "rename", old |-> seen, new |-> [seen EXCEPT !.marker = TRUE]]
          BY <1>2 DEF AfterMutation, BeginBackup, WriteMarker, Write, Goto, files
    <3>2. io'.at = "rename" /\ io'.old = seen' /\ io'.new = [io'.old EXCEPT !.marker = TRUE]
          BY <3>1
    <3>3. op'.at = "marked"
          BY <3>1
    <3> QED BY <3>2, <3>3 DEF IoInv, Writing
  <2>4. ReceiptInv'
        BY <1>2
           DEF TypeOK, files, wallet, Directory, Write, WriteMarker, Goto, BeginBackup,
               AfterMutation, ReceiptInv
  <2>5. ChoiceInv'
        BY <1>2
           DEF TypeOK, files, At, Down, Write, WriteMarker, Goto, BeginBackup,
               AfterMutation, AcknowledgedChoiceHolds, ChoiceInv
  <2>6. KnownInv'
        BY <1>2
           DEF TypeOK, files, wallet, Write, WriteMarker, Goto, BeginBackup, AfterMutation,
               Uploaded, MarkerStands, KnownInv
  <2>7. ShownInv'
        BY DEF TypeOK, wallet, Goto, BeginBackup, AfterMutation, ShownInv
  <2>8. InfoInv'
        BY <1>2
           DEF TypeOK, files, wallet, At, Down, Write, WriteMarker, Goto, BeginBackup,
               AfterMutation, Observe, InfoInv
  <2> QED BY <2>1, <2>2, <2>3, <2>4, <2>5, <2>6, <2>7, <2>8
<1> QED BY <1>1, <1>2 DEF AfterMutation

LEMMA DropGuardKeeps ==
  ASSUME PolicyInv, DropGuard, Observe
  PROVE  PolicyInv'
BY AfterMutationKeeps DEF Here, DropGuard

LEMMA ClearFailsKeeps ==
  ASSUME PolicyInv, ClearFails, Observe
  PROVE  PolicyInv'
BY AfterMutationKeeps DEF Here, ClearFails

LEMMA DropWhilePanickingKeeps ==
  ASSUME PolicyInv, DropWhilePanicking, Observe
  PROVE  PolicyInv'
<1> USE DEF PolicyInv
<1>1. TypeOK'
  <2>1. (op \in OpType)'
        BY MaxVersionAssumption
           DEF Choice, Version, Kinds, Places, At, Idle, Finish, DropWhilePanicking, OpType
  <2>2. (hist \in HistType)'
        BY DEF TypeOK, DropWhilePanicking, HistType
  <2>3. (info \in InfoType)'
        BY ObserveTyped DEF wallet, TypeOK, DropWhilePanicking
  <2> QED BY <2>1, <2>2, <2>3
             DEF TypeOK, WriteType, MemType, OpType, ServerType, InfoType, HistType, files,
                 wallet, At, Idle, Here, Finish, DropWhilePanicking
<1>2. PlaceInv'
      BY DEF TypeOK, Kinds, At, Idle, Down, Here, Finish, DropWhilePanicking, Backing, PlaceInv
<1>3. IoInv'
      BY DEF At, Idle, Here, Finish, DropWhilePanicking, Writing, IoInv
<1>4. ReceiptInv'
      BY DEF files, wallet, At, Idle, Finish, DropWhilePanicking, ReceiptInv
<1>5. ChoiceInv'
      BY DEF files, At, Idle, Down, Here, Finish, DropWhilePanicking,
             AcknowledgedChoiceHolds, PlaceInv, ChoiceInv
<1>6. KnownInv'
      BY DEF files, wallet, At, Idle, Finish, DropWhilePanicking, Uploaded, MarkerStands,
             KnownInv
<1>7. ShownInv'
      BY DEF DropWhilePanicking, ShownInv
<1>8. InfoInv'
      BY DEF TypeOK, files, wallet, At, Idle, Down, Finish, DropWhilePanicking, Observe, InfoInv
<1> QED BY <1>1, <1>2, <1>3, <1>4, <1>5, <1>6, <1>7, <1>8

LEMMA ClearIntentKeeps ==
  ASSUME PolicyInv, ClearIntent, Observe
  PROVE  PolicyInv'
<1> USE DEF PolicyInv
<1>1. TypeOK'
  <2>1. (seen \in Directory)'
        BY DEF Directory, TypeOK, Unlink, ClearIntent
  <2>2. (op \in OpType)'
        BY DEF Places, TypeOK, Goto, ClearIntent, OpType
  <2>3. (info \in InfoType)'
        BY ObserveTyped DEF wallet, TypeOK, ClearIntent
  <2> QED BY <2>1, <2>2, <2>3
             DEF TypeOK, WriteType, MemType, OpType, ServerType, InfoType, HistType, files,
                 wallet, Unlink, Here, Goto, ClearIntent
<1>2. PlaceInv'
      BY DEF Here, Goto, ClearIntent, Backing, Working, PlaceInv
<1>3. IoInv'
      BY DEF Here, Goto, ClearIntent, Writing, IoInv
<1>4. ReceiptInv'
      BY DEF wallet, Unlink, Goto, ClearIntent, ReceiptInv
<1>5. ChoiceInv'
      BY DEF At, Down, Unlink, Here, Goto, ClearIntent, AcknowledgedChoiceHolds, ChoiceInv
<1>6. KnownInv'
      BY DEF wallet, Goto, ClearIntent, Uploaded, KnownInv
<1>7. ShownInv'
      BY DEF wallet, Goto, ClearIntent, ShownInv
<1>8. InfoInv'
      BY DEF TypeOK, wallet, At, Down, Goto, ClearIntent, Observe, KnownInv, InfoInv
<1> QED BY <1>1, <1>2, <1>3, <1>4, <1>5, <1>6, <1>7, <1>8

LEMMA IntentClearedKeeps ==
  ASSUME PolicyInv, IntentCleared, Observe
  PROVE  PolicyInv'
<1> USE DEF PolicyInv
<1>1. TypeOK'
  <2>1. (kept \in Directory)'
        BY DEF TypeOK, IntentCleared
  <2>2. (mem \in MemType)'
        BY DEF TypeOK, IntentCleared, MemType
  <2>3. (op \in OpType)'
        BY MaxVersionAssumption
           DEF Choice, Version, Kinds, Places, At, Idle, Finish, IntentCleared, OpType
  <2>4. (info \in InfoType)'
        BY ObserveTyped DEF wallet, TypeOK, IntentCleared
  <2> QED BY <2>1, <2>2, <2>3, <2>4
             DEF TypeOK, WriteType, MemType, OpType, ServerType, InfoType, HistType, files,
                 wallet, At, Idle, Here, Finish, IntentCleared
<1>2. PlaceInv'
      BY DEF At, Idle, Finish, IntentCleared, Working, PlaceInv
<1>3. IoInv'
      BY DEF At, Idle, Here, Finish, IntentCleared, Writing, IoInv
<1>4. ReceiptInv'
      BY DEF wallet, At, Idle, Finish, IntentCleared, ReceiptInv
<1>5. ChoiceInv'
      BY DEF At, Idle, Down, Here, Finish, IntentCleared, AcknowledgedChoiceHolds,
             PlaceInv, ChoiceInv
<1>6. KnownInv'
      BY DEF wallet, At, Idle, Here, Finish, IntentCleared, Uploaded, PlaceInv, KnownInv
<1>7. ShownInv'
      BY DEF wallet, Here, IntentCleared, PlaceInv, KnownInv, ShownInv
<1>8. InfoInv'
      BY DEF TypeOK, wallet, At, Idle, Down, Here, Finish, IntentCleared, Observe,
             PlaceInv, KnownInv, InfoInv
<1> QED BY <1>1, <1>2, <1>3, <1>4, <1>5, <1>6, <1>7, <1>8

(* Manual backup and the setter.                                            *)
LEMMA ManualBackupKeeps ==
  ASSUME PolicyInv, ManualBackup, Observe
  PROVE  PolicyInv'
<1> USE DEF PolicyInv
<1>1. TypeOK'
  <2>1. (io \in WriteType)'
        BY DEF Directory, TypeOK, Write, WriteMarker, ManualBackup, WriteType
  <2>2. (op \in OpType)'
        BY MaxVersionAssumption DEF Choice, Version, Kinds, Places, At, ManualBackup, OpType
  <2>3. (info \in InfoType)'
        BY ObserveTyped DEF wallet, TypeOK, ManualBackup
  <2> QED BY <2>1, <2>2, <2>3
             DEF TypeOK, WriteType, MemType, OpType, ServerType, InfoType, HistType, files,
                 wallet, At, Idle, Write, WriteMarker, ManualBackup
<1>2. PlaceInv'
      BY DEF At, ManualBackup, Backing, Working, PlaceInv
<1>3. IoInv'
      BY DEF files, At, Write, WriteMarker, ManualBackup, Writing, IoInv
<1>4. ReceiptInv'
      BY DEF files, wallet, At, Write, WriteMarker, ManualBackup, ReceiptInv
<1>5. ChoiceInv'
      BY DEF files, At, Idle, Down, Write, WriteMarker, ManualBackup,
             AcknowledgedChoiceHolds, ChoiceInv
<1>6. KnownInv'
      BY DEF files, wallet, At, Write, WriteMarker, ManualBackup, Uploaded, MarkerStands,
             KnownInv
<1>7. ShownInv'
      BY DEF wallet, At, Idle, ManualBackup, ShownInv
<1>8. InfoInv'
      BY DEF TypeOK, files, wallet, At, Down, Write, WriteMarker, ManualBackup, Observe, InfoInv
<1> QED BY <1>1, <1>2, <1>3, <1>4, <1>5, <1>6, <1>7, <1>8

LEMMA SetEnabledKeeps ==
  ASSUME PolicyInv, NEW choice \in Choice, SetEnabled(choice), Observe
  PROVE  PolicyInv'
<1> USE DEF PolicyInv
<1>1. CASE CatchesUp(choice)
  <2>1. TypeOK'
    <3>1. (io \in WriteType)'
          BY <1>1, WriteTyped, DirectoryTyped DEF TypeOK, WriteMarker, SetEnabled
    <3>2. (op \in OpType)'
      <4>1. op' = [kind |-> "set", at |-> "marked", quiet |-> FALSE, choice |-> choice, before |-> 0]
            BY <1>1 DEF SetEnabled, At
      <4> QED BY <4>1, MaxVersionAssumption DEF OpType, Kinds, Places, Version
    <3>3. (hist \in HistType)'
          BY <1>1 DEF TypeOK, SetEnabled, HistType
    <3>4. (info \in InfoType)'
          BY ObserveTyped DEF wallet, TypeOK, SetEnabled
    <3> QED BY <1>1, <3>1, <3>2, <3>3, <3>4
               DEF TypeOK, WriteType, MemType, OpType, ServerType, InfoType, HistType,
                   files, wallet, At, Idle, Write, WriteMarker, BeginCommit, CatchesUp,
                   SetEnabled
  <2>2. PlaceInv'
        BY DEF At, SetEnabled, Backing, Working, PlaceInv
  <2>3. IoInv'
        BY <1>1 DEF files, At, Write, WriteMarker, SetEnabled, Writing, IoInv
  <2>4. ReceiptInv'
        BY <1>1
           DEF TypeOK, files, wallet, Directory, At, Write, WriteMarker, SetEnabled,
               ReceiptInv
  <2>5. ChoiceInv'
        BY <1>1
           DEF files, At, Idle, Down, Write, WriteMarker, SetEnabled,
               AcknowledgedChoiceHolds, ChoiceInv
  <2>6. KnownInv'
        BY <1>1
           DEF files, wallet, At, Write, WriteMarker, SetEnabled, Uploaded, MarkerStands,
               KnownInv
  <2>7. ShownInv'
        BY <1>1 DEF wallet, At, Idle, SetEnabled, ShownInv
  <2>8. InfoInv'
        BY <1>1
           DEF TypeOK, files, wallet, At, Down, Write, WriteMarker, SetEnabled, Observe,
               InfoInv
  <2> QED BY <2>1, <2>2, <2>3, <2>4, <2>5, <2>6, <2>7, <2>8
<1>2. CASE ~CatchesUp(choice)
  <2>1. TypeOK'
    <3>1. (io \in WriteType)'
          BY <1>2 DEF Directory, TypeOK, Write, BeginCommit, SetEnabled, WriteType
    <3>2. (op \in OpType)'
      <4>1. op' = [At("set", "commit") EXCEPT !.choice = choice]
            BY <1>2 DEF SetEnabled
      <4>2. At("set", "commit") \in OpType
            BY PlacesTyped DEF Kinds, Places
      <4> QED BY <4>1, <4>2 DEF OpType
    <3>3. (hist \in HistType)'
          BY DEF TypeOK, BeginCommit, SetEnabled, HistType
    <3>4. (info \in InfoType)'
          BY ObserveTyped DEF wallet, TypeOK, SetEnabled
    <3> QED BY <1>2, <3>1, <3>2, <3>3, <3>4
               DEF TypeOK, WriteType, MemType, OpType, ServerType, InfoType, HistType,
                   files, wallet, At, Idle, Write, WriteMarker, BeginCommit, CatchesUp,
                   SetEnabled
  <2>2. PlaceInv'
        BY <1>2 DEF At, SetEnabled, Working, PlaceInv
  <2>3. IoInv'
        BY <1>2 DEF files, At, Write, BeginCommit, SetEnabled, Writing, IoInv
  <2>4. ReceiptInv'
        BY <1>2
           DEF TypeOK, files, wallet, Directory, At, Write, BeginCommit, SetEnabled,
               ReceiptInv
  <2>5. ChoiceInv'
        BY <1>2
           DEF TypeOK, At, Idle, Write, BeginCommit, SetEnabled, AcknowledgedChoiceHolds,
               ChoiceInv
  <2>6. KnownInv'
        BY <1>2
           DEF TypeOK, files, wallet, At, Write, BeginCommit, CatchesUp, SetEnabled,
               Uploaded, MarkerStands, KnownInv
  <2>7. ShownInv'
        BY DEF TypeOK, wallet, At, Idle, BeginCommit, SetEnabled, ShownInv
  <2>8. InfoInv'
        BY <1>2
           DEF TypeOK, files, wallet, At, Down, Write, BeginCommit, SetEnabled, Observe,
               InfoInv
  <2> QED BY <2>1, <2>2, <2>3, <2>4, <2>5, <2>6, <2>7, <2>8
<1> QED BY <1>1, <1>2 DEF SetEnabled

LEMMA CommittedKeeps ==
  ASSUME PolicyInv, Committed, Observe
  PROVE  PolicyInv'
<1> USE DEF PolicyInv
<1>1. TypeOK'
  <2>1. (io \in WriteType)'
        BY MaxVersionAssumption
           DEF Version, Directory, Empty, NoWrite, Wrote, Committed, WriteType
  <2>2. (mem \in MemType)'
        BY DEF TypeOK, Committed, MemType
  <2>3. (op \in OpType)'
        BY MaxVersionAssumption
           DEF Choice, Version, Kinds, Places, At, Idle, Finish, Committed, OpType
  <2>4. (hist \in HistType)'
        BY DEF TypeOK, Committed, HistType
  <2>5. (info \in InfoType)'
        BY ObserveTyped DEF wallet, TypeOK, Committed
  <2> QED BY <2>1, <2>2, <2>3, <2>4, <2>5
             DEF TypeOK, WriteType, MemType, OpType, ServerType, InfoType, HistType, files,
                 wallet, At, Idle, Empty, NoWrite, Wrote, Finish, Committed
<1>2. PlaceInv'
      BY DEF At, Idle, Finish, Committed, Working, PlaceInv
<1>3. IoInv'
      BY DEF At, Idle, NoWrite, Wrote, Finish, Committed, Writing, IoInv
<1>4. ReceiptInv'
      BY DEF files, wallet, At, Idle, Empty, NoWrite, Wrote, Finish, Committed, ReceiptInv
<1>5. ChoiceInv'
      BY DEF TypeOK, files, Directory, At, Idle, NoWrite, Wrote, Finish, Committed,
             AcknowledgedChoiceHolds, IoInv, ChoiceInv
<1>6. KnownInv'
      BY DEF files, wallet, At, Idle, NoWrite, Wrote, Finish, Committed, Uploaded,
             MarkerStands, KnownInv
<1>7. ShownInv'
      BY DEF TypeOK, wallet, Choice, Wrote, Committed, KnownInv, ShownInv
<1>8. InfoInv'
      BY DEF TypeOK, files, wallet, At, Idle, Down, NoWrite, Wrote, Finish, Committed,
             Observe, InfoInv
<1> QED BY <1>1, <1>2, <1>3, <1>4, <1>5, <1>6, <1>7, <1>8

LEMMA CommitFailsKeeps ==
  ASSUME PolicyInv, CommitFails, Observe
  PROVE  PolicyInv'
<1> USE DEF PolicyInv
<1>1. CASE seen.policy # "absent" /\ mem' = [mem EXCEPT !.enabled = seen.policy]
  <2>1. TypeOK'
    <3>1. (io \in WriteType)'
          BY MaxVersionAssumption
             DEF Version, Directory, Empty, NoWrite, Failed, CommitFails, WriteType
    <3>2. (mem \in MemType)'
          BY <1>1 DEF Directory, TypeOK, MemType
    <3>3. (op \in OpType)'
          BY MaxVersionAssumption
             DEF Choice, Version, Kinds, Places, At, Idle, Finish, CommitFails, OpType
    <3>4. (info \in InfoType)'
          BY ObserveTyped DEF wallet, TypeOK, CommitFails
    <3> QED BY <1>1, <3>1, <3>2, <3>3, <3>4
               DEF TypeOK, WriteType, MemType, OpType, ServerType, InfoType, HistType,
                   files, wallet, At, Idle, Empty, NoWrite, Failed, Finish, CommitFails
  <2>2. PlaceInv'
        BY DEF At, Idle, Finish, CommitFails, Working, PlaceInv
  <2>3. IoInv'
        BY DEF At, Idle, NoWrite, Failed, Finish, CommitFails, Writing, IoInv
  <2>4. ReceiptInv'
        BY DEF files, wallet, At, Idle, Empty, NoWrite, Failed, Finish, CommitFails, ReceiptInv
  <2>5. ChoiceInv'
        BY <1>1
           DEF files, At, Idle, NoWrite, Failed, Finish, CommitFails,
               AcknowledgedChoiceHolds, ChoiceInv
  <2>6. KnownInv'
        BY <1>1
           DEF files, wallet, At, Idle, NoWrite, Failed, Finish, CommitFails, Uploaded,
               MarkerStands, KnownInv
  <2>7. ShownInv'
        BY <1>1
           DEF TypeOK, wallet, Choice, Directory, Empty, NoWrite, CommitFails, IoInv,
               ChoiceInv, KnownInv, ShownInv
  <2>8. InfoInv'
        BY DEF TypeOK, files, wallet, At, Idle, Down, NoWrite, Failed, Finish, CommitFails,
               Observe, InfoInv
  <2> QED BY <2>1, <2>2, <2>3, <2>4, <2>5, <2>6, <2>7, <2>8
<1>2. CASE mem' = [mem EXCEPT !.unknown = TRUE, !.failed = TRUE]
  <2>1. TypeOK'
    <3>1. (io \in WriteType)'
          BY MaxVersionAssumption
             DEF Version, Directory, Empty, NoWrite, Failed, CommitFails, WriteType
    <3>2. (mem \in MemType)'
          BY <1>2 DEF TypeOK, MemType
    <3>3. (op \in OpType)'
          BY MaxVersionAssumption
             DEF Choice, Version, Kinds, Places, At, Idle, Finish, CommitFails, OpType
    <3>4. (info \in InfoType)'
          BY ObserveTyped DEF wallet, TypeOK, CommitFails
    <3> QED BY <1>2, <3>1, <3>2, <3>3, <3>4
               DEF TypeOK, WriteType, MemType, OpType, ServerType, InfoType, HistType,
                   files, wallet, At, Idle, Empty, NoWrite, Failed, Finish, CommitFails
  <2>2. PlaceInv'
        BY DEF At, Idle, Finish, CommitFails, Working, PlaceInv
  <2>3. IoInv'
        BY DEF At, Idle, NoWrite, Failed, Finish, CommitFails, Writing, IoInv
  <2>4. ReceiptInv'
        BY DEF files, wallet, At, Idle, Empty, NoWrite, Failed, Finish, CommitFails, ReceiptInv
  <2>5. ChoiceInv'
        BY <1>2 DEF At, Idle, Failed, Finish, CommitFails, AcknowledgedChoiceHolds, ChoiceInv
  <2>6. KnownInv'
        BY <1>2
           DEF files, wallet, At, Idle, NoWrite, Failed, Finish, CommitFails, Uploaded,
               MarkerStands, KnownInv
  <2>7. ShownInv'
        BY <1>2 DEF ShownInv
  <2>8. InfoInv'
        BY DEF TypeOK, files, wallet, At, Idle, Down, NoWrite, Failed, Finish, CommitFails,
               Observe, InfoInv
  <2> QED BY <2>1, <2>2, <2>3, <2>4, <2>5, <2>6, <2>7, <2>8
<1> QED BY <1>1, <1>2 DEF CommitFails

(* Another client of the store, death and power loss.                       *)
LEMMA ForeignUploadKeeps ==
  ASSUME PolicyInv, ForeignUpload, Observe
  PROVE  PolicyInv'
<1> USE DEF PolicyInv
<1>1. TypeOK'
  <2>1. (server \in ServerType)'
        BY MaxVersionAssumption DEF Version, TypeOK, ForeignUpload, ServerType
  <2>2. (info \in InfoType)'
        BY ObserveTyped DEF TypeOK, ForeignUpload
  <2> QED BY <2>1, <2>2
             DEF TypeOK, WriteType, MemType, OpType, ServerType, InfoType, HistType, files,
                 wallet, ForeignUpload
<1>2. PlaceInv'
      BY DEF ForeignUpload, PlaceInv
<1>3. IoInv'
      BY DEF files, ForeignUpload, IoInv
<1>4. ReceiptInv'
      BY DEF TypeOK, files, Version, Confirmed, ForeignUpload, ReceiptInv
<1>5. ChoiceInv'
      BY DEF files, ForeignUpload, AcknowledgedChoiceHolds, ChoiceInv
<1>6. KnownInv'
      BY DEF files, ForeignUpload, MarkerStands, KnownInv
<1>7. ShownInv'
      BY DEF ForeignUpload, ShownInv
<1>8. InfoInv'
      BY DEF TypeOK, files, At, Down, ForeignUpload, Observe, InfoInv
<1> QED BY <1>1, <1>2, <1>3, <1>4, <1>5, <1>6, <1>7, <1>8

LEMMA CrashKeeps ==
  ASSUME PolicyInv, Crash, Observe
  PROVE  PolicyInv'
<1> USE DEF PolicyInv
<1>1. TypeOK'
  <2>1. (io \in WriteType)'
        BY MaxVersionAssumption DEF Version, Directory, Empty, NoWrite, Dies, Crash, WriteType
  <2>2. (mem \in MemType)'
        BY DEF Choice, Fresh, Dies, Crash, MemType
  <2>3. (op \in OpType)'
        BY MaxVersionAssumption
           DEF Choice, Version, Kinds, Places, At, Down, Dies, Crash, OpType
  <2>4. (hist \in HistType)'
        BY DEF TypeOK, Dies, Crash, HistType
  <2>5. (info \in InfoType)'
        BY ObserveTyped DEF wallet, TypeOK, Dies, Crash
  <2> QED BY <2>1, <2>2, <2>3, <2>4, <2>5
             DEF TypeOK, WriteType, MemType, OpType, ServerType, InfoType, HistType, files,
                 wallet, Fresh, At, Down, Empty, NoWrite, Dies, Crash
<1>2. PlaceInv'
      BY DEF At, Down, Dies, Crash, Working, PlaceInv
<1>3. IoInv'
      BY DEF At, Down, NoWrite, Dies, Crash, Writing, IoInv
<1>4. ReceiptInv'
      BY DEF files, wallet, At, Down, Empty, NoWrite, Dies, Crash, ReceiptInv
<1>5. ChoiceInv'
      BY DEF files, At, Down, NoWrite, Dies, Crash, AcknowledgedChoiceHolds, ChoiceInv
<1>6. KnownInv'
      BY DEF files, wallet, At, Down, NoWrite, Dies, Crash, Uploaded, MarkerStands, KnownInv
<1>7. ShownInv'
      BY DEF Fresh, Dies, Crash, ShownInv
<1>8. InfoInv'
      BY DEF Quiescent, Dies, Crash, Observe, InfoInv
<1> QED BY <1>1, <1>2, <1>3, <1>4, <1>5, <1>6, <1>7, <1>8

LEMMA PowerLossKeeps ==
  ASSUME PolicyInv, PowerLoss, Observe
  PROVE  PolicyInv'
<1> USE DEF PolicyInv
<1>1. TypeOK'
  <2>1. (seen \in Directory)'
        BY DEF Directory, TypeOK, PowerLoss
  <2>2. (kept \in Directory)'
        BY DEF Directory, TypeOK, PowerLoss
  <2>3. (io \in WriteType)'
        BY MaxVersionAssumption
           DEF Version, Directory, Empty, NoWrite, Dies, PowerLoss, WriteType
  <2>4. (mem \in MemType)'
        BY DEF Choice, Fresh, Dies, PowerLoss, MemType
  <2>5. (op \in OpType)'
        BY MaxVersionAssumption
           DEF Choice, Version, Kinds, Places, At, Down, Dies, PowerLoss, OpType
  <2>6. (hist \in HistType)'
        BY DEF TypeOK, Dies, PowerLoss, HistType
  <2>7. (info \in InfoType)'
        BY ObserveTyped DEF wallet, TypeOK, Dies, PowerLoss
  <2> QED BY <2>1, <2>2, <2>3, <2>4, <2>5, <2>6, <2>7
             DEF TypeOK, WriteType, MemType, OpType, ServerType, InfoType, HistType, files,
                 wallet, Fresh, At, Down, Empty, NoWrite, Dies, PowerLoss
<1>2. PlaceInv'
      BY DEF At, Down, Dies, PowerLoss, Working, PlaceInv
<1>3. IoInv'
      BY DEF At, Down, NoWrite, Dies, PowerLoss, Writing, IoInv
<1>4. ReceiptInv'
      BY DEF wallet, At, Down, Empty, NoWrite, Dies, PowerLoss, ReceiptInv
<1>5. ChoiceInv'
      BY DEF At, Down, NoWrite, Dies, PowerLoss, AcknowledgedChoiceHolds, ChoiceInv
<1>6. KnownInv'
      BY DEF wallet, At, Down, NoWrite, Dies, PowerLoss, Uploaded, MarkerStands, KnownInv
<1>7. ShownInv'
      BY DEF Fresh, Dies, PowerLoss, ShownInv
<1>8. InfoInv'
      BY DEF Quiescent, Dies, PowerLoss, Observe, InfoInv
<1> QED BY <1>1, <1>2, <1>3, <1>4, <1>5, <1>6, <1>7, <1>8

(* The status call, beside all of it.                                       *)
LEMMA InfoStepKeeps ==
  ASSUME PolicyInv, InfoStep
  PROVE  PolicyInv'
<1> USE DEF PolicyInv
<1>1. TypeOK'
  <2>1. UNCHANGED <<seen, kept, io, mem, op, server, saved, dirty, hist>>
        BY DEF InfoStep, files, wallet
  <2>2. info' \in InfoType
    <3>1. CASE InfoDirty
          BY <3>1 DEF TypeOK, InfoDirty, InfoType
    <3>2. CASE InfoUnsaved
          BY <3>2 DEF TypeOK, InfoUnsaved, InfoType
    <3>3. CASE InfoMarker
          BY <3>3 DEF TypeOK, InfoMarker, InfoType
    <3>4. CASE InfoReports
          BY <3>4 DEF InfoReports, Quiescent, InfoType
    <3> QED BY <3>1, <3>2, <3>3, <3>4 DEF InfoStep
  <2> QED BY <2>1, <2>2 DEF TypeOK, InfoType
<1>2. PlaceInv'
      BY DEF InfoStep, PlaceInv
<1>3. IoInv'
      BY DEF files, InfoStep, IoInv
<1>4. ReceiptInv'
      BY DEF files, wallet, Confirmed, InfoStep, ReceiptInv
<1>5. ChoiceInv'
      BY DEF files, InfoStep, AcknowledgedChoiceHolds, ChoiceInv
<1>6. KnownInv'
      BY DEF files, wallet, InfoStep, MarkerStands, KnownInv
<1>7. ShownInv'
      BY DEF wallet, InfoStep, ShownInv
<1>8. InfoInv'
  <2>1. UNCHANGED <<seen, kept, io, mem, op, saved, dirty, hist>>
        BY DEF InfoStep, files, wallet
  <2>2. CASE InfoDirty
        BY <2>1, <2>2 DEF InfoDirty, InfoInv, TypeOK, KnownInv, MarkerStands, Idle, At
  <2>3. CASE InfoUnsaved
        BY <2>1, <2>3 DEF InfoUnsaved, InfoInv, TypeOK, Quiescent
  <2>4. CASE InfoMarker
        BY <2>1, <2>4 DEF InfoMarker, InfoInv, TypeOK, Directory, Quiescent
  <2>5. CASE InfoReports
        BY <2>5 DEF InfoReports, InfoInv, Quiescent
  <2> QED BY <2>2, <2>3, <2>4, <2>5 DEF InfoStep
<1> QED BY <1>1, <1>2, <1>3, <1>4, <1>5, <1>6, <1>7, <1>8

-----------------------------------------------------------------------------
(* The invariant *)

LEMMA PolicyInit == Init => PolicyInv
<1> SUFFICES ASSUME Init PROVE PolicyInv
    OBVIOUS
<1>1. TypeOK
  <2>1. /\ mem \in MemType /\ io \in WriteType /\ op \in OpType
        /\ seen \in Directory /\ kept \in Directory
        BY EmptyTyped, FreshTyped, IdleTyped DEF Init, Choice
  <2>2. server \in ServerType
        BY MaxVersionAssumption DEF Init, ServerType, Version
  <2>3. info \in InfoType /\ hist \in HistType /\ saved \in BOOLEAN /\ dirty \in BOOLEAN
        BY DEF Init, Quiescent, InfoType, HistType
  <2> QED BY <2>1, <2>2, <2>3
             DEF TypeOK, MemType, WriteType, OpType, ServerType, InfoType, HistType
<1> QED BY <1>1
           DEF Init, PolicyInv, PlaceInv, IoInv, ReceiptInv, ChoiceInv,
               AcknowledgedChoiceHolds, KnownInv, ShownInv, InfoInv, Quiescent, NoWrite,
               Empty, Down, Idle, At, Writing, Working, Backing, Uploaded

LEMMA PolicyStutter ==
  ASSUME PolicyInv, UNCHANGED vars
  PROVE  PolicyInv'
BY DEF PolicyInv, vars, TypeOK, PlaceInv, IoInv, ReceiptInv, ChoiceInv,
       AcknowledgedChoiceHolds, KnownInv, MarkerStands, ShownInv, InfoInv, Confirmed

LEMMA PolicyNext ==
  ASSUME PolicyInv, [Next]_vars
  PROVE  PolicyInv'
<1>1. CASE FileStep /\ Observe
      BY <1>1, FileStepKeeps
<1>2. CASE Startup /\ Observe
      BY <1>2, LoadKeeps, LoadSavedKeeps, LoadFailsKeeps, StartupNeedsNothingKeeps,
         StartupCatchesUpKeeps, StartupFailsKeeps
         DEF Startup
<1>3. CASE Backup /\ Observe
      BY <1>3, MarkedKeeps, MarkFailsKeeps, ReadBeforeKeeps, EffectFailsKeeps, UploadKeeps,
         UploadUnacknowledgedKeeps, UploadRejectedKeeps, ReadAfterKeeps, NotSuccessorKeeps,
         ReceiptWrittenKeeps, ReceiptFailsKeeps, RemoveMarkerKeeps, BackupDoneKeeps
         DEF Backup
<1>4. CASE Mutation /\ Observe
      BY <1>4, BeginMutationKeeps, BeginSyncKeeps, AdmittedKeeps, AdmittedUnmarkedKeeps,
         WorkKeeps, DropGuardKeeps, DropWhilePanickingKeeps, ClearIntentKeeps,
         IntentClearedKeeps, ClearFailsKeeps
         DEF Mutation
<1>5. CASE Setting /\ Observe
      BY <1>5, ManualBackupKeeps, SetEnabledKeeps, CommittedKeeps, CommitFailsKeeps
         DEF Setting
<1>6. CASE (ForeignUpload \/ Crash \/ PowerLoss) /\ Observe
      BY <1>6, ForeignUploadKeeps, CrashKeeps, PowerLossKeeps
<1>7. CASE InfoStep
      BY <1>7, InfoStepKeeps
<1>8. CASE UNCHANGED vars
      BY <1>8, PolicyStutter
<1> QED BY <1>1, <1>2, <1>3, <1>4, <1>5, <1>6, <1>7, <1>8 DEF Next

(* The invariant of the policy holds in every behaviour.                    *)
THEOREM PolicyInvariant == Spec => []PolicyInv
BY PolicyInit, PolicyNext, PTL DEF Spec

-----------------------------------------------------------------------------
(* The properties *)

(* A receipt names an upload of ours that the store acknowledged, and the   *)
(* choice in memory, in the file and in a setter's answer agree, whatever   *)
(* fails, dies or loses power between two effects (write_atomic, load,      *)
(* commit_enabled).                                                         *)
THEOREM SnapshotSafe == Spec => []SnapshotInv
<1>1. PolicyInv => SnapshotInv
  <2> SUFFICES ASSUME PolicyInv PROVE SnapshotInv
      OBVIOUS
  <2>1. TypeOK /\ ReceiptsAreOurs /\ AcknowledgedChoiceHolds
        BY DEF PolicyInv, ReceiptInv, ReceiptsAreOurs, ChoiceInv
  <2>2. ReportedChoiceIsStored
        BY DEF PolicyInv, ChoiceInv, ReportedChoiceIsStored, Idle, At
  <2> QED BY <2>1, <2>2 DEF SnapshotInv
<1> QED BY <1>1, PolicyInvariant, PTL

LEMMA PolicyKnows == PolicyInv => UnsavedIsKnown
BY DEF PolicyInv, TypeOK, KnownInv, MarkerStands, UnsavedIsKnown, Pending

(* No change of the wallet that is missing from the store is forgotten, in  *)
(* this process or after any crash or power loss (before_mutation, backup,  *)
(* clear_unchanged_intent).                                                 *)
THEOREM UnsavedStaysKnown == Spec => []UnsavedIsKnown
BY PolicyKnows, PolicyInvariant, PTL

(* vss_backup_info does not overlook a change between its three reads.      *)
THEOREM InfoIsHonest == Spec => []InfoNeverHides
<1>1. PolicyInv => InfoNeverHides
      BY DEF PolicyInv, InfoInv, InfoNeverHides
<1> QED BY <1>1, PolicyInvariant, PTL

(* An automatic snapshot that did not come about is reported (backup,       *)
(* after_mutation, set_enabled).                                            *)
THEOREM FailuresShow == Spec => []FailureIsShown
<1>1. PolicyInv => FailureIsShown
      BY DEF PolicyInv, ShownInv, FailureIsShown, Idle, At
<1> QED BY <1>1, PolicyInvariant, PTL

LEMMA PolicyOff ==
  ASSUME PolicyInv, hist.ack = "off", Here("upload")
  PROVE  op.kind \in {"manual", "set"}
BY DEF PolicyInv, TypeOK, Kinds, PlaceInv, ChoiceInv, AcknowledgedChoiceHolds, Here,
       Backing, Down, Idle, At

LEMMA OnlySettersAcknowledge ==
  ASSUME TypeOK, [Next]_vars, hist'.ack = "on", hist.ack # "on"
  PROVE  Committed
<1> USE DEF TypeOK
<1>1. CASE FileStep
      BY <1>1 DEF FileStep
<1>2. CASE Startup
      BY <1>2
         DEF Startup, Load, LoadSaved, LoadFails, StartupNeedsNothing, StartupCatchesUp,
             StartupFails
<1>3. CASE Backup
      BY <1>3
         DEF Backup, Applied, BeginCommit, Marked, MarkFails, ReadBefore, EffectFails,
             Upload, UploadUnacknowledged, UploadRejected, ReadAfter, NotSuccessor,
             ReceiptWritten, ReceiptFails, RemoveMarker, BackupDone
<1>4. CASE Mutation
      BY <1>4
         DEF Mutation, BeginMutation, BeginSync, Admitted, AdmittedUnmarked, Work,
             DropGuard, DropWhilePanicking, ClearIntent, IntentCleared, ClearFails
<1>5. CASE Setting
      BY <1>5 DEF Setting, ManualBackup, SetEnabled, BeginCommit, CommitFails
<1>6. CASE ForeignUpload \/ Crash \/ PowerLoss
      BY <1>6 DEF ForeignUpload, Crash, PowerLoss, Dies
<1>7. CASE InfoStep
      BY <1>7 DEF InfoStep
<1>8. CASE UNCHANGED vars
      BY <1>8 DEF vars
<1> QED BY <1>1, <1>2, <1>3, <1>4, <1>5, <1>6, <1>7, <1>8 DEF Next

LEMMA PolicyCatchesUp ==
  ASSUME PolicyInv, [Next]_vars, hist'.ack = "on", hist.ack # "on", mem.enabled = "off"
  PROVE  saved /\ ~mem.unsaved /\ ~kept.marker
<1>1. Committed /\ TypeOK
      BY OnlySettersAcknowledge DEF PolicyInv
<1>2. op.at = "commit" /\ op.kind = "set" /\ op.choice = "on"
      BY <1>1 DEF Committed, Wrote
<1> QED BY <1>2 DEF PolicyInv, KnownInv

(* An acknowledged "off" keeps mutations and startups from uploading; "on"  *)
(* is acknowledged only with everything earlier uploaded and its marker     *)
(* durably gone (set_enabled, after_mutation, load).                        *)
THEOREM ChoiceIsFollowed == Spec => UploadsFollowTheChoice
<1>1. PolicyInv /\ [Next]_vars =>
        [hist.ack = "off" /\ Here("upload") /\ server' # server /\ op' # op
           => op.kind \in {"manual", "set"}]_vars
      BY PolicyOff
<1>2. PolicyInv /\ [Next]_vars =>
        [hist.ack' = "on" /\ hist.ack # "on" /\ mem.enabled = "off"
           => saved /\ ~mem.unsaved /\ ~kept.marker]_vars
      BY PolicyCatchesUp
<1> QED BY <1>1, <1>2, PolicyInvariant, PTL
           DEF Spec, UploadsFollowTheChoice, OffUploadsNothing, EnablingCatchesUp

=============================================================================
