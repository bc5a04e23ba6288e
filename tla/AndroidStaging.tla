--------------------------- MODULE AndroidStaging ---------------------------
(***************************************************************************)
(* Staging of the Android addons into a managed output directory: run of   *)
(* scripts/stage-android-addons.js, step by step, with the input files,    *)
(* the output and the run's private directories beside it.                 *)
(*                                                                         *)
(* A file is its contents, a number that a rebuild increases, and equals   *)
(* its SHA-256.  The developer may rebuild inputs, link again, or put a    *)
(* file of his own into the output; any file operation may fail and the    *)
(* process may die between any two.  The checks of ELF headers, pins and   *)
(* symbols decide only whether a run goes on: here they may always refuse. *)
(* Whether an accepted header is sound is the subject of AndroidElf.  The  *)
(* loops over ABIs and files take their elements in any order.             *)
(***************************************************************************)
EXTENDS Naturals, FiniteSets

CONSTANTS
  Abis,       \* the supported ABIs
  Stagers,    \* runs of the script
  MaxEdits    \* bound: changes the developer makes

StagingAssumption == IsFiniteSet(Abis) /\ MaxEdits \in Nat

VARIABLES
  source,    \* contents of the prebuilds and of the other linked libraries
  stamp,     \* prebuild hashes in the provenance manifest
  linked,    \* names bare-link left for each ABI
  output,    \* the managed output directory
  temp,      \* each run's temporary directory
  backup,    \* where each run moved the previous output
  run, edits,
  seen, moved  \* history: inputs that existed together; who moved a set aside last

vars == <<source, stamp, linked, output, temp, backup, run, edits, seen, moved>>
inputs == <<source, stamp, linked, edits, seen>>
directories == <<output, temp, backup, moved>>

Paths == Abis \X {"addon", "other"}
Rewritten == 99      \* an addon as bare-link rewrote it
Absent == [absent |-> TRUE]
Nothing == [path \in {} |-> 0]

Over(f, g) == [x \in DOMAIN f \cup DOMAIN g |-> IF x \in DOMAIN f THEN f[x] ELSE g[x]]
With(f, x, value) == Over([y \in {x} |-> value], f)

Directory(files, report, originals, mine) ==
  [files |-> files, report |-> report, originals |-> originals, mine |-> mine]
Empty == Directory(Nothing, Nothing, Nothing, FALSE)

Idle == [pc |-> "idle", abis |-> {}, todo |-> {}, manifest |-> Nothing,
         digest |-> Nothing, plan |-> Nothing]

Init ==
  /\ source = [path \in Paths |-> 0]
  /\ stamp = [abi \in Abis |-> 0]
  /\ linked \in [Abis -> {{"addon", "other"}, {"addon", "stale"}}]
  /\ output = Absent
  /\ temp = [p \in Stagers |-> Absent] /\ backup = [p \in Stagers |-> Absent]
  /\ run = [p \in Stagers |-> Idle]
  /\ edits = 0 /\ seen = {source} /\ moved = {}

Ended == {"staged", "failed", "stranded", "crashed"}

Goes(p, r) == run' = [run EXCEPT ![p] = r]
Goto(p, next) == Goes(p, [run[p] EXCEPT !.pc = next])
Ends(p, result) == run' = [run EXCEPT ![p] = [Idle EXCEPT !.pc = result]]

-----------------------------------------------------------------------------
(* Checks before anything is written *)

(* No ABI twice and none that is not supported.                            *)
Requests == (SUBSET Abis) \ {{}}

(* Absent, or an output this tool wrote with nothing else in it.            *)
Owned(dir) ==
  dir = Absent \/ (/\ dir.report # Nothing
                   /\ DOMAIN dir.files \subseteq DOMAIN dir.report
                   /\ ~dir.mine)

Begin(p) ==
  /\ run[p].pc = "idle"
  /\ \E abis \in Requests :
       IF Owned(output) THEN Goes(p, [run[p] EXCEPT !.pc = "verify", !.abis = abis])
                        ELSE Ends(p, "failed")
  /\ UNCHANGED <<inputs, directories>>

(* Identity, profile and pins, and every requested prebuild is the one the  *)
(* provenance manifest names; the manifest is then kept for the run.        *)
VerifyInputs(p) ==
  /\ run[p].pc = "verify"
  /\ \A abi \in run[p].abis : source[<<abi, "addon">>] = stamp[abi]
  /\ Goes(p, [run[p] EXCEPT !.pc = "digest", !.manifest = stamp, !.todo = run[p].abis])
  /\ UNCHANGED <<inputs, directories>>

(* One element of a loop is done; after the last one the next loop begins.  *)
Advance(p, r, done, next, todo) ==
  LET left == run[p].todo \ {done}
  IN  Goes(p, IF left = {} THEN [r EXCEPT !.pc = next, !.todo = todo] ELSE [r EXCEPT !.todo = left])

VerifyOriginal(p) ==
  /\ run[p].pc = "digest"
  /\ \E abi \in run[p].todo :
       /\ source[<<abi, "addon">>] = run[p].manifest[abi]
       /\ Advance(p, [run[p] EXCEPT !.digest = With(@, abi, source[<<abi, "addon">>])],
                  abi, "plan", run[p].abis)
  /\ UNCHANGED <<inputs, directories>>

(* The original prebuild under the linked name, other libraries as linked.  *)
Planned(p, abi) ==
  [path \in {abi} \X linked[abi] |->
     IF path[2] = "addon" THEN run[p].digest[abi] ELSE source[path]]

(* Exactly one linked addon, of this version; each other entry is hashed.   *)
PlanCopies(p) ==
  /\ run[p].pc = "plan"
  /\ \E abi \in run[p].todo :
       /\ "addon" \in linked[abi] /\ "stale" \notin linked[abi]
       /\ Advance(p, [run[p] EXCEPT !.plan = Over(Planned(p, abi), @)], abi, "make", {})
  /\ UNCHANGED <<inputs, directories>>

-----------------------------------------------------------------------------
(* Writing the output *)

MakeTemporary(p) ==
  /\ run[p].pc = "make"
  /\ temp' = [temp EXCEPT ![p] = Empty]
  /\ Goes(p, [run[p] EXCEPT !.pc = "copy", !.todo = DOMAIN run[p].plan])
  /\ UNCHANGED <<inputs, output, backup, moved>>

CopyUnchecked(p, path, copied) == TRUE \* mutant: the copy is not hashed again

(* Both the copy and the source still have the hash the plan names.         *)
CopyVerified(p, path, copied) ==
  copied = run[p].plan[path] /\ source[path] = run[p].plan[path]

(* One file: what is read may come out garbled.                             *)
CopyOne(p) ==
  /\ run[p].pc = "copy"
  /\ \E path \in run[p].todo : \E copied \in {source[path], Rewritten} :
       /\ CopyVerified(p, path, copied)
       /\ temp' = [temp EXCEPT ![p].files = With(@, path, copied)]
       /\ Advance(p, run[p], path, "report", {})
  /\ UNCHANGED <<inputs, output, backup, moved>>

WriteReport(p) ==
  /\ run[p].pc = "report"
  /\ temp' = [temp EXCEPT ![p].report = run[p].plan, ![p].originals = run[p].digest]
  /\ Goto(p, "aside")
  /\ UNCHANGED <<inputs, output, backup, moved>>

RemoveAside(p) == \* mutant: the previous output is deleted instead of moved aside
  /\ run[p].pc = "aside"
  /\ output' = Absent
  /\ Goto(p, "publish")
  /\ UNCHANGED <<inputs, temp, backup, moved>>

Complete(dir) == dir # Absent /\ dir.report # Nothing

(* An output that is there, whoever made it, is moved aside.                *)
MoveAside(p) ==
  /\ run[p].pc = "aside"
  /\ \/ /\ output # Absent
        /\ backup' = [backup EXCEPT ![p] = output]
        /\ output' = Absent
        /\ moved' = IF Complete(output) THEN {p} ELSE moved
     \/ output = Absent /\ UNCHANGED <<output, backup, moved>>
  /\ Goto(p, "publish")
  /\ UNCHANGED <<inputs, temp>>

(* The rename cannot replace a directory with something in it.              *)
Publish(p) ==
  /\ run[p].pc = "publish" /\ output = Absent
  /\ output' = temp[p] /\ temp' = [temp EXCEPT ![p] = Absent]
  /\ Goto(p, "clean")
  /\ UNCHANGED <<inputs, backup, moved>>

PublishFails(p) ==
  /\ run[p].pc = "publish" /\ Goto(p, "restore")
  /\ UNCHANGED <<inputs, directories>>

(* The previous output is moved back; if that fails too it stays beside.    *)
Restore(p) ==
  /\ run[p].pc = "restore"
  /\ temp' = [temp EXCEPT ![p] = Absent]
  /\ \/ backup[p] = Absent /\ Ends(p, "failed") /\ UNCHANGED <<output, backup>>
     \/ /\ backup[p] # Absent /\ output = Absent
        /\ output' = backup[p] /\ backup' = [backup EXCEPT ![p] = Absent]
        /\ Ends(p, "failed")
     \/ backup[p] # Absent /\ Ends(p, "stranded") /\ UNCHANGED <<output, backup>>
  /\ UNCHANGED <<inputs, moved>>

RemoveBackup(p) ==
  /\ run[p].pc = "clean"
  /\ \/ backup' = [backup EXCEPT ![p] = Absent] /\ Ends(p, "staged")
     \/ UNCHANGED backup /\ Ends(p, "failed")
  /\ UNCHANGED <<inputs, output, temp, moved>>

(* A check refuses or a file operation fails before the output is touched.  *)
Refuses(p) ==
  /\ run[p].pc \in {"verify", "digest", "plan", "make", "copy", "report", "aside"}
  /\ Ends(p, "failed")
  /\ temp' = [temp EXCEPT ![p] = Absent]
  /\ UNCHANGED <<inputs, output, backup, moved>>

Dies(p) ==
  /\ run[p].pc \notin Ended \cup {"idle"}
  /\ Ends(p, "crashed")
  /\ UNCHANGED <<inputs, directories>>

-----------------------------------------------------------------------------
(* The developer *)

Edits == edits < MaxEdits /\ edits' = edits + 1

Rebuild ==
  /\ Edits
  /\ \E path \in Paths : source' = [source EXCEPT ![path] = @ + 1]
  /\ seen' = seen \cup {source'}
  /\ UNCHANGED <<stamp, linked, run, directories>>

Stamp ==
  /\ \E abi \in Abis : /\ stamp[abi] # source[<<abi, "addon">>]
                       /\ stamp' = [stamp EXCEPT ![abi] = source[<<abi, "addon">>]]
  /\ UNCHANGED <<source, linked, edits, seen, run, directories>>

Link ==
  /\ Edits
  /\ \E abi \in Abis, names \in {{"addon"}, {"addon", "other"}, {"stale"}} :
       linked' = [linked EXCEPT ![abi] = names]
  /\ UNCHANGED <<source, stamp, seen, run, directories>>

(* The developer keeps a file in the output, or makes the directory himself.*)
AddFile ==
  /\ Edits
  /\ output' = IF output = Absent THEN [Empty EXCEPT !.mine = TRUE]
               ELSE [output EXCEPT !.mine = TRUE]
  /\ UNCHANGED <<source, stamp, linked, seen, run, temp, backup, moved>>

Next ==
  \/ \E p \in Stagers :
       \/ Begin(p) \/ VerifyInputs(p) \/ VerifyOriginal(p) \/ PlanCopies(p) \/ MakeTemporary(p)
       \/ CopyOne(p) \/ WriteReport(p) \/ MoveAside(p) \/ Publish(p) \/ PublishFails(p)
       \/ Restore(p) \/ RemoveBackup(p) \/ Refuses(p) \/ Dies(p)
  \/ Rebuild \/ Stamp \/ Link \/ AddFile

Spec == Init /\ [][Next]_vars

-----------------------------------------------------------------------------
(* Properties *)

Contents == 0..MaxEdits \cup {Rewritten}
PartialOn(S, f) == DOMAIN f \subseteq S /\ f \in [DOMAIN f -> Contents]
IsDirectory(dir) ==
  \/ dir = Absent
  \/ /\ PartialOn(Paths, dir.files) /\ PartialOn(Paths, dir.report)
     /\ PartialOn(Abis, dir.originals) /\ dir.mine \in BOOLEAN

(* Every variable keeps its type.                                           *)
TypeOK ==
  /\ source \in [Paths -> Contents] /\ stamp \in [Abis -> Contents]
  /\ linked \in [Abis -> SUBSET {"addon", "other", "stale"}]
  /\ IsDirectory(output)
  /\ \A p \in Stagers : /\ IsDirectory(temp[p]) /\ IsDirectory(backup[p])
                        /\ PartialOn(run[p].abis \X {"addon", "other"}, run[p].plan)
                        /\ run[p].abis \subseteq Abis
  /\ edits \in 0..MaxEdits /\ moved \subseteq Stagers

(* What the report promises is in the output, file by file, and the addon   *)
(* of each ABI is the prebuild that was verified: bare-link's rewriting, a  *)
(* rebuild during the copy and a garbled copy cannot get in.                *)
OutputMatchesReport ==
  output # Absent /\ output.report # Nothing =>
    /\ output.files = output.report
    /\ \A abi \in DOMAIN output.originals : output.files[<<abi, "addon">>] = output.originals[abi]

(* Every variable keeps its type, and the output is what its report says.   *)
StagingInv == TypeOK /\ OutputMatchesReport

Current ==
  LET sets == {dir \in IF Complete(output) THEN {output} ELSE {backup[p] : p \in moved} : Complete(dir)}
  IN  IF sets = {} THEN Nothing ELSE (CHOOSE dir \in sets : TRUE).files

(* At every moment, crashes and failed renames included, one complete set   *)
(* is in the output or beside it, made of files that were all there at one  *)
(* moment, and only another such set takes its place.                       *)
Managed == INSTANCE ManagedOutput
  WITH Snapshots <- [Paths -> Contents], NoSet <- Nothing, current <- Current

OneSetAtATime == Managed!Spec

=============================================================================
