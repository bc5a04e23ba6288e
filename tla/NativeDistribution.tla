------------------------- MODULE NativeDistribution -------------------------
(***************************************************************************)
(* The split distribution: a wrapper package and data-only payload         *)
(* packages with the other prebuilds.  hydrateDistribution assembles them  *)
(* where they are installed, stagePayloads fills the payload workspaces    *)
(* from a complete checkout, and verifyDistribution guards publication,    *)
(* file by file (scripts/native-distribution.js).                          *)
(*                                                                         *)
(* A prebuild is the number of its build and equals its hash; a manifest   *)
(* names a release and the build of each target.  In a checkout the        *)
(* payload packages are the workspaces under native/.  A process that dies *)
(* leaves what one that fails leaves, but for its private directory, which *)
(* nothing reads: both are Stops.  The loops over payloads and targets     *)
(* take them in any order.                                                 *)
(***************************************************************************)
EXTENDS Naturals, FiniteSets

CONSTANTS
  Payloads,    \* the payload packages
  IosPayload,  \* the one of them that can be staged alone
  TargetsOf,   \* the targets of each
  WrapperTargets,
  Procs,       \* commands that may overlap
  MaxEdits,    \* bound: rebuilds, upgrades, reinstallations and corruptions
  MaxStops     \* bound: failures and crashes

PayloadTargets == UNION {TargetsOf[d] : d \in Payloads}
Targets == WrapperTargets \cup PayloadTargets

DistributionAssumption ==
  /\ IsFiniteSet(Targets) /\ WrapperTargets \cap PayloadTargets = {}
  /\ IosPayload \in Payloads
  /\ \A d, e \in Payloads : d # e => TargetsOf[d] \cap TargetsOf[e] = {}
  /\ MaxEdits \in Nat /\ MaxStops \in Nat

VARIABLES
  place,    \* "installed" under node_modules, or a "checkout"
  root,     \* the wrapper package: [release, manifest, contract, slices]
  payload,  \* each payload package: the same
  run,      \* the commands under way
  edits, stops,
  named     \* history: the builds some manifest of the wrapper named

vars == <<place, root, payload, run, edits, stops, named>>

None == [missing |-> TRUE]
Missing == 0   \* no such file; builds are counted from 1
Garbled == 99

ManifestOf(release, hash) == [release |-> release, hash |-> hash]
PackageOf(release, manifest, slices) ==
  [release |-> release, manifest |-> manifest, contract |-> release, slices |-> slices]

Restricted(slices, T) == [t \in Targets |-> IF t \in T THEN slices[t] ELSE Missing]

Published(release, hash, T) == PackageOf(release, ManifestOf(release, hash), Restricted(hash, T))
AllBuild1 == [t \in Targets |-> 1]

(* A workspace that was never filled has its package.json only.             *)
Workspace(release) ==
  [release |-> release, manifest |-> None, contract |-> Missing, slices |-> Restricted(AllBuild1, {})]

Idle == [kind |-> "none", pc |-> "idle", release |-> 0, payloads |-> {}, at |-> IosPayload,
         todo |-> {}, manifest |-> None, slices |-> Restricted(AllBuild1, {})]

Init ==
  /\ \/ /\ place = "installed"
        /\ root = Published(1, AllBuild1, WrapperTargets)
        /\ payload = [d \in Payloads |-> Published(1, AllBuild1, TargetsOf[d])]
     \/ /\ place = "checkout"
        /\ root = Published(1, AllBuild1, Targets)
        /\ payload = [d \in Payloads |-> Workspace(1)]
  /\ run = [p \in Procs |-> Idle]
  /\ edits = 0 /\ stops = 0
  /\ named = [t \in Targets |-> {1}]

Goes(p, r) == run' = [run EXCEPT ![p] = r]
Goto(p, next) == Goes(p, [run[p] EXCEPT !.pc = next])
Ends(p, result) == Goes(p, [Idle EXCEPT !.kind = run[p].kind, !.pc = result])
Done == {"hydrated", "staged", "verified", "failed"}
Resting(p) == run[p].pc \in Done \cup {"idle"}

(* Something goes wrong: a copy, an operation or the process.               *)
Fails == stops < MaxStops /\ stops' = stops + 1

-----------------------------------------------------------------------------
(* Verification *)

(* verifyPackedPrebuilds, modelled in full in ArtifactOverlay.              *)
Packed(dir, release, T) ==
  /\ dir.manifest # None /\ dir.manifest.release = release
  /\ \A t \in T : dir.slices[t] # Missing /\ dir.slices[t] = dir.manifest.hash[t]

(* The payload is of the owner's version and release graph.                 *)
MetadataMatches(dir) == dir.release = root.release

ValidWithoutOwner(dir, d, release) == Packed(dir, release, TargetsOf[d]) \* mutant: the payload's own manifest is enough

(* Same identity, byte-equal manifest and contract, and its own hashes.     *)
PayloadValid(dir, d, release) ==
  /\ MetadataMatches(dir)
  /\ dir.manifest = root.manifest /\ dir.contract = root.contract
  /\ Packed(dir, release, TargetsOf[d])

-----------------------------------------------------------------------------
(* Every command *)

Kinds == {"hydrate", "stage", "stage-ios", "verify"}
Selected(kind) == IF kind = "stage-ios" THEN {IosPayload} ELSE Payloads

(* The payload workspaces and their scripts are not part of the package.    *)
Begin(p, kind) ==
  /\ place = "installed" => kind = "hydrate"
  /\ Resting(p)
  /\ Goes(p, [Idle EXCEPT !.kind = kind, !.release = root.release, !.payloads = Selected(kind),
                          !.pc = IF kind = "hydrate" THEN "admit" ELSE "root"])
  /\ UNCHANGED <<place, root, payload, edits, stops, named>>

(* One target of a loop is done; after the last one the command goes on.    *)
TargetDone(p, r, t, next) ==
  Goes(p, [r EXCEPT !.todo = @ \ {t}, !.pc = IF run[p].todo = {t} THEN next ELSE @])

PayloadDone(p, d, next) ==
  Goes(p, [run[p] EXCEPT !.payloads = @ \ {d}, !.pc = IF run[p].payloads = {d} THEN next ELSE @])

(* Any check that does not hold ends the command.                           *)
Checked(p, ok, next) == IF ok THEN next ELSE Ends(p, "failed")

(* Staging and publication need the complete, matching set first.           *)
CheckRoot(p) ==
  /\ run[p].pc = "root"
  /\ Checked(p, /\ Packed(root, run[p].release, Targets)
                /\ run[p].kind = "verify" \/ \A d \in run[p].payloads : MetadataMatches(payload[d]),
                Goto(p, IF run[p].kind = "verify" THEN "check" ELSE "fill"))
  /\ UNCHANGED <<place, root, payload, edits, stops, named>>

(* Publication: each payload directory against the owner.                   *)
CheckPayload(p) ==
  /\ run[p].pc = "check"
  /\ \E d \in run[p].payloads :
       Checked(p, PayloadValid(payload[d], d, run[p].release),
                  IF run[p].payloads = {d} THEN Ends(p, "verified") ELSE PayloadDone(p, d, "check"))
  /\ UNCHANGED <<place, root, payload, edits, stops, named>>

-----------------------------------------------------------------------------
(* hydrateDistribution *)

AdmitPayload(p) ==
  /\ run[p].pc = "admit"
  /\ \E d \in run[p].payloads :
       Checked(p, PayloadValid(payload[d], d, run[p].release), PayloadDone(p, d, "wrapper"))
  /\ UNCHANGED <<place, root, payload, edits, stops, named>>

(* The wrapper's own slices, then the private copy of its manifest.         *)
AdmitWrapper(p) ==
  /\ run[p].pc = "wrapper"
  /\ Checked(p, Packed(root, run[p].release, WrapperTargets),
                Goes(p, [run[p] EXCEPT !.pc = "copy", !.manifest = root.manifest,
                                       !.todo = PayloadTargets]))
  /\ UNCHANGED <<place, root, payload, edits, stops, named>>

CopySlice(p) ==
  /\ run[p].pc = "copy"
  /\ \E d \in Payloads : \E t \in TargetsOf[d] \cap run[p].todo :
     \E read \in {payload[d].slices[t], Garbled} :
       /\ TargetDone(p, [run[p] EXCEPT !.slices[t] = read], t, "compare")
       /\ IF read = payload[d].slices[t] THEN UNCHANGED stops ELSE Fails
  /\ UNCHANGED <<place, root, payload, edits, named>>

CheckStaged(p) ==
  /\ run[p].pc = "compare"
  /\ Checked(p, Packed([manifest |-> run[p].manifest, slices |-> run[p].slices],
                       run[p].release, PayloadTargets),
                Goes(p, [run[p] EXCEPT !.pc = "install", !.todo = PayloadTargets]))
  /\ UNCHANGED <<place, root, payload, edits, stops, named>>

InstallSlice(p) ==
  /\ run[p].pc = "install"
  /\ \E t \in run[p].todo :
       /\ root' = [root EXCEPT !.slices[t] = run[p].slices[t]]
       /\ TargetDone(p, run[p], t, "whole")
  /\ UNCHANGED <<place, payload, edits, stops, named>>

FinishHydration(p) ==
  /\ run[p].pc = "whole"
  /\ Ends(p, IF Packed(root, run[p].release, Targets) THEN "hydrated" ELSE "failed")
  /\ UNCHANGED <<place, root, payload, edits, stops, named>>

-----------------------------------------------------------------------------
(* stagePayloads *)

(* What is left of the payloads is moved into place one after another.      *)
Publishes(p, r, left) ==
  \E d \in left :
    Goes(p, [r EXCEPT !.pc = "publish", !.at = d, !.payloads = left, !.todo = TargetsOf[d]])

(* One payload is copied into the private directory and validated there.    *)
FillPayload(p) ==
  /\ run[p].pc = "fill"
  /\ \E d \in run[p].payloads :
     \E slices \in {root.slices} \cup {[root.slices EXCEPT ![t] = Garbled] : t \in TargetsOf[d]} :
       LET copy == [root EXCEPT !.release = payload[d].release,
                                !.slices = Restricted(slices, TargetsOf[d])]
           staged == [t \in Targets |-> IF t \in TargetsOf[d] THEN slices[t] ELSE run[p].slices[t]]
           r == [run[p] EXCEPT !.slices = staged, !.manifest = root.manifest]
       IN  /\ IF slices = root.slices THEN UNCHANGED stops ELSE Fails
           /\ Checked(p, PayloadValid(copy, d, run[p].release),
                IF run[p].payloads = {d} THEN Publishes(p, r, Selected(run[p].kind))
                                         ELSE Goes(p, [r EXCEPT !.payloads = @ \ {d}]))
  /\ UNCHANGED <<place, root, payload, edits, named>>

(* Each file of a payload is renamed into place, its slices first.          *)
PublishSlice(p) ==
  /\ run[p].pc = "publish"
  /\ \E t \in run[p].todo :
       /\ payload' = [payload EXCEPT ![run[p].at].slices[t] = run[p].slices[t]]
       /\ TargetDone(p, run[p], t, "manifest")
  /\ UNCHANGED <<place, root, edits, stops, named>>

PublishManifest(p) ==
  /\ run[p].pc = "manifest"
  /\ payload' = [payload EXCEPT ![run[p].at].manifest = run[p].manifest]
  /\ Goto(p, "contract")
  /\ UNCHANGED <<place, root, edits, stops, named>>

PublishContract(p) ==
  /\ run[p].pc = "contract"
  /\ payload' = [payload EXCEPT ![run[p].at].contract = run[p].release]
  /\ Goto(p, "validate")
  /\ UNCHANGED <<place, root, edits, stops, named>>

(* The payload in place is validated, then the next one is moved.           *)
ValidatePublished(p) ==
  /\ run[p].pc = "validate"
  /\ LET left == run[p].payloads \ {run[p].at}
     IN  Checked(p, PayloadValid(payload[run[p].at], run[p].at, run[p].release),
                    IF left = {} THEN Ends(p, "staged") ELSE Publishes(p, run[p], left))
  /\ UNCHANGED <<place, root, payload, edits, stops, named>>

-----------------------------------------------------------------------------
(* What happens to the packages from outside *)

(* A file operation fails, or the process dies.                             *)
Stops(p) ==
  /\ ~Resting(p) /\ Fails
  /\ Ends(p, "failed")
  /\ UNCHANGED <<place, root, payload, edits, named>>

Edits == edits < MaxEdits /\ edits' = edits + 1
(* The wrapper's own files are not rebuilt while one of the commands runs.  *)
RootMayChange == Edits /\ \A p \in Procs : Resting(p)

(* Nothing but staging writes the workspaces of a checkout while a command  *)
(* runs; npm and the user may do so to an installed package at any time.    *)
PayloadMayChange == Edits /\ (place = "installed" \/ \A p \in Procs : Resting(p))

(* A build of one target and its manifest (ArtifactOverlay).                *)
Rebuild ==
  /\ RootMayChange
  /\ \E t \in Targets :
       /\ root.slices[t] \notin {Missing, Garbled}
       /\ LET b == root.slices[t] + 1
          IN  /\ root' = [root EXCEPT !.slices[t] = b, !.manifest.hash[t] = b]
              /\ named' = [named EXCEPT ![t] = @ \cup {b}]
  /\ UNCHANGED <<place, payload, run, stops>>

(* The owner package is replaced by the next release.                       *)
Upgrade ==
  /\ RootMayChange
  /\ \E T \in {WrapperTargets, Targets} : root' = Published(root.release + 1, AllBuild1, T)
  /\ UNCHANGED <<place, payload, run, stops, named>>

(* A payload is installed again, of this or of the next release.            *)
Reinstall ==
  /\ PayloadMayChange
  /\ \E d \in Payloads, release \in {root.release, root.release + 1} :
       /\ payload[d] # Published(release, root.manifest.hash, TargetsOf[d])
       /\ payload' = [payload EXCEPT ![d] = Published(release, root.manifest.hash, TargetsOf[d])]
  /\ UNCHANGED <<place, root, run, stops, named>>

(* A slice of a payload is damaged or does not arrive.                      *)
Corrupt ==
  /\ PayloadMayChange
  /\ \E d \in Payloads, damage \in {Missing, Garbled} : \E t \in TargetsOf[d] :
       payload' = [payload EXCEPT ![d].slices[t] = damage]
  /\ UNCHANGED <<place, root, run, stops, named>>

Steps(p) ==
  \/ CheckRoot(p) \/ CheckPayload(p) \/ AdmitPayload(p) \/ AdmitWrapper(p) \/ CopySlice(p)
  \/ CheckStaged(p) \/ InstallSlice(p) \/ FinishHydration(p) \/ FillPayload(p)
  \/ PublishSlice(p) \/ PublishManifest(p) \/ PublishContract(p) \/ ValidatePublished(p)

Next ==
  \/ \E p \in Procs : Steps(p) \/ Stops(p) \/ (\E kind \in Kinds : Begin(p, kind))
  \/ Rebuild \/ Upgrade \/ Reinstall \/ Corrupt

Spec == Init /\ [][Next]_vars

-----------------------------------------------------------------------------
(* Properties *)

Builds == 0..(MaxEdits + 1) \cup {Garbled}
Hashes == [Targets -> Builds]

(* Every variable keeps its type.                                           *)
TypeOK ==
  /\ root.slices \in Hashes /\ root.release \in 1..(MaxEdits + 1)
  /\ \A d \in Payloads :
       /\ payload[d].slices \in Hashes /\ payload[d].release \in 1..(MaxEdits + 2)
       /\ \A t \in Targets \ TargetsOf[d] : payload[d].slices[t] = Missing
  /\ \A p \in Procs : run[p].slices \in Hashes
  /\ edits \in 0..MaxEdits /\ stops \in 0..MaxStops

(* Whatever is copied, damaged or interrupted on the way, a slice in the    *)
(* wrapper is one that a manifest of the wrapper named: "A corrupt late     *)
(* payload or interrupted copy cannot install earlier slices".              *)
OnlyNamedSlices ==
  \A t \in Targets : root.slices[t] \in named[t] \cup {Missing}

RootWhole == Packed(root, root.release, Targets)
PayloadsSound == /\ \A d \in Payloads : PayloadValid(payload[d], d, root.release)
                 /\ Packed(root, root.release, WrapperTargets)

(* A complete installation stays complete through a hydration, also one     *)
(* that is interrupted or repeated against changing payloads.               *)
WholeStaysWhole ==
  [][RootWhole /\ root'.manifest = root.manifest => RootWhole']_vars

(* A publication check passes only with every payload matching the owner at *)
(* that moment, although payloads are checked one after another while       *)
(* another command may be filling them.                                     *)
VerifiedIsOneSet ==
  [][\A p \in Procs : run'[p].pc = "verified" /\ run[p].pc # "verified" =>
       RootWhole /\ PayloadsSound]_vars

(* A complete set is neither broken nor passed off as one.                  *)
SetsAreWhole == WholeStaysWhole /\ VerifiedIsOneSet

(* Every variable keeps its type, and no slice comes from nowhere.          *)
DistributionInv == TypeOK /\ OnlyNamedSlices
=============================================================================
