-------------------------- MODULE ArtifactOverlay ---------------------------
(***************************************************************************)
(* Preparation of the native artifacts of one package checkout:            *)
(* ensureOverlayArtifacts of scripts/native-overlay.js with everything it  *)
(* calls that reads or changes files, run by run and file by file.         *)
(*                                                                         *)
(* A file is modelled by what went into it, and its SHA-256 by the same    *)
(* value: two files have one hash exactly when they are the same file.     *)
(* What a manifest is stamped with is three values: the release (the pins  *)
(* of package.json, the patch and the build profile, which a run reads     *)
(* once and hands to every command), the wrapper (the addon's own sources) *)
(* and the recipe (the build scripts); the last two are read from the disk *)
(* again whenever something is built.  While a run works the developer may *)
(* edit the wrapper, the recipe or the RLN source directory and take an    *)
(* edit back, regenerate the runtime contract, take a new release, or      *)
(* replace the directory that is imported; the process may die between any *)
(* two file operations, a command or a copy may fail, and no run locks out *)
(* another.  The loops over targets take them in any order.                *)
(*                                                                         *)
(* Some of this no check of a run sees.  Two history variables, which no   *)
(* action of a run reads, remember it: a run is disturbed when it happened *)
(* to it, and a target is doubtful when a disturbed run stamped it.        *)
(***************************************************************************)
EXTENDS Naturals, FiniteSets

CONSTANTS
  Targets,      \* the configured targets
  Unbuildable,  \* those this host cannot build
  Runs,         \* runs of the preparation that may be under way together
  MaxEdits,     \* bound: edits, upgrades and source changes by the developer
  MaxStarts,    \* bound: runs started
  Routes,       \* where a run may take missing artifacts from
  Unapproved    \* releases whose metadata readOverlayConfig refuses

OverlayAssumption ==
  /\ IsFiniteSet(Targets) /\ Unbuildable \subseteq Targets
  /\ MaxEdits \in Nat /\ MaxStarts \in Nat /\ Unapproved \subseteq Nat
  /\ Routes \subseteq {"import", "directory", "clone"}

VARIABLES
  checkout,  \* [release, wrapper, recipe]: what the package's files are now
  contract,  \* [release, wrapper]: what runtime-contract.json says they are
  tree,      \* the RLN source directory: "clean", "exact" (patched) or "other"
  lib, bare, \* static library and prebuild of each target
  manifest,  \* the provenance manifest
  bundle,    \* the directory RLN_BARE_ARTIFACTS_DIR names
  run,       \* where each run stands
  doubtful,  \* history: the targets a disturbed run stamped
  edits, starts

vars == <<checkout, contract, tree, lib, bare, manifest, bundle, run, doubtful, edits, starts>>
developer == <<checkout, contract, tree, bundle, edits>>
files == <<lib, bare, manifest, doubtful>>

None == [missing |-> TRUE]
Torn == [unparsable |-> TRUE]
NoHashes == [t \in {} |-> None]

Over(f, g) == [x \in DOMAIN f \cup DOMAIN g |-> IF x \in DOMAIN f THEN f[x] ELSE g[x]]

Versions == 0..MaxEdits
Identity == [release : Versions, wrapper : Versions, recipe : Versions]
Contract == [release : Versions, wrapper : Versions]
Library == [release : Versions, source : {"exact", "clean", "other"}, stamp : Versions, recipe : Versions]
Prebuild == [library : Library, wrapper : Versions, recipe : Versions, good : BOOLEAN]

(* What a manifest is stamped with and later compared with.                 *)
IdentityOf(c) == c

(* The static library embeds the fingerprint the run read at its start; the *)
(* prebuild is linked from whatever library and wrapper are there then.     *)
CompiledLibrary(c, source, recipe) ==
  [release |-> c.release, source |-> source, stamp |-> c.wrapper, recipe |-> recipe]
LinkedPrebuild(library, wrapper, recipe, good) ==
  [library |-> library, wrapper |-> wrapper, recipe |-> recipe, good |-> good]

BuiltFor(file, c) ==
  /\ file # None
  /\ file.library = CompiledLibrary(c, "exact", c.recipe)
  /\ file.wrapper = c.wrapper /\ file.recipe = c.recipe

GenuineBundle(c, good) ==
  LET l == CompiledLibrary(c, "exact", c.recipe)
      b == LinkedPrebuild(l, c.wrapper, c.recipe, good)
  IN  [lib |-> [t \in Targets |-> l], bare |-> [t \in Targets |-> b],
       manifest |-> [id |-> IdentityOf(c),
                     artifacts |-> [t \in Targets |-> [lib |-> l, bare |-> b]]]]

RuntimeIdentity(release, wrapper) == [release |-> release, wrapper |-> wrapper]

Idle == [pc |-> "idle", cfg |-> [release |-> 0, wrapper |-> 0, recipe |-> 0], req |-> {},
         route |-> "clone", libs |-> {}, bares |-> {}, draft |-> NoHashes, clone |-> FALSE,
         disturbed |-> FALSE, doubts |-> {}, result |-> "none"]

Init ==
  /\ checkout = [release |-> 0, wrapper |-> 0, recipe |-> 0]
  /\ contract = RuntimeIdentity(0, 0)
  /\ tree = "clean"
  /\ lib = [t \in Targets |-> None]
  /\ \/ bare = [t \in Targets |-> None] /\ manifest = None
     \/ /\ bare = GenuineBundle(checkout, TRUE).bare
        /\ manifest = GenuineBundle(checkout, TRUE).manifest
  /\ \E good \in BOOLEAN : bundle = GenuineBundle(checkout, good)
  /\ run = [p \in Runs |-> Idle]
  /\ doubtful = {}
  /\ edits = 0 /\ starts = 0

-----------------------------------------------------------------------------
(* Reading and verifying *)

Package == [lib |-> lib, bare |-> bare, manifest |-> manifest]

(* The contract on disk names the configuration and the wrapper on disk; it *)
(* says nothing of the recipe.                                              *)
RuntimeContractFresh(c) == contract = RuntimeIdentity(c.release, checkout.wrapper)
ConfigReadable == checkout.release \notin Unapproved /\ RuntimeContractFresh(checkout)

Parsable(m) == m # None /\ m # Torn
ManifestMatches(m, c) == Parsable(m) /\ m.id = IdentityOf(c)

(* A consumer's check: identity and prebuild hash.                          *)
VerifyPacked(root, c, req) ==
  /\ ManifestMatches(root.manifest, c)
  /\ \A t \in req : /\ root.bare[t] # None
                    /\ t \in DOMAIN root.manifest.artifacts
                    /\ root.manifest.artifacts[t].bare = root.bare[t]

VerifyManifest(root, c, req) ==
  /\ ManifestMatches(root.manifest, c)
  /\ \A t \in req :
       /\ t \in DOMAIN root.manifest.artifacts
       /\ root.manifest.artifacts[t] = [lib |-> root.lib[t], bare |-> root.bare[t]]

(* The whole check: both files, symbols and ELF layout, then provenance.    *)
VerifyArtifacts(root, c, req) ==
  /\ \A t \in req : root.lib[t] # None /\ root.bare[t] # None /\ root.bare[t].good
  /\ VerifyManifest(root, c, req)

-----------------------------------------------------------------------------
(* One run *)

Goes(p, r) == run' = [run EXCEPT ![p] = r]
Goto(p, next) == Goes(p, [run[p] EXCEPT !.pc = next])

Works(p) == run[p].pc \notin {"idle", "ended"}
OthersWork(p) == \E q \in Runs \ {p} : Works(q)

Ended(p, result) ==
  [Idle EXCEPT !.pc = "ended", !.cfg = run[p].cfg, !.req = run[p].req, !.result = result,
               !.disturbed = OthersWork(p)]

(* A finished run removes its temporary checkout, a failed one too.         *)
Ends(p, result) == Goes(p, Ended(p, result))

(* A run that is killed removes nothing.                                    *)
Crashes(p) == Goes(p, [Ended(p, "crashed") EXCEPT !.clone = run[p].clone])

Disturb(r) == [r EXCEPT !.disturbed = TRUE]
Disturbed(S) == [p \in Runs |-> IF p \in S THEN Disturb(run[p]) ELSE run[p]]

Fresh(p, req, route) ==
  [Idle EXCEPT !.cfg = checkout, !.req = req, !.route = route, !.disturbed = OthersWork(p),
               !.pc = IF ConfigReadable THEN "packed" ELSE "ended",
               !.result = IF ConfigReadable THEN "none" ELSE "failed"]

(* prepare-native starts: it reads the configuration or refuses to go on.   *)
(* From then on what any other run did or reported may be overwritten.      *)
Start(p) ==
  /\ ~Works(p) /\ starts < MaxStarts
  /\ starts' = starts + 1
  /\ \E req \in (SUBSET Targets) \ {{}}, route \in Routes :
       run' = [Disturbed(Runs) EXCEPT ![p] = Fresh(p, req, route)]
  /\ UNCHANGED <<developer, files>>

(* Packed prebuilds are enough, unless they do not verify.                  *)
TryPacked(p) ==
  /\ run[p].pc = "packed"
  /\ IF VerifyPacked(Package, run[p].cfg, run[p].req)
     THEN Ends(p, "packed")
     ELSE Goto(p, "verify")
  /\ UNCHANGED <<developer, files, starts>>

(* Inspecting needs the NDK or nm: without them good artifacts do not pass. *)
TryBuilt(p) ==
  /\ run[p].pc = "verify"
  /\ \/ VerifyArtifacts(Package, run[p].cfg, run[p].req) /\ Ends(p, "verified")
     \/ Goto(p, run[p].route)
  /\ UNCHANGED <<developer, files, starts>>

(* A loop over the requested libraries and prebuilds begins.                *)
Loop(p, next) ==
  Goes(p, [run[p] EXCEPT !.pc = next, !.libs = run[p].req, !.bares = run[p].req])

Import(p) ==
  /\ run[p].pc = "import"
  /\ IF VerifyArtifacts(bundle, run[p].cfg, run[p].req)
     THEN Loop(p, "copy")
     ELSE Ends(p, "failed")
  /\ UNCHANGED <<developer, files, starts>>

LibraryDone(p, t) == Goes(p, [run[p] EXCEPT !.libs = @ \ {t}])
PrebuildDone(p, t, next) ==
  Goes(p, [run[p] EXCEPT !.bares = @ \ {t}, !.pc = IF run[p].bares = {t} THEN next ELSE @])

(* Per target the library, then the prebuild.                               *)
CopyOne(p) ==
  /\ run[p].pc = "copy"
  /\ \/ /\ run[p].libs = run[p].bares
        /\ \E t \in run[p].libs : /\ lib' = [lib EXCEPT ![t] = bundle.lib[t]]
                                  /\ LibraryDone(p, t)
        /\ UNCHANGED bare
     \/ /\ \E t \in run[p].bares \ run[p].libs : /\ bare' = [bare EXCEPT ![t] = bundle.bare[t]]
                                                 /\ PrebuildDone(p, t, "hash")
        /\ UNCHANGED lib
  /\ UNCHANGED <<developer, manifest, doubtful, starts>>

PrepareSourceAccepts(applyIfClean, source) ==
  source = "exact" \/ (applyIfClean /\ source = "clean")

(* A fresh checkout of the pinned commit, in a temporary directory.         *)
CloneSource(p) ==
  /\ run[p].pc = "clone"
  /\ Goes(p, [run[p] EXCEPT !.pc = "fetched", !.clone = TRUE])
  /\ UNCHANGED <<developer, files, starts>>

(* The checkout is private to the run; the named directory is not.          *)
PrepareSource(p) ==
  /\ \/ run[p].pc = "fetched" /\ Goto(p, "prepared") /\ UNCHANGED tree
     \/ /\ run[p].pc = "directory"
        /\ IF PrepareSourceAccepts(TRUE, tree)
           THEN tree' = "exact" /\ Goto(p, "prepared")
           ELSE Ends(p, "failed") /\ UNCHANGED tree
  /\ UNCHANGED <<checkout, contract, bundle, edits, files, starts>>

(* Host, dependency graph and toolchains are checked before anything is     *)
(* compiled.                                                                *)
BeginBuild(p) ==
  /\ run[p].pc = "prepared"
  /\ IF run[p].req \cap Unbuildable = {}
     THEN Loop(p, "build")
     ELSE Ends(p, "failed")
  /\ UNCHANGED <<developer, files, starts>>

Source(p) == IF run[p].route = "clone" THEN "exact" ELSE tree

(* All libraries, then all prebuilds, by the scripts that are there then.   *)
BuildOne(p) ==
  /\ run[p].pc = "build"
  /\ \/ /\ \E t \in run[p].libs : /\ lib' = [lib EXCEPT ![t] =
                                               CompiledLibrary(run[p].cfg, Source(p), checkout.recipe)]
                                  /\ LibraryDone(p, t)
        /\ UNCHANGED bare
     \/ /\ run[p].libs = {}
        /\ \E t \in run[p].bares, good \in BOOLEAN :
             /\ bare' = [bare EXCEPT ![t] =
                         LinkedPrebuild(lib[t], checkout.wrapper, checkout.recipe, good)]
             /\ PrebuildDone(p, t, "recheck")
        /\ UNCHANGED lib
  /\ UNCHANGED <<developer, manifest, doubtful, starts>>

RecheckOfContract(p) == \* mutant: the wrapper is not compared with the run's own
  PrepareSourceAccepts(FALSE, Source(p)) /\ RuntimeContractFresh(run[p].cfg)

(* After the build the source and the wrapper must be the ones the run      *)
(* started from, whatever they were meanwhile, and nobody looks at the      *)
(* recipe; the check itself changes nothing.                                *)
RecheckAccepts(p) ==
  /\ PrepareSourceAccepts(FALSE, Source(p))
  /\ RuntimeContractFresh(run[p].cfg)
  /\ checkout.wrapper = run[p].cfg.wrapper

Recheck(p) ==
  /\ run[p].pc = "recheck"
  /\ IF RecheckAccepts(p) THEN Goto(p, "hash") ELSE Ends(p, "failed")
  /\ UNCHANGED <<developer, files, starts>>

KeptNothing(c) == NoHashes \* mutant: the entries of other targets are dropped

(* Entries written earlier survive if they belong to the same identity.     *)
Kept(c) == IF ManifestMatches(manifest, c) THEN manifest.artifacts ELSE NoHashes

KeptDoubts(p) == IF ManifestMatches(manifest, run[p].cfg) THEN doubtful \ run[p].req ELSE {}

(* The manifest on disk is read and the requested files are hashed; an      *)
(* unparsable manifest makes the run fail here.                             *)
HashArtifacts(p) ==
  /\ run[p].pc = "hash"
  /\ IF manifest = Torn
     THEN Ends(p, "failed")
     ELSE Goes(p, [run[p] EXCEPT
                     !.pc = "write",
                     !.doubts = KeptDoubts(p) \cup IF run[p].disturbed THEN run[p].req ELSE {},
                     !.draft = Over([t \in run[p].req |-> [lib |-> lib[t], bare |-> bare[t]]],
                                    Kept(run[p].cfg))])
  /\ UNCHANGED <<developer, files, starts>>

WriteManifest(p) ==
  /\ run[p].pc = "write"
  /\ manifest' = [id |-> IdentityOf(run[p].cfg), artifacts |-> run[p].draft]
  /\ doubtful' = run[p].doubts
  /\ Goto(p, "final")
  /\ UNCHANGED <<developer, lib, bare, starts>>

(* The write truncates the file first; what is cut off does not parse.      *)
TearManifest(p) ==
  /\ run[p].pc = "write"
  /\ manifest' = Torn
  /\ Ends(p, "failed") \/ Crashes(p)
  /\ UNCHANGED <<developer, lib, bare, doubtful, starts>>

FinalVerify(p) ==
  /\ run[p].pc = "final"
  /\ IF VerifyArtifacts(Package, run[p].cfg, run[p].req)
     THEN Ends(p, IF run[p].route = "import" THEN "imported" ELSE "built")
     ELSE Ends(p, "failed")
  /\ UNCHANGED <<developer, files, starts>>

(* A command or a copy fails: the error leaves through the finally block.   *)
StepFails(p) ==
  /\ run[p].pc \in {"import", "copy", "clone", "fetched", "directory", "prepared", "build", "final"}
  /\ Ends(p, "failed")
  /\ UNCHANGED <<developer, files, starts>>

Dies(p) ==
  /\ Works(p)
  /\ Crashes(p)
  /\ UNCHANGED <<developer, files, starts>>

-----------------------------------------------------------------------------
(* The developer *)

Edits == edits < MaxEdits /\ edits' = edits + 1

Compiles(p) == run[p].pc \in {"build", "recheck"}
MayStillBuild(p) ==
  /\ run[p].route # "import"
  /\ run[p].pc \in {"packed", "verify", "clone", "directory", "fetched", "prepared", "build"}

AnotherVersion(v) == (0..(v + 1)) \ {v}

(* A wrapper that is again what the run read passes its recheck.            *)
EditWrapper ==
  /\ Edits
  /\ \E w \in AnotherVersion(checkout.wrapper) :
       /\ checkout' = [checkout EXCEPT !.wrapper = w]
       /\ run' = Disturbed({p \in Runs : Compiles(p) /\ run[p].cfg.wrapper = w})
  /\ UNCHANGED <<contract, tree, bundle, files, starts>>

(* build-cffi.sh or build-prebuilds.sh: their hash was read at the start.   *)
EditRecipe ==
  /\ Edits
  /\ \E v \in AnotherVersion(checkout.recipe) : checkout' = [checkout EXCEPT !.recipe = v]
  /\ run' = Disturbed({p \in Runs : MayStillBuild(p)})
  /\ UNCHANGED <<contract, tree, bundle, files, starts>>

(* node scripts/runtime-contract.js *)
Regenerate ==
  /\ contract # RuntimeIdentity(checkout.release, checkout.wrapper)
  /\ contract' = RuntimeIdentity(checkout.release, checkout.wrapper)
  /\ UNCHANGED <<checkout, tree, bundle, edits, files, run, starts>>

(* A new version of the package brings its own contract.                    *)
Upgrade ==
  /\ Edits
  /\ checkout' = [checkout EXCEPT !.release = @ + 1]
  /\ contract' = RuntimeIdentity(checkout.release + 1, checkout.wrapper)
  /\ UNCHANGED <<tree, bundle, files, run, starts>>

(* The source directory is changed, or made what a build wants it to be.    *)
ChangeSource ==
  /\ "directory" \in Routes /\ Edits
  /\ \E s \in {"clean", "exact", "other"} \ {tree} :
       /\ tree' = s
       /\ run' = Disturbed({p \in Runs : Compiles(p) /\ run[p].route # "clone" /\ s = "exact"})
  /\ UNCHANGED <<checkout, contract, bundle, files, starts>>

(* Another build is unpacked over the directory artifacts are imported      *)
(* from, be it while files are copied from it.                              *)
ReplaceBundle ==
  /\ Edits
  /\ \E c \in {checkout, [checkout EXCEPT !.release = @ + 1]} :
       bundle' = GenuineBundle(c, TRUE) /\ bundle' # bundle
  /\ run' = Disturbed({p \in Runs : run[p].pc = "copy"})
  /\ UNCHANGED <<checkout, contract, tree, files, starts>>

Next ==
  \/ \E p \in Runs :
       \/ Start(p) \/ TryPacked(p) \/ TryBuilt(p) \/ Import(p) \/ CopyOne(p)
       \/ CloneSource(p) \/ PrepareSource(p) \/ BeginBuild(p) \/ BuildOne(p) \/ Recheck(p) \/ HashArtifacts(p)
       \/ WriteManifest(p) \/ TearManifest(p) \/ FinalVerify(p) \/ StepFails(p) \/ Dies(p)
  \/ EditWrapper \/ EditRecipe \/ Regenerate \/ Upgrade \/ ChangeSource \/ ReplaceBundle

Spec == Init /\ [][Next]_vars

-----------------------------------------------------------------------------
(* Properties *)

Hashes == [lib : Library, bare : Prebuild]

(* Every variable keeps its type.                                           *)
TypeOK ==
  /\ checkout \in Identity /\ contract \in Contract
  /\ tree \in {"clean", "exact", "other"}
  /\ \A t \in Targets : lib[t] \in Library \cup {None} /\ bare[t] \in Prebuild \cup {None}
  /\ Parsable(manifest) => /\ manifest.id \in Identity
                           /\ DOMAIN manifest.artifacts \subseteq Targets
                           /\ \A t \in DOMAIN manifest.artifacts : manifest.artifacts[t] \in Hashes
  /\ \A p \in Runs : run[p].cfg \in Identity /\ run[p].req \subseteq Targets
  /\ doubtful \subseteq Targets
  /\ edits \in 0..MaxEdits /\ starts \in 0..MaxStarts

(* The manifest vouches only for files built from the release, source,      *)
(* wrapper and recipe it names, wherever a run died and whatever was edited *)
(* while it worked: edits during compilation, entries kept from earlier     *)
(* runs, half-finished copies, imports. Excepted is what a disturbed run    *)
(* stamped, one beside which another run worked, a recipe changed before it *)
(* was used, an edit was taken back before the recheck or the imported      *)
(* directory was replaced, until another run stamps the target again.       *)
StampedIsBuiltFor ==
  Parsable(manifest) =>
    \A t \in DOMAIN manifest.artifacts \ doubtful :
      manifest.artifacts[t].bare = bare[t] => BuiltFor(bare[t], manifest.id)

(* A run that reports success leaves every requested target with a prebuild *)
(* built for the configuration the run read, while no other run is at work  *)
(* and with the same exception: what is verified is what was stamped.       *)
SuccessMeansCurrent ==
  \A p \in Runs :
    run[p].result \in {"packed", "verified", "imported", "built"} /\ ~run[p].disturbed =>
      \A t \in run[p].req \ doubtful : BuiltFor(bare[t], run[p].cfg)

(* A run for one platform keeps the recorded hashes of the others: test     *)
(* "overlay provenance can be extended by a second platform without losing  *)
(* hashes".                                                                 *)
HashesNotLost ==
  [][Parsable(manifest) /\ Parsable(manifest') /\ manifest.id = manifest'.id =>
       DOMAIN manifest.artifacts \subseteq DOMAIN manifest'.artifacts]_vars

(* A manifest torn by a crash or a full disk is never trusted, and no later *)
(* run replaces it: it has to be removed by hand before preparation can     *)
(* succeed again.                                                           *)
TornManifestStays ==
  [][manifest = Torn =>
       /\ manifest' = Torn
       /\ \A p \in Runs : run'[p] # run[p] => run'[p].result \in {"none", "failed", "crashed"}]_vars

(* A run that was not killed leaves no temporary checkout behind, on any    *)
(* path through ensureOverlayArtifacts and cloneSource.                     *)
CheckoutRemoved ==
  \A p \in Runs : run[p].pc = "ended" /\ run[p].result # "crashed" => ~run[p].clone

(* What vouches for an artifact tells the truth about it, on every path.    *)
OverlayInv == TypeOK /\ StampedIsBuiltFor /\ SuccessMeansCurrent /\ CheckoutRemoved

(* The manifest forgets nothing that is still right and never heals itself. *)
ManifestIsKept == HashesNotLost /\ TornManifestStays

=============================================================================
