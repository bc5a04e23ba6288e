----------------------------- MODULE Preparation -----------------------------
(***************************************************************************)
(* One prepare-native command (install-native-artifacts.js): which targets *)
(* it prepares, where their artifacts may come from, and the inspection of *)
(* their symbols.  What the manifest vouches for over several commands is  *)
(* ArtifactOverlay, the hydration NativeDistribution; here each is what    *)
(* this command sees of it.                                                *)
(*                                                                         *)
(* An artifact is the set of symbol names it defines and the kinds of its  *)
(* archive members: "plain", "empty", "newer" (bitcode the installed nm    *)
(* cannot read, whose symbols it does not list) or "corrupt".  A name may  *)
(* occur inside a longer one, as rln_get_consignment does inside           *)
(* rln_get_consignment_path; Occurs holds these pairs.                     *)
(***************************************************************************)
EXTENDS Naturals, Sequences, FiniteSets

CONSTANTS
  Configured,  \* utexoNativeOverlay.targets
  Required,    \* PREBUILD_SYMBOLS
  Occurs,      \* pairs of names, the first inside the second
  Environments, \* the environments and arguments of the command
  Artifacts    \* what a directory, a build or a payload may hold

Families == [darwin |-> {"darwin-arm64", "darwin-x64"},
             ios |-> {"ios-arm64", "ios-arm64-simulator", "ios-x64-simulator"},
             android |-> {"android-arm64", "android-arm", "android-x64"}]
SUPPORTED_TARGETS == UNION {Families[f] : f \in DOMAIN Families}
Apple == Families["darwin"] \cup Families["ios"]

ASSUME ConfigAssumption == Configured \subseteq SUPPORTED_TARGETS

VARIABLES
  env,       \* the environment, the arguments and the host, fixed
  phase,
  selected,  \* the targets to prepare
  payload,   \* the installed payload packages are whole
  packed,    \* targets whose prebuild the manifest vouches for
  local,     \* the artifact every target has in the package
  did        \* "hydrated", "cloned", "compiled", "imported"

vars == <<env, phase, selected, payload, packed, local, did>>

-----------------------------------------------------------------------------
(* The selection of targets *)

Group(g) == CASE g = "apple" -> Apple [] g = "all" -> SUPPORTED_TARGETS [] OTHER -> Families[g]

(* No target, a duplicate or one that is not configured is refused.         *)
validateRequestedTargets(list) ==
  LET chosen == {list[i] : i \in DOMAIN list}
  IN IF list # <<>> /\ Cardinality(chosen) = Len(list) /\ chosen \subseteq Configured THEN chosen ELSE {}

OfGroup(g) == Group(g) \cap Configured

(* The targets, {} when the command fails: RLN_BARE_TARGETS first, then     *)
(* --platform, EAS_BUILD_PLATFORM, and the host.                            *)
resolveInstallTargets ==
  LET platform == IF env.argument # "" THEN env.argument ELSE env.eas IN
  CASE env.listed -> validateRequestedTargets(env.list)
    [] ~env.listed /\ platform # "" ->
         IF platform \in {"all", "android", "ios", "darwin", "apple"} THEN OfGroup(platform) ELSE {}
    [] ~env.listed /\ platform = "" /\ env.host = "darwin" -> OfGroup("apple")
    [] ~env.listed /\ platform = "" /\ env.host \in {"linux", "win32"} -> OfGroup("android")
    [] OTHER -> {}

assertSupportedBuildHost == env.host = "darwin" \/ selected \cap Apple = {}

(* An explicit NDK of another revision is refused, never replaced by one of *)
(* an SDK directory.                                                        *)
resolveAndroidNdk == env.ndk \in {"explicit", "sdk"}
NeedsNdk == selected \cap Families["android"] # {}

-----------------------------------------------------------------------------
(* The inspection of symbols *)

(* What nm says: the names it lists, its complaints and its status.         *)
Nm(a) ==
  [listed |-> IF "plain" \in a.members THEN a.defines ELSE {},
   complaints |-> (IF "empty" \in a.members THEN {"no symbols"} ELSE {})
                  \cup (IF "newer" \in a.members THEN {"unknown attribute"} ELSE {})
                  \cup (IF "corrupt" \in a.members THEN {"malformed"} ELSE {}),
   status |-> IF a.members = {"plain"} THEN 0 ELSE 1]

validatedNmOutput(r) ==
  r.status = 0 \/ (r.status = 1 /\ r.complaints # {} /\ r.complaints \subseteq {"no symbols", "unknown attribute"})

(* symbols.includes(symbol), symbols being one text.                        *)
Includes(listed, name) == \E l \in listed : l = name \/ <<name, l>> \in Occurs

InspectionPasses(a) ==
  /\ NeedsNdk => resolveAndroidNdk
  /\ validatedNmOutput(Nm(a))
  /\ \A name \in Required : Includes(Nm(a).listed, name)

-----------------------------------------------------------------------------
(* The command *)

Installed == ~env.git /\ ~env.artifactsDir /\ ~env.sourceDir

Init ==
  /\ env \in Environments
  /\ phase = "start" /\ selected = {}
  /\ payload \in BOOLEAN
  /\ packed \in {{}, Configured, Configured \cap Families["darwin"]}
  /\ local \in Artifacts
  /\ did = {}

Goto(p) == phase' = p /\ UNCHANGED <<env, payload>>

(* RLN_BARE_JS_ONLY_INSTALL, then the targets.                              *)
Start ==
  /\ phase = "start"
  /\ selected' = IF env.jsOnly = "unset" THEN resolveInstallTargets ELSE {}
  /\ Goto(CASE env.jsOnly = "1" -> "skipped"
            [] env.jsOnly = "unset" /\ selected' # {} -> IF Installed THEN "hydrate" ELSE "packed"
            [] OTHER -> "failed")
  /\ UNCHANGED <<packed, local, did>>

HydrateOrGoOn ==  \* mutant: a bad payload only warns
  /\ phase = "hydrate"
  /\ packed' = IF payload THEN Configured ELSE packed
  /\ did' = did \cup {"hydrated"} /\ Goto("packed")
  /\ UNCHANGED <<selected, local>>
(* A bad payload ends the command; a whole one makes every configured       *)
(* target one the manifest vouches for.                                     *)
Hydrate ==
  /\ phase = "hydrate"
  /\ IF payload THEN packed' = Configured /\ did' = did \cup {"hydrated"} /\ Goto("packed")
     ELSE UNCHANGED <<packed, did>> /\ Goto("failed")
  /\ UNCHANGED <<selected, local>>

(* The packed prebuilds, then those of an earlier preparation.              *)
TryPacked ==
  /\ phase = "packed"
  /\ Goto(IF selected \subseteq packed THEN "vouched" ELSE "inspect")
  /\ UNCHANGED <<selected, packed, local, did>>

(* An artifact may also be refused because the manifest does not know it.   *)
TryBuilt ==
  /\ phase = "inspect"
  /\ \/ InspectionPasses(local) /\ Goto("done")
     \/ Goto(IF env.artifactsDir THEN "import" ELSE "source")
  /\ UNCHANGED <<selected, packed, local, did>>

Import ==
  /\ phase = "import"
  /\ \E a \in Artifacts :
       \/ InspectionPasses(a) /\ local' = a /\ did' = did \cup {"imported"} /\ Goto("done")
       \/ UNCHANGED <<local, did>> /\ Goto("failed")
  /\ UNCHANGED <<selected, packed>>

Source ==
  /\ phase = "source"
  /\ did' = IF env.sourceDir THEN did ELSE did \cup {"cloned"}
  /\ Goto(IF assertSupportedBuildHost /\ (NeedsNdk => resolveAndroidNdk) THEN "build" ELSE "failed")
  /\ UNCHANGED <<selected, packed, local>>

Build ==
  /\ phase = "build"
  /\ did' = did \cup {"compiled"}
  /\ \E a \in Artifacts : local' = a /\ Goto(IF InspectionPasses(a) THEN "done" ELSE "failed")
  /\ UNCHANGED <<selected, packed>>

Next == Start \/ Hydrate \/ TryPacked \/ TryBuilt \/ Import \/ Source \/ Build
Spec == Init /\ [][Next]_vars

-----------------------------------------------------------------------------
(* Properties *)

(* install-native-artifacts.js:24: "a bad payload must never fall through   *)
(* to a private source build."  Whatever it selected and whatever its       *)
(* package held before, an installed consumer neither clones nor compiles.  *)
NoPrivateBuild == Installed => did \subseteq {"hydrated"}

(* A compiler runs only for configured targets, on a host that can build    *)
(* them, and a plain command without any selection is never one that its    *)
(* host cannot build (resolveInstallTargets and assertSupportedBuildHost    *)
(* agree).                                                                  *)
BuildsWhereItCan ==
  /\ "compiled" \in did =>
       selected \subseteq (IF env.host = "darwin" THEN Configured ELSE Configured \ Apple)
  /\ phase \notin {"start", "skipped", "failed"} /\ ~env.listed /\ env.argument = "" /\ env.eas = "" =>
       selected # {} /\ (env.host = "darwin" \/ selected \cap Apple = {})

(* An artifact nm could not read to the end, for a reason that is not one   *)
(* of the two known ones, is never accepted.                                *)
UnreadIsRefused == phase = "done" => "corrupt" \notin local.members

(* An accepted artifact lacks a required symbol only if it defines another  *)
(* one whose name contains it, also when nm could read it only in part.     *)
MissingIsRefused ==
  phase = "done" =>
    \A name \in Required \ local.defines : \E l \in local.defines : <<name, l>> \in Occurs

(* What an installed or a building command may do and let through.          *)
PreparationIsSound == NoPrivateBuild /\ BuildsWhereItCan /\ UnreadIsRefused /\ MissingIsRefused

(* native-overlay.test.js:257: "artifact verification requires every        *)
(* contract symbol in every output". Not so for a name inside another one:  *)
(* no run checks this.                                                      *)
AcceptedDefinesAll == phase = "done" => Required \subseteq local.defines
=============================================================================
