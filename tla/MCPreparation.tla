---------------------------- MODULE MCPreparation ----------------------------
(* Instance of the command that prepares the native artifacts, of the       *)
(* overlay build and of the distribution for TLC: the seven configured      *)
(* targets, three required names; two overlay targets; two payloads with    *)
(* three targets and the wrapper's own.  The three share no state here: a   *)
(* behaviour is of one of them, its part, and the others stay where they    *)
(* start.                                                                   *)
EXTENDS Preparation, TLC

CONSTANTS OverlayTargets, Unbuildable, Runs, MaxEdits, MaxStarts, Routes, Unapproved
VARIABLES checkout, contract, tree, lib, bare, manifest, bundle, run, doubtful, edits, starts

CONSTANTS Payloads, IosPayload, TargetsOf, WrapperTargets, Procs, MaxChanges, MaxStops
CONSTANTS i1, i2,           \* the two targets of the iOS payload
          MaxDisturbances   \* bound: changes and stops of one distribution together
VARIABLES place, root, packages, commands, changes, stops, named

VARIABLE part   \* which of the three the behaviour is of

overlayVars == <<checkout, contract, tree, lib, bare, manifest, bundle, run, doubtful, edits, starts>>
distributionVars == <<place, root, packages, commands, changes, stops, named>>
allVars == <<part, vars, overlayVars, distributionVars>>

Overlay == INSTANCE ArtifactOverlay WITH Targets <- OverlayTargets
Distribution == INSTANCE NativeDistribution
  WITH payload <- packages, run <- commands, edits <- changes, MaxEdits <- MaxChanges

ASSUME PackagesAreBounded == Overlay!OverlayAssumption /\ Distribution!DistributionAssumption

MCConfigured == SUPPORTED_TARGETS \ {"darwin-x64"}
MCRequired == {"rln_sign_message", "rln_sign_message_bip322", "rln_sync"}
MCOccurs == {<<"rln_sign_message", "rln_sign_message_bip322">>}
MCPayloads == {"ios", "android"}
MCTargetsOf == [d \in {"ios", "android"} |-> IF d = "ios" THEN {i1, i2} ELSE {"a1"}]
Lists == {<<>>, <<"ios-arm64">>, <<"android-arm", "ios-arm64">>, <<"android-arm", "android-arm">>,
          <<"darwin-x64">>, <<"darwin-arm64">>}
MCEnvironments ==
  [jsOnly : {"unset", "1", "other"}, listed : BOOLEAN, list : Lists, argument : {"", "all", "apple", "web"},
   eas : {"", "android", "ios", "darwin"}, host : {"darwin", "linux", "win32", "aix"}, ndk : {"explicit", "wrong", "sdk", "none"},
   git : BOOLEAN, artifactsDir : BOOLEAN, sourceDir : BOOLEAN]
FewEnvironments ==
  {e \in MCEnvironments :
     /\ e.jsOnly # "unset" => ~e.listed /\ e.argument = "" /\ e.eas = "" /\ e.ndk = "none" /\ e.host = "linux"
     /\ ~e.listed => e.list = <<>>
     /\ e.listed => e.argument = "" /\ e.eas = ""
     /\ e.argument # "" => e.eas = "" /\ e.ndk \in {"sdk", "wrong"}}
Members == {{"plain"}, {"plain", "newer", "empty"}, {"newer"}, {"plain", "corrupt"}}
MCArtifacts == [defines : {MCRequired}, members : Members] \cup [defines : SUBSET MCRequired, members : {{"plain"}}]

MCWrapperTargets == {"mac"}

Symmetry == Permutations(Procs) \cup Permutations({i1, i2})

FirstEnvironment == CHOOSE e \in Environments : TRUE
FirstArtifact == CHOOSE a \in Artifacts : TRUE

Unprepared == /\ phase = "start" /\ env = FirstEnvironment /\ payload = TRUE
              /\ packed = {} /\ local = FirstArtifact
Unbuilt == /\ starts = 0 /\ edits = 0 /\ manifest = Overlay!None
           /\ bundle = Overlay!GenuineBundle(checkout, TRUE)
Undistributed == /\ place = "installed" /\ changes = 0
                 /\ \A p \in Procs : commands[p] = Distribution!Idle

MCInit ==
  \/ part = "command" /\ Init /\ Overlay!Init /\ Unbuilt /\ Distribution!Init /\ Undistributed
  \/ part = "overlay" /\ Init /\ Unprepared /\ Overlay!Init /\ Distribution!Init /\ Undistributed
  \/ part = "distribution" /\ Init /\ Unprepared /\ Overlay!Init /\ Unbuilt /\ Distribution!Init
MCNext ==
  /\ UNCHANGED part
  /\ \/ part = "command" /\ Next /\ UNCHANGED <<overlayVars, distributionVars>>
     \/ part = "overlay" /\ Overlay!Next /\ UNCHANGED <<vars, distributionVars>>
     \/ /\ part = "distribution" /\ Distribution!Next /\ changes' + stops' <= MaxDisturbances
        /\ UNCHANGED <<vars, overlayVars>>
MCSpec == MCInit /\ [][MCNext]_allVars

(* What vouches for a built artifact and what arrives in the package is     *)
(* true of it (ArtifactOverlay, NativeDistribution).                        *)
ArtifactsAreGenuine == Overlay!OverlayInv /\ Distribution!DistributionInv

(* The provenance manifest keeps what is right (ArtifactOverlay).           *)
ManifestIsKept == Overlay!ManifestIsKept

(* Complete sets stay complete, and only they verify (NativeDistribution).  *)
SetsAreWhole == Distribution!SetsAreWhole
=============================================================================
