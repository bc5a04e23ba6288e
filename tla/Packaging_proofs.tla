-------------------------- MODULE Packaging_proofs --------------------------
(***************************************************************************)
(* Proofs about what is packaged and installed: the preparation of the     *)
(* native artifacts, the inspection and staging of the Android objects,    *)
(* the overlay build and the distribution of its artifacts. They hold for  *)
(* every configuration, environment, object, number of runs and of edits,  *)
(* not only those TLC enumerates.                                          *)
(***************************************************************************)
EXTENDS MCAndroid, MCPreparation, FiniteSetTheorems, TLAPS

-----------------------------------------------------------------------------
(* The command that prepares the native artifacts (Preparation)           *)

(* Whichever way the targets are chosen, they are configured ones, and a    *)
(* selection the host made can be built on it.                              *)
LEMMA SelectionConfigured ==
  ASSUME \A g \in {"all", "android", "ios", "darwin", "apple"} : OfGroup(g) \subseteq Configured
  PROVE  resolveInstallTargets \subseteq Configured
  BY DEF resolveInstallTargets, validateRequestedTargets

LEMMA GroupConfigured == \A g : OfGroup(g) \subseteq Configured
  BY DEF OfGroup

LEMMA HostSelection ==
  ASSUME ~env.listed, env.argument = "", env.eas = "", env.host # "darwin"
  PROVE  resolveInstallTargets \cap Apple = {}
<1>1. Families["android"] \cap Apple = {}
  BY DEF Families, Apple
<1>2. OfGroup("android") \subseteq Families["android"]
  BY DEF OfGroup, Group
<1>3. resolveInstallTargets \in {OfGroup("android"), {}}
  BY DEF resolveInstallTargets
<1> QED
  BY <1>1, <1>2, <1>3

(* An installed consumer leaves the command before anything is inspected,   *)
(* because hydration made every configured target a vouched one.            *)
ConsumerInv ==
  Installed =>
    /\ phase \in {"start", "skipped", "failed", "hydrate", "packed", "vouched"}
    /\ phase = "packed" => packed = Configured
    /\ did \subseteq {"hydrated"}

HostCanBuild == env.host = "darwin" \/ selected \cap Apple = {}

(* The selection is a configured one, the default one suits its host, and   *)
(* a build begins behind the check of the host.                             *)
SelectionInv ==
  /\ selected \subseteq Configured
  /\ phase = "start" => did = {}
  /\ phase = "build" \/ "compiled" \in did => HostCanBuild
  /\ phase \notin {"start", "skipped", "failed"} /\ ~env.listed /\ env.argument = "" /\ env.eas = "" =>
       selected # {} /\ HostCanBuild

InspectedInv == phase = "done" => InspectionPasses(local)

PreparationInv == ConsumerInv /\ SelectionInv /\ InspectedInv

LEMMA PreparationInit == Init => PreparationInv
  BY DEF Init, PreparationInv, ConsumerInv, SelectionInv, InspectedInv, HostCanBuild

LEMMA PreparationStep == PreparationInv /\ [Next]_vars => PreparationInv'
<1> SUFFICES ASSUME PreparationInv, [Next]_vars PROVE PreparationInv'
  OBVIOUS
<1> USE DEF PreparationInv, ConsumerInv, SelectionInv, InspectedInv, HostCanBuild, Goto, Installed
<1>1. CASE Start
  <2>1. resolveInstallTargets \subseteq Configured
    BY SelectionConfigured, GroupConfigured
  <2>2. ~env.listed /\ env.argument = "" /\ env.eas = "" /\ env.host # "darwin" =>
          resolveInstallTargets \cap Apple = {}
    BY HostSelection
  <2>3. phase' \in {"failed", "skipped", "hydrate", "packed"} /\ did' = did /\ env' = env
    BY <1>1 DEF Start
  <2>4. Installed => phase' # "packed"
    BY <1>1 DEF Start
  <2>5. phase' \in {"hydrate", "packed"} => selected' = resolveInstallTargets /\ selected' # {}
    BY <1>1 DEF Start
  <2>6. selected' \subseteq Configured
    BY <1>1, <2>1 DEF Start
  <2>7. ConsumerInv'
    BY <1>1, <2>3, <2>4
  <2>8. SelectionInv'
    BY <1>1, <2>2, <2>3, <2>5, <2>6 DEF Start
  <2> QED
    BY <2>3, <2>7, <2>8
<1>2. CASE Hydrate
  <2>1. phase' \in {"packed", "failed"} /\ did' \subseteq did \cup {"hydrated"}
    BY <1>2 DEF Hydrate
  <2>2. phase' = "packed" => packed' = Configured
    BY <1>2 DEF Hydrate
  <2>3. UNCHANGED <<env, selected, local>> /\ phase = "hydrate"
    BY <1>2 DEF Hydrate
  <2>4. ConsumerInv'
    BY <2>1, <2>2, <2>3
  <2>5. SelectionInv'
    BY <2>1, <2>3
  <2> QED
    BY <2>1, <2>4, <2>5
<1>3. CASE TryPacked
  BY <1>3 DEF TryPacked
<1>4. CASE TryBuilt
  BY <1>4 DEF TryBuilt, InspectionPasses, NeedsNdk, resolveAndroidNdk
<1>5. CASE Import
  BY <1>5 DEF Import, InspectionPasses, NeedsNdk, resolveAndroidNdk
<1>6. CASE Source
  BY <1>6 DEF Source, assertSupportedBuildHost
<1>7. CASE Build
  BY <1>7 DEF Build, InspectionPasses, NeedsNdk, resolveAndroidNdk
<1>8. CASE UNCHANGED vars
  BY <1>8 DEF vars, InspectionPasses, NeedsNdk, resolveAndroidNdk
<1> QED
  BY <1>1, <1>2, <1>3, <1>4, <1>5, <1>6, <1>7, <1>8 DEF Next

(* A bad payload never falls through to a private source build              *)
(* (install-native-artifacts.js:26-31).                                     *)
THEOREM ConsumersNeverBuild == Spec => []NoPrivateBuild
<1>1. PreparationInv => NoPrivateBuild
  BY DEF PreparationInv, ConsumerInv, NoPrivateBuild
<1> QED
  BY <1>1, PreparationInit, PreparationStep, PTL DEF Spec

(* A compiler runs only for configured targets on a host that can build     *)
(* them, and the host's own selection is such (resolveInstallTargets).      *)
THEOREM BuildsFit == Spec => []BuildsWhereItCan
<1>1. PreparationInv => BuildsWhereItCan
  BY DEF PreparationInv, SelectionInv, HostCanBuild, BuildsWhereItCan
<1> QED
  BY <1>1, PreparationInit, PreparationStep, PTL DEF Spec

(* No artifact that nm could not read for an unknown reason is accepted     *)
(* (validatedNmOutput).                                                     *)
THEOREM UnreadStaysOut == Spec => []UnreadIsRefused
<1>1. ASSUME NEW a, "corrupt" \in a.members PROVE ~validatedNmOutput(Nm(a))
  <2>1. "malformed" \in Nm(a).complaints /\ Nm(a).status = 1
    BY <1>1 DEF Nm
  <2>2. ~(Nm(a).complaints \subseteq {"no symbols", "unknown attribute"})
    BY <2>1
  <2>3. Nm(a).status # 0
    BY <2>1
  <2> QED
    BY <2>2, <2>3 DEF validatedNmOutput
<1>2. PreparationInv => UnreadIsRefused
  BY <1>1 DEF PreparationInv, InspectedInv, InspectionPasses, UnreadIsRefused
<1> QED
  BY <1>2, PreparationInit, PreparationStep, PTL DEF Spec

(* A required symbol is lacking only where a longer name stands for it      *)
(* (inspectSymbols, verifyArtifacts).                                       *)
THEOREM MissingStaysOut == Spec => []MissingIsRefused
<1>1. ASSUME NEW a, NEW name, Includes(Nm(a).listed, name)
      PROVE  name \in a.defines \/ \E l \in a.defines : <<name, l>> \in Occurs
  <2>1. Nm(a).listed \in {a.defines, {}}
    BY DEF Nm
  <2> QED
    BY <1>1, <2>1 DEF Includes
<1>2. PreparationInv => MissingIsRefused
  BY <1>1 DEF PreparationInv, InspectedInv, InspectionPasses, MissingIsRefused
<1> QED
  BY <1>2, PreparationInit, PreparationStep, PTL DEF Spec

(* The four together (install-native-artifacts.js, native-overlay.js).       *)
THEOREM PreparationHolds == Spec => []PreparationIsSound
<1>1. NoPrivateBuild /\ BuildsWhereItCan /\ UnreadIsRefused /\ MissingIsRefused => PreparationIsSound
  BY DEF PreparationIsSound
<1> QED
  BY <1>1, ConsumersNeverBuild, BuildsFit, UnreadStaysOut, MissingStaysOut, PTL

-----------------------------------------------------------------------------
(* The inspection of Android objects (AndroidElf)                          *)

(* The checks made so far hold of the object; the verdict comes at the end. *)
Linked ==
  \/ checks = <<"elf", "lifetime", "protection">>
  \/ checks = <<"lifetime", "protection">> /\ ValidElf
  \/ checks = <<"protection">> /\ ValidElf /\ ValidLifetime
  \/ checks = <<>> /\ ValidElf /\ ValidLifetime /\ ValidProtection(16384)

Staged ==
  \/ checks = <<"layout", "protection", "lifetime", "flags", "imports">>
  \/ checks = <<"protection", "lifetime", "flags", "imports">> /\ ValidLayout
  \/ checks = <<"lifetime", "flags", "imports">> /\ ValidLayout /\ ValidProtection(Page(target))
  \/ checks = <<"flags", "imports">> /\ ValidLayout /\ ValidProtection(Page(target)) /\ ValidLifetime
  \/ /\ checks = <<"imports">>
     /\ ValidLayout /\ ValidProtection(Page(target)) /\ ValidLifetime /\ ValidFlags
  \/ /\ checks = <<>>
     /\ ValidLayout /\ ValidProtection(Page(target)) /\ ValidLifetime /\ ValidFlags /\ ValidImports

Prebuilt ==
  \/ checks = <<"elf", "lifetime">>
  \/ checks = <<"lifetime">>
  \/ checks = <<>> /\ ValidLifetime

CheckedInv ==
  /\ file \in FileType /\ target \in Targets
  /\ route \in {"prebuilt", "linked", "staged"}
  /\ route = "linked" => Linked
  /\ route = "staged" => Staged
  /\ route = "prebuilt" => Prebuilt
  /\ verdict = "accepted" => checks = <<>>

LEMMA CheckedInit == ElfInit => CheckedInv
BY FilesAssumption DEF ElfInit, Order, CheckedInv, Linked, Staged, Prebuilt

(* The checks are about the object, the target and the route alone.         *)
LEMMA ChecksStay ==
  ASSUME UNCHANGED <<file, target, route>>
  PROVE  /\ ValidElf' = ValidElf /\ ValidLayout' = ValidLayout /\ ValidLifetime' = ValidLifetime
         /\ ValidProtection(16384)' = ValidProtection(16384)
         /\ ValidProtection(Page(target))' = ValidProtection(Page(target))
         /\ ValidFlags' = ValidFlags /\ ValidImports' = ValidImports
BY DEF ValidElf, ValidLayout, ValidLifetime, ValidProtection, ValidFlags, ValidImports,
       HasFlag, Exported, Nulls, Entries, Tagged, PageStart, EndOf, Inside, Aligned, Page

LEMMA CheckedSame ==
  ASSUME UNCHANGED <<file, target, route, checks>>
  PROVE  Linked' = Linked /\ Staged' = Staged /\ Prebuilt' = Prebuilt
<1>1. Linked' = Linked
      BY ChecksStay DEF Linked
<1>2. Staged' = Staged
      BY ChecksStay DEF Staged
<1>3. Prebuilt' = Prebuilt
      BY ChecksStay DEF Prebuilt
<1> QED BY <1>1, <1>2, <1>3

LEMMA CheckedNext == CheckedInv /\ [ElfNext]_elfVars => CheckedInv'
<1> SUFFICES ASSUME CheckedInv, [ElfNext]_elfVars PROVE CheckedInv'
    OBVIOUS
<1> USE DEF CheckedInv
<1>1. CASE UNCHANGED elfVars
      BY <1>1, CheckedSame DEF elfVars
<1>2. CASE Reject
  <2>1. UNCHANGED <<file, target, route, checks>> /\ verdict' = "rejected"
        BY <1>2 DEF Reject
  <2> QED BY <2>1, CheckedSame
<1>3. CASE Accept
  <2>1. /\ UNCHANGED <<file, target, route>> /\ checks' = Tail(checks) /\ checks # <<>>
        /\ Passes(Head(checks))
        /\ verdict' = IF Len(checks) = 1 THEN "accepted" ELSE "checking"
        BY <1>3 DEF Accept
  <2>2. /\ ValidElf' = ValidElf /\ ValidLayout' = ValidLayout /\ ValidLifetime' = ValidLifetime
        /\ ValidProtection(16384)' = ValidProtection(16384)
        /\ ValidProtection(Page(target))' = ValidProtection(Page(target))
        /\ ValidFlags' = ValidFlags /\ ValidImports' = ValidImports
        BY <2>1, ChecksStay
  <2>3. CASE route = "linked"
    <3>1. (checks = <<"elf", "lifetime", "protection">> \/ checks = <<"lifetime", "protection">>
            \/ checks = <<"protection">>) /\ Linked
          BY <2>1, <2>3 DEF Linked
    <3>2. CASE checks = <<"elf", "lifetime", "protection">>
      <4>1. ValidElf
            BY <3>2, <2>1 DEF Passes
      <4>2. checks' = <<"lifetime", "protection">> /\ Len(checks) = 3
            BY <3>2, <2>1
      <4> QED BY <4>1, <4>2, <2>1, <2>2, <2>3 DEF Linked
    <3>3. CASE checks = <<"lifetime", "protection">>
      <4>1. ValidLifetime
            BY <3>3, <2>1 DEF Passes
      <4>2. checks' = <<"protection">> /\ Len(checks) = 2 /\ ValidElf
            BY <3>3, <3>1, <2>1 DEF Linked
      <4> QED BY <4>1, <4>2, <2>1, <2>2, <2>3 DEF Linked
    <3>4. CASE checks = <<"protection">>
      <4>1. ValidProtection(16384)
            BY <3>4, <2>1, <2>3 DEF Passes
      <4>2. checks' = <<>> /\ ValidElf /\ ValidLifetime
            BY <3>4, <3>1, <2>1 DEF Linked
      <4> QED BY <4>1, <4>2, <2>1, <2>2, <2>3 DEF Linked
    <3> QED BY <3>1, <3>2, <3>3, <3>4
  <2>4. CASE route = "staged"
    <3> DEFINE Rest == <<"protection", "lifetime", "flags", "imports">>
    <3>1. CASE checks = <<"layout", "protection", "lifetime", "flags", "imports">>
      <4>1. ValidLayout
            BY <3>1, <2>1 DEF Passes
      <4>2. checks' = Rest /\ Len(checks) = 5
            BY <3>1, <2>1
      <4> QED BY <4>1, <4>2, <2>1, <2>2, <2>4 DEF Staged
    <3>2. CASE checks = Rest
      <4>1. ValidProtection(Page(target)) /\ ValidLayout
            BY <3>2, <2>1, <2>4 DEF Passes, Staged
      <4>2. checks' = <<"lifetime", "flags", "imports">> /\ Len(checks) = 4
            BY <3>2, <2>1
      <4> QED BY <4>1, <4>2, <2>1, <2>2, <2>4 DEF Staged
    <3>3. CASE checks = <<"lifetime", "flags", "imports">>
      <4>1. ValidLifetime /\ ValidLayout /\ ValidProtection(Page(target))
            BY <3>3, <2>1, <2>4 DEF Passes, Staged
      <4>2. checks' = <<"flags", "imports">> /\ Len(checks) = 3
            BY <3>3, <2>1
      <4> QED BY <4>1, <4>2, <2>1, <2>2, <2>4 DEF Staged
    <3>4. CASE checks = <<"flags", "imports">>
      <4>1. ValidFlags /\ ValidLifetime /\ ValidLayout /\ ValidProtection(Page(target))
            BY <3>4, <2>1, <2>4 DEF Passes, Staged
      <4>2. checks' = <<"imports">> /\ Len(checks) = 2
            BY <3>4, <2>1
      <4> QED BY <4>1, <4>2, <2>1, <2>2, <2>4 DEF Staged
    <3>5. CASE checks = <<"imports">>
      <4>1. ValidImports /\ ValidFlags /\ ValidLifetime /\ ValidLayout /\ ValidProtection(Page(target))
            BY <3>5, <2>1, <2>4 DEF Passes, Staged
      <4>2. checks' = <<>>
            BY <3>5, <2>1
      <4> QED BY <4>1, <4>2, <2>1, <2>2, <2>4 DEF Staged
    <3> QED BY <3>1, <3>2, <3>3, <3>4, <3>5, <2>1, <2>4 DEF Staged
  <2>5. CASE route = "prebuilt"
    <3>1. CASE checks = <<"elf", "lifetime">>
      <4>1. checks' = <<"lifetime">> /\ Len(checks) = 2
            BY <3>1, <2>1
      <4> QED BY <4>1, <2>1, <2>5 DEF Prebuilt
    <3>2. CASE checks = <<"lifetime">>
      <4>1. ValidLifetime
            BY <3>2, <2>1 DEF Passes
      <4>2. checks' = <<>>
            BY <3>2, <2>1
      <4> QED BY <4>1, <4>2, <2>1, <2>2, <2>5 DEF Prebuilt
    <3> QED BY <3>1, <3>2, <2>1, <2>5 DEF Prebuilt
  <2> QED BY <2>3, <2>4, <2>5
<1> QED BY <1>1, <1>2, <1>3 DEF ElfNext

-----------------------------------------------------------------------------
(* Page arithmetic: a device whose pages divide the checked ones rounds the *)
(* start of RELRO down no further, and does not move an aligned end.        *)
LEMMA SealedPages ==
  ASSUME NEW a \in Nat, NEW e \in Nat, NEW page \in {4096, 16384}, NEW device \in {4096, 16384},
         device <= page, e % page = 0
  PROVE  /\ PageStart(a, page) <= PageStart(a, device) /\ PageStart(a, device) <= a
         /\ PageEnd(e, device) = e
<1>1. CASE page = device
      BY <1>1, SMT DEF PageStart, PageEnd
<1>2. CASE page = 16384 /\ device = 4096
      BY <1>2, SMT DEF PageStart, PageEnd
<1> QED BY <1>1, <1>2, SMT

(* The checks of alignment and of protection together protect.              *)
LEMMA ProtectedByChecks ==
  ASSUME CheckedInv, NEW page \in {4096, 16384}, \A d \in DevicePages : d <= page,
         ValidProtection(page), \A r \in file.relros : EndOf(r) % page = 0
  PROVE  \A r \in file.relros, device \in DevicePages :
           /\ \A d \in file.dynamics : Seals(r, device, d)
           /\ \A s \in file.sections : s.size > 0 /\ s.alloc =>
                IF s.name \in ProtectedNames THEN Seals(r, device, s)
                ELSE s.write => SparesMutable(r, device, s)
<1> TAKE r \in file.relros, device \in DevicePages
<1>1. /\ file \in FileType
      /\ r \in Segment /\ \A d \in file.dynamics : d \in Segment
      /\ \A s \in file.sections : s \in Section
      BY DEF CheckedInv, FileType
<1>2. r.addr \in Nat /\ EndOf(r) \in Nat
      BY <1>1 DEF Segment, EndOf
<1>3. device \in {4096, 16384} /\ device <= page
      BY DEF DevicePages
<1>4. /\ PageStart(r.addr, page) <= PageStart(r.addr, device)
      /\ PageStart(r.addr, device) <= r.addr /\ PageEnd(EndOf(r), device) = EndOf(r)
      BY <1>2, <1>3, SealedPages
<1>5. PageStart(r.addr, page) \in Nat /\ PageStart(r.addr, device) \in Nat
      BY <1>2, <1>3, SMT DEF PageStart
<1>6. ASSUME NEW d \in file.dynamics PROVE Seals(r, device, d)
  <2>1. Inside(d, r) /\ d.addr \in Nat /\ d.size \in Nat
        BY <1>1 DEF ValidProtection, Segment
  <2> QED BY <2>1, <1>2, <1>4, <1>5 DEF Inside, Seals, EndOf
<1>7. ASSUME NEW s \in file.sections, s.size > 0, s.alloc
      PROVE  IF s.name \in ProtectedNames THEN Seals(r, device, s)
             ELSE s.write => SparesMutable(r, device, s)
  <2>1. s.addr \in Nat /\ s.size \in Nat /\ EndOf(s) \in Nat
        BY <1>1 DEF Section, EndOf
  <2>2. IF s.name \in ProtectedNames THEN Inside(s, r)
        ELSE s.write => EndOf(s) <= PageStart(r.addr, page) \/ EndOf(r) <= s.addr
        BY <1>7 DEF ValidProtection
  <2>3. CASE s.name \in ProtectedNames
        BY <2>1, <2>2, <2>3, <1>2, <1>4, <1>5 DEF Inside, Seals
  <2>4. CASE s.name \notin ProtectedNames
        BY <2>1, <2>2, <2>4, <1>2, <1>4, <1>5 DEF SparesMutable
  <2> QED BY <2>3, <2>4
<1> QED BY <1>6, <1>7

LEMMA CheckedProtected == CheckedInv => AcceptedIsProtected
<1> SUFFICES ASSUME CheckedInv, verdict = "accepted", route \in {"linked", "staged"}
             PROVE  \A r \in file.relros, device \in DevicePages :
                      /\ \A d \in file.dynamics : Seals(r, device, d)
                      /\ \A s \in file.sections : s.size > 0 /\ s.alloc =>
                           IF s.name \in ProtectedNames THEN Seals(r, device, s)
                           ELSE s.write => SparesMutable(r, device, s)
    BY DEF AcceptedIsProtected
<1>1. CASE route = "linked"
  <2>1. ValidElf /\ ValidProtection(16384)
        BY <1>1 DEF CheckedInv, Linked
  <2>2. \A r \in file.relros : EndOf(r) % 16384 = 0
        BY <2>1 DEF ValidElf
  <2>3. \A d \in DevicePages : d <= 16384
        BY DEF DevicePages
  <2> QED BY <2>1, <2>2, <2>3, ProtectedByChecks
<1>2. CASE route = "staged"
  <2>1. ValidLayout /\ ValidProtection(Page(target))
        BY <1>2 DEF CheckedInv, Staged
  <2>2. \A r \in file.relros : EndOf(r) % Page(target) = 0
        BY <2>1 DEF ValidLayout
  <2>3. Page(target) \in {4096, 16384} /\ \A d \in DevicePages : d <= Page(target)
        BY DEF DevicePages, Page
  <2> QED BY <2>1, <2>2, <2>3, ProtectedByChecks
<1> QED BY <1>1, <1>2

(* Whatever the object, what a protecting route accepts is sealed whole and *)
(* nothing mutable is sealed with it, on every page size of the target      *)
(* (android-elf.js, android-staging-elf.js).                                *)
THEOREM ProtectionHolds == ElfSpec => []AcceptedIsProtected
<1> QED BY CheckedInit, CheckedNext, CheckedProtected, PTL DEF ElfSpec

(* The table is finite, so one flags word is also the last one.             *)
LEMMA TaggedFinite ==
  ASSUME CheckedInv, NEW tag
  PROVE  IsFiniteSet(Tagged(tag)) /\ Tagged(tag) \subseteq Nat
<1>1. DOMAIN file.table = 1..Len(file.table) /\ Len(file.table) \in Nat
  BY DEF CheckedInv, FileType
<1>2. Tagged(tag) \subseteq 1..Len(file.table)
  BY <1>1 DEF Tagged, Entries
<1>3. IsFiniteSet(1..Len(file.table)) /\ 1..Len(file.table) \subseteq Nat
  BY <1>1, FS_Interval
<1> QED
  BY <1>2, <1>3, FS_Subset

LEMMA OneWordWins ==
  ASSUME CheckedInv, NEW tag, NEW bit
  PROVE  /\ HasFlag(tag, bit) => LastWins(tag, bit)
         /\ Cardinality(Tagged(tag)) <= 1 /\ LastWins(tag, bit) => HasFlag(tag, bit)
<1>1. IsFiniteSet(Tagged(tag)) /\ Tagged(tag) \subseteq Nat
  BY TaggedFinite
<1>2. ASSUME Cardinality(Tagged(tag)) = 1 PROVE \E i \in Nat : Tagged(tag) = {i}
  BY <1>1, <1>2, FS_Singleton
<1>3. HasFlag(tag, bit) => LastWins(tag, bit)
  <2> SUFFICES ASSUME HasFlag(tag, bit) PROVE LastWins(tag, bit)
    OBVIOUS
  <2>1. PICK i \in Nat : Tagged(tag) = {i}
    BY <1>2 DEF HasFlag
  <2> QED
    BY <2>1 DEF HasFlag, LastWins
<1>4. ASSUME Cardinality(Tagged(tag)) <= 1, LastWins(tag, bit) PROVE HasFlag(tag, bit)
  <2>1. Tagged(tag) # {}
    BY <1>4 DEF LastWins
  <2>2. Cardinality(Tagged(tag)) = 1
    BY <1>1, <1>4, <2>1, FS_CardinalityType, FS_EmptySet
  <2>3. PICK i \in Nat : Tagged(tag) = {i}
    BY <1>2, <2>2
  <2> QED
    BY <1>4, <2>2, <2>3 DEF HasFlag, LastWins
<1> QED
  BY <1>3, <1>4

LEMMA CheckedLoaded == CheckedInv => AcceptedStaysLoaded
<1> SUFFICES ASSUME CheckedInv, verdict = "accepted"
             PROVE  Nulls # {} /\ LastWins("flags1", "nodelete")
    BY DEF AcceptedStaysLoaded
<1>1. ValidLifetime
      BY DEF CheckedInv, Linked, Staged, Prebuilt
<1>2. HasFlag("flags1", "nodelete")
      BY <1>1 DEF ValidLifetime, HasFlag
<1> QED BY <1>1, <1>2, OneWordWins DEF ValidLifetime

LEMMA CheckedLoadable == CheckedInv => StagedIsLoadable
<1> SUFFICES ASSUME CheckedInv, verdict = "accepted", route = "staged"
             PROVE  /\ \A i \in file.imports : i.weak \/ Resolves(i.name)
                    /\ LastWins("flags", "now") \/ LastWins("flags1", "now") \/ Tagged("bindnow") # {}
                    /\ Tagged("textrel") = {} /\ ~LastWins("flags", "textrel")
    BY DEF StagedIsLoadable
<1>1. ValidFlags /\ ValidImports
      BY DEF CheckedInv, Staged
<1>2. \A i \in file.imports : i.weak \/ Resolves(i.name)
      BY <1>1 DEF ValidImports, Resolves, Exported
<1>3. LastWins("flags", "now") \/ LastWins("flags1", "now") \/ Tagged("bindnow") # {}
      BY <1>1, OneWordWins DEF ValidFlags
<1>4. Tagged("textrel") = {} /\ ~LastWins("flags", "textrel")
      BY <1>1, OneWordWins DEF ValidFlags
<1> QED BY <1>2, <1>3, <1>4

(* Whatever entries the dynamic table holds, an accepted object keeps its   *)
(* code loaded under the loader's reading of it (validateAndroidLifetime).  *)
THEOREM LifetimeHolds == ElfSpec => []AcceptedStaysLoaded
<1> QED BY CheckedInit, CheckedNext, CheckedLoaded, PTL DEF ElfSpec

(* Whatever it imports and however its flags are spread over the table, an  *)
(* object that staging accepts is bound completely when it is loaded        *)
(* (android-staging-elf.js).                                                *)
THEOREM LoadableHolds == ElfSpec => []StagedIsLoadable
<1> QED BY CheckedInit, CheckedNext, CheckedLoadable, PTL DEF ElfSpec

-----------------------------------------------------------------------------
(* The managed output of the Android staging (AndroidStaging)               *)

(* An output is staged from files that were all there at one moment.  A run *)
(* plans each file with the contents it has then and copies it only while   *)
(* it still has them.  Contents only grow, so at the moment the first copy  *)
(* began every file of the plan had the contents the plan names, whatever   *)
(* was rebuilt since: s below is the inputs of that moment.                 *)
Partial(S) == UNION {[T -> Staging!Contents] : T \in SUBSET S}

DirectoryType ==
  [files : Partial(Staging!Paths), report : Partial(Staging!Paths),
   originals : Partial(Abis), mine : BOOLEAN]
MaybeDirectory == DirectoryType \cup {Staging!Absent}
RunType ==
  [pc : {"idle", "verify", "digest", "plan", "make", "copy", "report", "aside", "publish",
         "restore", "clean"} \cup Staging!Ended,
   abis : SUBSET Abis, todo : SUBSET (Abis \cup Staging!Paths), manifest : Partial(Abis),
   digest : Partial(Abis), plan : Partial(Staging!Paths)]

TakenFrom(files, s) == \A path \in DOMAIN files : files[path] = s[path]

SetOK(dir, snaps) ==
  Staging!Complete(dir) =>
    /\ dir.files = dir.report
    /\ \A abi \in DOMAIN dir.originals : dir.files[<<abi, "addon">>] = dir.originals[abi]
    /\ \E s \in snaps : TakenFrom(dir.files, s)

Unwritten(dir) == dir \in DirectoryType /\ dir.report = Staging!Nothing

(* The files of the plan copied so far, and the moment they are from.       *)
CopyOK(r, dir, src, snaps) ==
  /\ r.todo \subseteq DOMAIN r.plan /\ r.todo # {}
  /\ Unwritten(dir)
  /\ DOMAIN dir.files = DOMAIN r.plan \ r.todo
  /\ TakenFrom(dir.files, r.plan)
  /\ \E s \in snaps :
       /\ \A path \in Staging!Paths : s[path] <= src[path]
       /\ \A path \in DOMAIN r.plan : r.plan[path] <= s[path]
       /\ \A path \in DOMAIN r.plan \ r.todo : r.plan[path] = s[path]

AddonPlanned(r, abi) ==
  <<abi, "addon">> \in DOMAIN r.plan /\ r.plan[<<abi, "addon">>] = r.digest[abi]

RunOK(r, dir, src, snaps) ==
  /\ DOMAIN r.plan \subseteq r.abis \X {"addon", "other"}
  /\ \A abi \in DOMAIN r.digest : r.digest[abi] <= src[<<abi, "addon">>]
  /\ r.pc \in {"idle", "verify", "digest"} => r.plan = Staging!Nothing
  /\ r.pc \in {"verify", "digest", "plan", "make", "copy", "report", "aside"} => r.abis # {}
  /\ r.pc \in {"idle", "verify"} => r.digest = Staging!Nothing
  /\ r.pc = "digest" => r.todo \subseteq r.abis /\ r.todo # {} /\ DOMAIN r.digest = r.abis \ r.todo
  /\ r.pc \in {"plan", "make", "copy", "report", "aside"} => DOMAIN r.digest = r.abis
  /\ r.pc = "plan" => /\ r.todo \subseteq r.abis /\ r.todo # {}
                      /\ \A abi \in r.abis \ r.todo : AddonPlanned(r, abi)
  /\ r.pc \in {"make", "copy", "report", "aside"} => \A abi \in r.abis : AddonPlanned(r, abi)
  /\ r.pc \in {"plan", "make"} => \A path \in DOMAIN r.plan : r.plan[path] <= src[path]
  /\ r.pc = "copy" => CopyOK(r, dir, src, snaps)
  /\ r.pc = "report" => /\ Unwritten(dir) /\ dir.files = r.plan
                        /\ \E s \in snaps : TakenFrom(r.plan, s)
  /\ r.pc \in {"aside", "publish"} => dir \in DirectoryType /\ Staging!Complete(dir)

StagingTyped ==
  /\ rebuilds \in 0..MaxRebuilds
  /\ source \in [Staging!Paths -> 0..rebuilds]
  /\ stamp \in [Abis -> Staging!Contents]
  /\ linked \in [Abis -> SUBSET {"addon", "other", "stale"}]
  /\ seen \subseteq [Staging!Paths -> 0..rebuilds] /\ source \in seen
  /\ stagers \in [Stagers -> RunType]
  /\ temp \in [Stagers -> MaybeDirectory] /\ backup \in [Stagers -> MaybeDirectory]
  /\ output \in MaybeDirectory
  /\ moved \subseteq Stagers

SetsInv ==
  /\ SetOK(output, seen)
  /\ \A p \in Stagers : SetOK(temp[p], seen) /\ SetOK(backup[p], seen)

RunsInv == \A p \in Stagers : RunOK(stagers[p], temp[p], source, seen)

(* One run moved the last set aside, after its own copies, and its backup   *)
(* is removed only when another set is in the output.                       *)
MovedInv ==
  /\ \A p, q \in moved : p = q
  /\ \A p \in moved :
       /\ stagers[p].pc \in {"publish", "restore", "clean"} \cup Staging!Ended
       /\ stagers[p].pc = "clean" => Staging!Complete(output)

StagedInv == StagingTyped /\ SetsInv /\ RunsInv /\ MovedInv

LEMMA PartialIs ==
  ASSUME NEW S, NEW f
  PROVE  f \in Partial(S) <=> DOMAIN f \subseteq S /\ f \in [DOMAIN f -> Staging!Contents]
BY DEF Partial

LEMMA ContentsAreNumbers == Staging!Contents \subseteq Nat /\ 0 \in Staging!Contents
BY StagingIsBounded DEF Staging!Contents, Staging!Rewritten, Staging!StagingAssumption

LEMMA NothingIsPartial ==
  ASSUME NEW S
  PROVE  Staging!Nothing \in Partial(S) /\ DOMAIN Staging!Nothing = {}
<1>1. DOMAIN Staging!Nothing = {}
  BY DEF Staging!Nothing
<1>2. Staging!Nothing \in [{} -> Staging!Contents]
  BY DEF Staging!Nothing
<1> QED
  BY <1>1, <1>2, PartialIs

(* A function is empty exactly when its domain is.                          *)
LEMMA NothingIsEmpty ==
  ASSUME NEW S, NEW f \in Partial(S)
  PROVE  f = Staging!Nothing <=> DOMAIN f = {}
<1>1. f \in [DOMAIN f -> Staging!Contents]
  BY PartialIs
<1>2. ASSUME DOMAIN f = {} PROVE f = Staging!Nothing
  <2>1. f = [x \in {} |-> f[x]]
    BY <1>1, <1>2
  <2> QED
    BY <2>1 DEF Staging!Nothing
<1> QED
  BY <1>2, NothingIsPartial

LEMMA OverIsPartial ==
  ASSUME NEW S, NEW f \in Partial(S), NEW g \in Partial(S)
  PROVE  Staging!Over(f, g) \in Partial(S)
<1> DEFINE h == Staging!Over(f, g)
<1>1. DOMAIN h = DOMAIN f \cup DOMAIN g
  BY DEF Staging!Over
<1>2. f \in [DOMAIN f -> Staging!Contents] /\ g \in [DOMAIN g -> Staging!Contents]
      /\ DOMAIN f \subseteq S /\ DOMAIN g \subseteq S
  BY PartialIs
<1>3. h \in [DOMAIN f \cup DOMAIN g -> Staging!Contents]
  BY <1>2 DEF Staging!Over
<1> QED
  BY <1>1, <1>2, <1>3, PartialIs

(* g is f with v at x.                                                      *)
Extends(g, f, x, v) ==
  /\ DOMAIN g = DOMAIN f \cup {x} /\ g[x] = v
  /\ \A y \in DOMAIN f : y # x => g[y] = f[y]

LEMMA WithIsPartial ==
  ASSUME NEW S, NEW f \in Partial(S), NEW x \in S, NEW v \in Staging!Contents
  PROVE  Staging!With(f, x, v) \in Partial(S) /\ Extends(Staging!With(f, x, v), f, x, v)
<1> DEFINE one == [y \in {x} |-> v]
<1>1. one \in Partial(S)
  BY PartialIs
<1>2. Staging!With(f, x, v) = Staging!Over(one, f)
  BY DEF Staging!With
<1> QED
  BY <1>1, <1>2, OverIsPartial DEF Staging!Over, Extends

LEMMA AbsentIsNoDirectory == Staging!Absent \notin DirectoryType
<1>1. DOMAIN Staging!Absent = {"absent"}
  BY DEF Staging!Absent
<1>2. ASSUME NEW d \in DirectoryType PROVE DOMAIN d = {"files", "report", "originals", "mine"}
  BY DEF DirectoryType
<1> QED
  BY <1>1, <1>2

LEMMA EmptyIsDirectory ==
  /\ Staging!Empty \in DirectoryType /\ Unwritten(Staging!Empty)
  /\ DOMAIN Staging!Empty.files = {}
  /\ [Staging!Empty EXCEPT !.mine = TRUE] \in DirectoryType
  /\ ~Staging!Complete([Staging!Empty EXCEPT !.mine = TRUE])
BY NothingIsPartial DEF Staging!Empty, Staging!Directory, DirectoryType, Unwritten, Staging!Complete

LEMMA IdleTyped ==
  ASSUME NEW result \in {"idle"} \cup Staging!Ended
  PROVE  [Staging!Idle EXCEPT !.pc = result] \in RunType
BY NothingIsPartial DEF Staging!Idle, RunType

LEMMA IdleOK ==
  ASSUME NEW result \in {"idle"} \cup Staging!Ended, NEW dir, NEW src, NEW snaps
  PROVE  RunOK([Staging!Idle EXCEPT !.pc = result], dir, src, snaps)
BY NothingIsPartial DEF RunOK, Staging!Idle, Staging!Ended

(* Contents only grow and no moment is forgotten.                           *)
LEMMA RunOKGrows ==
  ASSUME NEW r \in RunType, NEW dir, NEW src \in [Staging!Paths -> Nat], NEW snaps,
         NEW src2 \in [Staging!Paths -> Nat], NEW snaps2,
         snaps \subseteq [Staging!Paths -> Nat],
         \A path \in Staging!Paths : src[path] <= src2[path], snaps \subseteq snaps2,
         RunOK(r, dir, src, snaps)
  PROVE  RunOK(r, dir, src2, snaps2)
<1>1. /\ r.plan \in [DOMAIN r.plan -> Nat] /\ DOMAIN r.plan \subseteq Staging!Paths
      /\ r.digest \in [DOMAIN r.digest -> Nat] /\ DOMAIN r.digest \subseteq Abis
  BY PartialIs, ContentsAreNumbers DEF RunType
<1>2. \A abi \in DOMAIN r.digest : <<abi, "addon">> \in Staging!Paths
  BY <1>1 DEF Staging!Paths
<1>3. \A abi \in DOMAIN r.digest : r.digest[abi] <= src2[<<abi, "addon">>]
  <2>1. \A abi \in DOMAIN r.digest : r.digest[abi] <= src[<<abi, "addon">>]
    BY DEF RunOK
  <2>2. \A path \in Staging!Paths : src[path] \in Nat /\ src2[path] \in Nat
    OBVIOUS
  <2>3. ASSUME NEW abi \in DOMAIN r.digest PROVE r.digest[abi] <= src2[<<abi, "addon">>]
    <3>1. r.digest[abi] \in Nat /\ <<abi, "addon">> \in Staging!Paths
      BY <1>1, <1>2
    <3> QED
      BY <2>1, <2>2, <3>1
  <2> QED
    BY <2>3
<1>4. (\A path \in DOMAIN r.plan : r.plan[path] <= src[path]) =>
         \A path \in DOMAIN r.plan : r.plan[path] <= src2[path]
  BY <1>1
<1>5. CopyOK(r, dir, src, snaps) => CopyOK(r, dir, src2, snaps2)
  <2> SUFFICES ASSUME CopyOK(r, dir, src, snaps) PROVE CopyOK(r, dir, src2, snaps2)
    OBVIOUS
  <2>1. PICK s \in snaps :
          /\ \A path \in Staging!Paths : s[path] <= src[path]
          /\ \A path \in DOMAIN r.plan : r.plan[path] <= s[path]
          /\ \A path \in DOMAIN r.plan \ r.todo : r.plan[path] = s[path]
    BY DEF CopyOK
  <2>2. s \in [Staging!Paths -> Nat] /\ s \in snaps2
    BY <2>1
  <2>3. \A path \in Staging!Paths : s[path] <= src2[path]
    BY <2>1, <2>2
  <2> QED
    BY <2>1, <2>2, <2>3 DEF CopyOK
<1>6. (\E s \in snaps : TakenFrom(r.plan, s)) => \E s \in snaps2 : TakenFrom(r.plan, s)
  OBVIOUS
<1> QED
  BY <1>3, <1>4, <1>5, <1>6 DEF RunOK

LEMMA SetOKGrows ==
  ASSUME NEW dir, NEW snaps, NEW snaps2, snaps \subseteq snaps2, SetOK(dir, snaps)
  PROVE  SetOK(dir, snaps2)
BY DEF SetOK

LEMMA SetOKTrivially ==
  ASSUME NEW dir, NEW snaps, ~Staging!Complete(dir)
  PROVE  SetOK(dir, snaps)
BY DEF SetOK

LEMMA AbsentIsIncomplete == ~Staging!Complete(Staging!Absent)
BY DEF Staging!Complete

-----------------------------------------------------------------------------
(* A step of one run: the run, its temporary directory, the output and the  *)
(* set it moved aside.                                                      *)
LEMMA RunSteps ==
  ASSUME StagedInv, NEW p \in Stagers, NEW r \in RunType, NEW dir \in MaybeDirectory,
         NEW aside \in MaybeDirectory,
         stagers' = [stagers EXCEPT ![p] = r], temp' = [temp EXCEPT ![p] = dir],
         backup' = [backup EXCEPT ![p] = aside],
         UNCHANGED <<source, stamp, linked, rebuilds, seen>>,
         RunOK(r, dir, source, seen), SetOK(dir, seen), SetOK(aside, seen),
         output' \in MaybeDirectory, SetOK(output', seen), moved' \subseteq Stagers, MovedInv'
  PROVE  StagedInv'
<1>1. StagingTyped'
  BY DEF StagedInv, StagingTyped
<1>2. SetsInv'
  BY DEF StagedInv, StagingTyped, SetsInv
<1>3. RunsInv'
  BY DEF StagedInv, StagingTyped, RunsInv
<1> QED
  BY <1>1, <1>2, <1>3 DEF StagedInv

(* Before it has moved anything a run changes only its own files.           *)
LEMMA RunPrepares ==
  ASSUME StagedInv, NEW p \in Stagers, NEW r \in RunType, NEW dir \in MaybeDirectory,
         stagers' = [stagers EXCEPT ![p] = r], temp' = [temp EXCEPT ![p] = dir],
         UNCHANGED <<source, stamp, linked, rebuilds, seen, output, backup, moved>>,
         stagers[p].pc \in {"idle", "verify", "digest", "plan", "make", "copy", "report", "aside"}
         \/ r.pc \in {"restore"} \cup Staging!Ended,
         RunOK(r, dir, source, seen), SetOK(dir, seen)
  PROVE  StagedInv'
<1>1. MovedInv'
  <2>1. \A q \in moved : stagers[q].pc \notin {"idle", "verify", "digest", "plan", "make", "copy", "report", "aside"}
    BY DEF StagedInv, MovedInv, Staging!Ended
  <2>2. \A q \in Stagers : stagers'[q] = IF q = p THEN r ELSE stagers[q]
    BY DEF StagedInv, StagingTyped
  <2> QED
    BY <2>1, <2>2 DEF StagedInv, MovedInv, StagingTyped, Staging!Ended
<1>2. backup' = [backup EXCEPT ![p] = backup[p]] /\ backup[p] \in MaybeDirectory /\ SetOK(backup[p], seen)
  BY DEF StagedInv, StagingTyped, SetsInv
<1>3. output' \in MaybeDirectory /\ SetOK(output', seen) /\ moved' \subseteq Stagers
  BY DEF StagedInv, StagingTyped, SetsInv
<1> QED
  BY <1>1, <1>2, <1>3, RunSteps

LEMMA StagedFacts ==
  ASSUME StagedInv, NEW p \in Stagers
  PROVE  /\ stagers[p] \in RunType /\ temp[p] \in MaybeDirectory /\ backup[p] \in MaybeDirectory
         /\ RunOK(stagers[p], temp[p], source, seen)
         /\ SetOK(temp[p], seen) /\ SetOK(backup[p], seen) /\ SetOK(output, seen)
         /\ temp = [temp EXCEPT ![p] = temp[p]] /\ backup = [backup EXCEPT ![p] = backup[p]]
         /\ source \in [Staging!Paths -> Nat] /\ source \in [Staging!Paths -> Staging!Contents]
         /\ source \in seen /\ seen \subseteq [Staging!Paths -> Nat]
         /\ stamp \in [Abis -> Staging!Contents]
         /\ linked \in [Abis -> SUBSET {"addon", "other", "stale"}]
<1>1. rebuilds \in Nat /\ 0..rebuilds \subseteq Nat /\ 0..rebuilds \subseteq Staging!Contents
  BY StagingIsBounded DEF StagedInv, StagingTyped, Staging!Contents, Staging!StagingAssumption
<1> QED
  BY <1>1 DEF StagedInv, StagingTyped, SetsInv, RunsInv

LEMMA BeginKeeps ==
  ASSUME StagedInv, NEW p \in Stagers, Staging!Begin(p)
  PROVE  StagedInv'
<1>1. PICK abis \in Staging!Requests :
        IF Staging!Owned(output) THEN Staging!Goes(p, [stagers[p] EXCEPT !.pc = "verify", !.abis = abis])
                                 ELSE Staging!Ends(p, "failed")
  BY DEF Staging!Begin
<1>2. UNCHANGED <<source, stamp, linked, rebuilds, seen, output, temp, backup, moved>> /\ stagers[p].pc = "idle"
  BY DEF Staging!Begin, Staging!inputs, Staging!directories
<1> DEFINE r == IF Staging!Owned(output) THEN [stagers[p] EXCEPT !.pc = "verify", !.abis = abis]
                ELSE [Staging!Idle EXCEPT !.pc = "failed"]
<1>3. stagers' = [stagers EXCEPT ![p] = r]
  BY <1>1 DEF Staging!Goes, Staging!Ends
<1>4. CASE Staging!Owned(output)
  <2>1. r = [stagers[p] EXCEPT !.pc = "verify", !.abis = abis]
    BY <1>4
  <2>2. stagers[p] \in RunType /\ stagers[p].plan = Staging!Nothing /\ stagers[p].digest = Staging!Nothing
    BY <1>2, StagedFacts DEF RunOK
  <2>3. r \in RunType
    BY <2>1, <2>2 DEF RunType, Staging!Requests
  <2>4. r.pc = "verify" /\ r.abis = abis /\ r.plan = Staging!Nothing /\ r.digest = Staging!Nothing
    BY <2>1, <2>2 DEF RunType
  <2>5. abis # {}
    BY DEF Staging!Requests
  <2>6. RunOK(r, temp[p], source, seen)
    BY <2>4, <2>5, NothingIsPartial DEF RunOK
  <2> QED
    BY <1>2, <1>3, <2>3, <2>6, StagedFacts, RunPrepares
<1>5. CASE ~Staging!Owned(output)
  <2>1. r \in RunType /\ RunOK(r, temp[p], source, seen)
    BY <1>5, IdleTyped, IdleOK DEF Staging!Ended
  <2> QED
    BY <1>2, <1>3, <2>1, StagedFacts, RunPrepares
<1> QED
  BY <1>4, <1>5

(* A run that gives up or dies leaves nothing to be kept about it.          *)
LEMMA EndKeeps ==
  ASSUME StagedInv, NEW p \in Stagers, NEW result \in Staging!Ended, Staging!Ends(p, result),
         temp' = temp \/ temp' = [temp EXCEPT ![p] = Staging!Absent],
         UNCHANGED <<source, stamp, linked, rebuilds, seen, output, backup, moved>>
  PROVE  StagedInv'
<1> DEFINE r == [Staging!Idle EXCEPT !.pc = result]
<1>1. stagers' = [stagers EXCEPT ![p] = r]
  BY DEF Staging!Ends
<1>2. r \in RunType /\ r.pc \in Staging!Ended
  <2>1. r \in RunType
    BY IdleTyped
  <2> QED
    BY <2>1 DEF Staging!Idle
<1>3. PICK dir \in {temp[p], Staging!Absent} : temp' = [temp EXCEPT ![p] = dir]
  BY StagedFacts
<1>4. dir \in MaybeDirectory /\ SetOK(dir, seen)
  BY <1>3, StagedFacts, AbsentIsIncomplete, SetOKTrivially DEF MaybeDirectory
<1>5. RunOK(r, dir, source, seen)
  BY IdleOK
<1> HIDE DEF r
<1> QED
  BY <1>1, <1>2, <1>3, <1>4, <1>5, RunPrepares

LEMMA RefusesKeeps ==
  ASSUME StagedInv, NEW p \in Stagers, Staging!Refuses(p) \/ Staging!Dies(p)
  PROVE  StagedInv'
<1>1. "failed" \in Staging!Ended /\ "crashed" \in Staging!Ended
  BY DEF Staging!Ended
<1>2. Staging!Ends(p, "failed") \/ Staging!Ends(p, "crashed")
  BY DEF Staging!Refuses, Staging!Dies
<1>3. temp' = temp \/ temp' = [temp EXCEPT ![p] = Staging!Absent]
  BY DEF Staging!Refuses, Staging!Dies, Staging!directories
<1>4. UNCHANGED <<source, stamp, linked, rebuilds, seen, output, backup, moved>>
  BY DEF Staging!Refuses, Staging!Dies, Staging!directories, Staging!inputs
<1> QED
  BY <1>1, <1>2, <1>3, <1>4, EndKeeps

LEMMA PublishFailsKeeps ==
  ASSUME StagedInv, NEW p \in Stagers, Staging!PublishFails(p)
  PROVE  StagedInv'
<1> DEFINE r == [stagers[p] EXCEPT !.pc = "restore"]
<1>1. stagers' = [stagers EXCEPT ![p] = r] /\ stagers[p].pc = "publish"
  BY DEF Staging!PublishFails, Staging!Goto, Staging!Goes
<1>2. UNCHANGED <<source, stamp, linked, rebuilds, seen, output, temp, backup, moved>>
  BY DEF Staging!PublishFails, Staging!inputs, Staging!directories
<1>3. stagers[p] \in RunType /\ RunOK(stagers[p], temp[p], source, seen)
  BY StagedFacts
<1>4. r \in RunType /\ r.pc = "restore" /\ r.plan = stagers[p].plan /\ r.digest = stagers[p].digest
      /\ r.abis = stagers[p].abis
  BY <1>3 DEF RunType
<1>5. RunOK(r, temp[p], source, seen)
  BY <1>3, <1>4 DEF RunOK
<1> HIDE DEF r
<1> QED
  BY <1>1, <1>2, <1>4, <1>5, StagedFacts, RunPrepares

LEMMA VerifyInputsKeeps ==
  ASSUME StagedInv, NEW p \in Stagers, Staging!VerifyInputs(p)
  PROVE  StagedInv'
<1> DEFINE r == [stagers[p] EXCEPT !.pc = "digest", !.manifest = stamp, !.todo = stagers[p].abis]
<1>1. stagers' = [stagers EXCEPT ![p] = r] /\ stagers[p].pc = "verify"
  BY DEF Staging!VerifyInputs, Staging!Goes
<1>2. UNCHANGED <<source, stamp, linked, rebuilds, seen, output, temp, backup, moved>>
  BY DEF Staging!VerifyInputs, Staging!inputs, Staging!directories
<1>3. stagers[p] \in RunType /\ stagers[p].plan = Staging!Nothing /\ stagers[p].digest = Staging!Nothing
      /\ stagers[p].abis # {}
  BY <1>1, StagedFacts DEF RunOK
<1>4. stamp \in Partial(Abis)
  BY StagedFacts, PartialIs
<1>5. r \in RunType
  BY <1>3, <1>4 DEF RunType
<1>6. r.pc = "digest" /\ r.abis = stagers[p].abis /\ r.todo = r.abis
      /\ r.plan = Staging!Nothing /\ r.digest = Staging!Nothing
  BY <1>3 DEF RunType
<1>7. RunOK(r, temp[p], source, seen)
  BY <1>3, <1>6, NothingIsPartial DEF RunOK
<1> HIDE DEF r
<1> QED
  BY <1>1, <1>2, <1>5, <1>7, StagedFacts, RunPrepares

LEMMA VerifyOriginalKeeps ==
  ASSUME StagedInv, NEW p \in Stagers, Staging!VerifyOriginal(p)
  PROVE  StagedInv'
<1> DEFINE o == stagers[p]
<1>1. PICK abi \in o.todo :
        Staging!Advance(p, [o EXCEPT !.digest = Staging!With(o.digest, abi, source[<<abi, "addon">>])],
                        abi, "plan", o.abis)
  BY DEF Staging!VerifyOriginal
<1>2. o.pc = "digest" /\ UNCHANGED <<source, stamp, linked, rebuilds, seen, output, temp, backup, moved>>
  BY DEF Staging!VerifyOriginal, Staging!inputs, Staging!directories
<1>3. o \in RunType /\ RunOK(o, temp[p], source, seen)
  BY StagedFacts
<1>4. o.todo \subseteq o.abis /\ o.abis \subseteq Abis /\ DOMAIN o.digest = o.abis \ o.todo /\ o.digest \in Partial(Abis)
      /\ o.abis # {} /\ o.plan = Staging!Nothing /\ o.plan \in Partial(Staging!Paths)
      /\ \A a \in DOMAIN o.digest : o.digest[a] <= source[<<a, "addon">>]
  BY <1>2, <1>3 DEF RunOK, RunType
<1>5. abi \in Abis /\ <<abi, "addon">> \in Staging!Paths
      /\ source[<<abi, "addon">>] \in Nat /\ source[<<abi, "addon">>] \in Staging!Contents
  BY <1>4, StagedFacts DEF Staging!Paths
<1> DEFINE v == source[<<abi, "addon">>]
           digest == Staging!With(o.digest, abi, v)
           left == o.todo \ {abi}
           r == IF left = {} THEN [[o EXCEPT !.digest = digest] EXCEPT !.pc = "plan", !.todo = o.abis]
                ELSE [[o EXCEPT !.digest = digest] EXCEPT !.todo = left]
<1>6. stagers' = [stagers EXCEPT ![p] = r]
  BY <1>1 DEF Staging!Advance, Staging!Goes
<1> HIDE DEF o, v
<1>7. /\ digest \in Partial(Abis) /\ DOMAIN digest = DOMAIN o.digest \cup {abi}
      /\ digest[abi] = v
      /\ \A a \in DOMAIN o.digest : a # abi => digest[a] = o.digest[a]
  <2>1. v \in Staging!Contents /\ abi \in Abis /\ o.digest \in Partial(Abis)
    BY <1>4, <1>5 DEF v
  <2>2. digest \in Partial(Abis) /\ Extends(digest, o.digest, abi, v)
    BY <2>1, WithIsPartial
  <2> QED
    BY <2>2 DEF Extends
<1> HIDE DEF digest
<1>8. \A a \in DOMAIN digest : digest[a] <= source[<<a, "addon">>]
  <2>1. v <= source[<<abi, "addon">>]
    BY <1>5 DEF v
  <2> QED
    BY <1>4, <1>7, <2>1
<1>9. /\ r \in RunType /\ r.abis = o.abis /\ r.plan = Staging!Nothing /\ r.digest = digest
      /\ r.pc = (IF left = {} THEN "plan" ELSE "digest")
      /\ r.todo = (IF left = {} THEN o.abis ELSE left)
  BY <1>2, <1>3, <1>4, <1>7 DEF RunType, o
<1> HIDE DEF r
<1>10. RunOK(r, temp[p], source, seen)
  BY <1>4, <1>7, <1>8, <1>9, NothingIsPartial DEF RunOK
<1> QED
  BY <1>2, <1>6, <1>9, <1>10, StagedFacts, RunPrepares DEF o

(* What is planned for one ABI: the linked names, each with the contents it *)
(* has now; the addon with those of the verified prebuild.                  *)
LEMMA PlannedTyped ==
  ASSUME StagedInv, NEW p \in Stagers, NEW abi \in Abis,
         linked[abi] \subseteq {"addon", "other"}, "addon" \in linked[abi],
         abi \in DOMAIN stagers[p].digest
  PROVE  /\ Staging!Planned(p, abi) \in Partial(Staging!Paths)
         /\ DOMAIN Staging!Planned(p, abi) \subseteq {abi} \X {"addon", "other"}
         /\ <<abi, "addon">> \in DOMAIN Staging!Planned(p, abi)
         /\ Staging!Planned(p, abi)[<<abi, "addon">>] = stagers[p].digest[abi]
         /\ \A path \in DOMAIN Staging!Planned(p, abi) :
              Staging!Planned(p, abi)[path] <= source[path]
<1> DEFINE g == Staging!Planned(p, abi)
<1>1. g = [path \in {abi} \X linked[abi] |-> IF path[2] = "addon" THEN stagers[p].digest[abi] ELSE source[path]]
  BY DEF Staging!Planned
<1>2. DOMAIN g = {abi} \X linked[abi]
  BY <1>1
<1>3. {abi} \X linked[abi] \subseteq Staging!Paths
  BY DEF Staging!Paths
<1>4. /\ stagers[p].digest[abi] \in Staging!Contents
      /\ stagers[p].digest[abi] <= source[<<abi, "addon">>]
  <2>1. stagers[p].digest \in Partial(Abis)
    BY StagedFacts DEF RunType
  <2>2. stagers[p].digest \in [DOMAIN stagers[p].digest -> Staging!Contents]
    BY <2>1, PartialIs
  <2> QED
    BY <2>2, StagedFacts DEF RunOK
<1>5. \A path \in Staging!Paths : source[path] \in Staging!Contents /\ source[path] \in Nat
  BY StagedFacts
<1>6. ASSUME NEW path \in {abi} \X linked[abi]
      PROVE  /\ g[path] \in Staging!Contents
             /\ g[path] <= source[path]
  <2>1. path = <<abi, path[2]>> /\ path \in Staging!Paths
    BY <1>3
  <2>2. CASE path[2] = "addon"
    <3>1. g[path] = stagers[p].digest[abi] /\ path = <<abi, "addon">>
      BY <1>1, <2>1, <2>2
    <3> QED
      BY <3>1, <1>4
  <2>3. CASE path[2] # "addon"
    <3>1. g[path] = source[path] /\ source[path] \in Nat /\ source[path] \in Staging!Contents
      BY <1>1, <1>5, <2>1, <2>3
    <3> QED
      BY <3>1
  <2> QED
    BY <2>2, <2>3
<1>7. <<abi, "addon">> \in {abi} \X linked[abi] /\ g[<<abi, "addon">>] = stagers[p].digest[abi]
  BY <1>1
<1>8. g \in Partial(Staging!Paths)
  <2>1. g \in [{abi} \X linked[abi] -> Staging!Contents]
    BY <1>1, <1>6
  <2> QED
    BY <2>1, <1>2, <1>3, PartialIs
<1>9. {abi} \X linked[abi] \subseteq {abi} \X {"addon", "other"}
  OBVIOUS
<1> HIDE DEF g
<1>10. \A path \in DOMAIN g : g[path] <= source[path]
  BY <1>2, <1>6
<1> QED
  BY <1>2, <1>7, <1>8, <1>9, <1>10 DEF g

LEMMA PlanCopiesKeeps ==
  ASSUME StagedInv, NEW p \in Stagers, Staging!PlanCopies(p)
  PROVE  StagedInv'
<1> DEFINE o == stagers[p]
<1>1. PICK abi \in o.todo :
        /\ "addon" \in linked[abi] /\ "stale" \notin linked[abi]
        /\ Staging!Advance(p, [o EXCEPT !.plan = Staging!Over(Staging!Planned(p, abi), o.plan)], abi, "make", {})
  BY DEF Staging!PlanCopies
<1>2. o.pc = "plan" /\ UNCHANGED <<source, stamp, linked, rebuilds, seen, output, temp, backup, moved>>
  BY DEF Staging!PlanCopies, Staging!inputs, Staging!directories
<1>3. o \in RunType /\ RunOK(o, temp[p], source, seen)
  BY StagedFacts
<1>4. /\ o.todo \subseteq o.abis /\ o.abis \subseteq Abis /\ DOMAIN o.digest = o.abis
      /\ o.abis # {} /\ o.plan \in Partial(Staging!Paths)
      /\ DOMAIN o.plan \subseteq o.abis \X {"addon", "other"}
      /\ \A a \in DOMAIN o.digest : o.digest[a] <= source[<<a, "addon">>]
      /\ \A a \in o.abis \ o.todo : AddonPlanned(o, a)
      /\ \A path \in DOMAIN o.plan : o.plan[path] <= source[path]
  BY <1>2, <1>3 DEF RunOK, RunType
<1>5. abi \in Abis /\ abi \in o.abis /\ linked[abi] \subseteq {"addon", "other"}
  BY <1>1, <1>4, StagedFacts
<1> DEFINE g == Staging!Planned(p, abi)
           plan == Staging!Over(g, o.plan)
           left == o.todo \ {abi}
           r == IF left = {} THEN [[o EXCEPT !.plan = plan] EXCEPT !.pc = "make", !.todo = {}]
                ELSE [[o EXCEPT !.plan = plan] EXCEPT !.todo = left]
<1>6. stagers' = [stagers EXCEPT ![p] = r]
  BY <1>1 DEF Staging!Advance, Staging!Goes
<1>7. /\ g \in Partial(Staging!Paths) /\ DOMAIN g \subseteq {abi} \X {"addon", "other"}
      /\ <<abi, "addon">> \in DOMAIN g /\ g[<<abi, "addon">>] = o.digest[abi]
      /\ \A path \in DOMAIN g : g[path] <= source[path]
  BY <1>1, <1>4, <1>5, PlannedTyped
<1> HIDE DEF g, o
<1>8. plan \in Partial(Staging!Paths)
  BY <1>4, <1>7, OverIsPartial
<1>9. /\ DOMAIN plan = DOMAIN g \cup DOMAIN o.plan
      /\ \A path \in DOMAIN plan : plan[path] = IF path \in DOMAIN g THEN g[path] ELSE o.plan[path]
  BY DEF Staging!Over
<1> HIDE DEF plan
<1>10. /\ r \in RunType /\ r.abis = o.abis /\ r.plan = plan /\ r.digest = o.digest
       /\ r.pc = (IF left = {} THEN "make" ELSE "plan")
       /\ r.todo = left
  BY <1>2, <1>3, <1>4, <1>8 DEF RunType, o
<1> HIDE DEF r
<1>11. \A path \in DOMAIN plan : plan[path] <= source[path]
  BY <1>4, <1>7, <1>9
<1>12. DOMAIN plan \subseteq o.abis \X {"addon", "other"}
  BY <1>4, <1>5, <1>7, <1>9
<1>13. ASSUME NEW a \in o.abis \ left PROVE AddonPlanned(r, a)
  <2>1. CASE a = abi
    BY <2>1, <1>7, <1>9, <1>10 DEF AddonPlanned
  <2>2. CASE a # abi
    <3>1. AddonPlanned(o, a)
      BY <2>2, <1>4
    <3>2. <<a, "addon">> \notin DOMAIN g
      BY <2>2, <1>7
    <3> QED
      BY <3>1, <3>2, <1>9, <1>10 DEF AddonPlanned
  <2> QED
    BY <2>1, <2>2
<1>14. RunOK(r, temp[p], source, seen)
  BY <1>4, <1>10, <1>11, <1>12, <1>13 DEF RunOK
<1> QED
  BY <1>2, <1>6, <1>10, <1>14, StagedFacts, RunPrepares DEF o

LEMMA MakeTemporaryKeeps ==
  ASSUME StagedInv, NEW p \in Stagers, Staging!MakeTemporary(p)
  PROVE  StagedInv'
<1> DEFINE o == stagers[p]
           r == [o EXCEPT !.pc = "copy", !.todo = DOMAIN o.plan]
<1>1. /\ stagers' = [stagers EXCEPT ![p] = r] /\ o.pc = "make"
      /\ temp' = [temp EXCEPT ![p] = Staging!Empty]
      /\ UNCHANGED <<source, stamp, linked, rebuilds, seen, output, backup, moved>>
  BY DEF Staging!MakeTemporary, Staging!Goes, Staging!inputs
<1>2. o \in RunType /\ RunOK(o, temp[p], source, seen)
  BY StagedFacts
<1>3. /\ DOMAIN o.plan \subseteq Staging!Paths /\ DOMAIN o.plan \subseteq o.abis \X {"addon", "other"}
      /\ o.abis # {} /\ DOMAIN o.digest = o.abis
      /\ \A abi \in o.abis : AddonPlanned(o, abi)
      /\ \A abi \in DOMAIN o.digest : o.digest[abi] <= source[<<abi, "addon">>]
      /\ \A path \in DOMAIN o.plan : o.plan[path] <= source[path]
  BY <1>1, <1>2, PartialIs DEF RunOK, RunType
<1>4. DOMAIN o.plan # {}
  BY <1>3 DEF AddonPlanned
<1>5. /\ r \in RunType /\ r.pc = "copy" /\ r.todo = DOMAIN r.plan
      /\ r.plan = o.plan /\ r.digest = o.digest /\ r.abis = o.abis
  BY <1>2, <1>3 DEF RunType
<1> HIDE DEF r, o
<1>6. CopyOK(r, Staging!Empty, source, seen)
  <2>1. /\ \A path \in Staging!Paths : source[path] <= source[path]
        /\ source \in seen
    BY StagedFacts
  <2>2. Unwritten(Staging!Empty) /\ DOMAIN Staging!Empty.files = {}
    BY EmptyIsDirectory
  <2>3. \A path \in DOMAIN r.plan \ r.todo : r.plan[path] = source[path]
    BY <1>5
  <2> QED
    BY <1>3, <1>4, <1>5, <2>1, <2>2, <2>3 DEF CopyOK, TakenFrom
<1>7. \A abi \in r.abis : AddonPlanned(r, abi)
  BY <1>3, <1>5 DEF AddonPlanned
<1>8. RunOK(r, Staging!Empty, source, seen)
  BY <1>3, <1>5, <1>6, <1>7 DEF RunOK
<1>9. Staging!Empty \in MaybeDirectory /\ SetOK(Staging!Empty, seen)
  BY EmptyIsDirectory DEF MaybeDirectory, SetOK, Unwritten, Staging!Complete
<1> QED
  BY <1>1, <1>5, <1>8, <1>9, RunPrepares DEF o

(* A file that still has the planned contents had them when copying began:  *)
(* it had no less at planning time and no more now.                         *)
LEMMA CopyOneKeeps ==
  ASSUME StagedInv, NEW p \in Stagers, Staging!CopyOne(p)
  PROVE  StagedInv'
<1> DEFINE o == stagers[p]
           d == temp[p]
<1>0. PICK path \in o.todo : \E copied \in {source[path], Staging!Rewritten} :
        /\ Staging!CopyVerified(p, path, copied)
        /\ temp' = [temp EXCEPT ![p].files = Staging!With(d.files, path, copied)]
        /\ Staging!Advance(p, o, path, "report", {})
  BY DEF Staging!CopyOne
<1>1. PICK copied \in {source[path], Staging!Rewritten} :
        /\ Staging!CopyVerified(p, path, copied)
        /\ temp' = [temp EXCEPT ![p].files = Staging!With(d.files, path, copied)]
        /\ Staging!Advance(p, o, path, "report", {})
  BY <1>0
<1>2. o.pc = "copy" /\ UNCHANGED <<source, stamp, linked, rebuilds, seen, output, backup, moved>>
  BY DEF Staging!CopyOne, Staging!inputs
<1>3. o \in RunType /\ RunOK(o, d, source, seen)
  BY StagedFacts
<1>4. /\ o.plan \in Partial(Staging!Paths) /\ o.plan \in [DOMAIN o.plan -> Staging!Contents]
      /\ DOMAIN o.plan \subseteq Staging!Paths
      /\ DOMAIN o.plan \subseteq o.abis \X {"addon", "other"}
      /\ o.abis # {} /\ DOMAIN o.digest = o.abis
      /\ \A abi \in o.abis : AddonPlanned(o, abi)
      /\ \A abi \in DOMAIN o.digest : o.digest[abi] <= source[<<abi, "addon">>]
      /\ CopyOK(o, d, source, seen)
  BY <1>2, <1>3, PartialIs DEF RunOK, RunType
<1>5. /\ o.todo \subseteq DOMAIN o.plan /\ d \in DirectoryType /\ d.report = Staging!Nothing
      /\ DOMAIN d.files = DOMAIN o.plan \ o.todo
      /\ \A y \in DOMAIN d.files : d.files[y] = o.plan[y]
  BY <1>4 DEF CopyOK, Unwritten, TakenFrom
<1>6. PICK s \in seen :
        /\ \A y \in Staging!Paths : s[y] <= source[y]
        /\ \A y \in DOMAIN o.plan : o.plan[y] <= s[y]
        /\ \A y \in DOMAIN o.plan \ o.todo : o.plan[y] = s[y]
  BY <1>4 DEF CopyOK
<1> DEFINE left == o.todo \ {path}
           r == IF left = {} THEN [o EXCEPT !.pc = "report", !.todo = {}] ELSE [o EXCEPT !.todo = left]
           files == Staging!With(d.files, path, copied)
           dir == [d EXCEPT !.files = files]
<1>7. stagers' = [stagers EXCEPT ![p] = r] /\ temp' = [temp EXCEPT ![p] = dir]
  BY <1>1 DEF Staging!Advance, Staging!Goes
<1>8. copied = o.plan[path] /\ source[path] = o.plan[path]
  BY <1>1 DEF Staging!CopyVerified
<1> HIDE DEF o, d
<1>9. files \in Partial(Staging!Paths) /\ Extends(files, d.files, path, copied)
  <2>1. copied \in Staging!Contents /\ path \in Staging!Paths
    BY <1>1, <1>4, <1>5, <1>8
  <2>2. d.files \in Partial(Staging!Paths)
    BY <1>5 DEF DirectoryType
  <2> QED
    BY <2>1, <2>2, WithIsPartial
<1> HIDE DEF files
<1>10. /\ DOMAIN files = DOMAIN o.plan \ left
       /\ \A y \in DOMAIN files : files[y] = o.plan[y]
  BY <1>1, <1>5, <1>8, <1>9 DEF Extends
<1>11. dir \in DirectoryType /\ dir.files = files /\ dir.report = Staging!Nothing
  BY <1>5, <1>9 DEF DirectoryType
<1> HIDE DEF dir
<1>12. /\ r \in RunType /\ r.abis = o.abis /\ r.plan = o.plan /\ r.digest = o.digest
       /\ r.pc = (IF left = {} THEN "report" ELSE "copy")
       /\ r.todo = left
  BY <1>2, <1>3, <1>4 DEF RunType, o
<1> HIDE DEF r
<1>13. \A y \in DOMAIN o.plan \ left : o.plan[y] = s[y]
  <2>1. o.plan[path] \in Nat /\ s[path] \in Nat /\ source[path] \in Nat
    BY <1>1, <1>4, <1>5, ContentsAreNumbers, StagedFacts
  <2>2. s[path] <= source[path] /\ o.plan[path] <= s[path]
    BY <1>1, <1>4, <1>5, <1>6
  <2>3. o.plan[path] = s[path]
    BY <2>1, <2>2, <1>8
  <2> QED
    BY <2>3, <1>6
<1>14. CopyOK(r, dir, source, seen) \/ left = {}
  BY <1>5, <1>6, <1>10, <1>11, <1>12, <1>13 DEF CopyOK, TakenFrom, Unwritten
<1>15. left = {} => Unwritten(dir) /\ dir.files = r.plan /\ TakenFrom(r.plan, s)
  <2>1. files \in [DOMAIN files -> Staging!Contents]
    BY <1>9, PartialIs
  <2>2. left = {} => files = o.plan
    BY <2>1, <1>4, <1>10
  <2> QED
    BY <2>2, <1>11, <1>12, <1>13 DEF TakenFrom, Unwritten
<1>16. \A abi \in r.abis : AddonPlanned(r, abi)
  BY <1>4, <1>12 DEF AddonPlanned
<1>17. RunOK(r, dir, source, seen)
  BY <1>4, <1>12, <1>14, <1>15, <1>16 DEF RunOK
<1>18. dir \in MaybeDirectory /\ SetOK(dir, seen)
  BY <1>11 DEF MaybeDirectory, SetOK, Staging!Complete
<1> QED
  BY <1>2, <1>7, <1>12, <1>17, <1>18, RunPrepares DEF o

LEMMA WriteReportKeeps ==
  ASSUME StagedInv, NEW p \in Stagers, Staging!WriteReport(p)
  PROVE  StagedInv'
<1> DEFINE o == stagers[p]
           d == temp[p]
           r == [o EXCEPT !.pc = "aside"]
           dir == [d EXCEPT !.report = o.plan, !.originals = o.digest]
<1>1. /\ stagers' = [stagers EXCEPT ![p] = r] /\ o.pc = "report"
      /\ temp' = [temp EXCEPT ![p] = dir]
      /\ UNCHANGED <<source, stamp, linked, rebuilds, seen, output, backup, moved>>
  BY DEF Staging!WriteReport, Staging!Goto, Staging!Goes, Staging!inputs
<1>2. o \in RunType /\ RunOK(o, d, source, seen)
  BY StagedFacts
<1>3. /\ o.plan \in Partial(Staging!Paths) /\ o.digest \in Partial(Abis)
      /\ DOMAIN o.plan \subseteq o.abis \X {"addon", "other"}
      /\ o.abis # {} /\ DOMAIN o.digest = o.abis
      /\ \A abi \in o.abis : AddonPlanned(o, abi)
      /\ \A abi \in DOMAIN o.digest : o.digest[abi] <= source[<<abi, "addon">>]
      /\ d \in DirectoryType /\ d.files = o.plan
  BY <1>1, <1>2 DEF RunOK, RunType, Unwritten
<1>4. PICK s \in seen : TakenFrom(o.plan, s)
  BY <1>1, <1>2 DEF RunOK
<1> HIDE DEF o, d
<1>5. /\ r \in RunType /\ r.pc = "aside" /\ r.plan = o.plan /\ r.digest = o.digest /\ r.abis = o.abis
  BY <1>2 DEF RunType
<1>6. dir \in DirectoryType /\ dir.files = o.plan /\ dir.report = o.plan /\ dir.originals = o.digest
  BY <1>3 DEF DirectoryType
<1> HIDE DEF r, dir
<1>7. o.plan # Staging!Nothing
  <2>1. DOMAIN o.plan # {}
    BY <1>3 DEF AddonPlanned
  <2> QED
    BY <2>1, <1>3, NothingIsEmpty
<1>8. dir \in DirectoryType /\ Staging!Complete(dir)
  BY <1>6, <1>7, AbsentIsNoDirectory DEF Staging!Complete
<1>9. SetOK(dir, seen)
  <2>1. \A abi \in DOMAIN dir.originals : dir.files[<<abi, "addon">>] = dir.originals[abi]
    BY <1>3, <1>6 DEF AddonPlanned
  <2> QED
    BY <2>1, <1>4, <1>6 DEF SetOK
<1>10. RunOK(r, dir, source, seen)
  <2>1. \A abi \in r.abis : AddonPlanned(r, abi)
    BY <1>3, <1>5 DEF AddonPlanned
  <2> QED
    BY <2>1, <1>3, <1>5, <1>8 DEF RunOK
<1> QED
  BY <1>1, <1>5, <1>8, <1>9, <1>10, RunPrepares DEF o, MaybeDirectory

-----------------------------------------------------------------------------
(* The steps that touch the output                                         *)

LEMMA MoveAsideKeeps ==
  ASSUME StagedInv, NEW p \in Stagers, Staging!MoveAside(p)
  PROVE  StagedInv'
<1> DEFINE o == stagers[p]
           r == [o EXCEPT !.pc = "publish"]
<1>1. /\ stagers' = [stagers EXCEPT ![p] = r] /\ o.pc = "aside"
      /\ UNCHANGED <<source, stamp, linked, rebuilds, seen, temp>>
  BY DEF Staging!MoveAside, Staging!Goto, Staging!Goes, Staging!inputs
<1>2. \/ /\ output # Staging!Absent /\ backup' = [backup EXCEPT ![p] = output] /\ output' = Staging!Absent
         /\ moved' = IF Staging!Complete(output) THEN {p} ELSE moved
      \/ output = Staging!Absent /\ UNCHANGED <<output, backup, moved>>
  BY DEF Staging!MoveAside
<1>3. o \in RunType /\ RunOK(o, temp[p], source, seen)
  BY StagedFacts
<1>4. /\ r \in RunType /\ r.pc = "publish" /\ r.plan = o.plan /\ r.digest = o.digest /\ r.abis = o.abis
  BY <1>3 DEF RunType
<1>5. RunOK(r, temp[p], source, seen)
  BY <1>1, <1>3, <1>4 DEF RunOK
<1> HIDE DEF r
<1>6. \A q \in Stagers : stagers'[q] = IF q = p THEN r ELSE stagers[q]
  BY <1>1 DEF StagedInv, StagingTyped
<1>7. \A q \in moved : q # p /\ q \in Stagers
  BY <1>1 DEF StagedInv, MovedInv, StagingTyped, Staging!Ended
<1>8. MovedInv' /\ moved' \subseteq Stagers
  <2>1. CASE UNCHANGED <<output, backup, moved>>
    BY <2>1, <1>6, <1>7 DEF StagedInv, MovedInv, StagingTyped, Staging!Complete
  <2>2. CASE ~Staging!Complete(output) /\ moved' = moved
    <3>1. \A q \in moved : stagers[q].pc # "clean"
      BY <2>2 DEF StagedInv, MovedInv
    <3> QED
      BY <2>2, <3>1, <1>6, <1>7 DEF StagedInv, MovedInv
  <2>3. CASE moved' = {p}
    BY <2>3, <1>4, <1>6 DEF MovedInv
  <2> QED
    BY <2>1, <2>2, <2>3, <1>2
<1>9. PICK aside \in MaybeDirectory : backup' = [backup EXCEPT ![p] = aside] /\ SetOK(aside, seen)
  BY <1>2, StagedFacts DEF StagedInv, StagingTyped
<1>10. output' \in MaybeDirectory /\ SetOK(output', seen)
  BY <1>2, StagedFacts, AbsentIsIncomplete, SetOKTrivially DEF MaybeDirectory, StagedInv, StagingTyped
<1> QED
  BY <1>1, <1>4, <1>5, <1>8, <1>9, <1>10, StagedFacts, RunSteps

LEMMA PublishKeeps ==
  ASSUME StagedInv, NEW p \in Stagers, Staging!Publish(p)
  PROVE  StagedInv' /\ Staging!Complete(output')
<1> DEFINE o == stagers[p]
           r == [o EXCEPT !.pc = "clean"]
<1>1. /\ stagers' = [stagers EXCEPT ![p] = r] /\ o.pc = "publish" /\ output' = temp[p]
      /\ temp' = [temp EXCEPT ![p] = Staging!Absent]
      /\ UNCHANGED <<source, stamp, linked, rebuilds, seen, backup, moved>>
  BY DEF Staging!Publish, Staging!Goto, Staging!Goes, Staging!inputs
<1>2. o \in RunType /\ RunOK(o, temp[p], source, seen)
  BY StagedFacts
<1>3. Staging!Complete(temp[p])
  BY <1>1, <1>2 DEF RunOK
<1>4. Staging!Complete(output')
  BY <1>1, <1>3 DEF Staging!Complete
<1>5. /\ r \in RunType /\ r.pc = "clean" /\ r.plan = o.plan /\ r.digest = o.digest /\ r.abis = o.abis
  BY <1>2 DEF RunType
<1>6. RunOK(r, Staging!Absent, source, seen)
  BY <1>1, <1>2, <1>5 DEF RunOK
<1> HIDE DEF r
<1>7. \A q \in Stagers : stagers'[q] = IF q = p THEN r ELSE stagers[q]
  BY <1>1 DEF StagedInv, StagingTyped
<1>8. MovedInv'
  BY <1>1, <1>4, <1>5, <1>7 DEF StagedInv, MovedInv, StagingTyped, Staging!Complete
<1>9. SetOK(Staging!Absent, seen) /\ Staging!Absent \in MaybeDirectory
  BY AbsentIsIncomplete, SetOKTrivially DEF MaybeDirectory
<1>10. moved' \subseteq Stagers /\ output' \in MaybeDirectory /\ SetOK(output', seen)
  BY <1>1, StagedFacts DEF StagedInv, StagingTyped
<1> QED
  BY <1>1, <1>4, <1>5, <1>6, <1>8, <1>9, <1>10, StagedFacts, RunSteps

LEMMA RestoreKeeps ==
  ASSUME StagedInv, NEW p \in Stagers, Staging!Restore(p)
  PROVE  StagedInv'
<1>1. PICK result \in {"failed", "stranded"} : Staging!Ends(p, result)
  BY DEF Staging!Restore
<1> DEFINE r == [Staging!Idle EXCEPT !.pc = result]
<1>2. /\ stagers' = [stagers EXCEPT ![p] = r] /\ stagers[p].pc = "restore"
      /\ temp' = [temp EXCEPT ![p] = Staging!Absent]
      /\ UNCHANGED <<source, stamp, linked, rebuilds, seen, moved>>
  BY <1>1 DEF Staging!Restore, Staging!Ends, Staging!inputs
<1>3. \/ UNCHANGED <<output, backup>>
      \/ /\ output = Staging!Absent /\ output' = backup[p]
         /\ backup' = [backup EXCEPT ![p] = Staging!Absent]
  BY DEF Staging!Restore
<1>4. r \in RunType /\ r.pc = result /\ result \in Staging!Ended
  <2>1. result \in Staging!Ended
    BY DEF Staging!Ended
  <2> QED
    BY <2>1, IdleTyped DEF Staging!Idle
<1>5. RunOK(r, Staging!Absent, source, seen)
  BY <1>4, IdleOK
<1> HIDE DEF r
<1>6. \A q \in Stagers : stagers'[q] = IF q = p THEN r ELSE stagers[q]
  BY <1>2 DEF StagedInv, StagingTyped
<1>7. \A q \in moved : q # p /\ stagers[q].pc = "clean" => output' = output
  BY <1>3, AbsentIsIncomplete DEF StagedInv, MovedInv
<1>8. MovedInv'
  BY <1>2, <1>4, <1>6, <1>7 DEF StagedInv, MovedInv, StagingTyped, Staging!Complete, Staging!Ended
<1>9. SetOK(Staging!Absent, seen) /\ Staging!Absent \in MaybeDirectory
  BY AbsentIsIncomplete, SetOKTrivially DEF MaybeDirectory
<1>10. moved' \subseteq Stagers /\ output' \in MaybeDirectory /\ SetOK(output', seen)
  BY <1>2, <1>3, StagedFacts DEF StagedInv, StagingTyped
<1>11. PICK aside \in MaybeDirectory : backup' = [backup EXCEPT ![p] = aside] /\ SetOK(aside, seen)
  BY <1>3, <1>9, StagedFacts
<1> QED
  BY <1>2, <1>4, <1>5, <1>8, <1>9, <1>10, <1>11, RunSteps

LEMMA RemoveBackupKeeps ==
  ASSUME StagedInv, NEW p \in Stagers, Staging!RemoveBackup(p)
  PROVE  StagedInv'
<1>1. PICK result \in {"failed", "staged"} : Staging!Ends(p, result)
  BY DEF Staging!RemoveBackup
<1> DEFINE r == [Staging!Idle EXCEPT !.pc = result]
<1>2. /\ stagers' = [stagers EXCEPT ![p] = r] /\ stagers[p].pc = "clean"
      /\ UNCHANGED <<source, stamp, linked, rebuilds, seen, output, temp, moved>>
      /\ backup' = [backup EXCEPT ![p] = Staging!Absent] \/ backup' = backup
  BY <1>1 DEF Staging!RemoveBackup, Staging!Ends, Staging!inputs
<1>3. r \in RunType /\ r.pc = result /\ result \in Staging!Ended
  <2>1. result \in Staging!Ended
    BY DEF Staging!Ended
  <2> QED
    BY <2>1, IdleTyped DEF Staging!Idle
<1>4. RunOK(r, temp[p], source, seen)
  BY <1>3, IdleOK
<1> HIDE DEF r
<1>5. \A q \in Stagers : stagers'[q] = IF q = p THEN r ELSE stagers[q]
  BY <1>2 DEF StagedInv, StagingTyped
<1>6. MovedInv'
  BY <1>2, <1>3, <1>5 DEF StagedInv, MovedInv, StagingTyped, Staging!Complete, Staging!Ended
<1>7. SetOK(Staging!Absent, seen) /\ Staging!Absent \in MaybeDirectory
  BY AbsentIsIncomplete, SetOKTrivially DEF MaybeDirectory
<1>8. moved' \subseteq Stagers /\ output' \in MaybeDirectory /\ SetOK(output', seen)
  BY <1>2, StagedFacts DEF StagedInv, StagingTyped
<1>9. PICK aside \in MaybeDirectory : backup' = [backup EXCEPT ![p] = aside] /\ SetOK(aside, seen)
  BY <1>2, <1>7, StagedFacts
<1> QED
  BY <1>2, <1>3, <1>4, <1>6, <1>8, <1>9, StagedFacts, RunSteps

-----------------------------------------------------------------------------
(* The developer                                                           *)

LEMMA RebuildKeeps ==
  ASSUME StagedInv, Staging!Rebuild
  PROVE  StagedInv' /\ source' \in [Staging!Paths -> Staging!Contents]
<1>1. PICK path \in Staging!Paths : source' = [source EXCEPT ![path] = source[path] + 1]
  BY DEF Staging!Rebuild
<1>2. /\ rebuilds < MaxRebuilds /\ rebuilds' = rebuilds + 1
      /\ seen' = seen \cup {source'}
      /\ UNCHANGED <<stamp, linked, stagers, output, temp, backup, moved>>
  BY DEF Staging!Rebuild, Staging!Edits, Staging!directories
<1>3. rebuilds \in Nat /\ MaxRebuilds \in Nat /\ rebuilds' \in 0..MaxRebuilds
  BY <1>2, StagingIsBounded DEF StagedInv, StagingTyped, Staging!StagingAssumption
<1>4. source' \in [Staging!Paths -> 0..rebuilds']
  BY <1>1, <1>2, <1>3 DEF StagedInv, StagingTyped
<1>5. 0..rebuilds \subseteq 0..rebuilds' /\ 0..rebuilds' \subseteq Nat /\ 0..rebuilds' \subseteq Staging!Contents
  BY <1>2, <1>3 DEF Staging!Contents
<1>6. seen' \subseteq [Staging!Paths -> 0..rebuilds'] /\ source' \in seen'
  <2>1. \A s \in seen : s \in [Staging!Paths -> 0..rebuilds']
    BY <1>5 DEF StagedInv, StagingTyped
  <2> QED
    BY <2>1, <1>2, <1>4
<1>7. StagingTyped'
  BY <1>2, <1>3, <1>4, <1>6 DEF StagedInv, StagingTyped
<1>8. source' \in [Staging!Paths -> Nat] /\ source \in [Staging!Paths -> Nat]
      /\ seen \subseteq [Staging!Paths -> Nat]
      /\ \A y \in Staging!Paths : source[y] <= source'[y]
  <2>1. source \in [Staging!Paths -> Nat] /\ seen \subseteq [Staging!Paths -> Nat]
    BY <1>5, <1>3 DEF StagedInv, StagingTyped
  <2>2. source' \in [Staging!Paths -> Nat]
    BY <1>4, <1>5
  <2> QED
    BY <2>1, <2>2, <1>1
<1>9. SetsInv'
  BY <1>2, SetOKGrows DEF StagedInv, SetsInv
<1>10. RunsInv'
  <2> SUFFICES ASSUME NEW p \in Stagers PROVE RunOK(stagers[p], temp[p], source', seen')
    BY <1>2 DEF RunsInv
  <2>1. stagers[p] \in RunType /\ RunOK(stagers[p], temp[p], source, seen)
    BY DEF StagedInv, StagingTyped, RunsInv
  <2> QED
    BY <2>1, <1>2, <1>8, RunOKGrows
<1>11. MovedInv'
  BY <1>2 DEF StagedInv, MovedInv, Staging!Complete
<1> QED
  BY <1>4, <1>5, <1>7, <1>9, <1>10, <1>11 DEF StagedInv

LEMMA StampKeeps ==
  ASSUME StagedInv, Staging!Stamp
  PROVE  StagedInv'
<1>1. UNCHANGED <<source, linked, rebuilds, seen, stagers, output, temp, backup, moved>>
  BY DEF Staging!Stamp, Staging!directories
<1>2. stamp' \in [Abis -> Staging!Contents]
  <2>1. PICK abi \in Abis : stamp' = [stamp EXCEPT ![abi] = source[<<abi, "addon">>]]
    BY DEF Staging!Stamp
  <2>2. rebuilds \in 0..MaxRebuilds /\ <<abi, "addon">> \in Staging!Paths
    BY DEF StagedInv, StagingTyped, Staging!Paths
  <2>3. source[<<abi, "addon">>] \in Staging!Contents
    BY <2>2, StagingIsBounded DEF StagedInv, StagingTyped, Staging!Contents, Staging!StagingAssumption
  <2> QED
    BY <2>1, <2>3 DEF StagedInv, StagingTyped
<1>3. StagingTyped'
  BY <1>1, <1>2 DEF StagedInv, StagingTyped
<1>4. SetsInv' /\ RunsInv' /\ MovedInv'
  BY <1>1 DEF StagedInv, SetsInv, RunsInv, MovedInv, Staging!Complete
<1> QED
  BY <1>3, <1>4 DEF StagedInv

LEMMA LinkKeeps ==
  ASSUME StagedInv, Staging!Link
  PROVE  StagedInv'
<1>1. UNCHANGED <<source, stamp, seen, stagers, output, temp, backup, moved>>
      /\ rebuilds < MaxRebuilds /\ rebuilds' = rebuilds + 1
  BY DEF Staging!Link, Staging!Edits, Staging!directories
<1>2. linked' \in [Abis -> SUBSET {"addon", "other", "stale"}]
  BY DEF Staging!Link, StagedInv, StagingTyped
<1>3. rebuilds' \in 0..MaxRebuilds /\ 0..rebuilds \subseteq 0..rebuilds'
  BY <1>1, StagingIsBounded DEF StagedInv, StagingTyped, Staging!StagingAssumption
<1>4. source \in [Staging!Paths -> 0..rebuilds'] /\ \A s \in seen : s \in [Staging!Paths -> 0..rebuilds']
  BY <1>3 DEF StagedInv, StagingTyped
<1>5. StagingTyped'
  BY <1>1, <1>2, <1>3, <1>4 DEF StagedInv, StagingTyped
<1>6. SetsInv' /\ RunsInv' /\ MovedInv'
  BY <1>1 DEF StagedInv, SetsInv, RunsInv, MovedInv, Staging!Complete
<1> QED
  BY <1>5, <1>6 DEF StagedInv

(* A file of the developer's own changes nothing a report says.             *)
LEMMA AddFileKeeps ==
  ASSUME StagedInv, Staging!AddFile
  PROVE  /\ StagedInv'
         /\ Staging!Complete(output') <=> Staging!Complete(output)
         /\ Staging!Complete(output) => output'.files = output.files
<1>1. UNCHANGED <<source, stamp, linked, seen, stagers, temp, backup, moved>>
      /\ rebuilds < MaxRebuilds /\ rebuilds' = rebuilds + 1
  BY DEF Staging!AddFile, Staging!Edits
<1>2. output' = IF output = Staging!Absent THEN [Staging!Empty EXCEPT !.mine = TRUE]
                ELSE [output EXCEPT !.mine = TRUE]
  BY DEF Staging!AddFile
<1>3. /\ output' \in DirectoryType
      /\ Staging!Complete(output') <=> Staging!Complete(output)
      /\ Staging!Complete(output) =>
           output'.files = output.files /\ output'.report = output.report /\ output'.originals = output.originals
  <2>1. CASE output = Staging!Absent
    BY <2>1, <1>2, EmptyIsDirectory, AbsentIsIncomplete
  <2>2. CASE output # Staging!Absent
    <3>1. output \in DirectoryType
      BY <2>2 DEF StagedInv, StagingTyped, MaybeDirectory
    <3>2. output' = [output EXCEPT !.mine = TRUE]
      BY <2>2, <1>2
    <3>3. /\ output' \in DirectoryType /\ output'.files = output.files
          /\ output'.report = output.report /\ output'.originals = output.originals
      BY <3>1, <3>2 DEF DirectoryType
    <3>4. output' # Staging!Absent
      BY <3>3, AbsentIsNoDirectory
    <3> QED
      BY <3>3, <3>4, <2>2 DEF Staging!Complete
  <2> QED
    BY <2>1, <2>2
<1>4. SetOK(output', seen)
  BY <1>3 DEF StagedInv, SetsInv, SetOK
<1>5. rebuilds' \in 0..MaxRebuilds /\ 0..rebuilds \subseteq 0..rebuilds'
  BY <1>1, StagingIsBounded DEF StagedInv, StagingTyped, Staging!StagingAssumption
<1>6. source \in [Staging!Paths -> 0..rebuilds'] /\ \A s \in seen : s \in [Staging!Paths -> 0..rebuilds']
  BY <1>5 DEF StagedInv, StagingTyped
<1>7. StagingTyped'
  BY <1>1, <1>3, <1>5, <1>6 DEF StagedInv, StagingTyped, MaybeDirectory
<1>8. SetsInv' /\ RunsInv'
  BY <1>1, <1>4 DEF StagedInv, SetsInv, RunsInv
<1>9. MovedInv'
  BY <1>1, <1>3 DEF StagedInv, MovedInv
<1> QED
  BY <1>3, <1>7, <1>8, <1>9 DEF StagedInv

LEMMA StagedInit == Staging!Init => StagedInv
<1> SUFFICES ASSUME Staging!Init PROVE StagedInv
  OBVIOUS
<1>1. 0 \in 0..MaxRebuilds /\ 0..0 = {0} /\ 0 \in Staging!Contents
  BY StagingIsBounded, ContentsAreNumbers DEF Staging!StagingAssumption
<1>2. [Staging!Idle EXCEPT !.pc = "idle"] = Staging!Idle
  BY DEF Staging!Idle
<1>3. Staging!Idle \in RunType /\ \A dir, src, snaps : RunOK(Staging!Idle, dir, src, snaps)
  <2>1. Staging!Idle \in RunType
    BY <1>2, IdleTyped
  <2>2. ASSUME NEW dir, NEW src, NEW snaps PROVE RunOK(Staging!Idle, dir, src, snaps)
    BY <1>2, IdleOK
  <2> QED
    BY <2>1, <2>2
<1>4. source \in [Staging!Paths -> 0..0] /\ rebuilds = 0 /\ seen = {source}
  BY <1>1 DEF Staging!Init
<1>5. stamp \in [Abis -> Staging!Contents] /\ stagers \in [Stagers -> RunType]
  BY <1>1, <1>3 DEF Staging!Init
<1>6. StagingTyped
  BY <1>1, <1>4, <1>5 DEF Staging!Init, StagingTyped, MaybeDirectory
<1>7. SetsInv /\ RunsInv /\ MovedInv
  BY <1>3, AbsentIsIncomplete DEF Staging!Init, SetsInv, RunsInv, MovedInv, SetOK
<1> QED
  BY <1>6, <1>7 DEF StagedInv

LEMMA StagedStep == StagedInv /\ [Staging!Next]_stagingVars => StagedInv'
<1> SUFFICES ASSUME StagedInv, [Staging!Next]_stagingVars PROVE StagedInv'
  OBVIOUS
<1>1. CASE UNCHANGED stagingVars
  BY <1>1 DEF stagingVars, StagedInv, StagingTyped, SetsInv, RunsInv, MovedInv, Staging!Complete
<1>2. CASE Staging!Next
  BY <1>2, BeginKeeps, VerifyInputsKeeps, VerifyOriginalKeeps, PlanCopiesKeeps, MakeTemporaryKeeps,
     CopyOneKeeps, WriteReportKeeps, MoveAsideKeeps, PublishKeeps, PublishFailsKeeps, RestoreKeeps,
     RemoveBackupKeeps, RefusesKeeps, RebuildKeeps, StampKeeps, LinkKeeps, AddFileKeeps
     DEF Staging!Next
<1> QED
  BY <1>1, <1>2

(* The invariant says what the runs check.                                  *)
LEMMA StagedIsSound == StagedInv => StagingInv
<1> SUFFICES ASSUME StagedInv PROVE StagingInv
  OBVIOUS
<1>1. ASSUME NEW d \in MaybeDirectory PROVE Staging!IsDirectory(d)
  BY <1>1, PartialIs DEF MaybeDirectory, DirectoryType, Staging!IsDirectory, Staging!PartialOn
<1>2. source \in [Staging!Paths -> Staging!Contents]
  BY StagingIsBounded DEF StagedInv, StagingTyped, Staging!Contents, Staging!StagingAssumption
<1>3. ASSUME NEW p \in Stagers
      PROVE  /\ Staging!IsDirectory(temp[p]) /\ Staging!IsDirectory(backup[p])
             /\ Staging!PartialOn(stagers[p].abis \X {"addon", "other"}, stagers[p].plan)
             /\ stagers[p].abis \subseteq Abis
  <2>1. stagers[p] \in RunType /\ temp[p] \in MaybeDirectory /\ backup[p] \in MaybeDirectory
        /\ RunOK(stagers[p], temp[p], source, seen)
    BY DEF StagedInv, StagingTyped, RunsInv
  <2>2. stagers[p].plan \in Partial(Staging!Paths) /\ stagers[p].abis \subseteq Abis
    BY <2>1 DEF RunType
  <2>3. DOMAIN stagers[p].plan \subseteq stagers[p].abis \X {"addon", "other"}
    BY <2>1 DEF RunOK
  <2> QED
    BY <2>1, <2>2, <2>3, <1>1, PartialIs DEF Staging!PartialOn
<1>4. Staging!TypeOK
  BY <1>1, <1>2, <1>3 DEF StagedInv, StagingTyped, Staging!TypeOK
<1>5. Staging!OutputMatchesReport
  BY DEF StagedInv, SetsInv, SetOK, Staging!Complete, Staging!OutputMatchesReport
<1> QED
  BY <1>4, <1>5 DEF StagingInv, Staging!StagingInv

(* However many runs overlap, fail or die, and whatever is rebuilt or linked*)
(* again meanwhile, an output that has a report is what the report says, and*)
(* its addons are the verified prebuilds (stage-android-addons.js).         *)
THEOREM StagedAsReported == Staging!Spec => []StagingInv
<1>1. Staging!Spec => Staging!Init /\ [][Staging!Next]_stagingVars
  BY DEF Staging!Spec, Staging!vars, stagingVars
<1> QED
  BY <1>1, StagedInit, StagedStep, StagedIsSound, PTL

-----------------------------------------------------------------------------
(* The set that is current, as a function of what it depends on.            *)
CurrentOf(out, back, mv) ==
  LET sets == {dir \in IF Staging!Complete(out) THEN {out} ELSE {back[p] : p \in mv} : Staging!Complete(dir)}
  IN  IF sets = {} THEN Staging!Nothing ELSE (CHOOSE dir \in sets : TRUE).files

LEMMA CurrentInOutput ==
  ASSUME NEW out, NEW back, NEW mv, Staging!Complete(out)
  PROVE  CurrentOf(out, back, mv) = out.files
<1>1. {dir \in IF Staging!Complete(out) THEN {out} ELSE {back[p] : p \in mv} : Staging!Complete(dir)} = {out}
  OBVIOUS
<1> QED
  BY <1>1 DEF CurrentOf

LEMMA CurrentAside ==
  ASSUME NEW out, NEW back, NEW mv, NEW q \in mv, \A a, b \in mv : a = b,
         ~Staging!Complete(out), Staging!Complete(back[q])
  PROVE  CurrentOf(out, back, mv) = back[q].files
<1>1. {dir \in IF Staging!Complete(out) THEN {out} ELSE {back[p] : p \in mv} : Staging!Complete(dir)} = {back[q]}
  OBVIOUS
<1> QED
  BY <1>1 DEF CurrentOf

LEMMA CurrentNowhere ==
  ASSUME NEW out, NEW back, NEW mv, ~Staging!Complete(out), \A q \in mv : ~Staging!Complete(back[q])
  PROVE  CurrentOf(out, back, mv) = Staging!Nothing
<1>1. {dir \in IF Staging!Complete(out) THEN {out} ELSE {back[p] : p \in mv} : Staging!Complete(dir)} = {}
  OBVIOUS
<1> QED
  BY <1>1 DEF CurrentOf

LEMMA CurrentIs == Staging!Current = CurrentOf(output, backup, moved)
BY DEF Staging!Current, CurrentOf

LEMMA CurrentIsNext == Staging!Current' = CurrentOf(output', backup', moved')
BY DEF Staging!Current, CurrentOf, Staging!Complete

(* A complete set whose files were all there at one moment may be published.*)
LEMMA SoundSetPublishes ==
  ASSUME NEW dir \in DirectoryType, Staging!Complete(dir), SetOK(dir, seen),
         seen \subseteq [Staging!Paths -> Nat], seen' = seen, Staging!Current' = dir.files
  PROVE  Staging!Managed!Publish
<1>1. PICK s \in seen : TakenFrom(dir.files, s)
  BY DEF SetOK
<1> DEFINE paths == DOMAIN dir.files
<1>2. paths \subseteq Staging!Paths /\ dir.files \in [paths -> Staging!Contents]
  BY PartialIs DEF DirectoryType
<1>3. paths # {}
  <2>1. dir.files # Staging!Nothing
    BY DEF SetOK, Staging!Complete
  <2> QED
    BY <2>1, NothingIsEmpty DEF DirectoryType
<1>4. DOMAIN s = Staging!Paths
  BY <1>1
<1>5. paths \in (SUBSET DOMAIN s) \ {{}}
  BY <1>2, <1>3, <1>4
<1>6. dir.files = [path \in paths |-> s[path]]
  BY <1>1, <1>2 DEF TakenFrom
<1> QED
  BY <1>1, <1>5, <1>6 DEF Staging!Managed!Publish, Staging!Managed!Restrict

(* The two variables of ManagedOutput stay as they are.                     *)
Steady == UNCHANGED <<seen, Staging!Current>>

LEMMA SameSetsAreSteady ==
  ASSUME UNCHANGED <<seen, output, backup, moved>>
  PROVE  Steady
BY CurrentIs, CurrentIsNext DEF Steady

LEMMA SameAside ==
  ASSUME NEW out, NEW out2, NEW back, NEW back2, NEW mv, \A a, b \in mv : a = b,
         ~Staging!Complete(out), ~Staging!Complete(out2),
         \A q \in mv : \/ back2[q] = back[q]
                       \/ ~Staging!Complete(back[q]) /\ ~Staging!Complete(back2[q])
  PROVE  CurrentOf(out2, back2, mv) = CurrentOf(out, back, mv)
<1>1. CASE \E q \in mv : Staging!Complete(back[q])
  <2>1. PICK q \in mv : Staging!Complete(back[q])
    BY <1>1
  <2>2. back2[q] = back[q]
    BY <2>1
  <2>3. CurrentOf(out, back, mv) = back[q].files
    BY <2>1, CurrentAside
  <2>4. CurrentOf(out2, back2, mv) = back2[q].files
    BY <2>1, <2>2, CurrentAside
  <2> QED
    BY <2>2, <2>3, <2>4
<1>2. CASE \A q \in mv : ~Staging!Complete(back[q])
  <2>1. \A q \in mv : ~Staging!Complete(back2[q])
    BY <1>2
  <2> QED
    BY <1>2, <2>1, CurrentNowhere
<1> QED
  BY <1>1, <1>2

LEMMA MoveAsideIsSteady ==
  ASSUME StagedInv, NEW p \in Stagers, Staging!MoveAside(p)
  PROVE  Steady
<1>1. seen' = seen
  BY DEF Staging!MoveAside, Staging!inputs
<1>2. CASE UNCHANGED <<output, backup, moved>>
  BY <1>1, <1>2, SameSetsAreSteady
<1>3. CASE /\ backup' = [backup EXCEPT ![p] = output] /\ output' = Staging!Absent
           /\ Staging!Complete(output) /\ moved' = {p}
  <2>1. backup'[p] = output
    BY <1>3 DEF StagedInv, StagingTyped
  <2>2. CurrentOf(output', backup', moved') = output.files
    <3>1. /\ p \in moved' /\ \A a, b \in moved' : a = b
          /\ Staging!Complete(backup'[p])
      BY <1>3, <2>1
    <3>2. ~Staging!Complete(output')
      BY <1>3, AbsentIsIncomplete
    <3> QED
      BY <2>1, <3>1, <3>2, CurrentAside
  <2>3. CurrentOf(output, backup, moved) = output.files
    BY <1>3, CurrentInOutput
  <2> QED
    BY <1>1, <2>2, <2>3, CurrentIs, CurrentIsNext DEF Steady
<1>4. CASE /\ backup' = [backup EXCEPT ![p] = output] /\ output' = Staging!Absent
           /\ ~Staging!Complete(output) /\ moved' = moved
  <2>1. p \notin moved
    BY DEF Staging!MoveAside, StagedInv, MovedInv, Staging!Ended
  <2>2. \A q \in moved : backup'[q] = backup[q]
    BY <1>4, <2>1 DEF StagedInv, StagingTyped
  <2>3. \A a, b \in moved : a = b
    BY DEF StagedInv, MovedInv
  <2>4. ~Staging!Complete(output')
    BY <1>4, AbsentIsIncomplete
  <2>5. CurrentOf(output', backup', moved) = CurrentOf(output, backup, moved)
    <3>1. ~Staging!Complete(output)
      BY <1>4
    <3> QED
      BY <3>1, <2>2, <2>3, <2>4, SameAside
  <2> QED
    BY <1>1, <1>4, <2>5, CurrentIs, CurrentIsNext DEF Steady
<1> QED
  BY <1>2, <1>3, <1>4 DEF Staging!MoveAside

(* A backup is removed by the run that published another set.               *)
LEMMA RemoveBackupIsSteady ==
  ASSUME StagedInv, NEW p \in Stagers, Staging!RemoveBackup(p)
  PROVE  Steady
<1>1. /\ UNCHANGED <<seen, output, moved>> /\ stagers[p].pc = "clean"
      /\ backup' = [backup EXCEPT ![p] = Staging!Absent] \/ backup' = backup
  BY DEF Staging!RemoveBackup, Staging!inputs
<1>2. CASE Staging!Complete(output)
  BY <1>1, <1>2, CurrentInOutput, CurrentIs, CurrentIsNext DEF Steady
<1>3. CASE ~Staging!Complete(output)
  <2>1. p \notin moved
    BY <1>1, <1>3 DEF StagedInv, MovedInv
  <2>2. \A q \in moved : backup'[q] = backup[q]
    BY <1>1, <2>1 DEF StagedInv, StagingTyped
  <2>3. (\A a, b \in moved : a = b) /\ ~Staging!Complete(output')
    BY <1>1, <1>3 DEF StagedInv, MovedInv
  <2>4. CurrentOf(output', backup', moved') = CurrentOf(output, backup, moved)
    BY <1>1, <1>3, <2>2, <2>3, SameAside
  <2> QED
    BY <1>1, <2>4, CurrentIs, CurrentIsNext DEF Steady
<1> QED
  BY <1>2, <1>3

(* What a failed publication moves back is a set that was published before. *)
LEMMA RestoreIsManaged ==
  ASSUME StagedInv, NEW p \in Stagers, Staging!Restore(p)
  PROVE  Steady \/ Staging!Managed!Publish
<1>1. UNCHANGED <<seen, moved>>
  BY DEF Staging!Restore, Staging!inputs
<1>2. CASE UNCHANGED <<output, backup>>
  BY <1>1, <1>2, SameSetsAreSteady
<1>3. CASE /\ output = Staging!Absent /\ output' = backup[p] /\ backup[p] # Staging!Absent
           /\ backup' = [backup EXCEPT ![p] = Staging!Absent]
  <2>1. ~Staging!Complete(output)
    BY <1>3, AbsentIsIncomplete
  <2>2. CASE Staging!Complete(backup[p])
    <3>1. Staging!Current' = backup[p].files
      BY <1>3, <2>2, CurrentInOutput, CurrentIsNext
    <3>2. backup[p] \in DirectoryType /\ SetOK(backup[p], seen) /\ seen \subseteq [Staging!Paths -> Nat]
      BY <1>3, StagedFacts DEF MaybeDirectory
    <3> QED
      BY <1>1, <2>2, <3>1, <3>2, SoundSetPublishes
  <2>3. CASE ~Staging!Complete(backup[p])
    <3>1. ~Staging!Complete(output')
      BY <1>3, <2>3
    <3>2. \A q \in moved : /\ q # p => backup'[q] = backup[q]
                           /\ q = p => backup'[q] = Staging!Absent
      BY <1>3 DEF StagedInv, StagingTyped
    <3>3. \A q \in moved : \/ backup'[q] = backup[q]
                           \/ ~Staging!Complete(backup[q]) /\ ~Staging!Complete(backup'[q])
      BY <2>3, <3>2, AbsentIsIncomplete
    <3>4. \A a, b \in moved : a = b
      BY DEF StagedInv, MovedInv
    <3>5. CurrentOf(output', backup', moved') = CurrentOf(output, backup, moved)
      BY <1>1, <2>1, <3>1, <3>3, <3>4, SameAside
    <3> QED
      BY <1>1, <3>5, CurrentIs, CurrentIsNext DEF Steady
  <2> QED
    BY <2>2, <2>3
<1> QED
  BY <1>2, <1>3 DEF Staging!Restore

LEMMA PublishIsManaged ==
  ASSUME StagedInv, NEW p \in Stagers, Staging!Publish(p)
  PROVE  Staging!Managed!Publish
<1>1. output' = temp[p] /\ seen' = seen /\ Staging!Complete(output')
  BY PublishKeeps DEF Staging!Publish, Staging!inputs
<1>2. temp[p] \in DirectoryType /\ Staging!Complete(temp[p])
  BY <1>1, StagedFacts, AbsentIsIncomplete DEF MaybeDirectory, Staging!Complete
<1>3. Staging!Current' = temp[p].files
  BY <1>1, <1>2, CurrentInOutput, CurrentIsNext
<1> QED
  BY <1>1, <1>2, <1>3, StagedFacts, SoundSetPublishes

LEMMA RebuildIsManaged ==
  ASSUME StagedInv, Staging!Rebuild
  PROVE  Staging!Managed!Observe
<1>1. UNCHANGED <<output, backup, moved>> /\ seen' = seen \cup {source'}
  BY DEF Staging!Rebuild, Staging!directories
<1>2. source' \in [Staging!Paths -> Staging!Contents]
  BY RebuildKeeps
<1>3. Staging!Current' = Staging!Current
  BY <1>1, CurrentIs, CurrentIsNext
<1> QED
  BY <1>1, <1>2, <1>3 DEF Staging!Managed!Observe

LEMMA AddFileIsSteady ==
  ASSUME StagedInv, Staging!AddFile
  PROVE  Steady
<1>1. UNCHANGED <<seen, backup, moved>>
  BY DEF Staging!AddFile
<1>2. CASE Staging!Complete(output)
  <2>1. Staging!Complete(output') /\ output'.files = output.files
    BY <1>2, AddFileKeeps
  <2> QED
    BY <1>1, <1>2, <2>1, CurrentInOutput, CurrentIs, CurrentIsNext DEF Steady
<1>3. CASE ~Staging!Complete(output)
  <2>1. ~Staging!Complete(output')
    BY <1>3, AddFileKeeps
  <2>2. CurrentOf(output, backup, moved) = CurrentOf(output', backup, moved)
    BY <1>3, <2>1 DEF CurrentOf
  <2> QED
    BY <1>1, <2>2, CurrentIs, CurrentIsNext DEF Steady
<1> QED
  BY <1>2, <1>3

LEMMA ManagedStep ==
  StagedInv /\ [Staging!Next]_stagingVars =>
    [Staging!Managed!Observe \/ Staging!Managed!Publish]_<<seen, Staging!Current>>
<1> SUFFICES ASSUME StagedInv, [Staging!Next]_stagingVars
             PROVE  Steady \/ Staging!Managed!Observe \/ Staging!Managed!Publish
  BY DEF Steady
<1>1. CASE UNCHANGED stagingVars
  BY <1>1, SameSetsAreSteady DEF stagingVars
<1>2. ASSUME NEW p \in Stagers,
             Staging!Begin(p) \/ Staging!VerifyInputs(p) \/ Staging!VerifyOriginal(p)
             \/ Staging!PlanCopies(p) \/ Staging!PublishFails(p) \/ Staging!Dies(p)
      PROVE  Steady
  BY <1>2, SameSetsAreSteady
     DEF Staging!Begin, Staging!VerifyInputs, Staging!VerifyOriginal, Staging!PlanCopies,
         Staging!PublishFails, Staging!Dies, Staging!inputs, Staging!directories
<1>3. ASSUME NEW p \in Stagers,
             Staging!MakeTemporary(p) \/ Staging!CopyOne(p) \/ Staging!WriteReport(p) \/ Staging!Refuses(p)
      PROVE  Steady
  BY <1>3, SameSetsAreSteady
     DEF Staging!MakeTemporary, Staging!CopyOne, Staging!WriteReport, Staging!Refuses, Staging!inputs
<1>4. CASE Staging!Stamp \/ Staging!Link
  BY <1>4, SameSetsAreSteady DEF Staging!Stamp, Staging!Link, Staging!directories
<1>5. CASE Staging!Next
  BY <1>2, <1>3, <1>4, <1>5, MoveAsideIsSteady, PublishIsManaged, RestoreIsManaged,
     RemoveBackupIsSteady, RebuildIsManaged, AddFileIsSteady DEF Staging!Next
<1> QED
  BY <1>1, <1>5

(* The refinement of ManagedOutput, step by step: only a publication, or a  *)
(* restoration that another publication preceded, changes the current set.  *)
LEMMA ManagedInit == Staging!Init => Staging!Managed!Init
<1> SUFFICES ASSUME Staging!Init PROVE Staging!Managed!Init
  OBVIOUS
<1>1. seen \subseteq [Staging!Paths -> Staging!Contents]
  BY ContentsAreNumbers DEF Staging!Init
<1>2. Staging!Current = Staging!Nothing
  BY AbsentIsIncomplete, CurrentNowhere, CurrentIs DEF Staging!Init
<1> QED
  BY <1>1, <1>2 DEF Staging!Managed!Init

(* Staging implements ManagedOutput: the current set is replaced as a whole *)
(* by files that were all present at one moment, and is never lost, for any *)
(* number of runs, ABIs and edits (stage-android-addons.js).                *)
THEOREM StagingIsManaged == Staging!Spec => OneSetAtATime
<1>1. Staging!Spec => Staging!Init /\ [][Staging!Next]_stagingVars
  BY DEF Staging!Spec, Staging!vars, stagingVars
<1> QED
  BY <1>1, StagedInit, StagedStep, ManagedInit, ManagedStep, PTL
     DEF OneSetAtATime, Staging!OneSetAtATime, Staging!Managed!Spec

-----------------------------------------------------------------------------
(* The overlay build (ArtifactOverlay)                                     *)

SomeHashes == UNION {[T -> Overlay!Hashes] : T \in SUBSET OverlayTargets}
ManifestType == [id : Overlay!Identity, artifacts : SomeHashes]
Successes == {"packed", "verified", "imported", "built"}
PreparerType ==
  [pc : {"idle", "packed", "verify", "import", "copy", "clone", "directory", "fetched",
         "prepared", "build", "recheck", "hash", "write", "final", "ended"},
   cfg : Overlay!Identity, req : SUBSET OverlayTargets, route : Routes \cup {"clone"},
   libs : SUBSET OverlayTargets, bares : SUBSET OverlayTargets, draft : SomeHashes,
   doubts : SUBSET OverlayTargets, disturbed : BOOLEAN, clone : BOOLEAN,
   result : Successes \cup {"none", "failed", "crashed"}]

(* What a version number says is bounded by the edits that were made.       *)
OverlayTyped ==
  /\ checkout \in Overlay!Identity /\ contract \in Overlay!Contract
  /\ checkout.release <= edits /\ checkout.wrapper <= edits /\ checkout.recipe <= edits
  /\ edits \in 0..MaxEdits /\ doubtful \subseteq OverlayTargets
  /\ starts \in 0..MaxStarts /\ tree \in {"clean", "exact", "other"}
  /\ lib \in [OverlayTargets -> Overlay!Library \cup {Overlay!None}]
  /\ bare \in [OverlayTargets -> Overlay!Prebuild \cup {Overlay!None}]
  /\ manifest \in ManifestType \cup {Overlay!None, Overlay!Torn}
  /\ run \in [Runs -> PreparerType]

AllBuiltFor(artifacts, c, doubts) ==
  \A t \in DOMAIN artifacts \ doubts : Overlay!BuiltFor(artifacts[t].bare, c)

(* What a manifest lists was built for the identity it names, also what has *)
(* been overwritten since, unless a disturbed run stamped it.               *)
ManifestTrue == Overlay!Parsable(manifest) => AllBuiltFor(manifest.artifacts, manifest.id, doubtful)

BundleTrue ==
  \E c \in Overlay!Identity, good \in BOOLEAN : bundle = Overlay!GenuineBundle(c, good)

(* A tree or a wrapper that is not the run's: the recheck after the build   *)
(* refuses, unless it becomes the run's again, and that disturbs the run.   *)
SourceLost(p) == Overlay!Source(p) # "exact"
WrapperLost(p) == checkout.wrapper # run[p].cfg.wrapper

EndedWell(p) ==
  /\ run[p].result # "none" => run[p].pc = "ended"
  /\ run[p].pc = "ended" /\ run[p].result # "crashed" => ~run[p].clone
  /\ run[p].result \in Successes /\ ~run[p].disturbed =>
       \A t \in run[p].req \ doubtful : Overlay!BuiltFor(bare[t], run[p].cfg)

CopiesWell(p) ==
  run[p].pc = "copy" =>
    /\ run[p].libs \subseteq run[p].bares
    /\ run[p].disturbed \/ \E good \in BOOLEAN : bundle = Overlay!GenuineBundle(run[p].cfg, good)
    /\ \A t \in run[p].req \ run[p].libs : lib[t] # Overlay!None
    /\ \A t \in run[p].req \ run[p].bares :
         bare[t] # Overlay!None /\ (run[p].disturbed \/ Overlay!BuiltFor(bare[t], run[p].cfg))

LibraryBuilt(p, t) ==
  /\ lib[t] # Overlay!None
  /\ \/ lib[t] = Overlay!CompiledLibrary(run[p].cfg, "exact", run[p].cfg.recipe)
     \/ SourceLost(p) \/ run[p].disturbed
PrebuildBuilt(p, t) ==
  /\ bare[t] # Overlay!None
  /\ Overlay!BuiltFor(bare[t], run[p].cfg) \/ SourceLost(p) \/ WrapperLost(p) \/ run[p].disturbed

BuildsWell(p) ==
  /\ run[p].pc \in {"clone", "directory", "fetched", "prepared", "build", "recheck"} =>
       run[p].route # "import"
  /\ Overlay!MayStillBuild(p) => checkout.recipe = run[p].cfg.recipe \/ run[p].disturbed
  /\ run[p].pc = "build" =>
       /\ run[p].libs \subseteq run[p].bares /\ run[p].bares \subseteq run[p].req
       /\ \A t \in run[p].req \ run[p].libs : LibraryBuilt(p, t)
       /\ \A t \in run[p].req \ run[p].bares : PrebuildBuilt(p, t)
  /\ run[p].pc = "recheck" =>
       \A t \in run[p].req : LibraryBuilt(p, t) /\ PrebuildBuilt(p, t)

(* The code takes no lock; that a manifest keeps its entries and that a torn *)
(* one stays is about one run at a time.                                    *)
OneRunAtATime == \A p, q \in Runs : p = q

StampsWell(p) ==
  /\ run[p].pc = "hash" =>
       \A t \in run[p].req :
         /\ lib[t] # Overlay!None /\ bare[t] # Overlay!None
         /\ run[p].disturbed \/ Overlay!BuiltFor(bare[t], run[p].cfg)
  /\ run[p].pc = "write" =>
       /\ AllBuiltFor(run[p].draft, run[p].cfg, run[p].doubts)
       /\ OneRunAtATime =>
            /\ manifest # Overlay!Torn
            /\ Overlay!ManifestMatches(manifest, run[p].cfg) =>
                 DOMAIN manifest.artifacts \subseteq DOMAIN run[p].draft

RunWell(p) == EndedWell(p) /\ CopiesWell(p) /\ BuildsWell(p) /\ StampsWell(p)

(* While a run is at work every other one counts as disturbed.              *)
OverlapSeen == \A p, q \in Runs : p # q /\ Overlay!Works(p) => run[q].disturbed

RunsWell == (\A p \in Runs : RunWell(p)) /\ OverlapSeen

OverlayIsTrue == OverlayTyped /\ ManifestTrue /\ BundleTrue /\ RunsWell

LEMMA SomeHashesIs ==
  ASSUME NEW d
  PROVE  d \in SomeHashes <=> DOMAIN d \subseteq OverlayTargets /\ d \in [DOMAIN d -> Overlay!Hashes]
BY DEF SomeHashes

LEMMA NoHashesTyped == Overlay!NoHashes \in SomeHashes
<1>1. DOMAIN Overlay!NoHashes = {} /\ Overlay!NoHashes \in [{} -> Overlay!Hashes]
  BY DEF Overlay!NoHashes
<1> QED
  BY <1>1, SomeHashesIs

(* Neither mark of a missing file is a file.                                *)
LEMMA MarksApart ==
  /\ Overlay!None \notin Overlay!Library /\ Overlay!None \notin Overlay!Prebuild
  /\ Overlay!None \notin ManifestType /\ Overlay!Torn \notin ManifestType
  /\ Overlay!None # Overlay!Torn
<1>1. DOMAIN Overlay!None = {"missing"} /\ DOMAIN Overlay!Torn = {"unparsable"}
  BY DEF Overlay!None, Overlay!Torn
<1>2. ASSUME NEW x \in Overlay!Library PROVE DOMAIN x = {"release", "source", "stamp", "recipe"}
  BY DEF Overlay!Library
<1>3. ASSUME NEW x \in Overlay!Prebuild PROVE DOMAIN x = {"library", "wrapper", "recipe", "good"}
  BY DEF Overlay!Prebuild
<1>4. ASSUME NEW x \in ManifestType PROVE DOMAIN x = {"id", "artifacts"}
  BY DEF ManifestType
<1> QED
  BY <1>1, <1>2, <1>3, <1>4

LEMMA ParsableIs ==
  ASSUME OverlayTyped
  PROVE  Overlay!Parsable(manifest) <=> manifest \in ManifestType
BY MarksApart DEF OverlayTyped, Overlay!Parsable

Pcs == {"idle", "packed", "verify", "import", "copy", "clone", "directory", "fetched",
        "prepared", "build", "recheck", "hash", "write", "final", "ended"}

(* What a step makes of its run, field by field.                            *)
Keeps(p) ==
  /\ run' = [run EXCEPT ![p] = run'[p]] /\ run'[p] \in PreparerType
  /\ run'[p].cfg = run[p].cfg /\ run'[p].req = run[p].req
  /\ run'[p].disturbed = run[p].disturbed \/ run'[p].disturbed = Overlay!OthersWork(p)
Moved(p, next, libs, bares) ==
  /\ Keeps(p) /\ run'[p].pc = next /\ run'[p].libs = libs /\ run'[p].bares = bares
  /\ run'[p].route = run[p].route /\ run'[p].draft = run[p].draft
  /\ run'[p].doubts = run[p].doubts /\ run'[p].disturbed = run[p].disturbed
  /\ run'[p].result = run[p].result
Finished(p, result) ==
  Keeps(p) /\ run'[p].pc = "ended" /\ run'[p].result = result /\ (result # "crashed" => ~run'[p].clone)

LEMMA GoesTyped ==
  ASSUME OverlayTyped, NEW p \in Runs, NEW r \in PreparerType, Overlay!Goes(p, r)
  PROVE  run' = [run EXCEPT ![p] = run'[p]] /\ run'[p] = r
BY DEF OverlayTyped, Overlay!Goes

LEMMA GotoMeans ==
  ASSUME OverlayTyped, NEW p \in Runs, NEW next \in Pcs, Overlay!Goto(p, next)
  PROVE  Moved(p, next, run[p].libs, run[p].bares)
<1>1. PICK r \in PreparerType : r = run[p]
  BY DEF OverlayTyped
<1>2. [r EXCEPT !.pc = next] \in PreparerType
  BY DEF PreparerType, Pcs
<1>3. run' = [run EXCEPT ![p] = run'[p]] /\ run'[p] = [r EXCEPT !.pc = next]
  BY <1>1, <1>2, GoesTyped DEF Overlay!Goto
<1> QED
  BY <1>1, <1>2, <1>3 DEF Moved, Keeps, PreparerType

LEMMA LoopMeans ==
  ASSUME OverlayTyped, NEW p \in Runs, NEW next \in Pcs, Overlay!Loop(p, next)
  PROVE  Moved(p, next, run[p].req, run[p].req)
<1>1. PICK r \in PreparerType : r = run[p]
  BY DEF OverlayTyped
<1>2. [r EXCEPT !.pc = next, !.libs = r.req, !.bares = r.req] \in PreparerType
  BY DEF PreparerType, Pcs
<1>3. /\ run' = [run EXCEPT ![p] = run'[p]]
      /\ run'[p] = [r EXCEPT !.pc = next, !.libs = r.req, !.bares = r.req]
  BY <1>1, <1>2, GoesTyped DEF Overlay!Loop
<1> QED
  BY <1>1, <1>2, <1>3 DEF Moved, Keeps, PreparerType

LEMMA LibraryDoneMeans ==
  ASSUME OverlayTyped, NEW p \in Runs, NEW t, Overlay!LibraryDone(p, t)
  PROVE  Moved(p, run[p].pc, run[p].libs \ {t}, run[p].bares)
<1>1. PICK r \in PreparerType : r = run[p]
  BY DEF OverlayTyped
<1>2. [r EXCEPT !.libs = @ \ {t}] \in PreparerType
  BY DEF PreparerType
<1>3. /\ run' = [run EXCEPT ![p] = run'[p]]
      /\ run'[p] = [r EXCEPT !.libs = @ \ {t}]
  BY <1>1, <1>2, GoesTyped DEF Overlay!LibraryDone
<1> QED
  BY <1>1, <1>2, <1>3 DEF Moved, Keeps, PreparerType

LEMMA PrebuildDoneMeans ==
  ASSUME OverlayTyped, NEW p \in Runs, NEW t, NEW next \in Pcs, Overlay!PrebuildDone(p, t, next)
  PROVE  Moved(p, IF run[p].bares = {t} THEN next ELSE run[p].pc, run[p].libs, run[p].bares \ {t})
<1>1. PICK r \in PreparerType : r = run[p]
  BY DEF OverlayTyped
<1> DEFINE s == [r EXCEPT !.bares = @ \ {t}, !.pc = IF r.bares = {t} THEN next ELSE @]
<1>2. s \in PreparerType
  <2>1. r.bares \ {t} \subseteq OverlayTargets /\ (IF r.bares = {t} THEN next ELSE r.pc) \in Pcs
    BY DEF PreparerType, Pcs
  <2>2. PICK done \in PreparerType : done = [r EXCEPT !.bares = @ \ {t}]
    BY <2>1 DEF PreparerType
  <2>3. s = [done EXCEPT !.pc = IF r.bares = {t} THEN next ELSE @]
    BY <2>2 DEF PreparerType
  <2> HIDE DEF s
  <2> QED
    BY <2>1, <2>3 DEF PreparerType, Pcs
<1>3. run' = [run EXCEPT ![p] = run'[p]] /\ run'[p] = s
  BY <1>1, <1>2, GoesTyped DEF Overlay!PrebuildDone
<1>4. /\ s.pc = (IF r.bares = {t} THEN next ELSE r.pc) /\ s.bares = r.bares \ {t}
      /\ s.libs = r.libs /\ s.cfg = r.cfg /\ s.req = r.req /\ s.route = r.route
      /\ s.draft = r.draft /\ s.doubts = r.doubts /\ s.disturbed = r.disturbed /\ s.result = r.result
  BY DEF PreparerType
<1> HIDE DEF s
<1> QED
  BY <1>1, <1>2, <1>3, <1>4 DEF Moved, Keeps

LEMMA IdlePreparer ==
  /\ Overlay!Idle \in PreparerType /\ Overlay!Idle.result = "none" /\ ~Overlay!Idle.clone
  /\ Overlay!Idle.libs = {} /\ Overlay!Idle.bares = {} /\ Overlay!Idle.pc = "idle"
<1>1. [release |-> 0, wrapper |-> 0, recipe |-> 0] \in Overlay!Identity
  BY PackagesAreBounded DEF Overlay!Identity, Overlay!Versions, Overlay!OverlayAssumption
<1> QED
  BY <1>1, NoHashesTyped DEF Overlay!Idle, PreparerType

LEMMA EndedIs ==
  ASSUME OverlayTyped, NEW p \in Runs, NEW result \in Successes \cup {"failed", "crashed"}
  PROVE  /\ Overlay!Ended(p, result) \in PreparerType
         /\ Overlay!Ended(p, result).pc = "ended" /\ Overlay!Ended(p, result).result = result
         /\ Overlay!Ended(p, result).cfg = run[p].cfg /\ Overlay!Ended(p, result).req = run[p].req
         /\ ~Overlay!Ended(p, result).clone
         /\ Overlay!Ended(p, result).disturbed = Overlay!OthersWork(p)
<1>1. PICK r \in PreparerType : r = run[p]
  BY DEF OverlayTyped
<1>2. PICK i \in PreparerType : i = Overlay!Idle
  BY IdlePreparer
<1>3. PICK others \in BOOLEAN : others = Overlay!OthersWork(p)
  BY DEF Overlay!OthersWork
<1>4. Overlay!Ended(p, result) =
        [i EXCEPT !.pc = "ended", !.cfg = r.cfg, !.req = r.req, !.result = result, !.disturbed = others]
  BY <1>1, <1>2, <1>3 DEF Overlay!Ended
<1>5. ~i.clone
  BY <1>2, IdlePreparer
<1>6. PICK asked \in PreparerType : asked = [i EXCEPT !.cfg = r.cfg, !.req = r.req]
  BY DEF PreparerType
<1>7. Overlay!Ended(p, result) = [asked EXCEPT !.pc = "ended", !.result = result, !.disturbed = others]
  BY <1>4, <1>6 DEF PreparerType
<1>8. Overlay!Ended(p, result) \in PreparerType
  BY <1>7 DEF PreparerType
<1> QED
  BY <1>1, <1>3, <1>4, <1>5, <1>8 DEF PreparerType

LEMMA EndsMeans ==
  ASSUME OverlayTyped, NEW p \in Runs, NEW result \in Successes \cup {"failed"},
         Overlay!Ends(p, result)
  PROVE  Finished(p, result)
<1>1. PICK s \in PreparerType : s = Overlay!Ended(p, result)
  BY EndedIs
<1>2. run' = [run EXCEPT ![p] = run'[p]] /\ run'[p] = s
  BY <1>1, GoesTyped DEF Overlay!Ends
<1> QED
  BY <1>1, <1>2, EndedIs DEF Finished, Keeps

LEMMA CrashesMeans ==
  ASSUME OverlayTyped, NEW p \in Runs, Overlay!Crashes(p)
  PROVE  Finished(p, "crashed")
<1>1. PICK s \in PreparerType : s = Overlay!Ended(p, "crashed")
  BY EndedIs
<1>2. PICK clone \in BOOLEAN : clone = run[p].clone
  BY DEF OverlayTyped, PreparerType
<1>3. [s EXCEPT !.clone = clone] \in PreparerType
  BY DEF PreparerType
<1>4. run' = [run EXCEPT ![p] = run'[p]] /\ run'[p] = [s EXCEPT !.clone = clone]
  BY <1>1, <1>2, <1>3, GoesTyped DEF Overlay!Crashes
<1>5. /\ s.pc = "ended" /\ s.result = "crashed" /\ s.cfg = run[p].cfg /\ s.req = run[p].req
      /\ s.disturbed = Overlay!OthersWork(p)
  BY <1>1, EndedIs
<1> QED
  BY <1>3, <1>4, <1>5 DEF Finished, Keeps, PreparerType

(* No step removes a file.                                                  *)
StillThere ==
  \A t \in OverlayTargets : /\ lib[t] # Overlay!None => lib'[t] # Overlay!None
                            /\ bare[t] # Overlay!None => bare'[t] # Overlay!None

(* A run to which nothing happens, except that it may be disturbed.         *)
Waits(q) ==
  /\ run'[q] \in PreparerType
  /\ run'[q].pc = run[q].pc /\ run'[q].cfg = run[q].cfg /\ run'[q].req = run[q].req
  /\ run'[q].route = run[q].route /\ run'[q].libs = run[q].libs /\ run'[q].bares = run[q].bares
  /\ run'[q].draft = run[q].draft /\ run'[q].doubts = run[q].doubts
  /\ run'[q].clone = run[q].clone /\ run'[q].result = run[q].result

(* Of a disturbed run only that its files are there is expected.            *)
LEMMA DisturbedIsWell ==
  ASSUME OverlayIsTrue, NEW q \in Runs, Waits(q), run'[q].disturbed, StillThere,
         OneRunAtATime => manifest' = manifest
  PROVE  RunWell(q)'
<1>1. /\ RunWell(q) /\ run[q] \in PreparerType /\ run[q].req \subseteq OverlayTargets
  BY DEF OverlayIsTrue, OverlayTyped, RunsWell, PreparerType
<1>2. EndedWell(q)' /\ CopiesWell(q)'
  BY <1>1 DEF EndedWell, CopiesWell, RunWell, Waits, StillThere
<1>3. BuildsWell(q)'
  BY <1>1 DEF BuildsWell, LibraryBuilt, PrebuildBuilt, RunWell, Waits, StillThere
<1>4. StampsWell(q)'
  BY <1>1
     DEF StampsWell, RunWell, Waits, StillThere, AllBuiltFor, Overlay!BuiltFor,
         Overlay!ManifestMatches, Overlay!Parsable, Overlay!IdentityOf
<1> QED
  BY <1>2, <1>3, <1>4 DEF RunWell

(* While one run takes a step every other one is disturbed.                 *)
LEMMA OthersAreWell ==
  ASSUME OverlayIsTrue, NEW p \in Runs, Overlay!Works(p), Keeps(p), StillThere,
         EndedWell(p)', CopiesWell(p)', BuildsWell(p)', StampsWell(p)'
  PROVE  RunsWell'
<1>1. run \in [Runs -> PreparerType] /\ OverlapSeen
  BY DEF OverlayIsTrue, OverlayTyped, RunsWell
<1>2. ASSUME NEW q \in Runs, q # p
      PROVE  run'[q] = run[q] /\ run[q].disturbed
  BY <1>1, <1>2 DEF Keeps, OverlapSeen
<1>3. ASSUME NEW q \in Runs, q # p
      PROVE  RunWell(q)'
  <2>1. Waits(q) /\ run'[q].disturbed
    BY <1>1, <1>2, <1>3 DEF Waits
  <2> QED
    BY <1>3, <2>1, DisturbedIsWell DEF OneRunAtATime
<1>4. OverlapSeen'
  <2>1. ASSUME NEW q \in Runs, NEW other \in Runs, q # other, Overlay!Works(q)'
        PROVE  run'[other].disturbed
    <3>1. CASE other # p
      BY <1>2, <3>1
    <3>2. CASE other = p
      <4>1. Overlay!Works(q)
        BY <1>2, <2>1, <3>2 DEF Overlay!Works
      <4>2. run[p].disturbed /\ Overlay!OthersWork(p)
        BY <1>1, <2>1, <3>2, <4>1 DEF OverlapSeen, Overlay!OthersWork
      <4> QED
        BY <3>2, <4>2 DEF Keeps
    <3> QED
      BY <3>1, <3>2
  <2> QED
    BY <2>1 DEF OverlapSeen
<1> QED
  BY <1>3, <1>4 DEF RunsWell, RunWell

(* A run that ends, with what it reports true.                              *)
LEMMA FinishedTrue ==
  ASSUME OverlayIsTrue, NEW p \in Runs,
         NEW result \in Successes \cup {"failed", "crashed"},
         Finished(p, result), UNCHANGED <<Overlay!developer, lib, bare, doubtful, starts>>,
         manifest' \in {manifest, Overlay!Torn}, Overlay!Works(p),
         result \in Successes => \A t \in run[p].req \ doubtful : Overlay!BuiltFor(bare[t], run[p].cfg)
  PROVE  OverlayIsTrue'
<1> USE DEF OverlayIsTrue
<1>1. OverlayTyped' /\ StillThere
  BY DEF OverlayTyped, Finished, Keeps, Overlay!developer, StillThere
<1>2. ManifestTrue'
  BY DEF ManifestTrue, AllBuiltFor, Overlay!Parsable, Overlay!BuiltFor
<1>3. BundleTrue'
  BY DEF BundleTrue, Overlay!developer
<1>4. EndedWell(p)'
  BY DEF EndedWell, Finished, Keeps, Overlay!BuiltFor
<1>5. CopiesWell(p)' /\ StampsWell(p)' /\ BuildsWell(p)'
  BY DEF CopiesWell, StampsWell, BuildsWell, Finished, Overlay!MayStillBuild
<1>6. Keeps(p)
  BY DEF Finished
<1> QED
  BY <1>1, <1>2, <1>3, <1>4, <1>5, <1>6, OthersAreWell

(* Steps to a place where a run relies on nothing but the recipe.           *)
GoesOn(p, next) ==
  \/ run[p].pc = "packed" /\ next = "verify"
  \/ run[p].pc = "verify" /\ next = run[p].route
  \/ run[p].pc = "clone" /\ next = "fetched"
  \/ run[p].pc \in {"directory", "fetched"} /\ next = "prepared"

LEMMA MovedTrue ==
  ASSUME OverlayIsTrue, NEW p \in Runs, NEW next, GoesOn(p, next),
         Moved(p, next, run[p].libs, run[p].bares),
         UNCHANGED <<checkout, contract, bundle, edits, Overlay!files, starts>>,
         tree' \in {tree, "exact"}
  PROVE  OverlayIsTrue'
<1> USE DEF OverlayIsTrue
<1>1. OverlayTyped' /\ StillThere
  BY DEF OverlayTyped, Moved, Keeps, Overlay!files, StillThere
<1>2. ManifestTrue'
  BY DEF ManifestTrue, AllBuiltFor, Overlay!Parsable, Overlay!BuiltFor, Overlay!files
<1>3. BundleTrue'
  BY DEF BundleTrue
<1>4. /\ Keeps(p) /\ Overlay!Works(p) /\ RunWell(p) /\ run[p].route \in {"import", "directory", "clone"}
      /\ next \in {"verify", "import", "directory", "clone", "fetched", "prepared"}
  BY PackagesAreBounded
     DEF Moved, Overlay!Works, GoesOn, RunsWell, OverlayTyped, PreparerType, Overlay!OverlayAssumption
<1>5. EndedWell(p)'
  BY <1>4 DEF RunWell, EndedWell, Moved, Successes, Overlay!Works
<1>6. CopiesWell(p)' /\ StampsWell(p)'
  BY <1>4 DEF CopiesWell, StampsWell, Moved
<1>7. BuildsWell(p)'
  BY <1>4 DEF RunWell, BuildsWell, Overlay!MayStillBuild, Moved, Keeps, GoesOn, Overlay!MayStillBuild
<1> QED
  BY <1>1, <1>2, <1>3, <1>4, <1>5, <1>6, <1>7, OthersAreWell

(* What a matching manifest vouches for was built for the run's identity.   *)
LEMMA VouchedIsBuilt ==
  ASSUME OverlayIsTrue, NEW p \in Runs, Overlay!ManifestMatches(manifest, run[p].cfg),
         NEW t, t \in DOMAIN manifest.artifacts \ doubtful, manifest.artifacts[t].bare = bare[t]
  PROVE  Overlay!BuiltFor(bare[t], run[p].cfg)
BY DEF OverlayIsTrue, ManifestTrue, AllBuiltFor, Overlay!ManifestMatches, Overlay!IdentityOf

LEMMA VerifiedIsBuilt ==
  ASSUME OverlayIsTrue, NEW p \in Runs,
         Overlay!VerifyArtifacts(Overlay!Package, run[p].cfg, run[p].req)
  PROVE  \A t \in run[p].req \ doubtful : Overlay!BuiltFor(bare[t], run[p].cfg)
<1>1. Overlay!ManifestMatches(manifest, run[p].cfg)
  BY DEF Overlay!VerifyArtifacts, Overlay!VerifyManifest, Overlay!Package
<1>2. ASSUME NEW t \in run[p].req
      PROVE  t \in DOMAIN manifest.artifacts /\ manifest.artifacts[t].bare = bare[t]
  <2>1. /\ t \in DOMAIN manifest.artifacts
        /\ manifest.artifacts[t] = [lib |-> lib[t], bare |-> bare[t]]
    BY DEF Overlay!VerifyArtifacts, Overlay!VerifyManifest, Overlay!Package
  <2>2. [lib |-> lib[t], bare |-> bare[t]].bare = bare[t]
    OBVIOUS
  <2> QED
    BY <2>1, <2>2
<1> QED
  BY <1>1, <1>2, VouchedIsBuilt

LEMMA TryPackedTrue ==
  ASSUME OverlayIsTrue, NEW p \in Runs, Overlay!TryPacked(p)
  PROVE  OverlayIsTrue'
<1>1. OverlayTyped /\ run[p].pc = "packed" /\ UNCHANGED <<Overlay!developer, Overlay!files, starts>>
  BY DEF Overlay!TryPacked, OverlayIsTrue
<1>2. CASE Overlay!VerifyPacked(Overlay!Package, run[p].cfg, run[p].req)
  <2>1. Finished(p, "packed")
    BY <1>1, <1>2, EndsMeans DEF Overlay!TryPacked, Successes
  <2>2. \A t \in run[p].req \ doubtful : Overlay!BuiltFor(bare[t], run[p].cfg)
    <3>1. /\ Overlay!ManifestMatches(manifest, run[p].cfg)
          /\ \A t \in run[p].req : t \in DOMAIN manifest.artifacts /\ manifest.artifacts[t].bare = bare[t]
      BY <1>2 DEF Overlay!VerifyPacked, Overlay!Package
    <3> QED
      BY <3>1, VouchedIsBuilt
  <2> QED
    BY <1>1, <2>1, <2>2, FinishedTrue DEF Successes, Overlay!files, Overlay!Works
<1>3. CASE ~Overlay!VerifyPacked(Overlay!Package, run[p].cfg, run[p].req)
  <2>1. Moved(p, "verify", run[p].libs, run[p].bares)
    BY <1>1, <1>3, GotoMeans DEF Overlay!TryPacked, Pcs
  <2> QED
    BY <1>1, <2>1, MovedTrue DEF GoesOn, Overlay!developer
<1> QED
  BY <1>2, <1>3

LEMMA TryBuiltTrue ==
  ASSUME OverlayIsTrue, NEW p \in Runs, Overlay!TryBuilt(p)
  PROVE  OverlayIsTrue'
<1>1. /\ OverlayTyped /\ run[p].pc = "verify" /\ UNCHANGED <<Overlay!developer, Overlay!files, starts>>
      /\ run[p].route \in {"import", "directory", "clone"}
  BY PackagesAreBounded
     DEF Overlay!TryBuilt, OverlayIsTrue, OverlayTyped, PreparerType, Overlay!OverlayAssumption
<1>2. CASE /\ Overlay!VerifyArtifacts(Overlay!Package, run[p].cfg, run[p].req)
           /\ Overlay!Ends(p, "verified")
  <2>1. Finished(p, "verified")
    BY <1>1, <1>2, EndsMeans DEF Successes
  <2> QED
    BY <1>1, <1>2, <2>1, VerifiedIsBuilt, FinishedTrue DEF Successes, Overlay!files, Overlay!Works
<1>3. CASE Overlay!Goto(p, run[p].route)
  <2>1. Moved(p, run[p].route, run[p].libs, run[p].bares)
    BY <1>1, <1>3, GotoMeans DEF Pcs
  <2> QED
    BY <1>1, <2>1, MovedTrue DEF GoesOn, Overlay!developer
<1> QED
  BY <1>2, <1>3 DEF Overlay!TryBuilt

LEMMA FinalVerifyTrue ==
  ASSUME OverlayIsTrue, NEW p \in Runs, Overlay!FinalVerify(p)
  PROVE  OverlayIsTrue'
<1>1. OverlayTyped /\ run[p].pc = "final" /\ UNCHANGED <<Overlay!developer, Overlay!files, starts>>
  BY DEF Overlay!FinalVerify, OverlayIsTrue
<1>2. CASE Overlay!VerifyArtifacts(Overlay!Package, run[p].cfg, run[p].req)
  <2>1. PICK result \in {"imported", "built"} : Overlay!Ends(p, result)
    BY <1>2 DEF Overlay!FinalVerify
  <2>2. Finished(p, result)
    BY <1>1, <2>1, EndsMeans DEF Successes
  <2> QED
    BY <1>1, <1>2, <2>2, VerifiedIsBuilt, FinishedTrue DEF Successes, Overlay!files, Overlay!Works
<1>3. CASE ~Overlay!VerifyArtifacts(Overlay!Package, run[p].cfg, run[p].req)
  <2>1. Finished(p, "failed")
    BY <1>1, <1>3, EndsMeans DEF Overlay!FinalVerify
  <2> QED
    BY <1>1, <2>1, FinishedTrue DEF Successes, Overlay!files, Overlay!Works
<1> QED
  BY <1>2, <1>3

LEMMA FailsTrue ==
  ASSUME OverlayIsTrue, NEW p \in Runs, Overlay!Ends(p, "failed"), Overlay!Works(p),
         UNCHANGED <<Overlay!developer, Overlay!files, starts>>
  PROVE  OverlayIsTrue'
<1>1. Finished(p, "failed")
  BY EndsMeans DEF OverlayIsTrue
<1> QED
  BY <1>1, FinishedTrue DEF Successes, Overlay!files, Overlay!Works

LEMMA StepFailsTrue ==
  ASSUME OverlayIsTrue, NEW p \in Runs, Overlay!StepFails(p)
  PROVE  OverlayIsTrue'
BY FailsTrue DEF Overlay!StepFails, Overlay!Works

LEMMA DiesTrue ==
  ASSUME OverlayIsTrue, NEW p \in Runs, Overlay!Dies(p)
  PROVE  OverlayIsTrue'
<1>1. Finished(p, "crashed")
  BY CrashesMeans DEF OverlayIsTrue, Overlay!Dies
<1> QED
  BY <1>1, FinishedTrue DEF Successes, Overlay!Dies, Overlay!files

LEMMA TearManifestTrue ==
  ASSUME OverlayIsTrue, NEW p \in Runs, Overlay!TearManifest(p)
  PROVE  OverlayIsTrue'
<1>1. PICK result \in {"failed", "crashed"} : Finished(p, result)
  BY EndsMeans, CrashesMeans DEF OverlayIsTrue, Overlay!TearManifest
<1> QED
  BY <1>1, FinishedTrue DEF Successes, Overlay!TearManifest, Overlay!Works

LEMMA CloneSourceTrue ==
  ASSUME OverlayIsTrue, NEW p \in Runs, Overlay!CloneSource(p)
  PROVE  OverlayIsTrue'
<1>1. PICK r \in PreparerType : r = run[p]
  BY DEF OverlayIsTrue, OverlayTyped
<1> DEFINE s == [r EXCEPT !.pc = "fetched", !.clone = TRUE]
<1>2. /\ s \in PreparerType /\ s.pc = "fetched" /\ s.cfg = r.cfg /\ s.req = r.req
      /\ s.libs = r.libs /\ s.bares = r.bares /\ s.route = r.route /\ s.draft = r.draft
      /\ s.doubts = r.doubts /\ s.disturbed = r.disturbed /\ s.result = r.result
  BY DEF PreparerType
<1> HIDE DEF s
<1>3. run' = [run EXCEPT ![p] = run'[p]] /\ run'[p] = s
  BY <1>1, <1>2, GoesTyped DEF Overlay!CloneSource, OverlayIsTrue, s
<1>4. Moved(p, "fetched", run[p].libs, run[p].bares)
  BY <1>1, <1>2, <1>3 DEF Moved, Keeps
<1> QED
  BY <1>4, MovedTrue DEF GoesOn, Overlay!CloneSource, Overlay!developer

LEMMA PrepareSourceTrue ==
  ASSUME OverlayIsTrue, NEW p \in Runs, Overlay!PrepareSource(p)
  PROVE  OverlayIsTrue'
<1>1. /\ OverlayTyped /\ run[p].pc \in {"fetched", "directory"}
      /\ UNCHANGED <<checkout, contract, bundle, edits, Overlay!files, starts>>
  BY DEF Overlay!PrepareSource, OverlayIsTrue
<1>2. CASE Overlay!Goto(p, "prepared") /\ tree' \in {tree, "exact"}
  <2>1. Moved(p, "prepared", run[p].libs, run[p].bares)
    BY <1>1, <1>2, GotoMeans DEF Pcs
  <2> QED
    BY <1>1, <1>2, <2>1, MovedTrue DEF GoesOn
<1>3. CASE Overlay!Ends(p, "failed") /\ UNCHANGED tree
  BY <1>1, <1>3, FailsTrue DEF Overlay!developer, Overlay!Works
<1> QED
  BY <1>2, <1>3 DEF Overlay!PrepareSource

(* What a run is when it starts.                                            *)
LEMMA FreshIs ==
  ASSUME OverlayTyped, NEW p \in Runs, NEW req \in SUBSET OverlayTargets, NEW via \in Routes
  PROVE  LET s == Overlay!Fresh(p, req, via)
         IN  /\ s \in PreparerType /\ s.cfg = checkout /\ ~s.clone
             /\ s.disturbed = Overlay!OthersWork(p)
             /\ \/ s.pc = "packed" /\ s.result = "none"
                \/ s.pc = "ended" /\ s.result = "failed"
<1>1. PICK i \in PreparerType : i = Overlay!Idle
  BY IdlePreparer
<1>2. PICK others \in BOOLEAN : others = Overlay!OthersWork(p)
  BY DEF Overlay!OthersWork
<1>3. PICK pc \in {"packed", "ended"}, result \in {"none", "failed"} :
        /\ pc = "packed" <=> result = "none"
        /\ Overlay!Fresh(p, req, via) =
             [i EXCEPT !.cfg = checkout, !.req = req, !.route = via, !.disturbed = others,
                       !.pc = pc, !.result = result]
  BY <1>1, <1>2 DEF Overlay!Fresh
<1>4. PICK asked \in PreparerType : asked = [i EXCEPT !.cfg = checkout, !.req = req, !.route = via]
  BY DEF PreparerType, OverlayTyped
<1>5. /\ Overlay!Fresh(p, req, via) = [asked EXCEPT !.disturbed = others, !.pc = pc, !.result = result]
      /\ asked.cfg = checkout /\ asked.clone = i.clone
  BY <1>3, <1>4 DEF PreparerType
<1>6. ~i.clone
  BY <1>1, IdlePreparer
<1> QED
  BY <1>2, <1>3, <1>5, <1>6 DEF PreparerType

(* Disturbing a run changes nothing else of it.                             *)
LEMMA DisturbIs ==
  ASSUME NEW q, run[q] \in PreparerType, run'[q] = Overlay!Disturb(run[q])
  PROVE  Waits(q) /\ run'[q].disturbed
<1>1. PICK r \in PreparerType : r = run[q]
  OBVIOUS
<1>2. run'[q] = [r EXCEPT !.disturbed = TRUE]
  BY <1>1 DEF Overlay!Disturb
<1> QED
  BY <1>1, <1>2 DEF Waits, PreparerType

LEMMA StartTrue ==
  ASSUME OverlayIsTrue, NEW p \in Runs, Overlay!Start(p)
  PROVE  OverlayIsTrue'
<1> USE DEF OverlayIsTrue
<1>1. PICK req \in SUBSET OverlayTargets, via \in Routes :
        run' = [Overlay!Disturbed(Runs) EXCEPT ![p] = Overlay!Fresh(p, req, via)]
  BY DEF Overlay!Start
<1>2. run'[p] = Overlay!Fresh(p, req, via) /\ DOMAIN run' = Runs
  BY <1>1 DEF Overlay!Disturbed
<1>3. /\ run'[p] \in PreparerType /\ run'[p].cfg = checkout /\ ~run'[p].clone
      /\ run'[p].disturbed = Overlay!OthersWork(p)
      /\ \/ run'[p].pc = "packed" /\ run'[p].result = "none"
         \/ run'[p].pc = "ended" /\ run'[p].result = "failed"
  BY <1>2, FreshIs
<1>4. /\ UNCHANGED <<Overlay!developer, Overlay!files>> /\ starts' \in 0..MaxStarts
      /\ ~Overlay!Works(p) /\ run \in [Runs -> PreparerType]
  BY PackagesAreBounded DEF Overlay!Start, OverlayTyped, Overlay!OverlayAssumption
<1>5. ASSUME NEW q \in Runs, q # p
      PROVE  Waits(q) /\ run'[q].disturbed
  <2>1. run'[q] = Overlay!Disturb(run[q])
    BY <1>1, <1>5 DEF Overlay!Disturbed
  <2> QED
    BY <1>4, <2>1, DisturbIs
<1>6. StillThere /\ manifest' = manifest
  BY <1>4 DEF StillThere, Overlay!files
<1>7. \A q \in Runs : q # p => RunWell(q)'
  BY <1>5, <1>6, DisturbedIsWell
<1>8. RunWell(p)'
  <2>1. EndedWell(p)' /\ CopiesWell(p)' /\ StampsWell(p)'
    BY <1>3 DEF EndedWell, CopiesWell, StampsWell, Successes
  <2>2. checkout' = checkout
    BY <1>4 DEF Overlay!developer
  <2>3. BuildsWell(p)'
    BY <1>3, <2>2 DEF BuildsWell
  <2> QED
    BY <2>1, <2>3 DEF RunWell
<1>9. OverlapSeen'
  <2>1. ASSUME NEW q \in Runs, NEW other \in Runs, q # other, Overlay!Works(q)'
        PROVE  run'[other].disturbed
    <3>1. CASE other # p
      BY <1>5, <3>1
    <3>2. CASE other = p
      <4>1. Overlay!Works(q)
        BY <1>5, <2>1, <3>2 DEF Waits, Overlay!Works
      <4> QED
        BY <1>3, <2>1, <3>2, <4>1 DEF Overlay!OthersWork
    <3> QED
      BY <3>1, <3>2
  <2> QED
    BY <2>1 DEF OverlapSeen
<1>10. OverlayTyped'
  <2>1. \A q \in Runs : run'[q] \in PreparerType
    BY <1>3, <1>5 DEF Waits
  <2>2. run' \in [Runs -> PreparerType]
    BY <1>1, <2>1 DEF Overlay!Disturbed
  <2> QED
    BY <1>4, <2>2 DEF OverlayTyped, Overlay!developer, Overlay!files
<1>11. BundleTrue'
  BY <1>4 DEF BundleTrue, Overlay!developer
<1>12. ManifestTrue'
  BY <1>4 DEF ManifestTrue, AllBuiltFor, Overlay!Parsable, Overlay!BuiltFor, Overlay!files
<1> QED
  BY <1>7, <1>8, <1>9, <1>10, <1>11, <1>12 DEF RunsWell

(* A directory whose files verify against its manifest was built for the    *)
(* configuration they verify for.                                           *)
LEMMA ImportTrue ==
  ASSUME OverlayIsTrue, NEW p \in Runs, Overlay!Import(p)
  PROVE  OverlayIsTrue'
<1> USE DEF OverlayIsTrue
<1>1. OverlayTyped /\ run[p].pc = "import" /\ UNCHANGED <<Overlay!developer, Overlay!files, starts>>
  BY DEF Overlay!Import
<1>2. CASE Overlay!VerifyArtifacts(bundle, run[p].cfg, run[p].req)
  <2>1. PICK c \in Overlay!Identity, good \in BOOLEAN : bundle = Overlay!GenuineBundle(c, good)
    BY DEF BundleTrue
  <2>2. bundle.manifest.id = c
    BY <2>1 DEF Overlay!GenuineBundle, Overlay!IdentityOf
  <2>3. bundle.manifest.id = run[p].cfg
    BY <1>2
       DEF Overlay!VerifyArtifacts, Overlay!VerifyManifest, Overlay!ManifestMatches,
           Overlay!IdentityOf
  <2>4. bundle = Overlay!GenuineBundle(run[p].cfg, good)
    BY <2>1, <2>2, <2>3
  <2>5. Moved(p, "copy", run[p].req, run[p].req)
    BY <1>1, <1>2, LoopMeans DEF Overlay!Import, Pcs
  <2>6. OverlayTyped'
    BY <1>1, <2>5 DEF OverlayTyped, Moved, Keeps, Overlay!developer, Overlay!files
  <2>7. ManifestTrue' /\ BundleTrue'
    BY <1>1 DEF ManifestTrue, AllBuiltFor, Overlay!Parsable, Overlay!BuiltFor, Overlay!files,
                BundleTrue, Overlay!developer
  <2>8. EndedWell(p)' /\ StampsWell(p)' /\ BuildsWell(p)'
    BY <1>1, <2>5 DEF RunsWell, RunWell, EndedWell, StampsWell, BuildsWell, Overlay!MayStillBuild, Moved, Keeps, Successes,
                      Overlay!developer, Overlay!files
  <2>9. CopiesWell(p)'
    BY <1>1, <2>4, <2>5 DEF CopiesWell, Moved, Keeps, Overlay!developer
  <2>10. Keeps(p) /\ Overlay!Works(p) /\ StillThere
    BY <1>1, <2>5 DEF Moved, Overlay!Works, StillThere, Overlay!files
  <2> QED
    BY <2>6, <2>7, <2>8, <2>9, <2>10, OthersAreWell
<1>3. CASE ~Overlay!VerifyArtifacts(bundle, run[p].cfg, run[p].req)
  BY <1>1, <1>3, FailsTrue DEF Overlay!Import, Overlay!Works
<1> QED
  BY <1>2, <1>3

(* The files of a directory built for c.                                    *)
LEMMA GenuineFiles ==
  ASSUME NEW c \in Overlay!Identity, NEW good \in BOOLEAN, bundle = Overlay!GenuineBundle(c, good),
         NEW t \in OverlayTargets
  PROVE  /\ bundle.lib[t] \in Overlay!Library
         /\ bundle.bare[t] \in Overlay!Prebuild /\ Overlay!BuiltFor(bundle.bare[t], c)
<1> DEFINE l == Overlay!CompiledLibrary(c, "exact", c.recipe)
<1>1. bundle.lib[t] = l /\ bundle.bare[t] = Overlay!LinkedPrebuild(l, c.wrapper, c.recipe, good)
  BY DEF Overlay!GenuineBundle
<1>2. l \in Overlay!Library
  BY DEF Overlay!CompiledLibrary, Overlay!Library, Overlay!Identity
<1>3. bundle.bare[t] \in Overlay!Prebuild
  BY <1>1, <1>2 DEF Overlay!LinkedPrebuild, Overlay!Prebuild, Overlay!Identity
<1>4. /\ bundle.bare[t].library = l
      /\ bundle.bare[t].wrapper = c.wrapper /\ bundle.bare[t].recipe = c.recipe
  BY <1>1 DEF Overlay!LinkedPrebuild
<1> QED
  BY <1>1, <1>2, <1>3, <1>4, MarksApart DEF Overlay!BuiltFor

LEMMA CopyOneTrue ==
  ASSUME OverlayIsTrue, NEW p \in Runs, Overlay!CopyOne(p)
  PROVE  OverlayIsTrue'
<1> USE DEF OverlayIsTrue
<1>1. /\ OverlayTyped /\ run[p].pc = "copy" /\ UNCHANGED <<Overlay!developer, manifest, doubtful, starts>>
      /\ run[p] \in PreparerType /\ run[p].result = "none" /\ CopiesWell(p)
  BY DEF Overlay!CopyOne, OverlayTyped, RunsWell, RunWell, EndedWell
<1>2. PICK c \in Overlay!Identity, good \in BOOLEAN :
        bundle = Overlay!GenuineBundle(c, good) /\ (run[p].disturbed \/ c = run[p].cfg)
  BY <1>1 DEF CopiesWell, BundleTrue, PreparerType
<1>3. \A t \in OverlayTargets :
        /\ bundle.lib[t] # Overlay!None /\ bundle.lib[t] \in Overlay!Library
        /\ bundle.bare[t] # Overlay!None /\ bundle.bare[t] \in Overlay!Prebuild
        /\ run[p].disturbed \/ Overlay!BuiltFor(bundle.bare[t], run[p].cfg)
  BY <1>2, GenuineFiles, MarksApart
<1>4. ManifestTrue' /\ BundleTrue'
  BY <1>1 DEF ManifestTrue, AllBuiltFor, Overlay!Parsable, Overlay!BuiltFor, BundleTrue,
              Overlay!developer
<1>5. CASE /\ run[p].libs = run[p].bares /\ UNCHANGED bare
           /\ \E t \in run[p].libs : /\ lib' = [lib EXCEPT ![t] = bundle.lib[t]]
                                     /\ Overlay!LibraryDone(p, t)
  <2>1. PICK t \in run[p].libs : /\ lib' = [lib EXCEPT ![t] = bundle.lib[t]]
                                 /\ Overlay!LibraryDone(p, t)
    BY <1>5
  <2>2. t \in OverlayTargets /\ Moved(p, "copy", run[p].libs \ {t}, run[p].bares)
    BY <1>1, <2>1, LibraryDoneMeans DEF PreparerType
  <2>3. lib' \in [OverlayTargets -> Overlay!Library \cup {Overlay!None}]
    BY <1>3, <2>1, <2>2 DEF OverlayTyped
  <2>4. OverlayTyped'
    BY <1>1, <1>5, <2>2, <2>3 DEF OverlayTyped, Moved, Keeps, Overlay!developer
  <2>5. EndedWell(p)' /\ StampsWell(p)' /\ BuildsWell(p)'
    BY <1>1, <2>2
       DEF EndedWell, StampsWell, BuildsWell, Overlay!MayStillBuild, Moved, Keeps, Successes, Overlay!developer
  <2>6. \A u \in run[p].req \ (run[p].libs \ {t}) : lib'[u] # Overlay!None
    BY <1>1, <1>3, <2>1, <2>2 DEF OverlayTyped, CopiesWell, PreparerType
  <2>7. CopiesWell(p)'
    BY <1>1, <1>2, <1>5, <2>2, <2>6
       DEF CopiesWell, Moved, Keeps, Overlay!developer, Overlay!BuiltFor
  <2>8. Keeps(p) /\ Overlay!Works(p) /\ StillThere
    BY <1>1, <1>3, <1>5, <2>1, <2>2 DEF Moved, Overlay!Works, StillThere, OverlayTyped
  <2> QED
    BY <1>4, <2>4, <2>5, <2>7, <2>8, OthersAreWell
<1>6. CASE /\ UNCHANGED lib
           /\ \E t \in run[p].bares \ run[p].libs :
                /\ bare' = [bare EXCEPT ![t] = bundle.bare[t]]
                /\ Overlay!PrebuildDone(p, t, "hash")
  <2>1. PICK t \in run[p].bares \ run[p].libs : /\ bare' = [bare EXCEPT ![t] = bundle.bare[t]]
                                                /\ Overlay!PrebuildDone(p, t, "hash")
    BY <1>6
  <2>2. /\ t \in OverlayTargets
        /\ Moved(p, IF run[p].bares = {t} THEN "hash" ELSE "copy", run[p].libs, run[p].bares \ {t})
    <3>1. "hash" \in Pcs /\ t \in OverlayTargets
      BY <1>1, <2>1 DEF PreparerType, Pcs
    <3>2. Moved(p, IF run[p].bares = {t} THEN "hash" ELSE run[p].pc, run[p].libs, run[p].bares \ {t})
      BY <1>1, <2>1, <3>1, PrebuildDoneMeans
    <3> QED
      BY <1>1, <3>1, <3>2
  <2>3. bare' \in [OverlayTargets -> Overlay!Prebuild \cup {Overlay!None}]
    BY <1>3, <2>1, <2>2 DEF OverlayTyped
  <2>4. OverlayTyped'
    BY <1>1, <1>6, <2>2, <2>3 DEF OverlayTyped, Moved, Keeps, Overlay!developer
  <2> DEFINE Copied(u) ==
        bare'[u] # Overlay!None /\ (run[p].disturbed \/ Overlay!BuiltFor(bare'[u], run[p].cfg))
  <2>5. \A u \in run[p].req \ (run[p].bares \ {t}) : Copied(u)
    <3>1. ASSUME NEW u \in run[p].req \ (run[p].bares \ {t})
          PROVE  Copied(u)
      <4>1. CASE u = t
        BY <1>3, <2>1, <2>2, <4>1 DEF OverlayTyped
      <4>2. CASE u # t
        <5>1. bare'[u] = bare[u]
          BY <2>1, <2>2, <4>2 DEF OverlayTyped
        <5> QED
          BY <1>1, <4>2, <5>1 DEF CopiesWell
      <4> QED
        BY <4>1, <4>2
    <3> QED
      BY <3>1
  <2>6. EndedWell(p)' /\ BuildsWell(p)'
    BY <1>1, <2>2 DEF EndedWell, BuildsWell, Overlay!MayStillBuild, Moved, Keeps, Successes, Overlay!developer
  <2>7. CopiesWell(p)'
    <3> SUFFICES ASSUME run'[p].pc = "copy" PROVE CopiesWell(p)'
      BY DEF CopiesWell
    <3>1. run'[p].libs \subseteq run'[p].bares
      BY <1>1, <2>1, <2>2 DEF CopiesWell, Moved
    <3>2. run'[p].disturbed \/ bundle' = Overlay!GenuineBundle(run'[p].cfg, good)
      BY <1>1, <1>2, <2>2 DEF Moved, Keeps, Overlay!developer
    <3>3. \A u \in run'[p].req \ run'[p].libs : lib'[u] # Overlay!None
      BY <1>1, <1>6, <2>2 DEF CopiesWell, Moved, Keeps
    <3>4. \A u \in run'[p].req \ run'[p].bares :
            bare'[u] # Overlay!None /\ (run'[p].disturbed \/ Overlay!BuiltFor(bare'[u], run'[p].cfg))
      BY <2>2, <2>5 DEF Moved, Keeps
    <3> QED
      BY <3>1, <3>2, <3>3, <3>4 DEF CopiesWell, Overlay!BuiltFor
  <2>8. run[p].bares = {t} =>
          \A u \in run[p].req : lib'[u] # Overlay!None /\ Copied(u)
    BY <1>1, <1>6, <2>1, <2>5 DEF CopiesWell
  <2>9. StampsWell(p)'
    <3>1. run'[p].pc # "write"
      BY <2>2 DEF Moved
    <3>2. run'[p].pc = "hash" => run[p].bares = {t}
      BY <2>2 DEF Moved
    <3>3. /\ run'[p].cfg = run[p].cfg /\ run'[p].req = run[p].req
          /\ run'[p].disturbed = run[p].disturbed
      BY <2>2 DEF Moved, Keeps
    <3> QED
      BY <2>8, <3>1, <3>2, <3>3 DEF StampsWell, Overlay!BuiltFor
  <2>10. Keeps(p) /\ Overlay!Works(p) /\ StillThere
    BY <1>1, <1>3, <1>6, <2>1, <2>2 DEF Moved, Overlay!Works, StillThere, OverlayTyped
  <2> QED
    BY <1>4, <2>4, <2>6, <2>7, <2>9, <2>10, OthersAreWell
<1> QED
  BY <1>5, <1>6 DEF Overlay!CopyOne

LEMMA BeginBuildTrue ==
  ASSUME OverlayIsTrue, NEW p \in Runs, Overlay!BeginBuild(p)
  PROVE  OverlayIsTrue'
<1> USE DEF OverlayIsTrue
<1>1. OverlayTyped /\ run[p].pc = "prepared" /\ UNCHANGED <<Overlay!developer, Overlay!files, starts>>
  BY DEF Overlay!BeginBuild
<1>2. CASE Overlay!Loop(p, "build")
  <2>1. Moved(p, "build", run[p].req, run[p].req)
    BY <1>1, <1>2, LoopMeans DEF Pcs
  <2>2. OverlayTyped'
    BY <1>1, <2>1 DEF OverlayTyped, Moved, Keeps, Overlay!developer, Overlay!files
  <2>3. ManifestTrue' /\ BundleTrue'
    BY <1>1 DEF ManifestTrue, AllBuiltFor, Overlay!Parsable, Overlay!BuiltFor, Overlay!files,
                BundleTrue, Overlay!developer
  <2>4. EndedWell(p)' /\ StampsWell(p)' /\ CopiesWell(p)'
    BY <1>1, <2>1 DEF RunsWell, RunWell, EndedWell, StampsWell, CopiesWell, Moved, Keeps, Successes
  <2>5. BuildsWell(p)'
    BY <1>1, <2>1 DEF RunsWell, RunWell, BuildsWell, Overlay!MayStillBuild, Moved, Keeps, Overlay!developer
  <2>6. Keeps(p) /\ Overlay!Works(p) /\ StillThere
    BY <1>1, <2>1 DEF Moved, Overlay!Works, StillThere, Overlay!files
  <2> QED
    BY <2>2, <2>3, <2>4, <2>5, <2>6, OthersAreWell
<1>3. CASE Overlay!Ends(p, "failed")
  BY <1>1, <1>3, FailsTrue DEF Overlay!Works
<1> QED
  BY <1>2, <1>3 DEF Overlay!BeginBuild

LEMMA BuildOneTrue ==
  ASSUME OverlayIsTrue, NEW p \in Runs, Overlay!BuildOne(p)
  PROVE  OverlayIsTrue'
<1> USE DEF OverlayIsTrue
<1>1. /\ OverlayTyped /\ run[p].pc = "build" /\ UNCHANGED <<Overlay!developer, manifest, doubtful, starts>>
      /\ run[p] \in PreparerType /\ run[p].result = "none" /\ BuildsWell(p)
      /\ Overlay!Source(p) \in {"clean", "exact", "other"}
      /\ checkout.recipe = run[p].cfg.recipe \/ run[p].disturbed
  BY DEF Overlay!BuildOne, OverlayTyped, RunsWell, RunWell, EndedWell, Overlay!Source,
         BuildsWell, Overlay!MayStillBuild
<1>2. ManifestTrue' /\ BundleTrue'
  BY <1>1 DEF ManifestTrue, AllBuiltFor, Overlay!Parsable, Overlay!BuiltFor, BundleTrue,
              Overlay!developer
<1>3. CASE /\ UNCHANGED bare
           /\ \E t \in run[p].libs :
                /\ lib' = [lib EXCEPT ![t] = Overlay!CompiledLibrary(run[p].cfg, Overlay!Source(p),
                                                                    checkout.recipe)]
                /\ Overlay!LibraryDone(p, t)
  <2> DEFINE built == Overlay!CompiledLibrary(run[p].cfg, Overlay!Source(p), checkout.recipe)
  <2>1. PICK t \in run[p].libs :
          /\ lib' = [lib EXCEPT ![t] = built]
          /\ Overlay!LibraryDone(p, t)
    BY <1>3
  <2>2. t \in OverlayTargets /\ Moved(p, "build", run[p].libs \ {t}, run[p].bares)
    BY <1>1, <2>1, LibraryDoneMeans DEF PreparerType
  <2>3. built \in Overlay!Library
    BY <1>1 DEF Overlay!CompiledLibrary, Overlay!Library, Overlay!Identity, PreparerType, OverlayTyped
  <2>4. OverlayTyped'
    BY <1>1, <1>3, <2>1, <2>2, <2>3 DEF OverlayTyped, Moved, Keeps, Overlay!developer
  <2>5. EndedWell(p)' /\ StampsWell(p)' /\ CopiesWell(p)'
    BY <1>1, <2>2
       DEF EndedWell, StampsWell, CopiesWell, Moved, Keeps, Successes, Overlay!developer
  <2>6. \A u \in OverlayTargets \ {t} : lib'[u] = lib[u]
    BY <2>1, <2>2 DEF OverlayTyped
  <2>7. lib'[t] = built /\ lib'[t] # Overlay!None
    BY <2>1, <2>2, <2>3, MarksApart DEF OverlayTyped
  <2>8. /\ run'[p].cfg = run[p].cfg /\ run'[p].req = run[p].req /\ run'[p].route = run[p].route
        /\ checkout' = checkout /\ tree' = tree /\ bare' = bare
        /\ run'[p].disturbed = run[p].disturbed
    BY <1>1, <1>3, <2>2 DEF Moved, Keeps, Overlay!developer
  <2>9. \A u \in run[p].req \ (run[p].libs \ {t}) : LibraryBuilt(p, u)'
    BY <1>1, <2>2, <2>6, <2>7, <2>8
       DEF LibraryBuilt, BuildsWell, SourceLost, Overlay!Source, PreparerType
  <2>10. \A u \in run[p].req \ run[p].bares : PrebuildBuilt(p, u)'
    BY <1>1, <2>8
       DEF PrebuildBuilt, BuildsWell, SourceLost, WrapperLost, Overlay!Source, Overlay!BuiltFor
  <2>11. BuildsWell(p)'
    <3>1. /\ run'[p].pc = "build" /\ run'[p].libs = run[p].libs \ {t} /\ run'[p].bares = run[p].bares
          /\ run'[p].cfg = run[p].cfg /\ run'[p].req = run[p].req /\ checkout' = checkout
          /\ run'[p].route = run[p].route /\ run'[p].disturbed = run[p].disturbed
      BY <2>2, <2>8 DEF Moved
    <3> QED
      BY <1>1, <2>9, <2>10, <3>1 DEF BuildsWell
  <2>12. Keeps(p) /\ Overlay!Works(p) /\ StillThere
    BY <1>1, <1>3, <2>2, <2>6, <2>7 DEF Moved, Overlay!Works, StillThere
  <2> QED
    BY <1>2, <2>4, <2>5, <2>11, <2>12, OthersAreWell
<1>4. CASE /\ run[p].libs = {} /\ UNCHANGED lib
           /\ \E t \in run[p].bares, good \in BOOLEAN :
                /\ bare' = [bare EXCEPT ![t] = Overlay!LinkedPrebuild(lib[t], checkout.wrapper,
                                                                     checkout.recipe, good)]
                /\ Overlay!PrebuildDone(p, t, "recheck")
  <2>1. PICK t \in run[p].bares, good \in BOOLEAN :
          /\ bare' = [bare EXCEPT ![t] = Overlay!LinkedPrebuild(lib[t], checkout.wrapper,
                                                                     checkout.recipe, good)]
          /\ Overlay!PrebuildDone(p, t, "recheck")
    BY <1>4
  <2>2. t \in OverlayTargets /\ t \in run[p].req /\ LibraryBuilt(p, t)
    BY <1>1, <1>4, <2>1 DEF BuildsWell, PreparerType
  <2>3. Moved(p, IF run[p].bares = {t} THEN "recheck" ELSE "build", run[p].libs, run[p].bares \ {t})
    <3>1. "recheck" \in Pcs
      BY DEF Pcs
    <3>2. Moved(p, IF run[p].bares = {t} THEN "recheck" ELSE run[p].pc, run[p].libs, run[p].bares \ {t})
      BY <1>1, <2>1, <3>1, PrebuildDoneMeans
    <3> QED
      BY <1>1, <3>2
  <2>4. /\ lib[t] \in Overlay!Library /\ checkout.wrapper \in Overlay!Versions
        /\ checkout.recipe \in Overlay!Versions
    BY <1>1, <2>2 DEF LibraryBuilt, OverlayTyped, Overlay!Identity
  <2> DEFINE b == Overlay!LinkedPrebuild(lib[t], checkout.wrapper, checkout.recipe, good)
  <2>5. /\ b \in Overlay!Prebuild /\ b.library = lib[t] /\ b.wrapper = checkout.wrapper
        /\ b.recipe = checkout.recipe
    BY <2>4 DEF Overlay!LinkedPrebuild, Overlay!Prebuild
  <2> HIDE DEF b
  <2>6. /\ bare'[t] = b /\ \A u \in OverlayTargets \ {t} : bare'[u] = bare[u]
        /\ bare' \in [OverlayTargets -> Overlay!Prebuild \cup {Overlay!None}]
    BY <2>1, <2>2, <2>5 DEF OverlayTyped, b
  <2>7. OverlayTyped'
    BY <1>1, <1>4, <2>3, <2>6 DEF OverlayTyped, Moved, Keeps, Overlay!developer
  <2>8. EndedWell(p)' /\ StampsWell(p)' /\ CopiesWell(p)'
    BY <1>1, <2>3
       DEF EndedWell, StampsWell, CopiesWell, Moved, Keeps, Successes, Overlay!developer
  <2>9. /\ run'[p].cfg = run[p].cfg /\ run'[p].req = run[p].req /\ run'[p].route = run[p].route
        /\ checkout' = checkout /\ tree' = tree /\ lib' = lib
        /\ run'[p].disturbed = run[p].disturbed
    BY <1>1, <1>4, <2>3 DEF Moved, Keeps, Overlay!developer
  <2>10. PrebuildBuilt(p, t)'
    <3>1. bare'[t] # Overlay!None
      BY <2>5, <2>6, MarksApart
    <3>2. \/ Overlay!BuiltFor(bare'[t], run[p].cfg)
          \/ SourceLost(p) \/ WrapperLost(p) \/ run[p].disturbed
      BY <1>1, <2>2, <2>5, <2>6, <3>1 DEF LibraryBuilt, WrapperLost, Overlay!BuiltFor
    <3> QED
      BY <2>9, <3>1, <3>2
         DEF PrebuildBuilt, SourceLost, WrapperLost, Overlay!Source, Overlay!BuiltFor
  <2>11. \A u \in run[p].req \ (run[p].bares \ {t}) : PrebuildBuilt(p, u)'
    <3>1. ASSUME NEW u \in run[p].req \ run[p].bares PROVE PrebuildBuilt(p, u)'
      <4>1. bare'[u] = bare[u] /\ PrebuildBuilt(p, u)
        BY <1>1, <2>1, <2>6, <3>1 DEF BuildsWell, PreparerType
      <4> QED
        BY <2>9, <4>1
           DEF PrebuildBuilt, SourceLost, WrapperLost, Overlay!Source, Overlay!BuiltFor
    <3> QED
      BY <2>10, <3>1
  <2>12. \A u \in run[p].req : LibraryBuilt(p, u)'
    BY <1>1, <1>4, <2>9 DEF LibraryBuilt, BuildsWell, SourceLost, Overlay!Source
  <2>13. BuildsWell(p)'
    <3>1. /\ run'[p].pc = (IF run[p].bares = {t} THEN "recheck" ELSE "build")
          /\ run'[p].libs = {} /\ run'[p].bares = run[p].bares \ {t}
      BY <1>4, <2>3 DEF Moved
    <3>2. /\ run[p].bares \subseteq run[p].req /\ run[p].route # "import"
          /\ checkout'.recipe = run'[p].cfg.recipe \/ run'[p].disturbed
      BY <1>1, <2>9 DEF BuildsWell
    <3>3. run'[p].pc = "build" => BuildsWell(p)'
      BY <2>9, <2>11, <2>12, <3>1, <3>2 DEF BuildsWell
    <3>4. run'[p].pc = "recheck" => BuildsWell(p)'
      BY <2>9, <2>11, <2>12, <3>1, <3>2 DEF BuildsWell
    <3> QED
      BY <3>1, <3>3, <3>4
  <2>14. Keeps(p) /\ Overlay!Works(p) /\ StillThere
    BY <1>1, <1>4, <2>3, <2>5, <2>6, MarksApart DEF Moved, Overlay!Works, StillThere
  <2> QED
    BY <1>2, <2>7, <2>8, <2>13, <2>14, OthersAreWell
<1> QED
  BY <1>3, <1>4 DEF Overlay!BuildOne

(* What passes the recheck was built for the configuration the run read.    *)
LEMMA RecheckTrue ==
  ASSUME OverlayIsTrue, NEW p \in Runs, Overlay!Recheck(p)
  PROVE  OverlayIsTrue'
<1> USE DEF OverlayIsTrue
<1>1. OverlayTyped /\ run[p].pc = "recheck" /\ UNCHANGED <<Overlay!developer, Overlay!files, starts>>
  BY DEF Overlay!Recheck
<1>2. CASE Overlay!RecheckAccepts(p)
  <2>1. Moved(p, "hash", run[p].libs, run[p].bares)
    BY <1>1, <1>2, GotoMeans DEF Overlay!Recheck, Pcs
  <2>2. ~SourceLost(p) /\ ~WrapperLost(p)
    BY <1>1, <1>2
       DEF Overlay!RecheckAccepts, Overlay!PrepareSourceAccepts, SourceLost, WrapperLost
  <2>3. \A t \in run[p].req :
          /\ lib[t] # Overlay!None /\ bare[t] # Overlay!None
          /\ run[p].disturbed \/ Overlay!BuiltFor(bare[t], run[p].cfg)
    BY <1>1, <2>2 DEF RunsWell, RunWell, BuildsWell, LibraryBuilt, PrebuildBuilt
  <2>4. OverlayTyped'
    BY <1>1, <2>1 DEF OverlayTyped, Moved, Keeps, Overlay!developer, Overlay!files
  <2>5. ManifestTrue' /\ BundleTrue'
    BY <1>1 DEF ManifestTrue, AllBuiltFor, Overlay!Parsable, Overlay!BuiltFor, Overlay!files,
                BundleTrue, Overlay!developer
  <2>6. EndedWell(p)' /\ CopiesWell(p)' /\ BuildsWell(p)'
    BY <1>1, <2>1 DEF RunsWell, RunWell, EndedWell, CopiesWell, BuildsWell, Overlay!MayStillBuild, Moved, Keeps, Successes,
                      Overlay!developer
  <2>7. StampsWell(p)'
    BY <1>1, <2>1, <2>3 DEF StampsWell, Moved, Keeps, Overlay!BuiltFor, Overlay!files
  <2>8. Keeps(p) /\ Overlay!Works(p) /\ StillThere
    BY <1>1, <2>1 DEF Moved, Overlay!Works, StillThere, Overlay!files
  <2> QED
    BY <2>4, <2>5, <2>6, <2>7, <2>8, OthersAreWell
<1>3. CASE ~Overlay!RecheckAccepts(p)
  BY <1>1, <1>3, FailsTrue DEF Overlay!Recheck, Overlay!Works
<1> QED
  BY <1>2, <1>3

(* The draft lists what the run made and what a matching manifest listed.   *)
LEMMA DraftTrue ==
  ASSUME OverlayIsTrue, NEW p \in Runs, run[p].pc = "hash",
         NEW draft, draft = Overlay!Over([t \in run[p].req |-> [lib |-> lib[t], bare |-> bare[t]]],
                                         Overlay!Kept(run[p].cfg)),
         NEW doubts, doubts = Overlay!KeptDoubts(p) \cup IF run[p].disturbed THEN run[p].req ELSE {}
  PROVE  /\ draft \in SomeHashes /\ AllBuiltFor(draft, run[p].cfg, doubts)
         /\ doubts \in SUBSET OverlayTargets
         /\ Overlay!ManifestMatches(manifest, run[p].cfg) =>
              DOMAIN manifest.artifacts \subseteq DOMAIN draft
<1> USE DEF OverlayIsTrue
<1> DEFINE mine == [t \in run[p].req |-> [lib |-> lib[t], bare |-> bare[t]]]
           kept == Overlay!Kept(run[p].cfg)
<1>1. OverlayTyped /\ run[p].req \subseteq OverlayTargets
  BY DEF OverlayTyped, PreparerType
<1>2. ASSUME NEW t \in run[p].req
      PROVE  /\ mine[t] \in Overlay!Hashes
             /\ run[p].disturbed \/ Overlay!BuiltFor(mine[t].bare, run[p].cfg)
  <2>1. /\ lib[t] # Overlay!None /\ bare[t] # Overlay!None
        /\ run[p].disturbed \/ Overlay!BuiltFor(bare[t], run[p].cfg)
    BY DEF RunsWell, RunWell, StampsWell
  <2>2. lib[t] \in Overlay!Library /\ bare[t] \in Overlay!Prebuild
    BY <1>1, <2>1 DEF OverlayTyped
  <2> QED
    BY <2>1, <2>2 DEF Overlay!Hashes
<1>3. /\ kept \in SomeHashes
      /\ \A t \in DOMAIN kept \ run[p].req : t \notin doubts => Overlay!BuiltFor(kept[t].bare, run[p].cfg)
  <2>1. CASE Overlay!ManifestMatches(manifest, run[p].cfg)
    <3>1. kept = manifest.artifacts /\ manifest \in ManifestType /\ manifest.id = run[p].cfg
      BY <1>1, <2>1, ParsableIs DEF Overlay!Kept, Overlay!ManifestMatches, Overlay!IdentityOf
    <3>2. \A t : t \notin run[p].req /\ t \notin doubts => t \notin doubtful
      BY <2>1 DEF Overlay!KeptDoubts
    <3> QED
      BY <2>1, <3>1, <3>2 DEF ManifestTrue, ManifestType, Overlay!ManifestMatches, AllBuiltFor
  <2>2. CASE ~Overlay!ManifestMatches(manifest, run[p].cfg)
    <3>1. kept = Overlay!NoHashes /\ DOMAIN Overlay!NoHashes = {}
      BY <2>2 DEF Overlay!Kept, Overlay!NoHashes
    <3> QED
      BY <3>1, NoHashesTyped
  <2> QED
    BY <2>1, <2>2
<1>4. DOMAIN mine = run[p].req
  OBVIOUS
<1>5. Overlay!ManifestMatches(manifest, run[p].cfg) => kept = manifest.artifacts
  BY DEF Overlay!Kept
<1>6. doubts \in SUBSET OverlayTargets /\ (run[p].disturbed => run[p].req \subseteq doubts)
  BY <1>1 DEF Overlay!KeptDoubts, OverlayTyped
<1> HIDE DEF mine, kept
<1>7. draft = [t \in DOMAIN mine \cup DOMAIN kept |-> IF t \in DOMAIN mine THEN mine[t] ELSE kept[t]]
  BY DEF Overlay!Over, mine, kept
<1>8. DOMAIN kept \subseteq OverlayTargets /\ \A t \in DOMAIN kept : kept[t] \in Overlay!Hashes
  BY <1>3, SomeHashesIs
<1>9. DOMAIN draft = run[p].req \cup DOMAIN kept
  BY <1>4, <1>7
<1>10. ASSUME NEW t \in DOMAIN draft
       PROVE  draft[t] \in Overlay!Hashes /\ (t \notin doubts => Overlay!BuiltFor(draft[t].bare, run[p].cfg))
  <2>1. CASE t \in run[p].req
    BY <1>2, <1>4, <1>6, <1>7, <1>9, <2>1
  <2>2. CASE t \notin run[p].req
    BY <1>3, <1>4, <1>7, <1>8, <1>9, <2>2
  <2> QED
    BY <2>1, <2>2
<1>11. draft \in [DOMAIN draft -> Overlay!Hashes]
  BY <1>7, <1>10
<1>12. draft \in SomeHashes
  BY <1>1, <1>8, <1>9, <1>11, SomeHashesIs
<1> QED
  BY <1>5, <1>6, <1>9, <1>10, <1>12 DEF AllBuiltFor

LEMMA HashArtifactsTrue ==
  ASSUME OverlayIsTrue, NEW p \in Runs, Overlay!HashArtifacts(p)
  PROVE  OverlayIsTrue'
<1> USE DEF OverlayIsTrue
<1>1. OverlayTyped /\ run[p].pc = "hash" /\ UNCHANGED <<Overlay!developer, Overlay!files, starts>>
  BY DEF Overlay!HashArtifacts
<1>2. CASE manifest # Overlay!Torn
  <2>0. PICK d, doubts :
          /\ d = Overlay!Over([t \in run[p].req |-> [lib |-> lib[t], bare |-> bare[t]]],
                              Overlay!Kept(run[p].cfg))
          /\ doubts = Overlay!KeptDoubts(p) \cup IF run[p].disturbed THEN run[p].req ELSE {}
    OBVIOUS
  <2>1. PICK r \in PreparerType : r = run[p]
    BY <1>1 DEF OverlayTyped
  <2> DEFINE w == [r EXCEPT !.pc = "write", !.doubts = doubts, !.draft = d]
  <2>2. Overlay!Goes(p, w)
    BY <1>2, <2>0, <2>1 DEF Overlay!HashArtifacts
  <2>3. /\ d \in SomeHashes /\ AllBuiltFor(d, run[p].cfg, doubts) /\ doubts \in SUBSET OverlayTargets
        /\ Overlay!ManifestMatches(manifest, run[p].cfg) => DOMAIN manifest.artifacts \subseteq DOMAIN d
    BY <1>1, <1>2, <2>0, DraftTrue
  <2>4. /\ w \in PreparerType /\ w.pc = "write" /\ w.draft = d /\ w.doubts = doubts
        /\ w.cfg = r.cfg /\ w.req = r.req /\ w.result = r.result /\ w.disturbed = r.disturbed
    BY <2>3 DEF PreparerType
  <2> HIDE DEF w
  <2>5. run' = [run EXCEPT ![p] = run'[p]] /\ run'[p] = w
    BY <1>1, <2>2, <2>4, GoesTyped
  <2>6. /\ Keeps(p) /\ run'[p].pc = "write" /\ run'[p].draft = d /\ run'[p].doubts = doubts
        /\ run'[p].result = run[p].result
    BY <2>1, <2>4, <2>5 DEF Keeps
  <2>7. OverlayTyped'
    BY <1>1, <2>6 DEF OverlayTyped, Keeps, Overlay!developer, Overlay!files
  <2>8. ManifestTrue' /\ BundleTrue'
    BY <1>1 DEF ManifestTrue, AllBuiltFor, Overlay!Parsable, Overlay!BuiltFor, Overlay!files,
                BundleTrue, Overlay!developer
  <2>9. EndedWell(p)' /\ CopiesWell(p)' /\ BuildsWell(p)'
    BY <1>1, <2>6
       DEF RunsWell, RunWell, EndedWell, CopiesWell, BuildsWell, Overlay!MayStillBuild, Keeps,
           Successes, Overlay!developer
  <2>10. StampsWell(p)'
    BY <1>1, <1>2, <2>3, <2>6
       DEF StampsWell, Keeps, Overlay!files, AllBuiltFor, Overlay!BuiltFor,
           Overlay!ManifestMatches, Overlay!Parsable, Overlay!IdentityOf
  <2>11. Overlay!Works(p) /\ StillThere
    BY <1>1 DEF Overlay!Works, StillThere, Overlay!files
  <2> QED
    BY <2>6, <2>7, <2>8, <2>9, <2>10, <2>11, OthersAreWell
<1>3. CASE manifest = Overlay!Torn
  BY <1>1, <1>3, FailsTrue DEF Overlay!HashArtifacts, Overlay!Works
<1> QED
  BY <1>2, <1>3

LEMMA WriteManifestTrue ==
  ASSUME OverlayIsTrue, NEW p \in Runs, Overlay!WriteManifest(p)
  PROVE  OverlayIsTrue'
<1> USE DEF OverlayIsTrue
<1>1. /\ OverlayTyped /\ run[p].pc = "write" /\ UNCHANGED <<Overlay!developer, lib, bare, starts>>
      /\ manifest' = [id |-> run[p].cfg, artifacts |-> run[p].draft]
      /\ doubtful' = run[p].doubts
      /\ run[p] \in PreparerType /\ AllBuiltFor(run[p].draft, run[p].cfg, run[p].doubts)
  BY DEF Overlay!WriteManifest, Overlay!IdentityOf, OverlayTyped, RunsWell, RunWell, StampsWell
<1>2. Moved(p, "final", run[p].libs, run[p].bares)
  BY <1>1, GotoMeans DEF Overlay!WriteManifest, Pcs
<1>3. manifest' \in ManifestType
  BY <1>1 DEF ManifestType, PreparerType
<1>4. OverlayTyped'
  BY <1>1, <1>2, <1>3 DEF OverlayTyped, Moved, Keeps, Overlay!developer, PreparerType
<1>5. ManifestTrue' /\ BundleTrue'
  BY <1>1 DEF ManifestTrue, AllBuiltFor, Overlay!BuiltFor, BundleTrue, Overlay!developer
<1>6. EndedWell(p)' /\ CopiesWell(p)' /\ BuildsWell(p)' /\ StampsWell(p)'
  <2>1. run'[p].pc = "final" /\ run'[p].result = "none"
    BY <1>1, <1>2 DEF RunsWell, RunWell, EndedWell, Moved, Keeps
  <2> QED
    BY <2>1 DEF EndedWell, CopiesWell, BuildsWell, Overlay!MayStillBuild, StampsWell, Successes
<1>7. Keeps(p) /\ Overlay!Works(p) /\ StillThere
  BY <1>1, <1>2 DEF Moved, Overlay!Works, StillThere
<1> QED
  BY <1>4, <1>5, <1>6, <1>7, OthersAreWell

(* What the developer does without disturbing a run: its directory stays,   *)
(* its recipe stays, and a lost source or wrapper stays lost.               *)
Undisturbed(p) ==
  /\ run[p].pc = "copy" => bundle' = bundle
  /\ Overlay!MayStillBuild(p) => checkout'.recipe = checkout.recipe
  /\ Overlay!Compiles(p) => (SourceLost(p) => SourceLost(p)') /\ (WrapperLost(p) => WrapperLost(p)')

LEMMA UndisturbedIsWell ==
  ASSUME OverlayIsTrue, NEW p \in Runs, run'[p] = run[p], UNCHANGED Overlay!files, Undisturbed(p)
  PROVE  RunWell(p)'
<1>1. RunWell(p) /\ lib' = lib /\ bare' = bare /\ manifest' = manifest /\ doubtful' = doubtful
  BY DEF OverlayIsTrue, RunsWell, Overlay!files
<1>2. EndedWell(p)' /\ CopiesWell(p)'
  BY <1>1 DEF RunWell, EndedWell, CopiesWell, Overlay!BuiltFor, Undisturbed
<1>3. StampsWell(p)'
  BY <1>1
     DEF RunWell, StampsWell, AllBuiltFor, Overlay!BuiltFor, Overlay!ManifestMatches,
         Overlay!Parsable, Overlay!IdentityOf
<1>4. ASSUME NEW t, Overlay!Compiles(p)
      PROVE  /\ LibraryBuilt(p, t) => LibraryBuilt(p, t)'
             /\ PrebuildBuilt(p, t) => PrebuildBuilt(p, t)'
  BY <1>1, <1>4 DEF LibraryBuilt, PrebuildBuilt, Overlay!BuiltFor, Undisturbed
<1>5. BuildsWell(p)'
  BY <1>1, <1>4 DEF RunWell, BuildsWell, Undisturbed, Overlay!Compiles, Overlay!MayStillBuild
<1> QED
  BY <1>2, <1>3, <1>5 DEF RunWell

LEMMA DeveloperTrue ==
  ASSUME OverlayIsTrue, UNCHANGED <<Overlay!files, starts>>,
         checkout' \in Overlay!Identity, contract' \in Overlay!Contract, edits' \in 0..MaxEdits,
         checkout'.release <= edits', checkout'.wrapper <= edits', checkout'.recipe <= edits',
         tree' \in {"clean", "exact", "other"}, BundleTrue',
         NEW S, run' = Overlay!Disturbed(S), \A p \in Runs \ S : Undisturbed(p)
  PROVE  OverlayIsTrue'
<1> USE DEF OverlayIsTrue
<1>1. \A p \in Runs : IF p \in S THEN run'[p] = Overlay!Disturb(run[p]) ELSE run'[p] = run[p]
  BY DEF Overlay!Disturbed
<1>2. run \in [Runs -> PreparerType] /\ OverlapSeen
  BY DEF OverlayTyped, RunsWell
<1>3. \A p \in Runs \cap S : Waits(p) /\ run'[p].disturbed
  BY <1>1, <1>2, DisturbIs
<1>4. StillThere /\ manifest' = manifest
  BY DEF StillThere, Overlay!files
<1>5. ASSUME NEW p \in Runs
      PROVE  RunWell(p)'
  <2>1. CASE p \in S
    BY <1>3, <1>4, <2>1, DisturbedIsWell
  <2>2. CASE p \notin S
    BY <1>1, <2>2, UndisturbedIsWell
  <2> QED
    BY <2>1, <2>2
<1>6. \A p \in Runs : /\ run'[p] \in PreparerType /\ run'[p].pc = run[p].pc
                      /\ run[p].disturbed => run'[p].disturbed
  BY <1>1, <1>2, <1>3 DEF Waits
<1>7. OverlapSeen'
  BY <1>2, <1>6 DEF OverlapSeen, Overlay!Works
<1>8. run' \in [Runs -> PreparerType]
  BY <1>6 DEF Overlay!Disturbed
<1>9. OverlayTyped'
  BY <1>8 DEF OverlayTyped, Overlay!files
<1>10. ManifestTrue'
  BY DEF ManifestTrue, AllBuiltFor, Overlay!Parsable, Overlay!BuiltFor, Overlay!files
<1> QED
  BY <1>5, <1>7, <1>9, <1>10 DEF RunsWell

(* An edit that disturbs nobody is one that disturbs the empty set.         *)
LEMMA NobodyDisturbed ==
  ASSUME OverlayTyped, run' = run
  PROVE  run' = Overlay!Disturbed({})
BY DEF OverlayTyped, Overlay!Disturbed

LEMMA DeveloperStepTrue ==
  ASSUME OverlayIsTrue,
         \/ Overlay!EditWrapper \/ Overlay!EditRecipe \/ Overlay!Regenerate \/ Overlay!Upgrade
         \/ Overlay!ChangeSource \/ Overlay!ReplaceBundle
  PROVE  OverlayIsTrue'
<1>1. /\ checkout \in Overlay!Identity /\ contract \in Overlay!Contract /\ edits \in 0..MaxEdits
      /\ checkout.release <= edits /\ checkout.wrapper <= edits /\ checkout.recipe <= edits
      /\ BundleTrue /\ OverlayTyped /\ MaxEdits \in Nat /\ tree \in {"clean", "exact", "other"}
      /\ checkout.release \in Nat /\ checkout.wrapper \in Nat /\ checkout.recipe \in Nat
  BY PackagesAreBounded
     DEF OverlayIsTrue, OverlayTyped, Overlay!Identity, Overlay!Versions, Overlay!OverlayAssumption
<1>2. Overlay!Edits => edits' \in 0..MaxEdits /\ edits' = edits + 1
  BY <1>1 DEF Overlay!Edits
<1>3. CASE Overlay!EditWrapper
  <2>1. PICK w \in Overlay!AnotherVersion(checkout.wrapper) :
          /\ checkout' = [checkout EXCEPT !.wrapper = w]
          /\ run' = Overlay!Disturbed({p \in Runs : Overlay!Compiles(p) /\ run[p].cfg.wrapper = w})
    BY <1>3 DEF Overlay!EditWrapper
  <2>2. /\ UNCHANGED <<contract, tree, bundle, Overlay!files, starts>> /\ Overlay!Edits
        /\ w \in 0..(checkout.wrapper + 1)
    BY <1>3 DEF Overlay!EditWrapper, Overlay!AnotherVersion
  <2>3. /\ checkout' \in Overlay!Identity /\ checkout'.wrapper = w
        /\ checkout'.release = checkout.release /\ checkout'.recipe = checkout.recipe
    BY <1>1, <1>2, <2>1, <2>2 DEF Overlay!Identity, Overlay!Versions
  <2>4. \A p \in Runs \ {q \in Runs : Overlay!Compiles(q) /\ run[q].cfg.wrapper = w} : Undisturbed(p)
    <3>1. ASSUME NEW p \in Runs, ~(Overlay!Compiles(p) /\ run[p].cfg.wrapper = w)
          PROVE  Undisturbed(p)
      <4>1. run'[p] = run[p]
        BY <2>1, <3>1 DEF Overlay!Disturbed
      <4> QED
        BY <2>2, <2>3, <3>1, <4>1 DEF Undisturbed, SourceLost, WrapperLost, Overlay!Source
    <3> QED
      BY <3>1
  <2>5. BundleTrue'
    BY <1>1, <2>2 DEF BundleTrue
  <2> QED
    BY <1>1, <1>2, <2>1, <2>2, <2>3, <2>4, <2>5, DeveloperTrue
<1>4. CASE Overlay!EditRecipe
  <2>1. PICK v \in Overlay!AnotherVersion(checkout.recipe) : checkout' = [checkout EXCEPT !.recipe = v]
    BY <1>4 DEF Overlay!EditRecipe
  <2>2. /\ UNCHANGED <<contract, tree, bundle, Overlay!files, starts>> /\ Overlay!Edits
        /\ run' = Overlay!Disturbed({p \in Runs : Overlay!MayStillBuild(p)})
        /\ v \in 0..(checkout.recipe + 1)
    BY <1>4, <2>1 DEF Overlay!EditRecipe, Overlay!AnotherVersion
  <2>3. /\ checkout' \in Overlay!Identity /\ checkout'.recipe = v
        /\ checkout'.release = checkout.release /\ checkout'.wrapper = checkout.wrapper
    BY <1>1, <1>2, <2>1, <2>2 DEF Overlay!Identity, Overlay!Versions
  <2>4. \A p \in Runs \ {q \in Runs : Overlay!MayStillBuild(q)} : Undisturbed(p)
    <3>1. ASSUME NEW p \in Runs, ~Overlay!MayStillBuild(p)
          PROVE  Undisturbed(p)
      <4>1. run'[p] = run[p]
        BY <2>2, <3>1 DEF Overlay!Disturbed
      <4> QED
        BY <2>2, <2>3, <3>1, <4>1 DEF Undisturbed, SourceLost, WrapperLost, Overlay!Source
    <3> QED
      BY <3>1
  <2>5. BundleTrue'
    BY <1>1, <2>2 DEF BundleTrue
  <2> QED
    BY <1>1, <1>2, <2>2, <2>3, <2>4, <2>5, DeveloperTrue
<1>5. CASE Overlay!Regenerate \/ Overlay!Upgrade
  <2>1. /\ run' = run /\ UNCHANGED <<tree, bundle, Overlay!files, starts>>
    BY <1>5 DEF Overlay!Regenerate, Overlay!Upgrade
  <2>2. /\ checkout' \in Overlay!Identity /\ contract' \in Overlay!Contract /\ edits' \in 0..MaxEdits
        /\ checkout'.release <= edits' /\ checkout'.wrapper <= edits' /\ checkout'.recipe <= edits'
        /\ checkout'.wrapper = checkout.wrapper /\ checkout'.recipe = checkout.recipe
    <3>1. CASE Overlay!Regenerate
      BY <1>1, <3>1
         DEF Overlay!Regenerate, Overlay!RuntimeIdentity, Overlay!Contract, Overlay!Identity
    <3>2. CASE Overlay!Upgrade
      <4>1. /\ checkout' = [checkout EXCEPT !.release = @ + 1] /\ Overlay!Edits
            /\ contract' = [release |-> checkout.release + 1, wrapper |-> checkout.wrapper]
        BY <3>2 DEF Overlay!Upgrade, Overlay!RuntimeIdentity
      <4>2. checkout.release + 1 \in 0..MaxEdits /\ checkout.release + 1 <= edits'
        BY <1>1, <1>2, <4>1
      <4> QED
        BY <1>1, <1>2, <4>1, <4>2 DEF Overlay!Contract, Overlay!Identity, Overlay!Versions
    <3> QED
      BY <1>5, <3>1, <3>2
  <2>3. \A p \in Runs : Undisturbed(p)
    BY <2>1, <2>2 DEF Undisturbed, SourceLost, WrapperLost, Overlay!Source
  <2>4. BundleTrue'
    BY <1>1, <2>1 DEF BundleTrue
  <2> QED
    BY <1>1, <2>1, <2>2, <2>3, <2>4, NobodyDisturbed, DeveloperTrue
<1>6. CASE Overlay!ChangeSource
  <2>1. PICK s \in {"clean", "exact", "other"} :
          /\ tree' = s
          /\ run' = Overlay!Disturbed({p \in Runs : Overlay!Compiles(p) /\ run[p].route # "clone" /\ s = "exact"})
    BY <1>6 DEF Overlay!ChangeSource
  <2>2. UNCHANGED <<checkout, contract, bundle, Overlay!files, starts>> /\ Overlay!Edits
    BY <1>6 DEF Overlay!ChangeSource
  <2>3. \A p \in Runs \ {q \in Runs : Overlay!Compiles(q) /\ run[q].route # "clone" /\ s = "exact"} :
          Undisturbed(p)
    <3>1. ASSUME NEW p \in Runs, ~(Overlay!Compiles(p) /\ run[p].route # "clone" /\ s = "exact")
          PROVE  Undisturbed(p)
      <4>1. run'[p] = run[p]
        BY <2>1, <3>1 DEF Overlay!Disturbed
      <4> QED
        BY <2>1, <2>2, <3>1, <4>1 DEF Undisturbed, SourceLost, WrapperLost, Overlay!Source
    <3> QED
      BY <3>1
  <2>4. BundleTrue'
    BY <1>1, <2>2 DEF BundleTrue
  <2>5. /\ checkout' = checkout /\ contract' = contract /\ edits' \in 0..MaxEdits /\ edits' = edits + 1
    BY <1>2, <2>2
  <2> QED
    BY <1>1, <2>1, <2>2, <2>3, <2>4, <2>5, DeveloperTrue
<1>7. CASE Overlay!ReplaceBundle
  <2>1. /\ UNCHANGED <<checkout, contract, tree, Overlay!files, starts>> /\ Overlay!Edits
        /\ run' = Overlay!Disturbed({p \in Runs : run[p].pc = "copy"})
    BY <1>7 DEF Overlay!ReplaceBundle
  <2>2. PICK c \in {checkout, [checkout EXCEPT !.release = @ + 1]} :
          bundle' = Overlay!GenuineBundle(c, TRUE)
    BY <1>7 DEF Overlay!ReplaceBundle
  <2>3. c \in Overlay!Identity
    BY <1>1, <1>2, <2>1, <2>2 DEF Overlay!Identity, Overlay!Versions
  <2>4. BundleTrue'
    BY <2>2, <2>3 DEF BundleTrue
  <2>5. \A p \in Runs \ {q \in Runs : run[q].pc = "copy"} : Undisturbed(p)
    <3>1. ASSUME NEW p \in Runs, run[p].pc # "copy"
          PROVE  Undisturbed(p)
      <4>1. run'[p] = run[p]
        BY <2>1, <3>1 DEF Overlay!Disturbed
      <4> QED
        BY <2>1, <3>1, <4>1 DEF Undisturbed, SourceLost, WrapperLost, Overlay!Source
    <3> QED
      BY <3>1
  <2>6. /\ checkout' = checkout /\ contract' = contract /\ edits' \in 0..MaxEdits /\ edits' = edits + 1
        /\ tree' = tree
    BY <1>2, <2>1
  <2> QED
    BY <1>1, <2>1, <2>4, <2>5, <2>6, DeveloperTrue
<1> QED
  BY <1>3, <1>4, <1>5, <1>6, <1>7

LEMMA OverlayStepTrue ==
  ASSUME OverlayIsTrue, [Overlay!Next]_overlayVars
  PROVE  OverlayIsTrue'
<1>1. CASE UNCHANGED overlayVars
  <2>1. /\ UNCHANGED <<Overlay!files, run, starts, checkout, contract, tree, bundle, edits>>
        /\ OverlayTyped /\ BundleTrue
    BY <1>1 DEF overlayVars, Overlay!files, OverlayIsTrue
  <2>2. \A p \in Runs : Undisturbed(p)
    BY <2>1 DEF Undisturbed, SourceLost, WrapperLost, Overlay!Source
  <2>3. BundleTrue'
    BY <2>1 DEF BundleTrue
  <2> QED
    BY <2>1, <2>2, <2>3, NobodyDisturbed, DeveloperTrue DEF OverlayTyped
<1>2. CASE \E p \in Runs :
             \/ Overlay!Start(p) \/ Overlay!TryPacked(p) \/ Overlay!TryBuilt(p) \/ Overlay!Import(p)
             \/ Overlay!CopyOne(p) \/ Overlay!CloneSource(p) \/ Overlay!PrepareSource(p)
             \/ Overlay!BeginBuild(p) \/ Overlay!BuildOne(p) \/ Overlay!Recheck(p)
             \/ Overlay!HashArtifacts(p) \/ Overlay!WriteManifest(p) \/ Overlay!TearManifest(p)
             \/ Overlay!FinalVerify(p) \/ Overlay!StepFails(p) \/ Overlay!Dies(p)
  BY <1>2, StartTrue, TryPackedTrue, TryBuiltTrue, ImportTrue, CopyOneTrue, CloneSourceTrue,
     PrepareSourceTrue, BeginBuildTrue, BuildOneTrue, RecheckTrue, HashArtifactsTrue,
     WriteManifestTrue, TearManifestTrue, FinalVerifyTrue, StepFailsTrue, DiesTrue
<1>3. CASE \/ Overlay!EditWrapper \/ Overlay!EditRecipe \/ Overlay!Regenerate \/ Overlay!Upgrade
           \/ Overlay!ChangeSource \/ Overlay!ReplaceBundle
  BY <1>3, DeveloperStepTrue
<1> QED
  BY <1>1, <1>2, <1>3 DEF Overlay!Next

LEMMA GenuineManifest ==
  ASSUME NEW c \in Overlay!Identity
  PROVE  LET genuine == Overlay!GenuineBundle(c, TRUE)
         IN  /\ genuine.bare \in [OverlayTargets -> Overlay!Prebuild]
             /\ genuine.manifest \in ManifestType
             /\ AllBuiltFor(genuine.manifest.artifacts, genuine.manifest.id, {})
<1> DEFINE l == Overlay!CompiledLibrary(c, "exact", c.recipe)
           b == Overlay!LinkedPrebuild(l, c.wrapper, c.recipe, TRUE)
           h == [lib |-> l, bare |-> b]
<1>1. l \in Overlay!Library
  BY DEF Overlay!CompiledLibrary, Overlay!Library, Overlay!Identity
<1>2. b \in Overlay!Prebuild /\ b.library = l /\ b.wrapper = c.wrapper /\ b.recipe = c.recipe
  BY <1>1 DEF Overlay!LinkedPrebuild, Overlay!Prebuild, Overlay!Identity
<1>3. Overlay!BuiltFor(b, c)
  BY <1>2, MarksApart DEF Overlay!BuiltFor
<1>4. /\ Overlay!GenuineBundle(c, TRUE).bare = [t \in OverlayTargets |-> b]
      /\ Overlay!GenuineBundle(c, TRUE).manifest = [id |-> c, artifacts |-> [t \in OverlayTargets |-> h]]
  BY DEF Overlay!GenuineBundle, Overlay!IdentityOf
<1>5. h \in Overlay!Hashes /\ h.bare = b
  BY <1>1, <1>2 DEF Overlay!Hashes
<1> HIDE DEF l, b, h
<1>6. [t \in OverlayTargets |-> h] \in SomeHashes
  BY <1>5, SomeHashesIs
<1>7. AllBuiltFor([t \in OverlayTargets |-> h], c, {})
  BY <1>3, <1>5 DEF AllBuiltFor
<1>8. [t \in OverlayTargets |-> b] \in [OverlayTargets -> Overlay!Prebuild]
  BY <1>2
<1> DEFINE m == [id |-> c, artifacts |-> [t \in OverlayTargets |-> h]]
<1>9. m \in ManifestType /\ AllBuiltFor(m.artifacts, m.id, {})
  BY <1>6, <1>7 DEF ManifestType
<1> QED
  BY <1>4, <1>8, <1>9

LEMMA OverlayInitTrue ==
  ASSUME Overlay!Init
  PROVE  OverlayIsTrue
<1>1. /\ checkout = [release |-> 0, wrapper |-> 0, recipe |-> 0] /\ edits = 0 /\ starts = 0
      /\ contract = [release |-> 0, wrapper |-> 0] /\ doubtful = {}
      /\ tree = "clean" /\ lib = [t \in OverlayTargets |-> Overlay!None]
      /\ run = [p \in Runs |-> Overlay!Idle]
  BY DEF Overlay!Init, Overlay!RuntimeIdentity
<1>2. /\ MaxEdits \in Nat /\ MaxStarts \in Nat
      /\ checkout \in Overlay!Identity /\ contract \in Overlay!Contract
  BY <1>1, PackagesAreBounded
     DEF Overlay!OverlayAssumption, Overlay!Identity, Overlay!Contract, Overlay!Versions
<1>3. /\ bare \in [OverlayTargets -> Overlay!Prebuild \cup {Overlay!None}]
      /\ manifest \in ManifestType \cup {Overlay!None, Overlay!Torn} /\ ManifestTrue
  <2>1. CASE bare = [t \in OverlayTargets |-> Overlay!None] /\ manifest = Overlay!None
    BY <2>1 DEF ManifestTrue, Overlay!Parsable
  <2>2. CASE /\ bare = Overlay!GenuineBundle(checkout, TRUE).bare
             /\ manifest = Overlay!GenuineBundle(checkout, TRUE).manifest
    BY <1>1, <1>2, <2>2, GenuineManifest DEF ManifestTrue
  <2> QED
    BY <2>1, <2>2 DEF Overlay!Init
<1>4. OverlayTyped
  BY <1>1, <1>2, <1>3, IdlePreparer DEF OverlayTyped
<1>5. BundleTrue
  BY <1>2 DEF Overlay!Init, BundleTrue
<1>6. RunsWell
  BY <1>1, IdlePreparer
     DEF RunsWell, RunWell, OverlapSeen, Overlay!Works, EndedWell, CopiesWell, BuildsWell,
         Overlay!MayStillBuild, StampsWell, Successes
<1> QED
  BY <1>3, <1>4, <1>5, <1>6 DEF OverlayIsTrue

(* ArtifactOverlay!OverlayInv, as the checks state it.                      *)
LEMMA TrueIsGenuine ==
  ASSUME OverlayIsTrue
  PROVE  Overlay!OverlayInv
<1> USE DEF OverlayIsTrue
<1>1. Overlay!Parsable(manifest) =>
        /\ manifest.id \in Overlay!Identity /\ DOMAIN manifest.artifacts \subseteq OverlayTargets
        /\ \A t \in DOMAIN manifest.artifacts : manifest.artifacts[t] \in Overlay!Hashes
  BY ParsableIs, SomeHashesIs DEF ManifestType
<1>2. Overlay!TypeOK
  BY <1>1 DEF Overlay!TypeOK, OverlayTyped, PreparerType
<1>3. Overlay!StampedIsBuiltFor
  BY DEF Overlay!StampedIsBuiltFor, ManifestTrue, AllBuiltFor
<1>4. Overlay!SuccessMeansCurrent
  BY DEF Overlay!SuccessMeansCurrent, RunsWell, RunWell, EndedWell, Successes
<1>5. Overlay!CheckoutRemoved
  BY DEF Overlay!CheckoutRemoved, RunsWell, RunWell, EndedWell
<1> QED
  BY <1>2, <1>3, <1>4, <1>5 DEF Overlay!OverlayInv

(* Only WriteManifest replaces a manifest by one that parses, and what it   *)
(* writes lists all that a manifest of the same identity listed.            *)
LEMMA ManifestGrows ==
  ASSUME OneRunAtATime, OverlayIsTrue, [Overlay!Next]_overlayVars,
         Overlay!Parsable(manifest), Overlay!Parsable(manifest'), manifest.id = manifest'.id
  PROVE  DOMAIN manifest.artifacts \subseteq DOMAIN manifest'.artifacts
<1>1. CASE \E p \in Runs : Overlay!WriteManifest(p)
  <2>1. PICK p \in Runs : Overlay!WriteManifest(p)
    BY <1>1
  <2>2. manifest' = [id |-> run[p].cfg, artifacts |-> run[p].draft] /\ run[p].pc = "write"
    BY <2>1 DEF Overlay!WriteManifest, Overlay!IdentityOf
  <2>3. Overlay!ManifestMatches(manifest, run[p].cfg)
    BY <2>2 DEF Overlay!ManifestMatches, Overlay!IdentityOf
  <2> QED
    BY <2>2, <2>3 DEF OverlayIsTrue, RunsWell, RunWell, StampsWell
<1>2. CASE \E p \in Runs : Overlay!TearManifest(p)
  BY <1>2 DEF Overlay!TearManifest, Overlay!Parsable
<1>3. CASE manifest' = manifest
  BY <1>3
<1> QED
  BY <1>1, <1>2, <1>3
     DEF Overlay!Next, overlayVars, Overlay!developer, Overlay!files, Overlay!Start, Overlay!TryPacked,
         Overlay!TryBuilt, Overlay!Import, Overlay!CopyOne, Overlay!CloneSource, Overlay!PrepareSource,
         Overlay!BeginBuild, Overlay!BuildOne, Overlay!Recheck, Overlay!HashArtifacts,
         Overlay!FinalVerify, Overlay!StepFails, Overlay!Dies, Overlay!EditWrapper, Overlay!EditRecipe,
         Overlay!Regenerate, Overlay!Upgrade, Overlay!ChangeSource, Overlay!ReplaceBundle

Unsuccessful == {"none", "failed", "crashed"}

LEMMA TornIsKept ==
  ASSUME OneRunAtATime, OverlayIsTrue, [Overlay!Next]_overlayVars, manifest = Overlay!Torn
  PROVE  /\ manifest' = Overlay!Torn
         /\ \A p \in Runs : run'[p] # run[p] => run'[p].result \in Unsuccessful
<1> USE DEF OverlayIsTrue
<1>1. ~Overlay!Parsable(manifest)
  BY DEF Overlay!Parsable
<1>2. \A p \in Runs : run[p].pc # "ended" => run[p].result = "none"
  BY DEF RunsWell, RunWell, EndedWell
<1>3. OverlayTyped
  OBVIOUS
<1>4. ASSUME NEW p \in Runs, Overlay!Start(p)
      PROVE  manifest' = Overlay!Torn /\ run'[p].result \in Unsuccessful
  <2>1. PICK req \in SUBSET OverlayTargets, via \in Routes :
          run' = [Overlay!Disturbed(Runs) EXCEPT ![p] = Overlay!Fresh(p, req, via)]
    BY <1>4 DEF Overlay!Start
  <2>2. run'[p] = Overlay!Fresh(p, req, via)
    BY <2>1 DEF Overlay!Disturbed
  <2>3. run'[p].result \in {"none", "failed"}
    BY <1>3, <2>2, FreshIs
  <2> QED
    BY <1>4, <2>3 DEF Overlay!Start, Overlay!files, Unsuccessful
<1>5. ASSUME NEW p \in Runs, NEW next \in Pcs, Overlay!Goto(p, next), run[p].pc # "ended"
      PROVE  run'[p].result \in Unsuccessful
  BY <1>2, <1>3, <1>5, GotoMeans DEF Moved, Unsuccessful
<1>6. ASSUME NEW p \in Runs, Overlay!Ends(p, "failed") \/ Overlay!Crashes(p)
      PROVE  run'[p].result \in Unsuccessful
  BY <1>3, <1>6, EndsMeans, CrashesMeans DEF Finished, Unsuccessful
<1>7. ASSUME NEW p \in Runs, NEW next \in Pcs, Overlay!Loop(p, next), run[p].pc # "ended"
      PROVE  run'[p].result \in Unsuccessful
  BY <1>2, <1>3, <1>7, LoopMeans DEF Moved, Unsuccessful
<1>8. ASSUME NEW p \in Runs, NEW t, Overlay!LibraryDone(p, t), run[p].pc # "ended"
      PROVE  run'[p].result \in Unsuccessful
  BY <1>2, <1>3, <1>8, LibraryDoneMeans DEF Moved, Unsuccessful
<1>9. ASSUME NEW p \in Runs, NEW t, NEW next \in Pcs, Overlay!PrebuildDone(p, t, next),
             run[p].pc # "ended"
      PROVE  run'[p].result \in Unsuccessful
  BY <1>2, <1>3, <1>9, PrebuildDoneMeans DEF Moved, Unsuccessful
<1>10. ASSUME NEW p \in Runs, Overlay!TryPacked(p)
       PROVE  manifest' = Overlay!Torn /\ run'[p].result \in Unsuccessful
  <2>1. ~Overlay!VerifyPacked(Overlay!Package, run[p].cfg, run[p].req)
    BY <1>1 DEF Overlay!VerifyPacked, Overlay!Package, Overlay!ManifestMatches
  <2> QED
    BY <1>5, <1>10, <2>1 DEF Overlay!TryPacked, Overlay!files, Pcs
<1>11. ~Overlay!ManifestMatches(manifest, checkout)
  BY <1>1 DEF Overlay!ManifestMatches
<1>12. ASSUME NEW p \in Runs
       PROVE  ~Overlay!VerifyArtifacts(Overlay!Package, run[p].cfg, run[p].req)
  BY <1>1
     DEF Overlay!VerifyArtifacts, Overlay!VerifyManifest, Overlay!Package,
         Overlay!ManifestMatches
<1>13. ASSUME NEW p \in Runs, Overlay!TryBuilt(p)
       PROVE  manifest' = Overlay!Torn /\ run'[p].result \in Unsuccessful
  <2>1. run[p].route \in Pcs
    BY PackagesAreBounded DEF OverlayTyped, PreparerType, Overlay!OverlayAssumption, Pcs
  <2> QED
    BY <1>5, <1>12, <1>13, <2>1 DEF Overlay!TryBuilt, Overlay!files
<1>14. ASSUME NEW p \in Runs, Overlay!Import(p) \/ Overlay!BeginBuild(p)
       PROVE  manifest' = Overlay!Torn /\ run'[p].result \in Unsuccessful
  BY <1>6, <1>7, <1>14 DEF Overlay!Import, Overlay!BeginBuild, Overlay!files, Pcs
<1>15. ASSUME NEW p \in Runs, Overlay!CopyOne(p) \/ Overlay!BuildOne(p)
       PROVE  manifest' = Overlay!Torn /\ run'[p].result \in Unsuccessful
  <2>1. run[p].pc # "ended" /\ manifest' = manifest
    BY <1>15 DEF Overlay!CopyOne, Overlay!BuildOne
  <2>2. \E t : Overlay!LibraryDone(p, t) \/ Overlay!PrebuildDone(p, t, "hash")
               \/ Overlay!PrebuildDone(p, t, "recheck")
    BY <1>15 DEF Overlay!CopyOne, Overlay!BuildOne
  <2>3. "hash" \in Pcs /\ "recheck" \in Pcs
    BY DEF Pcs
  <2> QED
    BY <1>8, <1>9, <2>1, <2>2, <2>3
<1>16. ASSUME NEW p \in Runs, Overlay!CloneSource(p)
       PROVE  manifest' = Overlay!Torn /\ run'[p].result \in Unsuccessful
  <2>1. PICK r \in PreparerType : r = run[p]
    BY DEF OverlayTyped
  <2>2. run' = [run EXCEPT ![p] = [r EXCEPT !.pc = "fetched", !.clone = TRUE]]
    BY <1>16, <2>1 DEF Overlay!CloneSource, Overlay!Goes
  <2>3. [r EXCEPT !.pc = "fetched", !.clone = TRUE].result = r.result
    BY DEF PreparerType
  <2>4. r.result = "none"
    BY <1>2, <1>16, <2>1 DEF Overlay!CloneSource
  <2> QED
    BY <1>16, <2>2, <2>3, <2>4
       DEF Overlay!CloneSource, Overlay!files, OverlayTyped, Unsuccessful
<1>17. ASSUME NEW p \in Runs, Overlay!PrepareSource(p) \/ Overlay!Recheck(p)
       PROVE  manifest' = Overlay!Torn /\ run'[p].result \in Unsuccessful
  BY <1>5, <1>6, <1>17 DEF Overlay!PrepareSource, Overlay!Recheck, Overlay!files, Pcs
<1>18. ASSUME NEW p \in Runs, Overlay!HashArtifacts(p)
       PROVE  manifest' = Overlay!Torn /\ run'[p].result \in Unsuccessful
  BY <1>6, <1>18 DEF Overlay!HashArtifacts, Overlay!files
<1>19. ASSUME NEW p \in Runs PROVE ~Overlay!WriteManifest(p)
  BY DEF Overlay!WriteManifest, RunsWell, RunWell, StampsWell
<1>20. ASSUME NEW p \in Runs, Overlay!TearManifest(p) \/ Overlay!StepFails(p) \/ Overlay!Dies(p)
       PROVE  manifest' = Overlay!Torn /\ run'[p].result \in Unsuccessful
  BY <1>6, <1>20 DEF Overlay!TearManifest, Overlay!StepFails, Overlay!Dies, Overlay!files
<1>21. ASSUME NEW p \in Runs, Overlay!FinalVerify(p)
       PROVE  manifest' = Overlay!Torn /\ run'[p].result \in Unsuccessful
  BY <1>6, <1>12, <1>21 DEF Overlay!FinalVerify, Overlay!files
<1>22. CASE \E p \in Runs :
             \/ Overlay!Start(p) \/ Overlay!TryPacked(p) \/ Overlay!TryBuilt(p) \/ Overlay!Import(p)
             \/ Overlay!CopyOne(p) \/ Overlay!CloneSource(p) \/ Overlay!PrepareSource(p)
             \/ Overlay!BeginBuild(p) \/ Overlay!BuildOne(p) \/ Overlay!Recheck(p)
             \/ Overlay!HashArtifacts(p) \/ Overlay!WriteManifest(p) \/ Overlay!TearManifest(p)
             \/ Overlay!FinalVerify(p) \/ Overlay!StepFails(p) \/ Overlay!Dies(p)
  <2>1. PICK p \in Runs : manifest' = Overlay!Torn /\ run'[p].result \in Unsuccessful
    BY <1>22, <1>4, <1>10, <1>13, <1>14, <1>15, <1>16, <1>17, <1>18, <1>19, <1>20, <1>21
  <2> QED
    BY <2>1 DEF OneRunAtATime
<1>23. CASE UNCHANGED overlayVars
  BY <1>23 DEF overlayVars
<1>24. CASE \/ Overlay!EditWrapper \/ Overlay!EditRecipe \/ Overlay!Regenerate \/ Overlay!Upgrade
            \/ Overlay!ChangeSource \/ Overlay!ReplaceBundle
  <2>1. /\ manifest' = manifest
        /\ \E S : run' = Overlay!Disturbed(S) /\ \A p \in S \cap Runs : run[p].pc # "ended"
    <3>1. CASE Overlay!EditWrapper
      <4>1. PICK S \in SUBSET {p \in Runs : Overlay!Compiles(p)} : run' = Overlay!Disturbed(S)
        BY <3>1 DEF Overlay!EditWrapper
      <4> QED
        BY <1>3, <3>1, <4>1 DEF Overlay!EditWrapper, Overlay!Compiles, Overlay!files
    <3>2. CASE Overlay!ChangeSource
      <4>1. PICK S \in SUBSET {p \in Runs : Overlay!Compiles(p)} : run' = Overlay!Disturbed(S)
        BY <3>2 DEF Overlay!ChangeSource
      <4> QED
        BY <1>3, <3>2, <4>1 DEF Overlay!ChangeSource, Overlay!Compiles, Overlay!files
    <3>3. CASE Overlay!EditRecipe
      <4>1. \A p \in {r \in Runs : Overlay!MayStillBuild(r)} : run[p].pc # "ended"
        BY DEF Overlay!MayStillBuild
      <4> QED
        BY <1>3, <3>3, <4>1 DEF Overlay!EditRecipe, Overlay!files
    <3>4. CASE Overlay!ReplaceBundle
      <4>1. \A p \in {r \in Runs : run[r].pc = "copy"} : run[p].pc # "ended"
        OBVIOUS
      <4> QED
        BY <1>3, <3>4, <4>1 DEF Overlay!ReplaceBundle, Overlay!files
    <3>5. CASE Overlay!Regenerate \/ Overlay!Upgrade
      <4>1. run' = Overlay!Disturbed({})
        BY <1>3, <3>5, NobodyDisturbed DEF Overlay!Regenerate, Overlay!Upgrade
      <4> QED
        BY <1>3, <3>5, <4>1 DEF Overlay!Regenerate, Overlay!Upgrade, Overlay!files
    <3> QED
      BY <1>24, <3>1, <3>2, <3>3, <3>4, <3>5
  <2>2. ASSUME NEW p \in Runs, run'[p] # run[p]
        PROVE  run'[p].result \in Unsuccessful
    <3>1. run[p].pc # "ended" /\ run'[p] = Overlay!Disturb(run[p])
      BY <1>3, <2>1, <2>2 DEF OverlayTyped, Overlay!Disturbed
    <3>2. run'[p].result = run[p].result
      BY <1>3, <3>1, DisturbIs DEF OverlayTyped, Waits
    <3> QED
      BY <1>2, <3>1, <3>2 DEF Unsuccessful
  <2> QED
    BY <2>1, <2>2
<1> QED
  BY <1>22, <1>23, <1>24 DEF Overlay!Next

LEMMA OverlayAlwaysTrue == Overlay!Spec => []OverlayIsTrue
<1>1. Overlay!Init => OverlayIsTrue
  BY OverlayInitTrue
<1>2. OverlayIsTrue /\ [Overlay!Next]_overlayVars => OverlayIsTrue'
  BY OverlayStepTrue
<1> QED
  BY <1>1, <1>2, PTL DEF Overlay!Spec, Overlay!vars, overlayVars

(* However runs, builds, edits, failures and deaths interleave, what        *)
(* vouches for an artifact of the overlay tells the truth about it, unless  *)
(* a disturbed run stamped it (ensureOverlayArtifacts, buildArtifacts and   *)
(* writeArtifactManifest of native-overlay.js).                             *)
THEOREM OverlayHolds == Overlay!Spec => []Overlay!OverlayInv
<1>1. OverlayIsTrue => Overlay!OverlayInv
  BY TrueIsGenuine
<1> QED
  BY <1>1, OverlayAlwaysTrue, PTL

(* A manifest keeps every entry that is still of its identity, and a torn   *)
(* one is never trusted nor replaced (writeManifest of native-overlay.js),  *)
(* also when an imported directory is replaced while it is copied.          *)
THEOREM ManifestHolds ==
  ASSUME OneRunAtATime
  PROVE  Overlay!Spec => ManifestIsKept
<1>1. OverlayIsTrue /\ [Overlay!Next]_overlayVars =>
        [Overlay!Parsable(manifest) /\ Overlay!Parsable(manifest') /\ manifest.id = manifest'.id =>
           DOMAIN manifest.artifacts \subseteq DOMAIN manifest'.artifacts]_overlayVars
  BY ManifestGrows
<1>2. OverlayIsTrue /\ [Overlay!Next]_overlayVars =>
        [manifest = Overlay!Torn =>
           /\ manifest' = Overlay!Torn
           /\ \A p \in Runs : run'[p] # run[p] => run'[p].result \in {"none", "failed", "crashed"}]_overlayVars
  BY TornIsKept DEF Unsuccessful
<1> QED
  BY <1>1, <1>2, OverlayAlwaysTrue, PTL
     DEF ManifestIsKept, Overlay!ManifestIsKept, Overlay!HashesNotLost, Overlay!TornManifestStays,
         Overlay!Spec, Overlay!vars, overlayVars

-----------------------------------------------------------------------------
(* The distribution (NativeDistribution)                                    *)

Shipped == Distribution!Targets
Builds == 1..(MaxChanges + 1)
SliceMap == [Shipped -> Distribution!Builds]
ManifestKind == [release : Nat, hash : [Shipped -> Builds]]
PackageKind == [release : Nat, manifest : ManifestKind \cup {Distribution!None}, contract : Nat, slices : SliceMap]
RootKind == [release : Nat, manifest : ManifestKind, contract : Nat, slices : SliceMap]

Hydrating == {"admit", "wrapper", "copy", "compare", "install", "whole"}
Publishing == {"publish", "manifest", "contract", "validate"}
InCheckout == Publishing \cup {"root", "check", "fill"}
CommandKind ==
  [kind : Distribution!Kinds \cup {"none"},
   pc : Hydrating \cup InCheckout \cup Distribution!Done \cup {"idle"},
   release : Nat, payloads : SUBSET Payloads, at : Payloads, todo : SUBSET Shipped,
   manifest : ManifestKind \cup {Distribution!None}, slices : SliceMap]

(* The number of a build or of a release is bounded by the changes made.    *)
DistributionTyped ==
  /\ root \in RootKind /\ packages \in [Payloads -> PackageKind] /\ commands \in [Procs -> CommandKind]
  /\ place \in {"installed", "checkout"} /\ changes \in 0..MaxChanges /\ stops \in 0..MaxStops
  /\ named \in [Shipped -> SUBSET (1..(changes + 1))]
  /\ root.release \in 1..(changes + 1)
  /\ \A d \in Payloads : /\ packages[d].release \in 1..(changes + 1)
                         /\ \A t \in Shipped \ TargetsOf[d] : packages[d].slices[t] = Distribution!Missing

(* The wrapper's manifest and contract are of its release, every build its  *)
(* manifest names was named before, and nothing else is in its slices.      *)
RootTrue ==
  /\ root.manifest.release = root.release /\ root.contract = root.release
  /\ \A t \in Shipped : root.manifest.hash[t] \in named[t] /\ 1 \in named[t]
  /\ Distribution!OnlyNamedSlices

Valid(d) == Distribution!PayloadValid(packages[d], d, root.release)
Genuine(slices, T) == \A t \in T : slices[t] = root.manifest.hash[t]

(* What a command relies on: the wrapper it started from, the slices it has *)
(* compared, and the checks behind it.                                      *)
CommandTrue(r) ==
  /\ r.pc \in Hydrating \cup InCheckout => r.release = root.release
  /\ r.pc \in InCheckout => place = "checkout"
  /\ r.pc \in {"copy", "compare", "install", "whole"} \cup Publishing => r.manifest = root.manifest
  /\ r.pc = "install" => /\ r.todo \subseteq Distribution!PayloadTargets
                         /\ Genuine(r.slices, Distribution!PayloadTargets)
  /\ r.pc = "root" => r.payloads = Distribution!Selected(r.kind)
  /\ r.pc = "check" => Distribution!RootWhole /\ \A d \in Payloads \ r.payloads : Valid(d)
  /\ r.pc = "fill" =>
       \A d \in Distribution!Selected(r.kind) \ r.payloads : Genuine(r.slices, TargetsOf[d])
  /\ r.pc \in Publishing =>
       /\ r.at \in Distribution!Selected(r.kind) /\ r.payloads \subseteq Distribution!Selected(r.kind)
       /\ r.todo \subseteq TargetsOf[r.at]
       /\ \A d \in Distribution!Selected(r.kind) : Genuine(r.slices, TargetsOf[d])

CommandsTrue == \A p \in Procs : CommandTrue(commands[p])

DistributionIsTrue == DistributionTyped /\ RootTrue /\ CommandsTrue

LEMMA ShippedTargets ==
  /\ MaxChanges \in Nat /\ MaxStops \in Nat /\ IosPayload \in Payloads
  /\ \A d \in Payloads : TargetsOf[d] \subseteq Distribution!PayloadTargets
  /\ Distribution!PayloadTargets \subseteq Shipped /\ WrapperTargets \subseteq Shipped
  /\ \A kind : Distribution!Selected(kind) \subseteq Payloads
BY PackagesAreBounded
   DEF Distribution!DistributionAssumption, Distribution!PayloadTargets, Distribution!Targets,
       Distribution!Selected, Shipped

(* A manifest is a record; no manifest is the absence of one.               *)
LEMMA NoManifestKind == Distribution!None \notin ManifestKind
<1>1. DOMAIN Distribution!None = {"missing"}
  BY DEF Distribution!None
<1>2. ASSUME NEW m \in ManifestKind PROVE DOMAIN m = {"release", "hash"}
  BY DEF ManifestKind
<1> QED
  BY <1>1, <1>2

LEMMA RootFields ==
  ASSUME DistributionIsTrue
  PROVE  /\ root.manifest \in ManifestKind /\ root.slices \in SliceMap
         /\ root.manifest.release = root.release /\ root.contract = root.release
         /\ root.release \in 1..(changes + 1)
         /\ \A t \in Shipped : root.manifest.hash[t] \in Builds /\ root.manifest.hash[t] # Distribution!Missing
         /\ root.manifest # Distribution!None
BY NoManifestKind
   DEF DistributionIsTrue, DistributionTyped, RootTrue, RootKind, ManifestKind, Builds, Distribution!Missing

(* Slices that verify against the wrapper's manifest are those it names.    *)
LEMMA PackedIs ==
  ASSUME DistributionIsTrue, NEW T \in SUBSET Shipped, NEW dir, dir.manifest = root.manifest
  PROVE  Distribution!Packed(dir, root.release, T) <=> Genuine(dir.slices, T)
BY RootFields DEF Distribution!Packed, Genuine

LEMMA WholeIs ==
  ASSUME DistributionIsTrue
  PROVE  Distribution!RootWhole <=> Genuine(root.slices, Shipped)
BY PackedIs DEF Distribution!RootWhole, Shipped

LEMMA ValidIs ==
  ASSUME DistributionIsTrue, NEW d \in Payloads, NEW dir
  PROVE  Distribution!PayloadValid(dir, d, root.release) <=>
           /\ dir.release = root.release /\ dir.manifest = root.manifest /\ dir.contract = root.contract
           /\ Genuine(dir.slices, TargetsOf[d])
BY PackedIs, ShippedTargets DEF Distribution!PayloadValid, Distribution!MetadataMatches

LEMMA FirstSlices ==
  /\ Distribution!AllBuild1 \in [Shipped -> Builds] /\ \A t \in Shipped : Distribution!AllBuild1[t] = 1
  /\ Distribution!Restricted(Distribution!AllBuild1, {}) \in SliceMap
BY ShippedTargets
   DEF Distribution!AllBuild1, Distribution!Restricted, Distribution!Builds, Distribution!Missing,
       Builds, SliceMap, Shipped

LEMMA IdleCommand ==
  /\ Distribution!Idle \in CommandKind
  /\ Distribution!Idle.pc = "idle"
BY FirstSlices, ShippedTargets DEF Distribution!Idle, CommandKind

LEMMA CommandGoes ==
  ASSUME DistributionTyped, NEW p \in Procs, NEW r \in CommandKind, Distribution!Goes(p, r)
  PROVE  /\ commands' \in [Procs -> CommandKind] /\ commands'[p] = r
         /\ \A q \in Procs \ {p} : commands'[q] = commands[q]
BY DEF DistributionTyped, Distribution!Goes

(* A command whose wrapper and whose checked packages stay right.           *)
LEMMA StandsTrue ==
  ASSUME NEW r, CommandTrue(r), root'.manifest = root.manifest,
         root'.release = root.release, place' = place,
         Distribution!RootWhole => Distribution!RootWhole',
         \A d \in Payloads : Valid(d) => Valid(d)'
  PROVE  CommandTrue(r)'
BY DEF CommandTrue, Genuine

LEMMA RestsTrue ==
  ASSUME NEW r, r.pc \in Distribution!Done \cup {"idle"}
  PROVE  CommandTrue(r) /\ CommandTrue(r)'
BY DEF CommandTrue, Distribution!Done, Hydrating, InCheckout, Publishing

(* What a step of p does to the others' commands: nothing.                  *)
LEMMA CommandsStand ==
  ASSUME DistributionIsTrue, NEW p \in Procs, NEW s \in CommandKind, Distribution!Goes(p, s), CommandTrue(s)',
         root'.manifest = root.manifest, root'.release = root.release, place' = place,
         Distribution!RootWhole => Distribution!RootWhole',
         \A d \in Payloads : Valid(d) => Valid(d)'
  PROVE  CommandsTrue'
<1>1. DistributionTyped
  BY DEF DistributionIsTrue
<1>2. ASSUME NEW q \in Procs PROVE CommandTrue(commands[q])'
  <2>1. CASE q = p
    <3>1. commands'[q] = s
      BY <1>1, <2>1, CommandGoes
    <3> QED
      BY <3>1 DEF CommandTrue
  <2>2. CASE q # p
    <3>1. PICK r \in CommandKind : r = commands[q]
      BY <1>1 DEF DistributionTyped
    <3>2. commands'[q] = r
      BY <1>1, <2>2, <3>1, CommandGoes
    <3>3. CommandTrue(r)
      BY <3>1 DEF DistributionIsTrue, CommandsTrue
    <3>4. CommandTrue(r)'
      BY <3>3, StandsTrue
    <3> QED
      BY <3>2, <3>4 DEF CommandTrue
  <2> QED
    BY <2>1, <2>2
<1> QED
  BY <1>2 DEF CommandsTrue

(* A step that changes its own command only.                                *)
LEMMA QuietTrue ==
  ASSUME DistributionIsTrue, NEW p \in Procs, NEW r \in CommandKind, Distribution!Goes(p, r), CommandTrue(r),
         UNCHANGED <<place, root, packages, changes, named>>, stops' \in 0..MaxStops
  PROVE  DistributionIsTrue'
<1>1. DistributionTyped'
  BY CommandGoes DEF DistributionIsTrue, DistributionTyped
<1>2. RootTrue'
  BY DEF DistributionIsTrue, RootTrue, Distribution!OnlyNamedSlices
<1>3. (Distribution!RootWhole => Distribution!RootWhole') /\ \A d \in Payloads : Valid(d) => Valid(d)'
  BY DEF Distribution!RootWhole, Distribution!Packed, Valid, Distribution!PayloadValid,
         Distribution!MetadataMatches
<1>4. CommandTrue(r)'
  BY <1>3, StandsTrue
<1> QED
  BY <1>1, <1>2, <1>3, <1>4, CommandsStand DEF DistributionIsTrue

LEMMA EndedCommand ==
  ASSUME DistributionIsTrue, NEW p \in Procs, NEW result \in Distribution!Done
  PROVE  LET r == [Distribution!Idle EXCEPT !.kind = commands[p].kind, !.pc = result]
         IN  r \in CommandKind /\ r.pc = result /\ CommandTrue(r)
<1>1. PICK i \in CommandKind : i = Distribution!Idle
  BY IdleCommand
<1>2. PICK kind \in Distribution!Kinds \cup {"none"} : kind = commands[p].kind
  BY DEF DistributionIsTrue, DistributionTyped, CommandKind
<1> DEFINE s == [i EXCEPT !.kind = kind, !.pc = result]
<1>3. s \in CommandKind /\ s.pc = result
  BY DEF CommandKind, Distribution!Done
<1>4. s = [Distribution!Idle EXCEPT !.kind = commands[p].kind, !.pc = result]
  BY <1>1, <1>2
<1> HIDE DEF s
<1>5. CommandTrue(s)
  BY <1>3, RestsTrue
<1> QED
  BY <1>3, <1>4, <1>5

LEMMA EndsTrue ==
  ASSUME DistributionIsTrue, NEW p \in Procs, NEW result \in Distribution!Done, Distribution!Ends(p, result),
         UNCHANGED <<place, root, packages, changes, named>>, stops' \in 0..MaxStops
  PROVE  DistributionIsTrue'
<1>1. PICK r \in CommandKind : /\ r = [Distribution!Idle EXCEPT !.kind = commands[p].kind, !.pc = result]
                               /\ CommandTrue(r)
  BY EndedCommand
<1> QED
  BY <1>1, QuietTrue DEF Distribution!Ends

CommandPcs == Hydrating \cup InCheckout \cup Distribution!Done \cup {"idle"}

(* A command that differs from another in where it stands.                  *)
Like(r, c, pc, payloads, todo) ==
  /\ r \in CommandKind /\ r.pc = pc /\ r.payloads = payloads /\ r.todo = todo
  /\ r.kind = c.kind /\ r.release = c.release /\ r.at = c.at /\ r.manifest = c.manifest
  /\ r.slices = c.slices

LEMMA CommandIs ==
  ASSUME DistributionIsTrue, NEW p \in Procs
  PROVE  commands[p] \in CommandKind /\ CommandTrue(commands[p])
BY DEF DistributionIsTrue, DistributionTyped, CommandsTrue

LEMMA GotoIs ==
  ASSUME DistributionIsTrue, NEW p \in Procs, NEW next \in CommandPcs, Distribution!Goto(p, next)
  PROVE  \E r : /\ Like(r, commands[p], next, commands[p].payloads, commands[p].todo)
                /\ Distribution!Goes(p, r)
<1>1. PICK c \in CommandKind : c = commands[p]
  BY CommandIs
<1> DEFINE r == [c EXCEPT !.pc = next]
<1>2. Like(r, c, next, c.payloads, c.todo)
  BY DEF CommandKind, CommandPcs, Like
<1>3. Distribution!Goes(p, r)
  BY <1>1 DEF Distribution!Goto
<1> HIDE DEF r
<1> QED
  BY <1>1, <1>2, <1>3

LEMMA PayloadDoneIs ==
  ASSUME DistributionIsTrue, NEW p \in Procs, NEW next \in CommandPcs, NEW d,
         Distribution!PayloadDone(p, d, next)
  PROVE  \E r : /\ Like(r, commands[p], IF commands[p].payloads = {d} THEN next ELSE commands[p].pc,
                        commands[p].payloads \ {d}, commands[p].todo)
                /\ Distribution!Goes(p, r)
<1>1. PICK c \in CommandKind : c = commands[p]
  BY CommandIs
<1> DEFINE r == [c EXCEPT !.payloads = @ \ {d}, !.pc = IF c.payloads = {d} THEN next ELSE @]
<1>2. Like(r, c, IF c.payloads = {d} THEN next ELSE c.pc, c.payloads \ {d}, c.todo)
  BY DEF CommandKind, CommandPcs, Like
<1>3. Distribution!Goes(p, r)
  BY <1>1 DEF Distribution!PayloadDone
<1> HIDE DEF r
<1> QED
  BY <1>1, <1>2, <1>3

LEMMA TargetDoneIs ==
  ASSUME DistributionIsTrue, NEW p \in Procs, NEW next \in CommandPcs, NEW t, NEW s \in CommandKind,
         Distribution!TargetDone(p, s, t, next)
  PROVE  \E r : /\ Like(r, s, IF commands[p].todo = {t} THEN next ELSE s.pc, s.payloads, s.todo \ {t})
                /\ Distribution!Goes(p, r)
<1>1. PICK c \in CommandKind : c = commands[p]
  BY CommandIs
<1> DEFINE r == [s EXCEPT !.todo = @ \ {t}, !.pc = IF c.todo = {t} THEN next ELSE @]
<1>2. Like(r, s, IF c.todo = {t} THEN next ELSE s.pc, s.payloads, s.todo \ {t})
  <2>1. (IF c.todo = {t} THEN next ELSE s.pc) \in CommandPcs /\ s.todo \ {t} \subseteq Shipped
    BY DEF CommandKind, CommandPcs
  <2>2. \A pc \in CommandPcs, todo \in SUBSET Shipped :
          [s EXCEPT !.todo = todo, !.pc = pc] \in CommandKind
    BY DEF CommandKind, CommandPcs
  <2>3. /\ r.pc = (IF c.todo = {t} THEN next ELSE s.pc) /\ r.todo = s.todo \ {t}
        /\ r.payloads = s.payloads /\ r.kind = s.kind /\ r.release = s.release /\ r.at = s.at
        /\ r.manifest = s.manifest /\ r.slices = s.slices
    BY DEF CommandKind
  <2>4. r \in CommandKind
    BY <2>1, <2>2
  <2> HIDE DEF r
  <2> QED
    BY <2>3, <2>4 DEF Like
<1>3. Distribution!Goes(p, r)
  BY <1>1 DEF Distribution!TargetDone
<1> HIDE DEF r
<1> QED
  BY <1>1, <1>2, <1>3

StillShipped == <<place, root, packages, changes, named>>

LEMMA BeginTrue ==
  ASSUME DistributionIsTrue, NEW p \in Procs, NEW kind \in Distribution!Kinds, Distribution!Begin(p, kind)
  PROVE  DistributionIsTrue'
<1>1. UNCHANGED <<StillShipped, stops>> /\ stops \in 0..MaxStops /\ (place = "installed" => kind = "hydrate")
  BY DEF Distribution!Begin, StillShipped, DistributionIsTrue, DistributionTyped
<1>2. PICK i \in CommandKind : i = Distribution!Idle
  BY IdleCommand
<1>3. PICK release \in Nat : release = root.release
  BY RootFields
<1>4. Distribution!Selected(kind) \in SUBSET Payloads
  BY ShippedTargets
<1> DEFINE r == [i EXCEPT !.kind = kind, !.release = release, !.payloads = Distribution!Selected(kind),
                          !.pc = IF kind = "hydrate" THEN "admit" ELSE "root"]
<1>5. /\ r \in CommandKind /\ r.pc = (IF kind = "hydrate" THEN "admit" ELSE "root")
      /\ r.release = release /\ r.kind = kind /\ r.payloads = Distribution!Selected(kind)
  BY <1>4 DEF CommandKind, Hydrating, InCheckout
<1>6. Distribution!Goes(p, r)
  BY <1>2, <1>3 DEF Distribution!Begin
<1> HIDE DEF r
<1>7. place = "installed" \/ place = "checkout"
  BY DEF DistributionIsTrue, DistributionTyped
<1>8. CommandTrue(r)
  BY <1>1, <1>3, <1>5, <1>7 DEF CommandTrue, Hydrating, InCheckout, Publishing
<1> QED
  BY <1>1, <1>5, <1>6, <1>8, QuietTrue DEF StillShipped

LEMMA CheckFailsTrue ==
  ASSUME DistributionIsTrue, NEW p \in Procs, Distribution!Ends(p, "failed"), UNCHANGED StillShipped,
         stops' \in 0..MaxStops
  PROVE  DistributionIsTrue'
BY EndsTrue DEF Distribution!Done, StillShipped

LEMMA CheckRootTrue ==
  ASSUME DistributionIsTrue, NEW p \in Procs, Distribution!CheckRoot(p)
  PROVE  DistributionIsTrue'
<1>1. /\ UNCHANGED <<StillShipped, stops>> /\ stops \in 0..MaxStops /\ commands[p].pc = "root"
      /\ CommandTrue(commands[p])
  BY CommandIs DEF Distribution!CheckRoot, StillShipped, DistributionIsTrue, DistributionTyped
<1>2. CASE Distribution!Ends(p, "failed")
  BY <1>1, <1>2, CheckFailsTrue DEF StillShipped
<1>3. CASE ~Distribution!Ends(p, "failed")
  <2>1. PICK next \in {"check", "fill"} :
          /\ Distribution!Goto(p, next) /\ (next = "check" => commands[p].kind = "verify")
          /\ Distribution!Packed(root, commands[p].release, Distribution!Targets)
    BY <1>3 DEF Distribution!CheckRoot, Distribution!Checked
  <2>2. PICK r : Like(r, commands[p], next, commands[p].payloads, commands[p].todo) /\ Distribution!Goes(p, r)
    BY <2>1, GotoIs DEF CommandPcs, InCheckout
  <2>3. next = "check" => commands[p].payloads = Payloads
    BY <1>1, <2>1 DEF CommandTrue, Distribution!Selected
  <2>4. Distribution!RootWhole
    BY <1>1, <2>1 DEF CommandTrue, InCheckout, Distribution!RootWhole
  <2>5. CommandTrue(r)
    BY <1>1, <2>2, <2>3, <2>4 DEF CommandTrue, Like, Hydrating, InCheckout, Publishing
  <2> QED
    BY <1>1, <2>2, <2>5, QuietTrue DEF StillShipped, Like
<1> QED
  BY <1>2, <1>3

LEMMA CheckPayloadTrue ==
  ASSUME DistributionIsTrue, NEW p \in Procs, Distribution!CheckPayload(p)
  PROVE  DistributionIsTrue'
<1>1. /\ UNCHANGED <<StillShipped, stops>> /\ stops \in 0..MaxStops /\ commands[p].pc = "check"
      /\ CommandTrue(commands[p])
  BY CommandIs
     DEF Distribution!CheckPayload, StillShipped, DistributionIsTrue, DistributionTyped
<1>2. CASE \E result \in Distribution!Done : Distribution!Ends(p, result)
  BY <1>1, <1>2, EndsTrue DEF StillShipped
<1>3. CASE ~\E result \in Distribution!Done : Distribution!Ends(p, result)
  <2>1. PICK d \in commands[p].payloads :
          /\ Distribution!PayloadDone(p, d, "check")
          /\ Distribution!PayloadValid(packages[d], d, commands[p].release)
    BY <1>3 DEF Distribution!CheckPayload, Distribution!Checked, Distribution!Done
  <2>2. PICK r : /\ Like(r, commands[p], "check", commands[p].payloads \ {d}, commands[p].todo)
                 /\ Distribution!Goes(p, r)
    BY <1>1, <2>1, PayloadDoneIs DEF CommandPcs, InCheckout
  <2>3. Valid(d)
    BY <1>1, <2>1 DEF CommandTrue, InCheckout, Valid
  <2>4. CommandTrue(r)
    BY <1>1, <2>2, <2>3 DEF CommandTrue, Like, Hydrating, InCheckout, Publishing
  <2> QED
    BY <1>1, <2>2, <2>4, QuietTrue DEF StillShipped, Like
<1> QED
  BY <1>2, <1>3

LEMMA AdmitPayloadTrue ==
  ASSUME DistributionIsTrue, NEW p \in Procs, Distribution!AdmitPayload(p)
  PROVE  DistributionIsTrue'
<1>1. /\ UNCHANGED <<StillShipped, stops>> /\ stops \in 0..MaxStops /\ commands[p].pc = "admit"
      /\ CommandTrue(commands[p])
  BY CommandIs
     DEF Distribution!AdmitPayload, StillShipped, DistributionIsTrue, DistributionTyped
<1>2. CASE Distribution!Ends(p, "failed")
  BY <1>1, <1>2, CheckFailsTrue DEF StillShipped
<1>3. CASE ~Distribution!Ends(p, "failed")
  <2>1. PICK d : Distribution!PayloadDone(p, d, "wrapper")
    BY <1>3 DEF Distribution!AdmitPayload, Distribution!Checked
  <2>2. PICK r : /\ Like(r, commands[p], IF commands[p].payloads = {d} THEN "wrapper" ELSE commands[p].pc,
                         commands[p].payloads \ {d}, commands[p].todo)
                 /\ Distribution!Goes(p, r)
    BY <1>1, <2>1, PayloadDoneIs DEF CommandPcs, Hydrating
  <2>3. r.pc \in {"admit", "wrapper"}
    BY <1>1, <2>2 DEF Like
  <2>4. CommandTrue(r)
    BY <1>1, <2>2, <2>3 DEF CommandTrue, Like, Hydrating, InCheckout, Publishing
  <2> QED
    BY <1>1, <2>2, <2>4, QuietTrue DEF StillShipped, Like
<1> QED
  BY <1>2, <1>3

LEMMA AdmitWrapperTrue ==
  ASSUME DistributionIsTrue, NEW p \in Procs, Distribution!AdmitWrapper(p)
  PROVE  DistributionIsTrue'
<1>1. /\ UNCHANGED <<StillShipped, stops>> /\ stops \in 0..MaxStops /\ commands[p].pc = "wrapper"
      /\ CommandTrue(commands[p])
  BY CommandIs
     DEF Distribution!AdmitWrapper, StillShipped, DistributionIsTrue, DistributionTyped
<1>2. CASE Distribution!Ends(p, "failed")
  BY <1>1, <1>2, CheckFailsTrue DEF StillShipped
<1>3. CASE ~Distribution!Ends(p, "failed")
  <2>1. PICK c \in CommandKind : c = commands[p]
    BY CommandIs
  <2>2. PICK m \in ManifestKind : m = root.manifest
    BY RootFields
  <2> DEFINE r == [c EXCEPT !.pc = "copy", !.manifest = m, !.todo = Distribution!PayloadTargets]
  <2>3. /\ r \in CommandKind /\ r.pc = "copy" /\ r.manifest = m /\ r.release = c.release
    BY ShippedTargets DEF CommandKind, Hydrating
  <2>4. Distribution!Goes(p, r)
    BY <1>3, <2>1, <2>2 DEF Distribution!AdmitWrapper, Distribution!Checked
  <2> HIDE DEF r
  <2>5. CommandTrue(r)
    BY <1>1, <2>1, <2>2, <2>3 DEF CommandTrue, Hydrating, InCheckout, Publishing
  <2> QED
    BY <1>1, <2>3, <2>4, <2>5, QuietTrue DEF StillShipped
<1> QED
  BY <1>2, <1>3

LEMMA CopySliceTrue ==
  ASSUME DistributionIsTrue, NEW p \in Procs, Distribution!CopySlice(p)
  PROVE  DistributionIsTrue'
<1>1. /\ UNCHANGED StillShipped /\ commands[p].pc = "copy"
      /\ CommandTrue(commands[p]) /\ stops' \in 0..MaxStops
  BY CommandIs, ShippedTargets
     DEF Distribution!CopySlice, StillShipped, DistributionIsTrue, DistributionTyped, Distribution!Fails
<1>2. PICK c \in CommandKind : c = commands[p]
  BY CommandIs
<1>3. PICK d \in Payloads : \E t \in TargetsOf[d] \cap c.todo :
        \E read \in {packages[d].slices[t], Distribution!Garbled} :
          Distribution!TargetDone(p, [c EXCEPT !.slices[t] = read], t, "compare")
  BY <1>2 DEF Distribution!CopySlice
<1>4. PICK t \in TargetsOf[d] \cap c.todo : \E read \in {packages[d].slices[t], Distribution!Garbled} :
        Distribution!TargetDone(p, [c EXCEPT !.slices[t] = read], t, "compare")
  BY <1>3
<1>5. PICK read \in {packages[d].slices[t], Distribution!Garbled} :
        Distribution!TargetDone(p, [c EXCEPT !.slices[t] = read], t, "compare")
  BY <1>4
<1>6. t \in Shipped /\ read \in Distribution!Builds
  <2>1. t \in Shipped
    BY <1>4 DEF CommandKind
  <2>2. packages[d].slices \in SliceMap
    BY DEF DistributionIsTrue, DistributionTyped, PackageKind
  <2> QED
    BY <2>1, <2>2 DEF SliceMap, Distribution!Builds
<1> DEFINE s == [c EXCEPT !.slices[t] = read]
<1>7. /\ s \in CommandKind /\ s.pc = c.pc /\ s.release = c.release /\ s.manifest = c.manifest
  BY <1>6 DEF CommandKind, SliceMap
<1>8. Distribution!TargetDone(p, s, t, "compare")
  BY <1>5
<1> HIDE DEF s
<1>9. PICK r : /\ Like(r, s, IF commands[p].todo = {t} THEN "compare" ELSE s.pc, s.payloads, s.todo \ {t})
               /\ Distribution!Goes(p, r)
  BY <1>7, <1>8, TargetDoneIs DEF CommandPcs, Hydrating
<1>10. CommandTrue(r)
  BY <1>1, <1>2, <1>7, <1>9 DEF CommandTrue, Like, Hydrating, InCheckout, Publishing
<1> QED
  BY <1>1, <1>9, <1>10, QuietTrue DEF StillShipped, Like

LEMMA CheckStagedTrue ==
  ASSUME DistributionIsTrue, NEW p \in Procs, Distribution!CheckStaged(p)
  PROVE  DistributionIsTrue'
<1>1. /\ UNCHANGED <<StillShipped, stops>> /\ stops \in 0..MaxStops /\ commands[p].pc = "compare"
      /\ CommandTrue(commands[p])
  BY CommandIs DEF Distribution!CheckStaged, StillShipped, DistributionIsTrue, DistributionTyped
<1>2. CASE Distribution!Ends(p, "failed")
  BY <1>1, <1>2, CheckFailsTrue DEF StillShipped
<1>3. CASE ~Distribution!Ends(p, "failed")
  <2>1. PICK c \in CommandKind : c = commands[p]
    BY CommandIs
  <2> DEFINE dir == [manifest |-> c.manifest, slices |-> c.slices]
  <2>2. c.release = root.release /\ c.manifest = root.manifest
    BY <1>1, <2>1 DEF CommandTrue, Hydrating
  <2>3. Distribution!Packed(dir, root.release, Distribution!PayloadTargets)
    BY <1>3, <2>1, <2>2 DEF Distribution!CheckStaged, Distribution!Checked
  <2>4. Genuine(c.slices, Distribution!PayloadTargets)
    <3>1. dir.manifest = root.manifest /\ dir.slices = c.slices
      BY <2>2
    <3> HIDE DEF dir
    <3> QED
      BY <2>3, <3>1, PackedIs, ShippedTargets
  <2> DEFINE r == [c EXCEPT !.pc = "install", !.todo = Distribution!PayloadTargets]
  <2>5. /\ r \in CommandKind /\ r.pc = "install" /\ r.todo = Distribution!PayloadTargets
        /\ r.slices = c.slices /\ r.manifest = c.manifest /\ r.release = c.release
    BY ShippedTargets DEF CommandKind, Hydrating
  <2>6. Distribution!Goes(p, r)
    BY <1>3, <2>1 DEF Distribution!CheckStaged, Distribution!Checked
  <2> HIDE DEF r
  <2>7. CommandTrue(r)
    BY <2>2, <2>4, <2>5 DEF CommandTrue, Hydrating, InCheckout, Publishing
  <2> QED
    BY <1>1, <2>5, <2>6, <2>7, QuietTrue DEF StillShipped
<1> QED
  BY <1>2, <1>3

LEMMA FinishHydrationTrue ==
  ASSUME DistributionIsTrue, NEW p \in Procs, Distribution!FinishHydration(p)
  PROVE  DistributionIsTrue'
<1>1. PICK result \in Distribution!Done : Distribution!Ends(p, result)
  BY DEF Distribution!FinishHydration, Distribution!Done
<1>2. stops' \in 0..MaxStops
  BY DEF Distribution!FinishHydration, DistributionIsTrue, DistributionTyped
<1> QED
  BY <1>1, <1>2, EndsTrue DEF Distribution!FinishHydration

LEMMA StopsTrue ==
  ASSUME DistributionIsTrue, NEW p \in Procs, Distribution!Stops(p)
  PROVE  DistributionIsTrue'
<1>1. stops' \in 0..MaxStops
  BY ShippedTargets
     DEF Distribution!Stops, Distribution!Fails, DistributionIsTrue, DistributionTyped
<1> QED
  BY <1>1, CheckFailsTrue DEF Distribution!Stops, StillShipped

(* Only a slice the wrapper's manifest names is installed.                  *)
LEMMA InstallMeans ==
  ASSUME DistributionIsTrue, NEW p \in Procs, Distribution!InstallSlice(p)
  PROVE  \E t \in Distribution!PayloadTargets :
           /\ root' = [root EXCEPT !.slices[t] = root.manifest.hash[t]]
           /\ Distribution!TargetDone(p, commands[p], t, "whole")
<1>1. CommandTrue(commands[p]) /\ commands[p].pc = "install"
  BY CommandIs DEF Distribution!InstallSlice
<1>2. PICK t \in commands[p].todo : /\ root' = [root EXCEPT !.slices[t] = commands[p].slices[t]]
                                    /\ Distribution!TargetDone(p, commands[p], t, "whole")
  BY DEF Distribution!InstallSlice
<1>3. t \in Distribution!PayloadTargets /\ commands[p].slices[t] = root.manifest.hash[t]
  BY <1>1 DEF CommandTrue, Genuine
<1> QED
  BY <1>2, <1>3

LEMMA InstalledRoot ==
  ASSUME DistributionIsTrue, NEW t \in Distribution!PayloadTargets,
         root' = [root EXCEPT !.slices[t] = root.manifest.hash[t]]
  PROVE  /\ root' \in RootKind /\ root'.manifest = root.manifest /\ root'.release = root.release
         /\ root'.contract = root.contract /\ root'.slices[t] = root.manifest.hash[t]
         /\ \A u \in Shipped \ {t} : root'.slices[u] = root.slices[u]
<1>1. t \in Shipped /\ root \in RootKind /\ root.manifest.hash[t] \in Builds
  BY RootFields, ShippedTargets DEF DistributionIsTrue, DistributionTyped
<1>2. PICK w \in RootKind : w = root
  BY <1>1
<1>3. PICK b \in Builds : b = root.manifest.hash[t]
  BY <1>1
<1>4. root' = [w EXCEPT !.slices[t] = b]
  BY <1>2, <1>3
<1>5. b \in Distribution!Builds
  BY ShippedTargets DEF Builds, Distribution!Builds
<1> DEFINE s == [w EXCEPT !.slices[t] = b]
<1>6. /\ s \in RootKind /\ s.manifest = w.manifest /\ s.release = w.release
      /\ s.contract = w.contract /\ s.slices[t] = b
      /\ \A u \in Shipped \ {t} : s.slices[u] = w.slices[u]
  BY <1>1, <1>5 DEF RootKind, SliceMap
<1> HIDE DEF s
<1> QED
  BY <1>2, <1>3, <1>4, <1>6 DEF s

LEMMA InstallSliceTrue ==
  ASSUME DistributionIsTrue, NEW p \in Procs, Distribution!InstallSlice(p)
  PROVE  DistributionIsTrue'
<1>1. PICK t \in Distribution!PayloadTargets :
        /\ root' = [root EXCEPT !.slices[t] = root.manifest.hash[t]]
        /\ Distribution!TargetDone(p, commands[p], t, "whole")
  BY InstallMeans
<1>2. /\ root' \in RootKind /\ root'.manifest = root.manifest /\ root'.release = root.release
      /\ root'.contract = root.contract /\ root'.slices[t] = root.manifest.hash[t]
      /\ \A u \in Shipped \ {t} : root'.slices[u] = root.slices[u]
  BY <1>1, InstalledRoot
<1>3. /\ UNCHANGED <<place, packages, changes, stops, named>> /\ commands[p].pc = "install"
      /\ CommandTrue(commands[p]) /\ DistributionTyped
  BY CommandIs DEF Distribution!InstallSlice, DistributionIsTrue
<1>4. PICK s \in CommandKind : s = commands[p]
  BY CommandIs
<1>5. PICK r : /\ Like(r, s, IF commands[p].todo = {t} THEN "whole" ELSE s.pc, s.payloads, s.todo \ {t})
               /\ Distribution!Goes(p, r)
  BY <1>1, <1>4, TargetDoneIs DEF CommandPcs, Hydrating
<1>6. commands' \in [Procs -> CommandKind]
  BY <1>3, <1>5, CommandGoes DEF Like
<1>7. DistributionTyped'
  BY <1>2, <1>3, <1>6 DEF DistributionTyped
<1>8. RootTrue'
  BY <1>2, <1>3, ShippedTargets
     DEF DistributionIsTrue, RootTrue, Distribution!OnlyNamedSlices, Shipped
<1>9. Distribution!RootWhole => Distribution!RootWhole'
  BY <1>2, RootFields DEF Distribution!RootWhole, Distribution!Packed, Shipped
<1>10. \A d \in Payloads : Valid(d) => Valid(d)'
  BY <1>2, <1>3
     DEF Valid, Distribution!PayloadValid, Distribution!MetadataMatches, Distribution!Packed
<1>11. CommandTrue(r)
  BY <1>3, <1>4, <1>5 DEF CommandTrue, Like, Hydrating, InCheckout, Publishing
<1>12. CommandTrue(r)'
  BY <1>2, <1>3, <1>9, <1>10, <1>11, StandsTrue
<1>13. CommandsTrue'
  BY <1>2, <1>3, <1>5, <1>9, <1>10, <1>12, CommandsStand DEF Like
<1> QED
  BY <1>7, <1>8, <1>13 DEF DistributionIsTrue

LEMMA PublishesIs ==
  ASSUME DistributionIsTrue, NEW p \in Procs, NEW c \in CommandKind, NEW left \in SUBSET Payloads,
         Distribution!Publishes(p, c, left)
  PROVE  \E d \in left, r \in CommandKind :
           /\ r.pc = "publish" /\ r.at = d /\ r.payloads = left /\ r.todo = TargetsOf[d]
           /\ r.kind = c.kind /\ r.release = c.release /\ r.manifest = c.manifest /\ r.slices = c.slices
           /\ Distribution!Goes(p, r)
<1>1. PICK d \in left :
        Distribution!Goes(p, [c EXCEPT !.pc = "publish", !.at = d, !.payloads = left, !.todo = TargetsOf[d]])
  BY DEF Distribution!Publishes
<1>2. PICK todo \in SUBSET Shipped : todo = TargetsOf[d]
  BY ShippedTargets
<1> DEFINE r == [c EXCEPT !.pc = "publish", !.at = d, !.payloads = left, !.todo = todo]
<1>3. /\ r \in CommandKind /\ r.pc = "publish" /\ r.at = d /\ r.payloads = left /\ r.todo = todo
      /\ r.kind = c.kind /\ r.release = c.release /\ r.manifest = c.manifest /\ r.slices = c.slices
  BY DEF CommandKind, InCheckout, Publishing
<1>4. Distribution!Goes(p, r)
  BY <1>1, <1>2
<1> HIDE DEF r
<1> QED
  BY <1>2, <1>3, <1>4

LEMMA ValidatePublishedTrue ==
  ASSUME DistributionIsTrue, NEW p \in Procs, Distribution!ValidatePublished(p)
  PROVE  DistributionIsTrue'
<1>1. /\ UNCHANGED <<StillShipped, stops>> /\ stops \in 0..MaxStops /\ commands[p].pc = "validate"
      /\ CommandTrue(commands[p])
  BY CommandIs
     DEF Distribution!ValidatePublished, StillShipped, DistributionIsTrue, DistributionTyped
<1>2. CASE \E result \in Distribution!Done : Distribution!Ends(p, result)
  BY <1>1, <1>2, EndsTrue DEF StillShipped
<1>3. CASE ~\E result \in Distribution!Done : Distribution!Ends(p, result)
  <2>1. PICK c \in CommandKind : c = commands[p]
    BY CommandIs
  <2>2. Distribution!Publishes(p, c, c.payloads \ {c.at})
    BY <1>3, <2>1 DEF Distribution!ValidatePublished, Distribution!Checked, Distribution!Done
  <2>3. c.payloads \ {c.at} \in SUBSET Payloads
    BY DEF CommandKind
  <2>4. PICK d \in c.payloads \ {c.at}, r \in CommandKind :
          /\ r.pc = "publish" /\ r.at = d /\ r.payloads = c.payloads \ {c.at} /\ r.todo = TargetsOf[d]
          /\ r.kind = c.kind /\ r.release = c.release /\ r.manifest = c.manifest /\ r.slices = c.slices
          /\ Distribution!Goes(p, r)
    BY <2>2, <2>3, PublishesIs
  <2>5. CommandTrue(r)
    BY <1>1, <2>1, <2>4 DEF CommandTrue, Hydrating, InCheckout, Publishing
  <2> QED
    BY <1>1, <2>4, <2>5, QuietTrue DEF StillShipped
<1> QED
  BY <1>2, <1>3

(* A step that moves one file of a payload into place: what is written is   *)
(* what the wrapper's manifest names.                                       *)
LEMMA PublishedTrue ==
  ASSUME DistributionIsTrue, NEW p \in Procs, NEW r \in CommandKind, Distribution!Goes(p, r), CommandTrue(r),
         UNCHANGED <<place, root, changes, stops, named>>,
         packages' \in [Payloads -> PackageKind],
         \A d \in Payloads :
           /\ packages'[d].release = packages[d].release
           /\ packages'[d].manifest \in {packages[d].manifest, root.manifest}
           /\ packages'[d].contract \in {packages[d].contract, root.release}
           /\ \A t \in TargetsOf[d] : packages'[d].slices[t] \in {packages[d].slices[t], root.manifest.hash[t]}
           /\ \A t \in Shipped \ TargetsOf[d] : packages'[d].slices[t] = packages[d].slices[t]
  PROVE  DistributionIsTrue'
<1>1. DistributionTyped'
  BY CommandGoes DEF DistributionIsTrue, DistributionTyped
<1>2. RootTrue'
  BY DEF DistributionIsTrue, RootTrue, Distribution!OnlyNamedSlices
<1>3. Distribution!RootWhole => Distribution!RootWhole'
  BY DEF Distribution!RootWhole, Distribution!Packed
<1>4. ASSUME NEW d \in Payloads, Valid(d) PROVE Valid(d)'
  <2>1. \A t \in TargetsOf[d] : root.manifest.hash[t] # Distribution!Missing
    BY RootFields, ShippedTargets
  <2>2. root.contract = root.release
    BY RootFields
  <2> QED
    BY <1>4, <2>1, <2>2
       DEF Valid, Distribution!PayloadValid, Distribution!MetadataMatches, Distribution!Packed
<1>5. CommandTrue(r)'
  BY <1>3, <1>4, StandsTrue
<1> QED
  BY <1>1, <1>2, <1>3, <1>4, <1>5, CommandsStand DEF DistributionIsTrue

LEMMA PublishSliceTrue ==
  ASSUME DistributionIsTrue, NEW p \in Procs, Distribution!PublishSlice(p)
  PROVE  DistributionIsTrue'
<1>1. UNCHANGED <<place, root, changes, stops, named>> /\ commands[p].pc = "publish"
  BY DEF Distribution!PublishSlice
<1>2. PICK c \in CommandKind : c = commands[p] /\ CommandTrue(c)
  BY CommandIs
<1>3. PICK t \in c.todo :
        /\ packages' = [packages EXCEPT ![c.at].slices[t] = c.slices[t]]
        /\ Distribution!TargetDone(p, c, t, "manifest")
  BY <1>2 DEF Distribution!PublishSlice
<1>4. /\ c.at \in Payloads /\ t \in TargetsOf[c.at] /\ c.slices[t] = root.manifest.hash[t]
      /\ t \in Shipped /\ c.slices[t] \in Distribution!Builds
  BY <1>1, <1>2 DEF CommandTrue, Publishing, Genuine, CommandKind, SliceMap
<1>5. PICK r : /\ Like(r, c, IF commands[p].todo = {t} THEN "manifest" ELSE c.pc, c.payloads, c.todo \ {t})
               /\ Distribution!Goes(p, r)
  BY <1>3, TargetDoneIs DEF CommandPcs, InCheckout, Publishing
<1>6. CommandTrue(r)
  BY <1>1, <1>2, <1>5 DEF CommandTrue, Like, Hydrating, InCheckout, Publishing
<1>7. PICK w \in PackageKind : w = packages[c.at]
  BY <1>4 DEF DistributionIsTrue, DistributionTyped
<1> DEFINE v == [w EXCEPT !.slices[t] = c.slices[t]]
<1>8. /\ v \in PackageKind /\ v.release = w.release /\ v.manifest = w.manifest
      /\ v.contract = w.contract /\ v.slices[t] = c.slices[t]
      /\ \A u \in Shipped \ {t} : v.slices[u] = w.slices[u]
  BY <1>4 DEF PackageKind, SliceMap
<1>9. packages' = [packages EXCEPT ![c.at] = v]
  BY <1>3, <1>7
<1> HIDE DEF v
<1>10. /\ packages' \in [Payloads -> PackageKind] /\ packages'[c.at] = v
       /\ \A d \in Payloads \ {c.at} : packages'[d] = packages[d]
  BY <1>4, <1>8, <1>9 DEF DistributionIsTrue, DistributionTyped
<1>11. \A d \in Payloads :
         /\ packages'[d].release = packages[d].release
         /\ packages'[d].manifest \in {packages[d].manifest, root.manifest}
         /\ packages'[d].contract \in {packages[d].contract, root.release}
         /\ \A u \in TargetsOf[d] : packages'[d].slices[u] \in {packages[d].slices[u], root.manifest.hash[u]}
         /\ \A u \in Shipped \ TargetsOf[d] : packages'[d].slices[u] = packages[d].slices[u]
  BY <1>4, <1>7, <1>8, <1>10, ShippedTargets
<1> QED
  BY <1>1, <1>5, <1>6, <1>10, <1>11, PublishedTrue DEF Like

LEMMA PublishRestTrue ==
  ASSUME DistributionIsTrue, NEW p \in Procs,
         Distribution!PublishManifest(p) \/ Distribution!PublishContract(p)
  PROVE  DistributionIsTrue'
<1>1. UNCHANGED <<place, root, changes, stops, named>> /\ commands[p].pc \in {"manifest", "contract"}
  BY DEF Distribution!PublishManifest, Distribution!PublishContract
<1>2. PICK c \in CommandKind : c = commands[p] /\ CommandTrue(c)
  BY CommandIs
<1>3. c.at \in Payloads /\ c.manifest = root.manifest /\ c.release = root.release
  BY <1>1, <1>2 DEF CommandTrue, Publishing, Hydrating, InCheckout, CommandKind
<1>4. PICK m \in ManifestKind : m = root.manifest
  BY RootFields
<1>5. PICK release \in Nat : release = root.release
  BY RootFields
<1>6. PICK w \in PackageKind : w = packages[c.at]
  BY <1>3 DEF DistributionIsTrue, DistributionTyped
<1>7. \E next \in {"contract", "validate"} : Distribution!Goto(p, next)
  BY DEF Distribution!PublishManifest, Distribution!PublishContract
<1>8. PICK r : /\ \E next \in {"contract", "validate"} : Like(r, c, next, c.payloads, c.todo)
               /\ Distribution!Goes(p, r)
  BY <1>2, <1>7, GotoIs DEF CommandPcs, InCheckout, Publishing
<1>9. CommandTrue(r)
  BY <1>1, <1>2, <1>8 DEF CommandTrue, Like, Hydrating, InCheckout, Publishing
<1>10. \E v \in PackageKind :
         /\ packages' = [packages EXCEPT ![c.at] = v]
         /\ v.release = w.release /\ v.manifest \in {w.manifest, m} /\ v.contract \in {w.contract, release}
         /\ v.slices = w.slices
  <2>1. CASE Distribution!PublishManifest(p)
    <3> DEFINE v == [w EXCEPT !.manifest = m]
    <3>1. /\ v \in PackageKind /\ v.release = w.release /\ v.manifest = m /\ v.contract = w.contract
          /\ v.slices = w.slices
      BY DEF PackageKind
    <3>2. packages' = [packages EXCEPT ![c.at] = v]
      BY <1>2, <1>3, <1>4, <1>6, <2>1 DEF Distribution!PublishManifest
    <3> HIDE DEF v
    <3> QED
      BY <3>1, <3>2
  <2>2. CASE Distribution!PublishContract(p)
    <3> DEFINE v == [w EXCEPT !.contract = release]
    <3>1. /\ v \in PackageKind /\ v.release = w.release /\ v.manifest = w.manifest /\ v.contract = release
          /\ v.slices = w.slices
      BY DEF PackageKind
    <3>2. packages' = [packages EXCEPT ![c.at] = v]
      BY <1>2, <1>3, <1>5, <1>6, <2>2 DEF Distribution!PublishContract
    <3> HIDE DEF v
    <3> QED
      BY <3>1, <3>2
  <2> QED
    BY <2>1, <2>2
<1>11. PICK v \in PackageKind :
         /\ packages' = [packages EXCEPT ![c.at] = v]
         /\ v.release = w.release /\ v.manifest \in {w.manifest, m} /\ v.contract \in {w.contract, release}
         /\ v.slices = w.slices
  BY <1>10
<1>12. /\ packages' \in [Payloads -> PackageKind] /\ packages'[c.at] = v
       /\ \A d \in Payloads \ {c.at} : packages'[d] = packages[d]
  BY <1>3, <1>11 DEF DistributionIsTrue, DistributionTyped
<1>13. \A d \in Payloads :
         /\ packages'[d].release = packages[d].release
         /\ packages'[d].manifest \in {packages[d].manifest, root.manifest}
         /\ packages'[d].contract \in {packages[d].contract, root.release}
         /\ \A u \in TargetsOf[d] : packages'[d].slices[u] \in {packages[d].slices[u], root.manifest.hash[u]}
         /\ \A u \in Shipped \ TargetsOf[d] : packages'[d].slices[u] = packages[d].slices[u]
  BY <1>4, <1>5, <1>6, <1>11, <1>12
<1> QED
  BY <1>1, <1>8, <1>9, <1>12, <1>13, PublishedTrue DEF Like

LEMMA FillPayloadTrue ==
  ASSUME DistributionIsTrue, NEW p \in Procs, Distribution!FillPayload(p)
  PROVE  DistributionIsTrue'
<1>1. /\ UNCHANGED StillShipped /\ commands[p].pc = "fill"
      /\ CommandTrue(commands[p]) /\ stops' \in 0..MaxStops
  BY CommandIs, ShippedTargets
     DEF Distribution!FillPayload, StillShipped, DistributionIsTrue, DistributionTyped, Distribution!Fails
<1>2. CASE Distribution!Ends(p, "failed")
  BY <1>1, <1>2, CheckFailsTrue
<1>3. CASE ~Distribution!Ends(p, "failed")
  <2>1. PICK c \in CommandKind : c = commands[p]
    BY CommandIs
  <2>2. PICK m \in ManifestKind : m = root.manifest
    BY RootFields
  <2> DEFINE Sources(d) == {root.slices} \cup {[root.slices EXCEPT ![t] = Distribution!Garbled] : t \in TargetsOf[d]}
             Copy(d, slices) == [root EXCEPT !.release = packages[d].release,
                                   !.slices = Distribution!Restricted(slices, TargetsOf[d])]
             Filled(d, slices) == [t \in Shipped |-> IF t \in TargetsOf[d] THEN slices[t] ELSE c.slices[t]]
  <2> DEFINE Fills(d, slices, s) ==
               IF commands[p].payloads = {d}
               THEN Distribution!Publishes(p, s, Distribution!Selected(commands[p].kind))
               ELSE Distribution!Goes(p, [s EXCEPT !.payloads = @ \ {d}])
  <2>3. PICK d \in commands[p].payloads : \E slices \in Sources(d) :
          LET staged == [t \in Shipped |-> IF t \in TargetsOf[d] THEN slices[t] ELSE commands[p].slices[t]]
              r == [commands[p] EXCEPT !.slices = staged, !.manifest = root.manifest]
          IN  Distribution!Checked(p, Distribution!PayloadValid(Copy(d, slices), d, commands[p].release),
                                   Fills(d, slices, r))
    BY DEF Distribution!FillPayload, Shipped
  <2>4. PICK slices \in Sources(d) :
          LET r == [c EXCEPT !.slices = Filled(d, slices), !.manifest = m]
          IN  /\ Distribution!PayloadValid(Copy(d, slices), d, c.release)
              /\ IF c.payloads = {d} THEN Distribution!Publishes(p, r, Distribution!Selected(c.kind))
                                     ELSE Distribution!Goes(p, [r EXCEPT !.payloads = @ \ {d}])
    BY <1>3, <2>1, <2>2, <2>3 DEF Distribution!Checked
  <2>5. d \in Payloads /\ slices \in SliceMap /\ TargetsOf[d] \subseteq Shipped
    BY <2>1, RootFields, ShippedTargets DEF CommandKind, SliceMap, Distribution!Builds
  <2>6. c.release = root.release
    BY <1>1, <2>1 DEF CommandTrue, InCheckout
  <2>7. Genuine(slices, TargetsOf[d])
    <3>1. root \in RootKind
      BY DEF DistributionIsTrue, DistributionTyped
    <3>2. Copy(d, slices).slices = Distribution!Restricted(slices, TargetsOf[d])
      BY <3>1 DEF RootKind
    <3>3. Genuine(Copy(d, slices).slices, TargetsOf[d])
      <4> HIDE DEF Copy
      <4> QED
        BY <2>4, <2>5, <2>6, ValidIs
    <3>4. \A t \in TargetsOf[d] : Distribution!Restricted(slices, TargetsOf[d])[t] = slices[t]
      BY <2>5 DEF Distribution!Restricted, Shipped
    <3> QED
      BY <3>2, <3>3, <3>4 DEF Genuine
  <2>8. Filled(d, slices) \in SliceMap
    BY <2>5 DEF CommandKind, SliceMap
  <2>9. \A e \in Distribution!Selected(c.kind) \ (c.payloads \ {d}) : Genuine(Filled(d, slices), TargetsOf[e])
    <3>1. \A e \in Distribution!Selected(c.kind) \ c.payloads : Genuine(c.slices, TargetsOf[e])
      BY <1>1, <2>1 DEF CommandTrue
    <3>2. \A e \in Distribution!Selected(c.kind) : TargetsOf[e] \subseteq Shipped
      BY ShippedTargets
    <3> QED
      BY <2>5, <2>7, <3>1, <3>2 DEF Genuine
  <2> DEFINE f == Filled(d, slices)
             r == [c EXCEPT !.slices = f, !.manifest = m]
  <2> HIDE DEF f
  <2>10. f \in SliceMap /\ \A e \in Distribution!Selected(c.kind) \ (c.payloads \ {d}) : Genuine(f, TargetsOf[e])
    BY <2>8, <2>9 DEF f
  <2>11. /\ r \in CommandKind /\ r.pc = c.pc /\ r.kind = c.kind /\ r.release = c.release
         /\ r.payloads = c.payloads /\ r.manifest = m /\ r.slices = f
    BY <2>10 DEF CommandKind
  <2>12. IF c.payloads = {d} THEN Distribution!Publishes(p, r, Distribution!Selected(c.kind))
                             ELSE Distribution!Goes(p, [r EXCEPT !.payloads = @ \ {d}])
    BY <2>4 DEF f
  <2> HIDE DEF r
  <2>13. CASE c.payloads = {d}
    <3>1. Distribution!Selected(c.kind) \in SUBSET Payloads
      BY ShippedTargets
    <3>2. PICK e \in Distribution!Selected(c.kind), s \in CommandKind :
            /\ s.pc = "publish" /\ s.at = e /\ s.payloads = Distribution!Selected(c.kind)
            /\ s.todo = TargetsOf[e] /\ s.kind = r.kind /\ s.release = r.release
            /\ s.manifest = r.manifest /\ s.slices = r.slices /\ Distribution!Goes(p, s)
      BY <2>11, <2>12, <2>13, <3>1, PublishesIs
    <3>3. \A x \in Distribution!Selected(c.kind) : Genuine(f, TargetsOf[x])
      BY <2>10, <2>13
    <3>4. CommandTrue(s)
      BY <1>1, <2>1, <2>2, <2>6, <2>11, <3>2, <3>3
         DEF CommandTrue, Hydrating, InCheckout, Publishing
    <3> QED
      BY <1>1, <3>2, <3>4, QuietTrue DEF StillShipped
  <2>14. CASE c.payloads # {d}
    <3> DEFINE s == [r EXCEPT !.payloads = @ \ {d}]
    <3>1. /\ s \in CommandKind /\ s.pc = r.pc /\ s.kind = r.kind /\ s.release = r.release
          /\ s.payloads = r.payloads \ {d} /\ s.slices = r.slices
      BY <2>11 DEF CommandKind
    <3>2. Distribution!Goes(p, s)
      BY <2>12, <2>14
    <3> HIDE DEF s
    <3>3. CommandTrue(s)
      BY <1>1, <2>1, <2>6, <2>10, <2>11, <3>1 DEF CommandTrue, Hydrating, InCheckout, Publishing
    <3> QED
      BY <1>1, <3>1, <3>2, <3>3, QuietTrue DEF StillShipped
  <2> QED
    BY <2>13, <2>14
<1> QED
  BY <1>2, <1>3

LEMMA ResteesTrue ==
  ASSUME \A p \in Procs : Distribution!Resting(p), UNCHANGED commands
  PROVE  CommandsTrue'
BY DEF CommandsTrue, CommandTrue, Distribution!Resting, Distribution!Done, Hydrating,
       InCheckout, Publishing

(* What a release consists of when it is published.                         *)
LEMMA PublishedIs ==
  ASSUME NEW release \in Nat, NEW hash \in [Shipped -> Builds], NEW T
  PROVE  LET f == Distribution!Published(release, hash, T)
         IN  /\ f \in RootKind /\ f \in PackageKind /\ f.release = release /\ f.contract = release
             /\ f.manifest.release = release /\ f.manifest.hash = hash
             /\ \A t \in Shipped : f.slices[t] \in {hash[t], Distribution!Missing}
             /\ \A t \in Shipped \ T : f.slices[t] = Distribution!Missing
<1>1. Distribution!ManifestOf(release, hash) = [release |-> release, hash |-> hash]
  BY DEF Distribution!ManifestOf
<1>2. [release |-> release, hash |-> hash] \in ManifestKind
  BY DEF ManifestKind
<1>3. /\ Distribution!Restricted(hash, T) = [t \in Shipped |-> IF t \in T THEN hash[t] ELSE Distribution!Missing]
      /\ Distribution!Restricted(hash, T) \in SliceMap
  BY ShippedTargets
     DEF Distribution!Restricted, Shipped, SliceMap, Builds, Distribution!Builds, Distribution!Missing
<1>4. Distribution!Published(release, hash, T) =
        [release |-> release, manifest |-> [release |-> release, hash |-> hash], contract |-> release,
         slices |-> Distribution!Restricted(hash, T)]
  BY <1>1 DEF Distribution!Published, Distribution!PackageOf
<1> QED
  BY <1>2, <1>3, <1>4 DEF RootKind, PackageKind

LEMMA RebuildTrue ==
  ASSUME DistributionIsTrue, Distribution!Rebuild
  PROVE  DistributionIsTrue'
<1>1. /\ changes' = changes + 1 /\ changes < MaxChanges /\ UNCHANGED <<place, packages, commands, stops>>
      /\ \A p \in Procs : Distribution!Resting(p)
  BY DEF Distribution!Rebuild, Distribution!RootMayChange, Distribution!Edits
<1>2. PICK t \in Shipped :
        /\ root.slices[t] # Distribution!Missing
        /\ root' = [root EXCEPT !.slices[t] = root.slices[t] + 1, !.manifest.hash[t] = root.slices[t] + 1]
        /\ named' = [named EXCEPT ![t] = @ \cup {root.slices[t] + 1}]
  BY DEF Distribution!Rebuild, Shipped
<1>3. DistributionTyped /\ RootTrue /\ changes \in Nat /\ MaxChanges \in Nat
  BY ShippedTargets DEF DistributionIsTrue, DistributionTyped
<1>4. root.slices[t] \in named[t] /\ root.slices[t] \in 1..(changes + 1)
  BY <1>2, <1>3 DEF RootTrue, Distribution!OnlyNamedSlices, Shipped, DistributionTyped
<1>5. PICK b \in Builds : b = root.slices[t] + 1 /\ b \in 1..(changes' + 1)
  BY <1>1, <1>3, <1>4 DEF Builds
<1>6. PICK w \in RootKind : w = root
  BY <1>3 DEF DistributionTyped
<1>7. b \in Distribution!Builds
  BY <1>3 DEF Builds, Distribution!Builds
<1> DEFINE v == [w EXCEPT !.slices[t] = b, !.manifest.hash[t] = b]
<1>8. /\ v \in RootKind /\ v.release = w.release /\ v.contract = w.contract
      /\ v.manifest.release = w.manifest.release
      /\ v.slices[t] = b /\ \A u \in Shipped \ {t} : v.slices[u] = w.slices[u]
      /\ v.manifest.hash[t] = b /\ \A u \in Shipped \ {t} : v.manifest.hash[u] = w.manifest.hash[u]
  BY <1>2, <1>7 DEF RootKind, ManifestKind, SliceMap
<1>9. root' = v
  BY <1>2, <1>5, <1>6
<1> HIDE DEF v
<1>10. /\ named' \in [Shipped -> SUBSET (1..(changes' + 1))] /\ named'[t] = named[t] \cup {b}
       /\ \A u \in Shipped \ {t} : named'[u] = named[u]
  BY <1>1, <1>2, <1>3, <1>5 DEF DistributionTyped
<1>11. changes' \in 0..MaxChanges /\ root'.release \in 1..(changes' + 1)
  BY <1>1, <1>3, <1>6, <1>8, <1>9 DEF DistributionTyped
<1>12. DistributionTyped'
  BY <1>1, <1>3, <1>8, <1>9, <1>10, <1>11 DEF DistributionTyped
<1>13. RootTrue'
  BY <1>3, <1>6, <1>8, <1>9, <1>10 DEF RootTrue, Distribution!OnlyNamedSlices, Shipped
<1> QED
  BY <1>1, <1>12, <1>13, ResteesTrue DEF DistributionIsTrue

LEMMA UpgradeTrue ==
  ASSUME DistributionIsTrue, Distribution!Upgrade
  PROVE  DistributionIsTrue'
<1>1. /\ changes' = changes + 1 /\ changes < MaxChanges /\ UNCHANGED <<place, packages, commands, stops, named>>
      /\ \A p \in Procs : Distribution!Resting(p)
  BY DEF Distribution!Upgrade, Distribution!RootMayChange, Distribution!Edits
<1>2. PICK T : root' = Distribution!Published(root.release + 1, Distribution!AllBuild1, T)
  BY DEF Distribution!Upgrade
<1>3. DistributionTyped /\ RootTrue /\ changes \in Nat /\ MaxChanges \in Nat /\ root.release \in 1..(changes + 1)
  BY ShippedTargets DEF DistributionIsTrue, DistributionTyped
<1>4. root.release + 1 \in Nat /\ root.release + 1 \in 1..(changes' + 1)
  BY <1>1, <1>3
<1>5. /\ root' \in RootKind /\ root'.release = root.release + 1 /\ root'.contract = root'.release
      /\ root'.manifest.release = root'.release /\ root'.manifest.hash = Distribution!AllBuild1
      /\ \A t \in Shipped : root'.slices[t] \in {Distribution!AllBuild1[t], Distribution!Missing}
  BY <1>2, <1>4, FirstSlices, PublishedIs
<1>6. DistributionTyped'
  BY <1>1, <1>3, <1>4, <1>5 DEF DistributionTyped
<1>7. RootTrue'
  BY <1>1, <1>3, <1>5, FirstSlices DEF RootTrue, Distribution!OnlyNamedSlices, Shipped
<1> QED
  BY <1>1, <1>6, <1>7, ResteesTrue DEF DistributionIsTrue

(* The payloads of an installation may change under a hydration: it relies  *)
(* on none of them after it has copied them.                                *)
LEMMA PackagesChangeTrue ==
  ASSUME DistributionIsTrue, Distribution!PayloadMayChange, UNCHANGED <<place, root, commands, stops, named>>,
         packages' \in [Payloads -> PackageKind],
         \A d \in Payloads : /\ packages'[d].release \in 1..(changes' + 1)
                             /\ \A t \in Shipped \ TargetsOf[d] : packages'[d].slices[t] = Distribution!Missing
  PROVE  DistributionIsTrue'
<1>1. /\ changes' = changes + 1 /\ changes < MaxChanges
      /\ place = "installed" \/ \A p \in Procs : Distribution!Resting(p)
  BY DEF Distribution!PayloadMayChange, Distribution!Edits
<1>2. DistributionTyped /\ RootTrue /\ CommandsTrue /\ changes \in Nat /\ MaxChanges \in Nat
  BY ShippedTargets DEF DistributionIsTrue, DistributionTyped
<1>3. changes' \in 0..MaxChanges /\ 1..(changes + 1) \subseteq 1..(changes' + 1)
  BY <1>1, <1>2
<1>4. DistributionTyped'
  BY <1>2, <1>3 DEF DistributionTyped
<1>5. RootTrue'
  BY <1>2 DEF RootTrue, Distribution!OnlyNamedSlices
<1>6. CASE place = "installed"
  <2>1. ASSUME NEW p \in Procs PROVE CommandTrue(commands[p])'
    BY <1>2, <1>6 DEF CommandsTrue, CommandTrue, Genuine, InCheckout
  <2> QED
    BY <1>4, <1>5, <2>1 DEF DistributionIsTrue, CommandsTrue
<1>7. CASE \A p \in Procs : Distribution!Resting(p)
  BY <1>4, <1>5, <1>7, ResteesTrue DEF DistributionIsTrue
<1> QED
  BY <1>1, <1>6, <1>7

LEMMA ReinstallTrue ==
  ASSUME DistributionIsTrue, Distribution!Reinstall
  PROVE  DistributionIsTrue'
<1>1. PICK d \in Payloads, release \in {root.release, root.release + 1} :
        packages' = [packages EXCEPT ![d] = Distribution!Published(release, root.manifest.hash, TargetsOf[d])]
  BY DEF Distribution!Reinstall
<1>2. /\ Distribution!PayloadMayChange /\ UNCHANGED <<place, root, commands, stops, named>>
      /\ changes' = changes + 1
  BY DEF Distribution!Reinstall, Distribution!PayloadMayChange, Distribution!Edits
<1>3. DistributionTyped /\ changes \in Nat
  BY DEF DistributionIsTrue, DistributionTyped
<1>4. release \in Nat /\ release \in 1..(changes' + 1) /\ root.manifest.hash \in [Shipped -> Builds]
  BY <1>2, <1>3, RootFields DEF ManifestKind
<1> DEFINE f == Distribution!Published(release, root.manifest.hash, TargetsOf[d])
<1>5. /\ f \in PackageKind /\ f.release = release
      /\ \A t \in Shipped \ TargetsOf[d] : f.slices[t] = Distribution!Missing
  BY <1>4, PublishedIs
<1>6. packages' = [packages EXCEPT ![d] = f]
  BY <1>1
<1> HIDE DEF f
<1>7. packages' \in [Payloads -> PackageKind]
  BY <1>3, <1>5, <1>6 DEF DistributionTyped
<1>8. \A e \in Payloads : /\ packages'[e].release \in 1..(changes' + 1)
                          /\ \A t \in Shipped \ TargetsOf[e] : packages'[e].slices[t] = Distribution!Missing
  BY <1>2, <1>3, <1>4, <1>5, <1>6 DEF DistributionTyped
<1> QED
  BY <1>2, <1>7, <1>8, PackagesChangeTrue

LEMMA CorruptTrue ==
  ASSUME DistributionIsTrue, Distribution!Corrupt
  PROVE  DistributionIsTrue'
<1>1. PICK d \in Payloads, damage \in {Distribution!Missing, Distribution!Garbled} :
        \E t \in TargetsOf[d] : packages' = [packages EXCEPT ![d].slices[t] = damage]
  BY DEF Distribution!Corrupt
<1>2. PICK t \in TargetsOf[d] : packages' = [packages EXCEPT ![d].slices[t] = damage]
  BY <1>1
<1>3. /\ Distribution!PayloadMayChange /\ UNCHANGED <<place, root, commands, stops, named>>
      /\ changes' = changes + 1
  BY DEF Distribution!Corrupt, Distribution!PayloadMayChange, Distribution!Edits
<1>4. DistributionTyped /\ changes \in Nat /\ t \in Shipped /\ damage \in Distribution!Builds
  BY ShippedTargets
     DEF DistributionIsTrue, DistributionTyped, Distribution!Builds, Distribution!Missing
<1>5. PICK w \in PackageKind : w = packages[d]
  BY <1>4 DEF DistributionTyped
<1> DEFINE v == [w EXCEPT !.slices[t] = damage]
<1>6. /\ v \in PackageKind /\ v.release = w.release
      /\ \A u \in Shipped \ {t} : v.slices[u] = w.slices[u]
  BY <1>4 DEF PackageKind, SliceMap
<1>7. packages' = [packages EXCEPT ![d] = v]
  BY <1>2, <1>5
<1> HIDE DEF v
<1>8. packages' \in [Payloads -> PackageKind]
  BY <1>4, <1>6, <1>7 DEF DistributionTyped
<1>9. \A e \in Payloads : /\ packages'[e].release \in 1..(changes' + 1)
                          /\ \A u \in Shipped \ TargetsOf[e] : packages'[e].slices[u] = Distribution!Missing
  BY <1>3, <1>4, <1>5, <1>6, <1>7 DEF DistributionTyped
<1> QED
  BY <1>3, <1>8, <1>9, PackagesChangeTrue

LEMMA DistributionInitTrue ==
  ASSUME Distribution!Init
  PROVE  DistributionIsTrue
<1>1. /\ changes = 0 /\ stops = 0 /\ commands = [p \in Procs |-> Distribution!Idle]
      /\ named = [t \in Shipped |-> {1}] /\ place \in {"installed", "checkout"}
  BY DEF Distribution!Init, Shipped
<1>2. MaxChanges \in Nat /\ MaxStops \in Nat
  BY ShippedTargets
<1>3. PICK T : root = Distribution!Published(1, Distribution!AllBuild1, T)
  BY DEF Distribution!Init
<1>4. /\ root \in RootKind /\ root.release = 1 /\ root.contract = 1 /\ root.manifest.release = 1
      /\ root.manifest.hash = Distribution!AllBuild1
      /\ \A t \in Shipped : root.slices[t] \in {Distribution!AllBuild1[t], Distribution!Missing}
  BY <1>3, FirstSlices, PublishedIs
<1>5. /\ packages \in [Payloads -> PackageKind]
      /\ \A d \in Payloads : /\ packages[d].release = 1
                             /\ \A t \in Shipped \ TargetsOf[d] : packages[d].slices[t] = Distribution!Missing
  <2>1. CASE packages = [d \in Payloads |-> Distribution!Published(1, Distribution!AllBuild1, TargetsOf[d])]
    <3>1. \A d \in Payloads :
            LET f == Distribution!Published(1, Distribution!AllBuild1, TargetsOf[d])
            IN  /\ f \in PackageKind /\ f.release = 1
                /\ \A t \in Shipped \ TargetsOf[d] : f.slices[t] = Distribution!Missing
      BY FirstSlices, PublishedIs
    <3> QED
      BY <2>1, <3>1
  <2>2. CASE packages = [d \in Payloads |-> Distribution!Workspace(1)]
    <3>1. Distribution!Workspace(1) \in PackageKind /\ Distribution!Workspace(1).release = 1
      BY FirstSlices DEF Distribution!Workspace, PackageKind, Distribution!Missing
    <3>2. \A t \in Shipped : Distribution!Workspace(1).slices[t] = Distribution!Missing
      BY DEF Distribution!Workspace, Distribution!Restricted, Shipped
    <3> QED
      BY <2>2, <3>1, <3>2
  <2> QED
    BY <2>1, <2>2 DEF Distribution!Init
<1>6. DistributionTyped
  BY <1>1, <1>2, <1>4, <1>5, IdleCommand DEF DistributionTyped
<1>7. RootTrue
  BY <1>1, <1>4, FirstSlices DEF RootTrue, Distribution!OnlyNamedSlices, Shipped
<1>8. CommandsTrue
  BY <1>1, IdleCommand, RestsTrue DEF CommandsTrue
<1> QED
  BY <1>6, <1>7, <1>8 DEF DistributionIsTrue

LEMMA DistributionStepTrue ==
  ASSUME DistributionIsTrue, [Distribution!Next]_distributionVars
  PROVE  DistributionIsTrue'
<1>1. CASE UNCHANGED distributionVars
  <2>1. DistributionTyped' /\ RootTrue'
    BY <1>1
       DEF distributionVars, DistributionIsTrue, DistributionTyped, RootTrue,
           Distribution!OnlyNamedSlices
  <2>2. CommandsTrue'
    BY <1>1 DEF distributionVars, DistributionIsTrue, CommandsTrue, CommandTrue, Genuine, Valid,
                Distribution!PayloadValid, Distribution!MetadataMatches, Distribution!Packed,
                Distribution!RootWhole
  <2> QED
    BY <2>1, <2>2 DEF DistributionIsTrue
<1>2. CASE \E p \in Procs : Distribution!Steps(p)
  BY <1>2, CheckRootTrue, CheckPayloadTrue, AdmitPayloadTrue, AdmitWrapperTrue, CopySliceTrue,
     CheckStagedTrue, InstallSliceTrue, FinishHydrationTrue, FillPayloadTrue, PublishSliceTrue,
     PublishRestTrue, ValidatePublishedTrue DEF Distribution!Steps
<1>3. CASE \E p \in Procs : Distribution!Stops(p) \/ \E kind \in Distribution!Kinds : Distribution!Begin(p, kind)
  BY <1>3, StopsTrue, BeginTrue
<1>4. CASE Distribution!Rebuild \/ Distribution!Upgrade \/ Distribution!Reinstall \/ Distribution!Corrupt
  BY <1>4, RebuildTrue, UpgradeTrue, ReinstallTrue, CorruptTrue
<1> QED
  BY <1>1, <1>2, <1>3, <1>4 DEF Distribution!Next

LEMMA DistributionAlwaysTrue == Distribution!Spec => []DistributionIsTrue
<1>1. Distribution!Init => DistributionIsTrue
  BY DistributionInitTrue
<1>2. DistributionIsTrue /\ [Distribution!Next]_distributionVars => DistributionIsTrue'
  BY DistributionStepTrue
<1> QED
  BY <1>1, <1>2, PTL DEF Distribution!Spec, Distribution!vars, distributionVars

(* NativeDistribution!DistributionInv, as the checks state it.              *)
LEMMA TrueIsSound ==
  ASSUME DistributionIsTrue
  PROVE  Distribution!DistributionInv
<1>1. DistributionTyped /\ RootTrue /\ changes \in 0..MaxChanges /\ MaxChanges \in Nat
  BY ShippedTargets DEF DistributionIsTrue, DistributionTyped
<1>2. Distribution!Hashes = SliceMap
  BY DEF Distribution!Hashes, SliceMap, Shipped
<1>3. root.release \in 1..(MaxChanges + 1) /\ \A d \in Payloads : packages[d].release \in 1..(MaxChanges + 2)
  BY <1>1 DEF DistributionTyped
<1>4. Distribution!TypeOK
  BY <1>1, <1>2, <1>3
     DEF Distribution!TypeOK, DistributionTyped, RootKind, PackageKind, CommandKind, Shipped
<1> QED
  BY <1>1, <1>4 DEF Distribution!DistributionInv, RootTrue

(* A step that leaves its command anywhere but verified verifies nothing.   *)
Elsewhere(p) == \E r : Distribution!Goes(p, r) /\ r.pc # "verified"

LEMMA EndsElsewhere ==
  ASSUME DistributionIsTrue, NEW p \in Procs, NEW result \in Distribution!Done \ {"verified"},
         Distribution!Ends(p, result)
  PROVE  Elsewhere(p)
BY EndedCommand DEF Distribution!Ends, Elsewhere

LEMMA GotoElsewhere ==
  ASSUME DistributionIsTrue, NEW p \in Procs, NEW next \in CommandPcs \ {"verified"},
         Distribution!Goto(p, next)
  PROVE  Elsewhere(p)
BY GotoIs DEF Elsewhere, Like

LEMMA PayloadDoneElsewhere ==
  ASSUME DistributionIsTrue, NEW p \in Procs, NEW next \in CommandPcs \ {"verified"}, NEW d,
         Distribution!PayloadDone(p, d, next), commands[p].pc # "verified"
  PROVE  Elsewhere(p)
BY PayloadDoneIs DEF Elsewhere, Like

LEMMA TargetDoneElsewhere ==
  ASSUME DistributionIsTrue, NEW p \in Procs, NEW next \in CommandPcs \ {"verified"}, NEW t,
         NEW s \in CommandKind, Distribution!TargetDone(p, s, t, next), s.pc # "verified"
  PROVE  Elsewhere(p)
BY TargetDoneIs DEF Elsewhere, Like

LEMMA StepsElsewhere ==
  ASSUME DistributionIsTrue, NEW p \in Procs, Distribution!Steps(p), ~Distribution!CheckPayload(p)
  PROVE  Elsewhere(p)
<1>1. {"failed", "hydrated", "staged"} \subseteq Distribution!Done \ {"verified"}
  BY DEF Distribution!Done
<1>2. Hydrating \cup InCheckout \subseteq CommandPcs \ {"verified"}
  BY DEF CommandPcs, Hydrating, InCheckout, Publishing
<1>3. PICK c \in CommandKind : c = commands[p]
  BY CommandIs
<1>4. CASE Distribution!Ends(p, "failed")
  BY <1>1, <1>4, EndsElsewhere
<1>5. CASE ~Distribution!Ends(p, "failed") /\ Distribution!CheckRoot(p)
  <2>1. \E next \in {"check", "fill"} : Distribution!Goto(p, next)
    BY <1>5 DEF Distribution!CheckRoot, Distribution!Checked
  <2> QED
    BY <1>2, <2>1, GotoElsewhere DEF InCheckout
<1>6. CASE ~Distribution!Ends(p, "failed") /\ Distribution!AdmitPayload(p)
  <2>1. (\E d : Distribution!PayloadDone(p, d, "wrapper")) /\ commands[p].pc # "verified"
    BY <1>6 DEF Distribution!AdmitPayload, Distribution!Checked
  <2>2. "wrapper" \in CommandPcs \ {"verified"}
    BY <1>2 DEF Hydrating
  <2> QED
    BY <2>1, <2>2, PayloadDoneElsewhere
<1>7. CASE ~Distribution!Ends(p, "failed") /\ Distribution!AdmitWrapper(p)
  <2>1. Distribution!Goes(p, [c EXCEPT !.pc = "copy", !.manifest = root.manifest,
                                       !.todo = Distribution!PayloadTargets])
    BY <1>3, <1>7 DEF Distribution!AdmitWrapper, Distribution!Checked
  <2>2. [c EXCEPT !.pc = "copy", !.manifest = root.manifest, !.todo = Distribution!PayloadTargets].pc = "copy"
    BY DEF CommandKind
  <2> QED
    BY <2>1, <2>2 DEF Elsewhere
<1>8. CASE ~Distribution!Ends(p, "failed") /\ Distribution!CopySlice(p)
  <2>1. PICK t, read : Distribution!TargetDone(p, [c EXCEPT !.slices[t] = read], t, "compare")
    BY <1>3, <1>8 DEF Distribution!CopySlice
  <2> DEFINE s == [c EXCEPT !.slices[t] = read]
             r == [s EXCEPT !.todo = @ \ {t}, !.pc = IF c.todo = {t} THEN "compare" ELSE @]
  <2>2. Distribution!Goes(p, r)
    BY <1>3, <2>1 DEF Distribution!TargetDone
  <2>3. r.pc \in {"compare", c.pc} /\ c.pc = "copy"
    BY <1>3, <1>8 DEF CommandKind, Distribution!CopySlice
  <2> HIDE DEF r, s
  <2> QED
    BY <2>2, <2>3 DEF Elsewhere
<1>9. CASE ~Distribution!Ends(p, "failed") /\ Distribution!CheckStaged(p)
  <2>1. Distribution!Goes(p, [c EXCEPT !.pc = "install", !.todo = Distribution!PayloadTargets])
    BY <1>3, <1>9 DEF Distribution!CheckStaged, Distribution!Checked
  <2>2. [c EXCEPT !.pc = "install", !.todo = Distribution!PayloadTargets].pc = "install"
    BY DEF CommandKind
  <2> QED
    BY <2>1, <2>2 DEF Elsewhere
<1>10. CASE Distribution!InstallSlice(p) \/ Distribution!PublishSlice(p)
  <2>1. \E t : Distribution!TargetDone(p, c, t, "whole") \/ Distribution!TargetDone(p, c, t, "manifest")
    BY <1>3, <1>10 DEF Distribution!InstallSlice, Distribution!PublishSlice
  <2>2. c.pc # "verified"
    BY <1>3, <1>10 DEF Distribution!InstallSlice, Distribution!PublishSlice
  <2>3. {"whole", "manifest"} \subseteq CommandPcs \ {"verified"}
    BY <1>2 DEF Hydrating, InCheckout, Publishing
  <2> QED
    BY <2>1, <2>2, <2>3, TargetDoneElsewhere
<1>11. CASE Distribution!FinishHydration(p)
  BY <1>1, <1>11, EndsElsewhere DEF Distribution!FinishHydration
<1>12. CASE Distribution!PublishManifest(p) \/ Distribution!PublishContract(p)
  <2>1. \E next \in {"contract", "validate"} : Distribution!Goto(p, next)
    BY <1>12 DEF Distribution!PublishManifest, Distribution!PublishContract
  <2> QED
    BY <1>2, <2>1, GotoElsewhere DEF InCheckout, Publishing
<1>13. ASSUME NEW s, NEW left, Distribution!Publishes(p, s, left), DOMAIN s = DOMAIN c
       PROVE  Elsewhere(p)
  <2>1. PICK d \in left :
          Distribution!Goes(p, [s EXCEPT !.pc = "publish", !.at = d, !.payloads = left, !.todo = TargetsOf[d]])
    BY <1>13 DEF Distribution!Publishes
  <2>2. [s EXCEPT !.pc = "publish", !.at = d, !.payloads = left, !.todo = TargetsOf[d]].pc = "publish"
    BY <1>13 DEF CommandKind
  <2> QED
    BY <2>1, <2>2 DEF Elsewhere
<1>14. CASE ~Distribution!Ends(p, "failed") /\ Distribution!ValidatePublished(p)
  <2>1. Distribution!Ends(p, "staged") \/ \E left : Distribution!Publishes(p, c, left)
    BY <1>3, <1>14 DEF Distribution!ValidatePublished, Distribution!Checked
  <2> QED
    BY <1>1, <1>13, <2>1, EndsElsewhere
<1>15. CASE ~Distribution!Ends(p, "failed") /\ Distribution!FillPayload(p)
  <2>1. PICK d, staged :
          LET r == [commands[p] EXCEPT !.slices = staged, !.manifest = root.manifest]
          IN  IF commands[p].payloads = {d}
              THEN Distribution!Publishes(p, r, Distribution!Selected(commands[p].kind))
              ELSE Distribution!Goes(p, [r EXCEPT !.payloads = @ \ {d}])
    BY <1>15 DEF Distribution!FillPayload, Distribution!Checked
  <2> DEFINE r == [c EXCEPT !.slices = staged, !.manifest = root.manifest]
  <2>2. (\E left : Distribution!Publishes(p, r, left)) \/ Distribution!Goes(p, [r EXCEPT !.payloads = @ \ {d}])
    BY <1>3, <2>1
  <2>3. DOMAIN r = DOMAIN c /\ [r EXCEPT !.payloads = @ \ {d}].pc = c.pc /\ c.pc = "fill"
    BY <1>3, <1>15 DEF CommandKind, Distribution!FillPayload
  <2> HIDE DEF r
  <2> QED
    BY <1>13, <2>2, <2>3 DEF Elsewhere
<1> QED
  BY <1>4, <1>5, <1>6, <1>7, <1>8, <1>9, <1>10, <1>11, <1>12, <1>14, <1>15
     DEF Distribution!Steps

LEMMA BeginElsewhere ==
  ASSUME DistributionIsTrue, NEW p \in Procs, NEW kind, Distribution!Begin(p, kind)
  PROVE  Elsewhere(p)
<1>1. PICK i \in CommandKind : i = Distribution!Idle
  BY IdleCommand
<1> DEFINE r == [i EXCEPT !.kind = kind, !.release = root.release, !.payloads = Distribution!Selected(kind),
                          !.pc = IF kind = "hydrate" THEN "admit" ELSE "root"]
<1>2. Distribution!Goes(p, r)
  BY <1>1 DEF Distribution!Begin
<1>3. r.pc \in {"admit", "root"}
  BY DEF CommandKind
<1> HIDE DEF r
<1> QED
  BY <1>2, <1>3 DEF Elsewhere

NewlyVerified(p) == commands'[p].pc = "verified" /\ commands[p].pc # "verified"

LEMMA OnlyChecksVerify ==
  ASSUME DistributionIsTrue, [Distribution!Next]_distributionVars, NEW p \in Procs, NewlyVerified(p)
  PROVE  Distribution!CheckPayload(p)
<1>1. commands \in [Procs -> CommandKind]
  BY DEF DistributionIsTrue, DistributionTyped
<1>2. ~Elsewhere(p)
  BY <1>1 DEF Elsewhere, Distribution!Goes, NewlyVerified
<1>3. ASSUME NEW q \in Procs, NEW r, Distribution!Goes(q, r) PROVE q = p
  BY <1>1, <1>3 DEF Distribution!Goes, NewlyVerified
<1>4. ASSUME NEW q \in Procs, Elsewhere(q) PROVE FALSE
  BY <1>2, <1>3, <1>4 DEF Elsewhere
<1>5. commands' # commands
  BY DEF NewlyVerified
<1>6. CASE \E q \in Procs : Distribution!Steps(q)
  <2>1. PICK q \in Procs : Distribution!Steps(q)
    BY <1>6
  <2>2. Distribution!CheckPayload(q)
    BY <1>4, <2>1, StepsElsewhere
  <2>3. \E r : Distribution!Goes(q, r)
    BY <2>2
       DEF Distribution!CheckPayload, Distribution!Checked, Distribution!Ends,
           Distribution!PayloadDone
  <2> QED
    BY <1>3, <2>2, <2>3
<1>7. CASE \E q \in Procs : Distribution!Stops(q) \/ \E kind \in Distribution!Kinds : Distribution!Begin(q, kind)
  <2>1. "failed" \in Distribution!Done \ {"verified"}
    BY DEF Distribution!Done
  <2> QED
    BY <1>4, <1>7, <2>1, EndsElsewhere, BeginElsewhere DEF Distribution!Stops
<1>8. CASE \/ Distribution!Rebuild \/ Distribution!Upgrade \/ Distribution!Reinstall \/ Distribution!Corrupt
           \/ UNCHANGED distributionVars
  BY <1>5, <1>8
     DEF Distribution!Rebuild, Distribution!Upgrade, Distribution!Reinstall,
         Distribution!Corrupt,
                    distributionVars
<1> QED
  BY <1>6, <1>7, <1>8 DEF Distribution!Next

LEMMA VerifiedSet ==
  ASSUME DistributionIsTrue, [Distribution!Next]_distributionVars, NEW p \in Procs, NewlyVerified(p)
  PROVE  Distribution!RootWhole /\ Distribution!PayloadsSound
<1>1. Distribution!CheckPayload(p) /\ commands[p].pc = "check" /\ CommandTrue(commands[p])
  BY OnlyChecksVerify, CommandIs DEF Distribution!CheckPayload
<1>2. commands[p].release = root.release /\ Distribution!RootWhole
      /\ \A d \in Payloads \ commands[p].payloads : Valid(d)
  BY <1>1 DEF CommandTrue, InCheckout
<1>3. ~Elsewhere(p)
  BY DEF Elsewhere, Distribution!Goes, NewlyVerified, DistributionIsTrue, DistributionTyped
<1>4. "failed" \in Distribution!Done \ {"verified"} /\ "check" \in CommandPcs \ {"verified"}
  BY DEF Distribution!Done, CommandPcs, InCheckout
<1>5. \A d : ~Distribution!PayloadDone(p, d, "check")
  BY <1>1, <1>3, <1>4, PayloadDoneElsewhere
<1>6. ~Distribution!Ends(p, "failed")
  BY <1>3, <1>4, EndsElsewhere
<1>7. PICK d : commands[p].payloads = {d} /\ Distribution!PayloadValid(packages[d], d, root.release)
  BY <1>1, <1>2, <1>5, <1>6 DEF Distribution!CheckPayload, Distribution!Checked
<1>8. \A e \in Payloads : Valid(e)
  BY <1>2, <1>7 DEF Valid
<1>9. Distribution!Packed(root, root.release, WrapperTargets)
  BY <1>2, ShippedTargets DEF Distribution!RootWhole, Distribution!Packed, Shipped
<1> QED
  BY <1>2, <1>8, <1>9 DEF Distribution!PayloadsSound, Valid

(* A change of the wrapper keeps its set whole or brings a new manifest.    *)
LEMMA WholeIsKept ==
  ASSUME DistributionIsTrue, [Distribution!Next]_distributionVars, Distribution!RootWhole,
         root'.manifest = root.manifest
  PROVE  Distribution!RootWhole'
<1>1. CASE root' = root
  BY <1>1 DEF Distribution!RootWhole, Distribution!Packed
<1>2. CASE \E p \in Procs : Distribution!InstallSlice(p)
  <2>1. PICK t \in Distribution!PayloadTargets : root' = [root EXCEPT !.slices[t] = root.manifest.hash[t]]
    BY <1>2, InstallMeans
  <2>2. /\ root'.release = root.release /\ root'.slices[t] = root.manifest.hash[t]
        /\ \A u \in Shipped \ {t} : root'.slices[u] = root.slices[u]
    BY <2>1, InstalledRoot
  <2>3. root.manifest.hash[t] # Distribution!Missing
    BY RootFields, ShippedTargets
  <2> QED
    BY <2>2, <2>3 DEF Distribution!RootWhole, Distribution!Packed, Shipped
<1>3. CASE Distribution!Rebuild
  <2>1. PICK t \in Shipped :
          root' = [root EXCEPT !.slices[t] = root.slices[t] + 1, !.manifest.hash[t] = root.slices[t] + 1]
    BY <1>3 DEF Distribution!Rebuild, Shipped
  <2>2. PICK w \in RootKind : w = root
    BY DEF DistributionIsTrue, DistributionTyped
  <2>3. PICK b \in Builds : b = w.slices[t] /\ w.manifest.hash[t] = b
    BY <2>2, RootFields, WholeIs DEF Genuine
  <2>4. b + 1 # b
    BY ShippedTargets DEF Builds
  <2>5. root' = [w EXCEPT !.slices[t] = b + 1, !.manifest.hash[t] = b + 1]
    BY <2>1, <2>2, <2>3
  <2>6. [w EXCEPT !.slices[t] = b + 1, !.manifest.hash[t] = b + 1].manifest.hash[t] = b + 1
    BY DEF RootKind, ManifestKind
  <2> QED
    BY <2>2, <2>3, <2>4, <2>5, <2>6
<1>4. CASE Distribution!Upgrade
  <2>1. PICK T : root' = Distribution!Published(root.release + 1, Distribution!AllBuild1, T)
    BY <1>4 DEF Distribution!Upgrade
  <2>2. root.release + 1 \in Nat /\ root.release + 1 # root.release
    BY RootFields DEF DistributionIsTrue, DistributionTyped
  <2>3. root'.manifest.release = root.release + 1
    BY <2>1, <2>2, FirstSlices, PublishedIs
  <2> QED
    BY <2>2, <2>3, RootFields
<1> QED
  BY <1>1, <1>2, <1>3, <1>4
     DEF Distribution!Next, Distribution!Steps, Distribution!CheckRoot, Distribution!CheckPayload,
         Distribution!AdmitPayload, Distribution!AdmitWrapper, Distribution!CopySlice,
         Distribution!CheckStaged, Distribution!FinishHydration, Distribution!FillPayload,
         Distribution!PublishSlice, Distribution!PublishManifest, Distribution!PublishContract,
         Distribution!ValidatePublished, Distribution!Stops, Distribution!Begin,
         Distribution!Reinstall, Distribution!Corrupt, distributionVars

(* However commands, failures and changes of the packages interleave, a     *)
(* slice of the wrapper is one that a manifest of the wrapper named.        *)
THEOREM DistributionHolds == Distribution!Spec => []Distribution!DistributionInv
BY DistributionAlwaysTrue, TrueIsSound, PTL

(* A complete set in the wrapper stays complete, and a publication check    *)
(* passes only with every payload matching the wrapper at that moment.      *)
THEOREM SetsHold == Distribution!Spec => SetsAreWhole
<1>1. DistributionIsTrue /\ [Distribution!Next]_distributionVars =>
        [Distribution!RootWhole /\ root'.manifest = root.manifest => Distribution!RootWhole']_distributionVars
  BY WholeIsKept
<1>2. DistributionIsTrue /\ [Distribution!Next]_distributionVars =>
        [\A p \in Procs : commands'[p].pc = "verified" /\ commands[p].pc # "verified" =>
           Distribution!RootWhole /\ Distribution!PayloadsSound]_distributionVars
  BY VerifiedSet DEF NewlyVerified
<1> QED
  BY <1>1, <1>2, DistributionAlwaysTrue, PTL
     DEF SetsAreWhole, Distribution!SetsAreWhole, Distribution!WholeStaysWhole,
         Distribution!VerifiedIsOneSet, Distribution!Spec, Distribution!vars, distributionVars

(* What vouches for a built artifact and what arrives in the package is true *)
(* of it (native-overlay.js, native-distribution.js).                       *)
THEOREM ArtifactsHold == Overlay!Spec /\ Distribution!Spec => []ArtifactsAreGenuine
<1>1. Overlay!OverlayInv /\ Distribution!DistributionInv => ArtifactsAreGenuine
  BY DEF ArtifactsAreGenuine
<1> QED
  BY <1>1, OverlayHolds, DistributionHolds, PTL

=============================================================================
