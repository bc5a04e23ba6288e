----------------------------- MODULE AndroidElf -----------------------------
(***************************************************************************)
(* The checks an Android shared object passes before it is shipped, in the *)
(* order each route makes them, and what the platform's loader makes of    *)
(* the object afterwards.                                                  *)
(*                                                                         *)
(* Routes: "prebuilt", verifyArtifacts of native-overlay.js; "linked",     *)
(* check-android-linked.js on what bare-link rewrote; "staged",            *)
(* stage-android-addons.js.  Numbers that are not safe integers are        *)
(* rejected before anything else and do not appear here.  The dynamic      *)
(* table is read from the file and is a sequence of entries; flags words   *)
(* are the sets of bits that matter.                                       *)
(***************************************************************************)
EXTENDS Naturals, Sequences, FiniteSets

CONSTANTS Files   \* the objects considered

Targets == {"android-arm64", "android-arm", "android-x64"}
Page(target) == IF target = "android-arm" THEN 4096 ELSE 16384

Segment == [addr : Nat, size : Nat, offset : Nat, align : Nat, exec : BOOLEAN, write : BOOLEAN]
Section == [name : STRING, addr : Nat, size : Nat, alloc : BOOLEAN, write : BOOLEAN]
FileType ==
  [arch : Targets, loads : SUBSET Segment, relros : SUBSET Segment, dynamics : SUBSET Segment,
   stacks : SUBSET Segment, sections : SUBSET Section,
   table : Seq([tag : STRING, flags : SUBSET STRING]),
   needed : SUBSET STRING, exports : SUBSET STRING,
   imports : SUBSET [name : STRING, weak : BOOLEAN],
   runtime : [global : BOOLEAN, symbols : SUBSET [name : STRING, visible : BOOLEAN]]]

ASSUME FilesAssumption == Files \subseteq FileType

VARIABLES
  file, target, route,
  checks,    \* the checks still to be made, in order
  verdict

elfVars == <<file, target, route, checks, verdict>>

Order(r, t) ==
  CASE r = "prebuilt" -> IF t = "android-arm" THEN <<"lifetime">> ELSE <<"elf", "lifetime">>
    [] r = "linked" -> <<"elf", "lifetime", "protection">>
    [] r = "staged" -> <<"layout", "protection", "lifetime", "flags", "imports">>

(* check-android-linked.js takes the 64-bit targets only.                   *)
ElfInit ==
  /\ file \in Files /\ target \in Targets
  /\ route \in {"prebuilt", "linked", "staged"}
  /\ route = "linked" => target # "android-arm"
  /\ checks = Order(route, target)
  /\ verdict = "checking"

-----------------------------------------------------------------------------
(* The checks *)

PageStart(addr, page) == page * (addr \div page)
PageEnd(addr, page) == page * ((addr + page - 1) \div page)
EndOf(part) == part.addr + part.size
Inside(part, whole) == whole.addr <= part.addr /\ EndOf(part) <= EndOf(whole)

Aligned(load, page) == load.addr % page = load.offset % page

(* validateAndroidElf: identity, LOAD alignment and RELRO end, 64 bits only.*)
ValidElf ==
  /\ file.arch = target /\ target # "android-arm"
  /\ file.loads # {} /\ file.relros # {}
  /\ \A load \in file.loads : load.align >= 16384 /\ Aligned(load, 16384)
  /\ \A relro \in file.relros : EndOf(relro) % 16384 = 0

ProtectedNames ==
  {".dynamic", ".got", ".got.plt", ".data.rel.ro", ".init_array", ".fini_array", ".relro_padding"}

ProtectionFromExactStart(page) == \* mutant: the loader's rounding of the start is forgotten
  /\ Cardinality(file.relros) = 1 /\ Cardinality(file.dynamics) = 1
  /\ \A r \in file.relros :
       /\ r.size > 0
       /\ \E load \in file.loads : load.size > 0 /\ Inside(r, load)
       /\ \A d \in file.dynamics : d.size > 0 /\ Inside(d, r)
       /\ \A s \in file.sections : s.size > 0 /\ s.alloc =>
            IF s.name \in ProtectedNames THEN Inside(s, r)
            ELSE s.write => EndOf(s) <= r.addr \/ EndOf(r) <= s.addr
  /\ {".dynamic", ".got"} \subseteq {s.name : s \in file.sections}

(* validateAndroidProtection: everything the loader must seal is inside the *)
(* one RELRO segment, and no mutable section shares a page with it.         *)
ValidProtection(page) ==
  /\ Cardinality(file.relros) = 1 /\ Cardinality(file.dynamics) = 1
  /\ \A r \in file.relros :
       /\ r.size > 0
       /\ \E load \in file.loads : load.size > 0 /\ Inside(r, load)
       /\ \A d \in file.dynamics : d.size > 0 /\ Inside(d, r)
       /\ \A s \in file.sections : s.size > 0 /\ s.alloc =>
            IF s.name \in ProtectedNames THEN Inside(s, r)
            ELSE s.write => EndOf(s) <= PageStart(r.addr, page) \/ EndOf(r) <= s.addr
  /\ {".dynamic", ".got"} \subseteq {s.name : s \in file.sections}

(* What is before the first DT_NULL; nothing when there is none.            *)
Nulls == {i \in DOMAIN file.table : file.table[i].tag = "null"}
Entries == {i \in DOMAIN file.table : \A n \in Nulls : i < n}
Tagged(tag) == {i \in Entries : file.table[i].tag = tag}

(* validateAndroidLifetime: one DT_FLAGS_1 before the terminator, with      *)
(* DF_1_NODELETE.                                                           *)
ValidLifetime ==
  /\ Cardinality(file.dynamics) = 1
  /\ Nulls # {} /\ Cardinality(Tagged("flags1")) = 1
  /\ \A i \in Tagged("flags1") : "nodelete" \in file.table[i].flags

(* validateLayout up to its calls of the two above.                         *)
ValidLayout ==
  /\ file.arch = target
  /\ file.loads # {} /\ Cardinality(file.relros) = 1 /\ Cardinality(file.stacks) = 1
  /\ \A stack \in file.stacks : ~stack.exec
  /\ \A load \in file.loads :
       /\ load.align >= Page(target) /\ load.align % Page(target) = 0
       /\ Aligned(load, Page(target))
       /\ ~(load.write /\ load.exec)
  /\ \A relro \in file.relros : relro.size > 0 /\ EndOf(relro) % Page(target) = 0

HasFlag(tag, bit) ==
  /\ Cardinality(Tagged(tag)) = 1
  /\ \A i \in Tagged(tag) : bit \in file.table[i].flags

(* Immediate binding, no text relocations, no search paths; duplicate flag  *)
(* words are refused.                                                       *)
ValidFlags ==
  /\ Cardinality(Tagged("flags")) <= 1 /\ Cardinality(Tagged("flags1")) <= 1
  /\ HasFlag("flags", "now") \/ HasFlag("flags1", "now") \/ Tagged("bindnow") # {}
  /\ Tagged("textrel") = {} /\ ~HasFlag("flags", "textrel")
  /\ Tagged("rpath") = {} /\ Tagged("runpath") = {}

SystemLibraries == {"libc.so", "libdl.so", "liblog.so", "libm.so", "libz.so"}
SystemSymbols == {"malloc"}
JsImports == {"js_typeof"}
OptionalImports == {"memfd_create"}
RequiredExports == {"bare_register_module_v0"}

ExportedHiddenToo(module) == {s.name : s \in module.symbols} \* mutant: hidden symbols count as exported

(* exportedSymbols: default or protected visibility.                        *)
Exported(module) == {s.name : s \in {t \in module.symbols : t.visible}}

(* validateImports: JS symbols come from BareKit, which is in the global    *)
(* group, and all others from the five system libraries.                    *)
ValidImports ==
  /\ file.needed = SystemLibraries /\ file.runtime.global
  /\ RequiredExports \subseteq file.exports
  /\ \A i \in file.imports :
       \/ i.weak /\ i.name \in OptionalImports
       \/ i.name \in JsImports /\ i.name \in Exported(file.runtime)
       \/ i.name \notin JsImports /\ i.name \in SystemSymbols

Passes(check) ==
  CASE check = "elf" -> ValidElf
    [] check = "lifetime" -> ValidLifetime
    [] check = "protection" -> ValidProtection(IF route = "linked" THEN 16384 ELSE Page(target))
    [] check = "layout" -> ValidLayout
    [] check = "flags" -> ValidFlags
    [] check = "imports" -> ValidImports

Accept ==
  /\ verdict = "checking" /\ checks # <<>> /\ Passes(Head(checks))
  /\ checks' = Tail(checks)
  /\ verdict' = IF Len(checks) = 1 THEN "accepted" ELSE "checking"
  /\ UNCHANGED <<file, target, route>>

Reject ==
  /\ verdict = "checking" /\ checks # <<>> /\ ~Passes(Head(checks))
  /\ verdict' = "rejected"
  /\ UNCHANGED <<file, target, route, checks>>

ElfNext == Accept \/ Reject

ElfSpec == ElfInit /\ [][ElfNext]_elfVars

-----------------------------------------------------------------------------
(* The loader: which pages it makes read-only, which code it keeps, where it*)
(* finds symbols.  64-bit devices have pages of 4 or of 16 KiB.             *)

DevicePages == IF target = "android-arm" THEN {4096} ELSE {4096, 16384}

Seals(r, page, part) == PageStart(r.addr, page) <= part.addr /\ EndOf(part) <= PageEnd(EndOf(r), page)
SparesMutable(r, page, part) ==
  EndOf(part) <= PageStart(r.addr, page) \/ PageEnd(EndOf(r), page) <= part.addr

(* Of several flag words the last one before the terminator counts.         *)
LastWins(tag, bit) ==
  \E i \in Tagged(tag) : (\A j \in Tagged(tag) : j <= i) /\ bit \in file.table[i].flags

Resolves(name) == name \in SystemSymbols \/ (file.runtime.global /\ name \in {s.name : s \in {t \in file.runtime.symbols : t.visible}})

-----------------------------------------------------------------------------
(* Properties *)

(* An object that a protecting route accepts is sealed as a whole and only  *)
(* what is meant to be sealed: on every page size the target runs with, no  *)
(* mutable section lies on a read-only page and DYNAMIC, GOT and the other  *)
(* relocated tables do ("RELRO/DYNAMIC/GOT protection", android/README.md). *)
AcceptedIsProtected ==
  verdict = "accepted" /\ route \in {"linked", "staged"} =>
    \A r \in file.relros, page \in DevicePages :
      /\ \A d \in file.dynamics : Seals(r, page, d)
      /\ \A s \in file.sections : s.size > 0 /\ s.alloc =>
           IF s.name \in ProtectedNames THEN Seals(r, page, s)
           ELSE s.write => SparesMutable(r, page, s)

(* An accepted object is never unloaded by the loader, which keeps the code *)
(* of Rust's thread-local destructors: also with several flag words.        *)
AcceptedStaysLoaded ==
  verdict = "accepted" => Nulls # {} /\ LastWins("flags1", "nodelete")

(* Every import a staged addon cannot do without is found at load time, and *)
(* it is bound then, with no relocation left in its text.                   *)
StagedIsLoadable ==
  verdict = "accepted" /\ route = "staged" =>
    /\ \A i \in file.imports : i.weak \/ Resolves(i.name)
    /\ LastWins("flags", "now") \/ LastWins("flags1", "now") \/ Tagged("bindnow") # {}
    /\ Tagged("textrel") = {} /\ ~LastWins("flags", "textrel")

=============================================================================
