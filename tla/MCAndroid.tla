------------------------------ MODULE MCAndroid ------------------------------
(* Instance of the two Android components for TLC.  They share no state: a  *)
(* behaviour is of one of them while the other stays where it starts.       *)
EXTENDS AndroidElf, TLC

CONSTANTS Abis, Stagers, MaxRebuilds
VARIABLES source, stamp, linked, output, temp, backup, stagers, rebuilds, seen, moved

stagingVars == <<source, stamp, linked, output, temp, backup, stagers, rebuilds, seen, moved>>

Staging == INSTANCE AndroidStaging
  WITH run <- stagers, edits <- rebuilds, MaxEdits <- MaxRebuilds

ASSUME StagingIsBounded == Staging!StagingAssumption

(* One good object, changed in its layout, its dynamic table or its symbols.*)
Bounds == {0, 12288, 14336, 16384, 18432, 32768, 34816}
Seg(a, b, off, align) ==
  [addr |-> a, size |-> b - a, offset |-> off, align |-> align, exec |-> FALSE, write |-> TRUE]
Sec(name, a, b) == [name |-> name, addr |-> a, size |-> b - a, alloc |-> TRUE, write |-> TRUE]
Spans == {s \in Bounds \X Bounds : s[1] < s[2]}
Middle == {s \in Spans : s[1] > 0 /\ s[2] < 34816}

Good(arch) ==
  [arch |-> arch, loads |-> {Seg(0, 65536, 0, 16384)}, relros |-> {Seg(16384, 32768, 16384, 1)},
   dynamics |-> {Seg(18432, 20480, 18432, 1)}, stacks |-> {Seg(0, 0, 0, 1)},
   sections |-> {Sec(".dynamic", 18432, 20480), Sec(".got", 16384, 18432), Sec(".data", 32768, 40960)},
   table |-> <<[tag |-> "flags1", flags |-> {"nodelete", "now"}], [tag |-> "null", flags |-> {}]>>,
   needed |-> SystemLibraries, exports |-> RequiredExports,
   imports |-> {[name |-> "js_typeof", weak |-> FALSE], [name |-> "malloc", weak |-> FALSE]},
   runtime |-> [global |-> TRUE, symbols |-> {[name |-> "js_typeof", visible |-> TRUE]}]]

Layouts ==
  {[Good(arch) EXCEPT !.relros = {Seg(r[1], r[2], r[1], 1)},
                      !.sections = {Sec(".dynamic", 18432, 20480), Sec(".got", g[1], g[2]),
                                    Sec(".data", d[1], d[2])}] :
     arch \in {"android-arm64", "android-arm"}, r \in Spans, g \in Middle, d \in {s \in Spans : s[2] - s[1] <= 16384}}
Loads ==
  {[Good("android-arm64") EXCEPT !.loads = {Seg(l[1], l[2], off, align)}, !.dynamics = {Seg(y[1], y[2], y[1], 1)}] :
     l \in Spans, off \in {0, 2048}, align \in {4096, 16384}, y \in Middle}

Words == {[tag |-> "flags1", flags |-> f] : f \in {{}, {"nodelete"}, {"now"}, {"nodelete", "now"}}}
         \cup {[tag |-> "flags", flags |-> f] : f \in {{}, {"now"}, {"textrel"}}}
         \cup {[tag |-> t, flags |-> {}] : t \in {"null", "bindnow", "textrel", "rpath", "runpath"}}
Tables == {[Good("android-arm") EXCEPT !.table = <<a, b, c>>] : a \in Words, b \in Words, c \in Words}

Symbols ==
  {[Good("android-x64") EXCEPT !.imports = {[name |-> n, weak |-> w]}, !.exports = e,
                               !.needed = IF more THEN @ \cup {"other.so"} ELSE @,
                               !.runtime = [global |-> g, symbols |-> {[name |-> s, visible |-> v]}]] :
     n \in {"js_typeof", "malloc", "memfd_create", "other"}, w \in BOOLEAN,
     e \in SUBSET RequiredExports, more \in BOOLEAN, g \in BOOLEAN,
     s \in {"js_typeof", "other"}, v \in BOOLEAN}

Bare ==
  [arch |-> "android-arm64", loads |-> {}, relros |-> {}, dynamics |-> {}, stacks |-> {},
   sections |-> {}, table |-> <<>>, needed |-> {}, exports |-> {}, imports |-> {},
   runtime |-> [global |-> FALSE, symbols |-> {}]]

MCFiles == {Bare} \cup Layouts \cup Loads \cup Tables \cup Symbols

StagingSymmetry == Permutations(Abis) \cup Permutations(Stagers)

FirstObject ==
  /\ file = Bare /\ target = "android-arm64" /\ route = "prebuilt"
  /\ checks = Order(route, target) /\ verdict = "checking"
Unstaged == linked = [abi \in Abis |-> {"addon", "other"}] /\ Staging!Init

AndroidInit == \/ Unstaged /\ ElfInit
               \/ FirstObject /\ Staging!Init
AndroidNext == \/ Unstaged /\ ElfNext /\ UNCHANGED stagingVars
               \/ FirstObject /\ Staging!Next /\ UNCHANGED elfVars
AndroidSpec == AndroidInit /\ [][AndroidNext]_<<elfVars, stagingVars>>

(* What the output of a staging run holds (AndroidStaging).                 *)
StagingInv == Staging!StagingInv

(* Staging replaces one verified set by another (AndroidStaging).           *)
OneSetAtATime == Staging!OneSetAtATime
=============================================================================
