---------------------------- MODULE Facade_proofs ----------------------------
(* The safety properties of Facade for every set of signers, contract and   *)
(* bound, and of the JSON boundary for every width, integer and text.       *)
EXTENDS MCFacade, Sequences, FiniteSetTheorems, NaturalsInduction, WellFoundedInduction, TLAPS

(* The node's flag against native, as every action keeps it: a clone is     *)
(* attached to an open node only, so that a new node starts without one.    *)
NodeInv ==
  /\ node = "closed" => native = "freed"
  /\ node = "open" <=> native \in {"live", "failed"}
  /\ node # "open" => attached = {}
  /\ native \in {"live", "failed"} => attached \cap revoked = {}

(* The signers' flags against native.                                       *)
SignerInv ==
  /\ shut \subseteq revoked
  /\ destroyed \subseteq created
  /\ destroyed \cap arc = {}

(* Nothing native exists before the module has compared the artifact.       *)
BuildInv ==
  /\ module = "loaded" => artifact = {}
  /\ node # "none" \/ native # "none" \/ arc # {} \/ created # {} => module = "loaded"

FacadeInv == NodeInv /\ SignerInv /\ BuildInv

LEMMA FacadeInit == Init => FacadeInv
  BY DEF Init, FacadeInv, NodeInv, SignerInv, BuildInv

LEMMA FacadeStep == FacadeInv /\ [Next]_vars => FacadeInv'
<1> SUFFICES ASSUME FacadeInv, [Next]_vars PROVE FacadeInv'
  OBVIOUS
<1> USE DEF FacadeInv, NodeInv, SignerInv, BuildInv, signers, build, lifecycle, operation, program
<1>1. CASE Load
  BY <1>1 DEF Load
<1>2. CASE Create
  BY <1>2 DEF Create, Usable
<1>3. CASE detachExternalSigner
  BY <1>3 DEF detachExternalSigner
<1>4. CASE Shutdown
  BY <1>4 DEF Shutdown
<1>5. CASE Leave
  BY <1>5 DEF Leave
<1>6. ASSUME NEW method \in Methods, NEW arg \in Args, Perform(method, arg) PROVE FacadeInv'
  BY <1>6 DEF Perform
<1>7. ASSUME NEW s \in Signers, UseSigner(s) PROVE FacadeInv'
  BY <1>7 DEF UseSigner, Usable
<1>8. ASSUME NEW s \in Signers, SignerShutdown(s) PROVE FacadeInv'
  BY <1>8 DEF SignerShutdown
<1>9. ASSUME NEW s \in Signers, SignerDestroy(s) PROVE FacadeInv'
  BY <1>9 DEF SignerDestroy
<1>10. ASSUME NEW s \in Signers, NEW p \in BOOLEAN, SignerCreate(s, p)
       PROVE FacadeInv'
  BY <1>10 DEF SignerCreate, Usable
<1>11. CASE UNCHANGED vars
  BY <1>11 DEF vars
<1> QED
  BY <1>1, <1>2, <1>3, <1>4, <1>5, <1>6, <1>7, <1>8, <1>9, <1>10, <1>11 DEF Next

(* No order of failing and repeated calls revokes a signer under a node     *)
(* that lives or failed to stop (SdkNode.shutdown,                          *)
(* NativeExternalSigner.shutdown).                                          *)
THEOREM SignerOutlives == Spec => []SignerOutlivesNode
<1>1. FacadeInv => SignerOutlivesNode
  BY DEF FacadeInv, NodeInv, SignerOutlivesNode
<1> QED
  BY <1>1, FacadeInit, FacadeStep, PTL DEF Spec

(* The _closed, _shutdown and _destroyed flags tell what native holds, and  *)
(* nothing native exists over an artifact of another build.                 *)
THEOREM FlagsHold == Spec => []FlagsTellTheTruth
<1>1. FacadeInv => FlagsTellTheTruth
  BY DEF FacadeInv, NodeInv, SignerInv, BuildInv, FlagsTellTheTruth
<1> QED
  BY <1>1, FacadeInit, FacadeStep, PTL DEF Spec

(* The operation ran at most once, and not at all while it is still wanted. *)
OnceInv ==
  /\ effects \in {0, 1}
  /\ wanted # "done" => effects = 0 /\ told # "ok"
  /\ told = "ok" => effects = 1

LEMMA OnceInit == Init => OnceInv
  BY DEF Init, OnceInv

LEMMA OnceStep ==
  ASSUME "exponent" \notin Answers, OnceInv, [Next]_vars
  PROVE  OnceInv'
<1> USE DEF OnceInv, lifecycle, operation, program
<1>1. ASSUME NEW method \in Methods, NEW arg \in Args, Perform(method, arg) PROVE OnceInv'
  <2>1. \A number \in Answers : Parsed(number) = "ok"
    BY DEF Parsed
  <2>2. Refusal(Shapes[method], arg) \in Local \cup {"none"}
    BY <1>1 DEF Refusal, Local, Args, Stub, Json, JsonVoid
  <2>3. effects = 0 /\ told # "ok"
    BY <1>1 DEF Perform
  <2>4. "ok" \notin Local /\ "native" \notin Local /\ "closed" \notin Local
    BY DEF Local
  <2>5. CASE told' \in Local /\ UNCHANGED effects
    BY <1>1, <2>3, <2>4, <2>5 DEF Perform
  <2>6. CASE told' = "closed" /\ UNCHANGED effects
    BY <1>1, <2>3, <2>4, <2>6 DEF Perform
  <2>7. CASE told' = "native" /\ effects' \in {effects, effects + 1}
    BY <1>1, <2>3, <2>4, <2>7 DEF Perform
  <2>8. CASE told' = "ok" /\ effects' = effects + 1
    BY <1>1, <2>3, <2>4, <2>8 DEF Perform
  <2> QED
    BY <1>1, <2>1, <2>2, <2>5, <2>6, <2>7, <2>8 DEF Perform
<1>2. CASE UNCHANGED operation
  BY <1>2
<1>3. Load \/ Create \/ detachExternalSigner \/ Shutdown \/ Leave => UNCHANGED operation
  BY DEF Load, Create, detachExternalSigner, Shutdown, Leave
<1>4. \A s \in Signers : UseSigner(s) \/ SignerShutdown(s) \/ SignerDestroy(s) => UNCHANGED operation
  BY DEF UseSigner, SignerShutdown, SignerDestroy
<1>5. \A s \in Signers, p \in BOOLEAN : SignerCreate(s, p) => UNCHANGED operation
  BY DEF SignerCreate
<1>6. UNCHANGED vars => UNCHANGED operation
  BY DEF vars
<1> QED
  BY <1>1, <1>2, <1>3, <1>4, <1>5, <1>6 DEF Next

(* A program that repeats only what the facade refused runs its operation   *)
(* at most once, as long as native writes the integers of its answers       *)
(* without an exponent (parse's digit tokens).                              *)
THEOREM RunsOnce ==
  ASSUME "exponent" \notin Answers
  PROVE  Spec => []RanOnce
<1>1. OnceInv => RanOnce
  BY DEF OnceInv, RanOnce
<1>2. OnceInv /\ [Next]_vars => OnceInv'
  BY OnceStep
<1> QED
  BY <1>1, <1>2, OnceInit, PTL DEF Spec

-----------------------------------------------------------------------------
(* Why leaving releases                                                     *)

(* What the native references of the host and of the node hang on.          *)
ReferenceInv ==
  /\ stored \subseteq created /\ arc \subseteq created /\ shut \subseteq created
  /\ created \subseteq Signers /\ attached \subseteq Signers
  /\ leaving => module = "loaded"

(* A program that leaves always has a call left that it may make and that   *)
(* can still do something, until everything is released that can be:        *)
(* shutdown() of a node not yet told to stop, shutdown() of a signer no     *)
(* open node uses, or destroy() of a signer shut down.                      *)
LeavingCanStep ==
  leaving /\ ~Released =>
    \/ node = "open" /\ native = "live"
    \/ \E s \in created \ (shut \cup destroyed) : s \notin attached
    \/ \E s \in created \ destroyed : s \in shut

(* Each of those calls leaves less to do, also when it throws: the node is  *)
(* freed or its stop failed for good, one more signer is revoked, shut down *)
(* or destroyed, and nothing is opened again.                               *)
LeavingAdvances ==
  [][leaving =>
       /\ revoked \subseteq revoked' /\ shut \subseteq shut'
       /\ destroyed \subseteq destroyed' /\ created' = created
       /\ native' # native => native = "live" /\ native' \in {"freed", "failed"}
       /\ native' # native \/ revoked' # revoked \/ shut' # shut \/ destroyed' # destroyed]_vars

LEMMA ReferenceStep == FacadeInv /\ ReferenceInv /\ [Next]_vars => ReferenceInv'
<1> SUFFICES ASSUME FacadeInv, ReferenceInv, [Next]_vars PROVE ReferenceInv'
  OBVIOUS
<1> USE DEF ReferenceInv, signers, build, lifecycle, operation, program
<1>1. CASE Load
  BY <1>1 DEF Load
<1>2. CASE Create
  BY <1>2 DEF Create
<1>3. CASE detachExternalSigner
  BY <1>3 DEF detachExternalSigner
<1>4. CASE Shutdown
  BY <1>4 DEF Shutdown
<1>5. CASE Leave
  BY <1>5 DEF Leave, Usable
<1>6. ASSUME NEW method \in Methods, NEW arg \in Args, Perform(method, arg) PROVE ReferenceInv'
  BY <1>6 DEF Perform
<1>7. ASSUME NEW s \in Signers, UseSigner(s) PROVE ReferenceInv'
  BY <1>7 DEF UseSigner
<1>8. ASSUME NEW s \in Signers, SignerShutdown(s) PROVE ReferenceInv'
  BY <1>8 DEF SignerShutdown
<1>9. ASSUME NEW s \in Signers, SignerDestroy(s) PROVE ReferenceInv'
  BY <1>9 DEF SignerDestroy
<1>10. ASSUME NEW s \in Signers, NEW p \in BOOLEAN, SignerCreate(s, p) PROVE ReferenceInv'
  BY <1>10 DEF SignerCreate
<1>11. CASE UNCHANGED vars
  BY <1>11 DEF vars
<1> QED
  BY <1>1, <1>2, <1>3, <1>4, <1>5, <1>6, <1>7, <1>8, <1>9, <1>10, <1>11 DEF Next

(* No order of failing, repeated and premature calls leaves the node or the *)
(* store lock behind a call the program can no longer make                  *)
(* (SdkNode.shutdown, NativeExternalSigner.shutdown and destroy).           *)
THEOREM LeavingNeverStuck == Spec => []LeavingCanStep
<1>1. Init => ReferenceInv
  BY DEF Init, ReferenceInv
<1>2. FacadeInv /\ ReferenceInv => LeavingCanStep
  <2> SUFFICES ASSUME FacadeInv, ReferenceInv, ~Released, native # "live"
               PROVE  \/ \E s \in created \ (shut \cup destroyed) : s \notin attached
                      \/ \E s \in created \ destroyed : s \in shut
    BY DEF LeavingCanStep, FacadeInv, NodeInv
  <2>1. native # "failed" => attached = {}
    BY DEF FacadeInv, NodeInv
  <2>2. PICK s : s \in arc /\ s \notin attached
    BY <2>1 DEF Released
  <2>3. s \in created \ destroyed
    BY <2>2 DEF FacadeInv, SignerInv, ReferenceInv
  <2> QED
    BY <2>2, <2>3
<1> QED
  BY <1>1, <1>2, FacadeInit, FacadeStep, ReferenceStep, PTL DEF Spec

(* Every call of a leaving program that changes anything leaves less to     *)
(* release, those that throw included: it is done after at most one call    *)
(* for the node and three for each signer (SdkNode.shutdown,                *)
(* NativeExternalSigner.shutdown and destroy).                              *)
THEOREM LeavingMovesOn == Spec => LeavingAdvances
<1> DEFINE Onward ==
      leaving =>
       /\ revoked \subseteq revoked' /\ shut \subseteq shut'
       /\ destroyed \subseteq destroyed' /\ created' = created
       /\ native' # native => native = "live" /\ native' \in {"freed", "failed"}
       /\ native' # native \/ revoked' # revoked \/ shut' # shut \/ destroyed' # destroyed
<1>1. FacadeInv /\ ReferenceInv /\ [Next]_vars => [Onward]_vars
  <2> SUFFICES ASSUME FacadeInv, ReferenceInv, Next, leaving, vars' # vars PROVE Onward
    OBVIOUS
  <2>1. Shutdown \/ \E s \in Signers : SignerShutdown(s) \/ SignerDestroy(s)
    BY DEF Next, Load, Create, detachExternalSigner, Leave, Perform, UseSigner, SignerCreate,
           Usable, ReferenceInv
  <2>2. CASE Shutdown
    BY <2>2 DEF Shutdown, FacadeInv, NodeInv, vars, lifecycle, signers
  <2>3. ASSUME NEW s \in Signers, SignerShutdown(s) PROVE Onward
    BY <2>3 DEF SignerShutdown
  <2>4. ASSUME NEW s \in Signers, SignerDestroy(s) PROVE Onward
    BY <2>4 DEF SignerDestroy
  <2> QED
    BY <2>1, <2>2, <2>3, <2>4
<1>2. Init => ReferenceInv
  BY DEF Init, ReferenceInv
<1> QED
  BY <1>1, <1>2, FacadeInit, FacadeStep, ReferenceStep, PTL DEF Spec, LeavingAdvances

-----------------------------------------------------------------------------
(* The JSON boundary.  Power and the scan of a text are recursive: what     *)
(* they compute is shown by induction on a set of naturals, from the fact   *)
(* that every set of naturals has a least member.                           *)

LEMMA Inductive ==
  ASSUME NEW T, 0 \in T, \A k \in Nat : k \in T => k + 1 \in T
  PROVE  Nat \subseteq T
<1> DEFINE R == {ss \in Nat \X Nat : ss[1] < ss[2]}
           F == Nat \ T
<1> SUFFICES ASSUME F # {} PROVE FALSE
  OBVIOUS
<1>1. IsWellFoundedOn(R, Nat)
  BY NatLessThanWellFounded DEF OpToRel
<1>2. PICK x \in F : \A y \in F : <<y, x>> \notin R
  <2> HIDE DEF R
  <2> QED
    BY <1>1, WFMin
<1>3. x # 0 /\ x - 1 \in Nat
  OBVIOUS
<1>4. <<x - 1, x>> \in R
  BY <1>3
<1> QED
  BY <1>2, <1>3, <1>4

(* The first powers of two as a function, for every length.                 *)
Doubles(f, k) == f \in [0 .. k -> Nat] /\ f[0] = 1 /\ \A i \in 0 .. k - 1 : f[i + 1] = 2 * f[i]

LEMMA DoublesExist == \A k \in Nat : \E f : Doubles(f, k)
<1> DEFINE T == {k \in Nat : \E f : Doubles(f, k)}
<1>1. 0 \in T
  <2>1. Doubles([i \in 0 .. 0 |-> 1], 0)
    BY DEF Doubles
  <2> QED
    BY <2>1
<1>2. \A k \in Nat : k \in T => k + 1 \in T
  <2> SUFFICES ASSUME NEW k \in Nat, NEW f, Doubles(f, k) PROVE k + 1 \in T
    OBVIOUS
  <2> DEFINE g == [i \in 0 .. k + 1 |-> IF i = k + 1 THEN 2 * f[k] ELSE f[i]]
  <2>1. f \in [0 .. k -> Nat] /\ f[0] = 1 /\ \A i \in 0 .. k - 1 : f[i + 1] = 2 * f[i]
    BY DEF Doubles
  <2>2. g \in [0 .. k + 1 -> Nat] /\ g[0] = 1
    BY <2>1
  <2>3. ASSUME NEW i \in 0 .. k PROVE g[i + 1] = 2 * g[i]
    <3>1. CASE i = k
      BY <3>1, <2>1
    <3>2. CASE i \in 0 .. k - 1
      BY <3>2, <2>1
    <3> QED
      BY <3>1, <3>2
  <2>4. Doubles(g, k + 1)
    BY <2>2, <2>3 DEF Doubles
  <2> QED
    BY <2>4
<1> HIDE DEF T
<1>3. Nat \subseteq T
  BY <1>1, <1>2, Inductive
<1> QED
  BY <1>3 DEF T

LEMMA DoublesAgree ==
  ASSUME NEW k \in Nat, NEW f, Doubles(f, k), NEW g, Doubles(g, k + 1)
  PROVE  f[k] = g[k]
<1> DEFINE T == {i \in Nat : i <= k => f[i] = g[i]}
<1>1. 0 \in T
  BY DEF Doubles
<1>2. \A i \in Nat : i \in T => i + 1 \in T
  BY DEF Doubles
<1> HIDE DEF T
<1>3. Nat \subseteq T
  BY <1>1, <1>2, Inductive
<1> QED
  BY <1>3 DEF T

LEMMA PowerEquation ==
  Boundary!Power = [e \in Nat |-> IF e = 0 THEN 1 ELSE 2 * Boundary!Power[e - 1]]
<1> DEFINE F(k) == CHOOSE f : Doubles(f, k)
           p == [e \in Nat |-> F(e)[e]]
<1>1. ASSUME NEW k \in Nat PROVE Doubles(F(k), k)
  BY DoublesExist
<1>2. ASSUME NEW e \in Nat PROVE p[e] = IF e = 0 THEN 1 ELSE 2 * p[e - 1]
  <2>1. CASE e = 0
    BY <2>1, <1>1 DEF Doubles
  <2>2. CASE e # 0
    <3> DEFINE k == e - 1
    <3>1. k \in Nat /\ k + 1 = e
      BY <2>2
    <3>2. Doubles(F(k), k) /\ Doubles(F(k + 1), k + 1)
      BY <3>1, <1>1
    <3>3. F(k)[k] = F(k + 1)[k]
      BY <3>1, <3>2, DoublesAgree
    <3>4. F(k + 1)[k + 1] = 2 * F(k + 1)[k]
      <4>1. \A f : Doubles(f, k + 1) => f[k + 1] = 2 * f[k]
        BY <3>1 DEF Doubles
      <4> QED
        BY <4>1, <3>2
    <3>5. p[k] = F(k)[k] /\ p[e] = F(k + 1)[k + 1]
      BY <3>1
    <3> QED
      BY <2>2, <3>3, <3>4, <3>5
  <2> QED
    BY <2>1, <2>2
<1>3. p = [e \in Nat |-> IF e = 0 THEN 1 ELSE 2 * p[e - 1]]
  <2> HIDE DEF F
  <2> SUFFICES \A e \in Nat : p[e] = IF e = 0 THEN 1 ELSE 2 * p[e - 1]
    OBVIOUS
  <2> QED
    BY <1>2
<1> HIDE DEF p
<1> QED
  BY <1>3 DEF Boundary!Power

LEMMA PowerStep ==
  /\ Boundary!Power[0] = 1
  /\ \A e \in Nat : Boundary!Power[e + 1] = 2 * Boundary!Power[e]
<1> DEFINE body == [e \in Nat |-> IF e = 0 THEN 1 ELSE 2 * Boundary!Power[e - 1]]
<1>1. body[0] = 1 /\ \A e \in Nat : body[e + 1] = 2 * Boundary!Power[e]
  OBVIOUS
<1>2. Boundary!Power = body
  BY PowerEquation
<1> HIDE DEF body
<1> QED
  BY <1>1, <1>2

(* A power is positive and above its exponent.                              *)
LEMMA PowerGrows == \A e \in Nat : Boundary!Power[e] \in Nat /\ Boundary!Power[e] > e
<1> DEFINE T == {e \in Nat : Boundary!Power[e] \in Nat /\ Boundary!Power[e] > e}
<1>1. 0 \in T
  BY PowerStep
<1>2. \A e \in Nat : e \in T => e + 1 \in T
  BY PowerStep
<1> HIDE DEF T
<1>3. Nat \subseteq T
  BY <1>1, <1>2, Inductive
<1> QED
  BY <1>3 DEF T

LEMMA PowerSum ==
  \A a \in Nat : \A b \in Nat : Boundary!Power[a + b] = Boundary!Power[a] * Boundary!Power[b]
<1> SUFFICES ASSUME NEW a \in Nat
             PROVE  \A b \in Nat : Boundary!Power[a + b] = Boundary!Power[a] * Boundary!Power[b]
  OBVIOUS
<1> DEFINE T == {b \in Nat : Boundary!Power[a + b] = Boundary!Power[a] * Boundary!Power[b]}
<1>1. 0 \in T
  BY PowerStep, PowerGrows
<1>2. ASSUME NEW b \in T PROVE b + 1 \in T
  <2>1. Boundary!Power[(a + b) + 1] = 2 * Boundary!Power[a + b]
    BY PowerStep
  <2>2. Boundary!Power[b + 1] = 2 * Boundary!Power[b]
    BY PowerStep
  <2>3. Boundary!Power[a] \in Nat /\ Boundary!Power[b] \in Nat
    BY PowerGrows
  <2>4. \A x \in Nat, y \in Nat : 2 * (x * y) = x * (2 * y)
    OBVIOUS
  <2>5. 2 * (Boundary!Power[a] * Boundary!Power[b]) = Boundary!Power[a] * (2 * Boundary!Power[b])
    BY <2>3, <2>4
  <2>6. Boundary!Power[a + b] = Boundary!Power[a] * Boundary!Power[b]
    OBVIOUS
  <2>7. Boundary!Power[a + (b + 1)] = Boundary!Power[a] * Boundary!Power[b + 1]
    <3>1. a + (b + 1) = (a + b) + 1
      OBVIOUS
    <3> QED
      BY <3>1, <2>1, <2>2, <2>5, <2>6
  <2> QED
    BY <2>7
<1> HIDE DEF T
<1>3. Nat \subseteq T
  BY <1>1, <1>2, Inductive
<1> QED
  BY <1>3 DEF T

LEMMA PowerMonotone ==
  ASSUME NEW a \in Nat, NEW b \in Nat, a <= b
  PROVE  Boundary!Power[a] <= Boundary!Power[b]
<1> DEFINE d == b - a
<1>1. d \in Nat /\ b = a + d
  OBVIOUS
<1> HIDE DEF d
<1>2. Boundary!Power[b] = Boundary!Power[a] * Boundary!Power[d]
  BY <1>1, PowerSum
<1>3. Boundary!Power[a] \in Nat /\ Boundary!Power[d] \in Nat /\ Boundary!Power[d] >= 1
  BY <1>1, PowerGrows
<1>4. \A x \in Nat, y \in Nat : y >= 1 => x <= x * y
  OBVIOUS
<1> QED
  BY <1>2, <1>3, <1>4

LEMMA AbsIsNatural == \A n \in Int : Boundary!Abs(n) \in Nat
  BY DEF Boundary!Abs

(* The unit in the last place of an integer.                                *)
Exponent(n) == CHOOSE e \in 0 .. Boundary!Abs(n) :
                 /\ Boundary!Abs(n) < Boundary!Power[Precision + e]
                 /\ e > 0 => Boundary!Power[Precision + e - 1] <= Boundary!Abs(n)

LEMMA ExponentExists ==
  ASSUME Precision \in Nat, NEW n \in Int
  PROVE  /\ Exponent(n) \in 0 .. Boundary!Abs(n)
         /\ Boundary!Abs(n) < Boundary!Power[Precision + Exponent(n)]
         /\ Exponent(n) > 0 => Boundary!Power[Precision + Exponent(n) - 1] <= Boundary!Abs(n)
<1> DEFINE m == Boundary!Abs(n)
           Above(e) == m < Boundary!Power[Precision + e]
           Least(e) == e \in 0 .. m /\ Above(e) /\ (e > 0 => Boundary!Power[Precision + e - 1] <= m)
           T == {e \in Nat : Above(e) => \E i \in 0 .. e : Above(i) /\ (i > 0 => ~Above(i - 1))}
<1>1. m \in Nat
  BY AbsIsNatural
<1> HIDE DEF m
<1>2. 0 \in T
  OBVIOUS
<1>3. ASSUME NEW e \in Nat, e \in T PROVE e + 1 \in T
  <2> SUFFICES ASSUME Above(e + 1) PROVE \E i \in 0 .. e + 1 : Above(i) /\ (i > 0 => ~Above(i - 1))
    OBVIOUS
  <2>1. CASE Above(e)
    <3>1. PICK i \in 0 .. e : Above(i) /\ (i > 0 => ~Above(i - 1))
      BY <1>3, <2>1
    <3>2. i \in 0 .. e + 1
      OBVIOUS
    <3> QED
      BY <3>1, <3>2
  <2>2. CASE ~Above(e)
    <3>1. e + 1 \in 0 .. e + 1 /\ e + 1 - 1 = e
      OBVIOUS
    <3> QED
      BY <2>2, <3>1
  <2> QED
    BY <2>1, <2>2
<1>4. Nat \subseteq T
  <2> HIDE DEF T
  <2> QED
    BY <1>2, <1>3, Inductive
<1>5. Above(m)
  <2>1. Boundary!Power[Precision + m] > Precision + m
    BY <1>1, PowerGrows
  <2>2. Boundary!Power[Precision + m] \in Nat
    BY <1>1, PowerGrows
  <2> QED
    BY <1>1, <2>1, <2>2
<1>6. PICK i \in 0 .. m : Above(i) /\ (i > 0 => ~Above(i - 1))
  BY <1>1, <1>4, <1>5
<1>7. Least(i)
  <2>1. CASE i > 0
    <3>1. i - 1 \in Nat /\ Precision + (i - 1) = Precision + i - 1 /\ Precision + (i - 1) \in Nat
      BY <1>1, <2>1
    <3>2. Boundary!Power[Precision + (i - 1)] \in Nat
      BY <3>1, PowerGrows
    <3> QED
      BY <1>1, <1>6, <3>1, <3>2
  <2> QED
    BY <1>6, <2>1
<1>8. Exponent(n) = CHOOSE e \in 0 .. m : Above(e) /\ (e > 0 => Boundary!Power[Precision + e - 1] <= m)
  BY DEF Exponent, m
<1> QED
  BY <1>7, <1>8 DEF m

(* Rounding cuts to a multiple of the unit and may go up by one unit.       *)
LEMMA RoundBy ==
  ASSUME Precision \in Nat, NEW n \in Int
  PROVE  LET ulp == Boundary!Power[Exponent(n)]
             low == ulp * (Boundary!Abs(n) \div ulp)
         IN /\ low \in Nat /\ low <= Boundary!Abs(n)
            /\ ulp = 1 => Boundary!Round(n) = n
            /\ Boundary!Abs(Boundary!Round(n)) >= low
            /\ Boundary!Round(n) \in Int
<1> DEFINE ulp == Boundary!Power[Exponent(n)]
           m == Boundary!Abs(n)
           low == ulp * (m \div ulp)
           rest == 2 * (m - low)
           up == rest > ulp \/ (rest = ulp /\ (low \div ulp) % 2 = 1)
           near == IF up THEN low + ulp ELSE low
<1>1. m \in Nat
  BY AbsIsNatural
<1>2. ulp \in Nat /\ ulp > 0
  BY <1>1, ExponentExists, PowerGrows
<1>3. Boundary!Round(n) = IF n < 0 THEN -near ELSE near
  BY DEF Boundary!Round, Exponent
<1>4. m = IF n < 0 THEN -n ELSE n
  BY DEF Boundary!Abs
<1> HIDE DEF m, ulp
<1>5. low \in Nat /\ low <= m /\ m < low + ulp
  BY <1>1, <1>2
<1>6. ulp = 1 => low = m /\ near = m
  <2> SUFFICES ASSUME ulp = 1 PROVE low = m /\ near = m
    OBVIOUS
  <2>1. low = m
    BY <1>1, <1>5
  <2> QED
    BY <1>1, <2>1
<1> HIDE DEF low
<1>7. near \in Nat /\ near >= low
  BY <1>2, <1>5
<1>8. ulp = 1 => Boundary!Round(n) = n
  BY <1>3, <1>4, <1>6
<1> HIDE DEF near
<1>9. Boundary!Abs(Boundary!Round(n)) >= low /\ Boundary!Round(n) \in Int
  BY <1>3, <1>5, <1>7 DEF Boundary!Abs
<1> QED
  BY <1>5, <1>8, <1>9 DEF low, ulp, m

(* A safe integer is exact in a JavaScript number.                          *)
LEMMA SafeIsExact ==
  ASSUME Precision \in Nat, NEW n \in Int, Boundary!Safe(n)
  PROVE  Boundary!Round(n) = n
<1>1. Exponent(n) = 0
  <2> SUFFICES ASSUME Exponent(n) # 0 PROVE FALSE
    OBVIOUS
  <2>1. Exponent(n) - 1 \in Nat /\ Precision + Exponent(n) - 1 \in Nat /\ Precision <= Precision + Exponent(n) - 1
    BY ExponentExists, AbsIsNatural
  <2>2. Boundary!Power[Precision] <= Boundary!Power[Precision + Exponent(n) - 1]
    BY <2>1, PowerMonotone
  <2>3. Boundary!Power[Precision + Exponent(n) - 1] <= Boundary!Abs(n)
    BY <2>1, ExponentExists, AbsIsNatural
  <2>4. Boundary!Power[Precision] \in Nat /\ Boundary!Power[Precision + Exponent(n) - 1] \in Nat
    BY <2>1, PowerGrows
  <2> QED
    BY <2>2, <2>3, <2>4, AbsIsNatural DEF Boundary!Safe
<1> QED
  BY <1>1, PowerStep, RoundBy

(* Rounding never makes an unsafe integer safe, so that what checkedNumber  *)
(* refuses is every integer that lost digits.                               *)
LEMMA UnsafeStaysUnsafe ==
  ASSUME Precision \in Nat \ {0}, NEW n \in Int, ~Boundary!Safe(n)
  PROVE  ~Boundary!Safe(Boundary!Round(n))
<1> DEFINE m == Boundary!Abs(n)
           e == Exponent(n)
           top == Boundary!Power[Precision - 1]
           ulp == Boundary!Power[e]
           whole == Boundary!Power[Precision]
<1>1. m \in Nat /\ e \in Nat
  BY ExponentExists, AbsIsNatural
<1>2. whole \in Nat /\ ulp \in Nat /\ ulp > 0 /\ top \in Nat
  BY <1>1, PowerGrows
<1>3. m >= whole
  BY <1>1, <1>2 DEF Boundary!Safe
<1>4. e > 0
  <2>1. m < Boundary!Power[Precision + e]
    BY ExponentExists
  <2>2. e = 0 => Precision + e = Precision
    OBVIOUS
  <2> QED
    BY <1>1, <1>2, <1>3, <2>1, <2>2
<1>5. Boundary!Power[Precision + e - 1] <= m
  BY <1>4, ExponentExists
<1>6. ulp * top = Boundary!Power[Precision + e - 1]
  <2>1. Precision - 1 \in Nat /\ e + (Precision - 1) = Precision + e - 1
    BY <1>1
  <2> QED
    BY <1>1, <2>1, PowerSum
<1>7. Boundary!Power[Precision + e - 1] >= whole
  <2>1. Precision + e - 1 \in Nat /\ Precision <= Precision + e - 1
    BY <1>1, <1>4
  <2>2. Boundary!Power[Precision + e - 1] \in Nat
    BY <2>1, PowerGrows
  <2> QED
    BY <1>2, <2>1, <2>2, PowerMonotone
<1> HIDE DEF m, ulp, top, whole
<1>8. ulp * (m \div ulp) >= ulp * top
  <2>1. m >= ulp * top
    BY <1>5, <1>6
  <2>2. m \div ulp >= top /\ m \div ulp \in Nat
    BY <1>1, <1>2, <2>1
  <2>3. \A x \in Nat, y \in Nat, z \in Nat : y >= z => x * y >= x * z
    OBVIOUS
  <2> QED
    BY <1>2, <2>2, <2>3
<1>9. Boundary!Abs(Boundary!Round(n)) >= ulp * (m \div ulp) /\ Boundary!Round(n) \in Int
  BY RoundBy DEF m, ulp
<1>10. ulp * (m \div ulp) \in Nat
  BY RoundBy DEF m, ulp
<1>11. Boundary!Abs(Boundary!Round(n)) >= whole
  BY <1>2, <1>6, <1>7, <1>8, <1>9, <1>10, AbsIsNatural
<1> QED
  BY <1>2, <1>9, <1>11, AbsIsNatural DEF Boundary!Safe, whole

-----------------------------------------------------------------------------
(* Texts *)

(* One row of the scan: what it answers at unit i after so many bytes,      *)
(* given the rows behind it.                                                *)
Row(text, limit, step, i) ==
  [bytes \in Nat |->
    IF bytes > limit THEN "range"
    ELSE IF i > Len(text) THEN "sent"
    ELSE IF text[i] = "high" THEN (IF i < Len(text) /\ text[i + 1] = "low" THEN step[i + 2][bytes + 4] ELSE "type")
    ELSE IF text[i] = "low" THEN "type" ELSE step[i + 1][bytes + Boundary!Bytes(text[i])]]

Scans(text, limit, step) == step = [i \in 1 .. Len(text) + 1 |-> Row(text, limit, step, i)]

(* The rows can be filled in from the end of the text.                      *)
LEMMA ScansExist ==
  ASSUME NEW text, Len(text) \in Nat, NEW limit
  PROVE  \E step : Scans(text, limit, step)
<1> DEFINE n == Len(text)
           Rows(f, k) == /\ f = [i \in 1 .. n + 1 |-> f[i]]
                         /\ \A i \in 1 .. n + 1 : i >= n + 2 - k => f[i] = Row(text, limit, f, i)
           T == {k \in Nat : \E f : Rows(f, k)}
<1>1. 0 \in T
  <2> DEFINE f == [i \in 1 .. n + 1 |-> 0]
  <2>1. f = [i \in 1 .. n + 1 |-> f[i]]
    OBVIOUS
  <2>2. \A i \in 1 .. n + 1 : ~(i >= n + 2 - 0)
    OBVIOUS
  <2>3. Rows(f, 0)
    BY <2>1, <2>2
  <2> QED
    BY <2>3
<1>2. ASSUME NEW k \in T PROVE k + 1 \in T
  <2>1. PICK f : Rows(f, k)
    OBVIOUS
  <2> DEFINE l == n + 1 - k
             g == [i \in 1 .. n + 1 |-> IF i = l THEN Row(text, limit, f, i) ELSE f[i]]
  <2>2. g = [i \in 1 .. n + 1 |-> g[i]]
    OBVIOUS
  <2>3. \A i \in 1 .. n + 1 : g[i] = IF i = l THEN Row(text, limit, f, i) ELSE f[i]
    OBVIOUS
  <2>0. k \in Nat /\ l \in Int
    OBVIOUS
  <2> HIDE DEF g
  <2>4. ASSUME NEW i \in 1 .. n + 1, i >= l PROVE g[i] = Row(text, limit, g, i)
    <3>1. \A j \in 1 .. n + 1 : j > l => g[j] = f[j]
      BY <2>3
    <3>2. Row(text, limit, g, i) = Row(text, limit, f, i)
      <4>1. i > Len(text) \/ i + 1 \in 1 .. n + 1
        OBVIOUS
      <4>2. i + 1 \in 1 .. n + 1 => g[i + 1] = f[i + 1]
        BY <2>4, <3>1, <2>0
      <4>3. i < Len(text) => g[i + 2] = f[i + 2]
        <5>1. i < Len(text) => i + 2 \in 1 .. n + 1 /\ i + 2 > l
          BY <2>4, <2>0
        <5> QED
          BY <5>1, <3>1
      <4> QED
        BY <4>1, <4>2, <4>3 DEF Row
    <3>3. i # l => g[i] = f[i] /\ f[i] = Row(text, limit, f, i)
      <4>1. i # l => i >= n + 2 - k
        BY <2>0, <2>4
      <4> QED
        BY <2>1, <2>3, <4>1
    <3> QED
      BY <2>3, <3>2, <3>3
  <2>5. \A i \in 1 .. n + 1 : i >= n + 2 - (k + 1) => i >= l
    BY <2>0
  <2>6. Rows(g, k + 1)
    BY <2>2, <2>4, <2>5
  <2>7. k + 1 \in Nat
    BY <2>0
  <2> HIDE DEF Rows
  <2> QED
    BY <2>6, <2>7
<1>3. Nat \subseteq T
  <2> HIDE DEF T
  <2> QED
    BY <1>1, <1>2, Inductive
<1>4. PICK f : Rows(f, n + 1)
  <2>1. n + 1 \in T
    BY <1>3
  <2> QED
    BY <2>1
<1>5. \A i \in 1 .. n + 1 : f[i] = Row(text, limit, f, i)
  <2>1. \A i \in 1 .. n + 1 : i >= n + 2 - (n + 1)
    OBVIOUS
  <2> QED
    BY <1>4, <2>1
<1>6. f = [i \in 1 .. n + 1 |-> f[i]]
  BY <1>4
<1>7. Scans(text, limit, f)
  <2> HIDE DEF Rows
  <2>1. [i \in 1 .. n + 1 |-> f[i]] = [i \in 1 .. n + 1 |-> Row(text, limit, f, i)]
    BY <1>5
  <2> QED
    BY <1>6, <2>1 DEF Scans
<1> QED
  BY <1>7

LEMMA ScanEquation ==
  ASSUME NEW text, Len(text) \in Nat, NEW limit
  PROVE  \E step : /\ Boundary!Scan(text, limit) = step[1][0]
                   /\ \A i \in 1 .. Len(text) + 1 : step[i] = Row(text, limit, step, i)
<1> DEFINE step == CHOOSE step : Scans(text, limit, step)
<1>1. Boundary!Scan(text, limit) = step[1][0]
  BY DEF Boundary!Scan, Scans, Row
<1>2. Scans(text, limit, step)
  BY ScansExist
<1> HIDE DEF step
<1>3. \A i \in 1 .. Len(text) + 1 : step[i] = Row(text, limit, step, i)
  BY <1>2 DEF Scans
<1> QED
  BY <1>1, <1>3

(* The text from unit i on: its surrogates are paired among themselves, and *)
(* the length of its UTF-8 form.                                            *)
PairedFrom(text, i) ==
  \A j \in i .. Len(text) :
    /\ text[j] = "high" => j + 1 \in i .. Len(text) /\ text[j + 1] = "low"
    /\ text[j] = "low" => j - 1 \in i .. Len(text) /\ text[j - 1] = "high"
CountFrom(text, unit, i) == Cardinality({j \in i .. Len(text) : text[j] = unit})
CountsFrom(text, i) == [unit \in Boundary!Units |-> CountFrom(text, unit, i)]
Weight(c) == c["ascii"] + 2 * c["two"] + 3 * c["three"] + 4 * c["high"]
LengthFrom(text, i) == Weight(CountsFrom(text, i))

LEMMA CountStep ==
  ASSUME NEW text, Len(text) \in Nat, NEW unit, NEW i \in 1 .. Len(text)
  PROVE  CountFrom(text, unit, i) = CountFrom(text, unit, i + 1) + (IF text[i] = unit THEN 1 ELSE 0)
<1> DEFINE A == {j \in i .. Len(text) : text[j] = unit}
           B == {j \in i + 1 .. Len(text) : text[j] = unit}
<1>1. IsFiniteSet(i + 1 .. Len(text))
  BY FS_Interval
<1>2. IsFiniteSet(B)
  BY <1>1, FS_Subset
<1>3. CASE text[i] = unit
  <2>1. A = B \cup {i}
    BY <1>3
  <2>2. i \notin B
    OBVIOUS
  <2>3. Cardinality(B \cup {i}) = Cardinality(B) + 1
    BY <1>2, <2>2, FS_AddElement
  <2> QED
    BY <1>3, <2>1, <2>3 DEF CountFrom
<1>4. CASE text[i] # unit
  <2>1. A = B
    BY <1>4
  <2>2. Cardinality(B) \in Nat
    BY <1>2, FS_CardinalityType
  <2>3. CountFrom(text, unit, i) = Cardinality(A) /\ CountFrom(text, unit, i + 1) = Cardinality(B)
    BY DEF CountFrom
  <2> HIDE DEF A, B
  <2> QED
    BY <1>4, <2>1, <2>2, <2>3
<1> QED
  BY <1>3, <1>4

LEMMA CountType ==
  ASSUME NEW text, Len(text) \in Nat, NEW unit, NEW i \in 1 .. Len(text) + 1
  PROVE  CountFrom(text, unit, i) \in Nat
<1>1. IsFiniteSet(i .. Len(text))
  BY FS_Interval
<1>2. IsFiniteSet({j \in i .. Len(text) : text[j] = unit})
  BY <1>1, FS_Subset
<1> QED
  BY <1>2, FS_CardinalityType DEF CountFrom

(* One unit more in a text makes it longer by the bytes of that unit, four   *)
(* for both halves of a pair.                                               *)
LEMMA WeightStep ==
  ASSUME NEW unit \in Boundary!Units, NEW c, NEW d,
         \A u \in Boundary!Units : c[u] \in Nat /\ d[u] \in Nat,
         \A u \in Boundary!Units : c[u] = d[u] + (IF unit = u THEN 1 ELSE 0)
  PROVE  /\ Weight(c) \in Nat /\ Weight(d) \in Nat
         /\ unit = "high" => Weight(c) = Weight(d) + 4
         /\ unit = "low" => Weight(c) = Weight(d)
         /\ unit \notin {"high", "low"} =>
              /\ Boundary!Bytes(unit) \in Nat
              /\ Weight(c) = Weight(d) + Boundary!Bytes(unit)
<1>1. /\ c["ascii"] \in Nat /\ c["two"] \in Nat /\ c["three"] \in Nat /\ c["high"] \in Nat
      /\ d["ascii"] \in Nat /\ d["two"] \in Nat /\ d["three"] \in Nat /\ d["high"] \in Nat
  BY DEF Boundary!Units
<1>2. /\ c["ascii"] = d["ascii"] + (IF unit = "ascii" THEN 1 ELSE 0)
      /\ c["two"] = d["two"] + (IF unit = "two" THEN 1 ELSE 0)
      /\ c["three"] = d["three"] + (IF unit = "three" THEN 1 ELSE 0)
      /\ c["high"] = d["high"] + (IF unit = "high" THEN 1 ELSE 0)
  BY DEF Boundary!Units
<1>3. CASE unit = "ascii"
  <2>1. Boundary!Bytes(unit) = 1
    BY <1>3 DEF Boundary!Bytes
  <2>2. Weight(c) \in Nat /\ Weight(d) \in Nat /\ Weight(c) = Weight(d) + 1
    <3>1. c["ascii"] = d["ascii"] + 1 /\ c["two"] = d["two"] /\ c["three"] = d["three"] /\ c["high"] = d["high"]
      BY <1>1, <1>2, <1>3
    <3> QED
      BY <1>1, <3>1 DEF Weight
  <2> QED
    BY <1>3, <2>1, <2>2
<1>4. CASE unit = "two"
  <2>1. Boundary!Bytes(unit) = 2
    BY <1>4 DEF Boundary!Bytes
  <2>2. Weight(c) \in Nat /\ Weight(d) \in Nat /\ Weight(c) = Weight(d) + 2
    <3>1. c["ascii"] = d["ascii"] /\ c["two"] = d["two"] + 1 /\ c["three"] = d["three"] /\ c["high"] = d["high"]
      BY <1>1, <1>2, <1>4
    <3> QED
      BY <1>1, <3>1 DEF Weight
  <2> QED
    BY <1>4, <2>1, <2>2
<1>5. CASE unit = "three"
  <2>1. Boundary!Bytes(unit) = 3
    BY <1>5 DEF Boundary!Bytes
  <2>2. Weight(c) \in Nat /\ Weight(d) \in Nat /\ Weight(c) = Weight(d) + 3
    <3>1. c["ascii"] = d["ascii"] /\ c["two"] = d["two"] /\ c["three"] = d["three"] + 1 /\ c["high"] = d["high"]
      BY <1>1, <1>2, <1>5
    <3> QED
      BY <1>1, <3>1 DEF Weight
  <2> QED
    BY <1>5, <2>1, <2>2
<1>6. CASE unit = "high"
  BY <1>1, <1>2, <1>6 DEF Weight
<1>7. CASE unit = "low"
  BY <1>1, <1>2, <1>7 DEF Weight
<1> QED
  BY <1>3, <1>4, <1>5, <1>6, <1>7 DEF Boundary!Units

LEMMA LengthStep ==
  ASSUME NEW text, Len(text) \in Nat, NEW i \in 1 .. Len(text), text[i] \in Boundary!Units
  PROVE  /\ LengthFrom(text, i) \in Nat /\ LengthFrom(text, i + 1) \in Nat
         /\ text[i] = "high" => LengthFrom(text, i) = LengthFrom(text, i + 1) + 4
         /\ text[i] = "low" => LengthFrom(text, i) = LengthFrom(text, i + 1)
         /\ text[i] \notin {"high", "low"} =>
              /\ Boundary!Bytes(text[i]) \in Nat
              /\ LengthFrom(text, i) = LengthFrom(text, i + 1) + Boundary!Bytes(text[i])
<1> DEFINE c == CountsFrom(text, i)
           d == CountsFrom(text, i + 1)
<1>1. \A u \in Boundary!Units : c[u] \in Nat /\ d[u] \in Nat
  <2>1. i + 1 \in 1 .. Len(text) + 1
    OBVIOUS
  <2> QED
    BY <2>1, CountType DEF CountsFrom
<1>2. \A u \in Boundary!Units : c[u] = d[u] + (IF text[i] = u THEN 1 ELSE 0)
  BY CountStep DEF CountsFrom
<1>3. LengthFrom(text, i) = Weight(c) /\ LengthFrom(text, i + 1) = Weight(d)
  BY DEF LengthFrom
<1> HIDE DEF c, d
<1>4. /\ Weight(c) \in Nat /\ Weight(d) \in Nat
      /\ text[i] = "high" => Weight(c) = Weight(d) + 4
      /\ text[i] = "low" => Weight(c) = Weight(d)
      /\ text[i] \notin {"high", "low"} =>
           Boundary!Bytes(text[i]) \in Nat /\ Weight(c) = Weight(d) + Boundary!Bytes(text[i])
  BY <1>1, <1>2, WeightStep
<1> QED
  BY <1>3, <1>4

LEMMA PairedStep ==
  ASSUME NEW text, Len(text) \in Nat, NEW i \in 1 .. Len(text)
  PROVE  /\ text[i] = "low" => ~PairedFrom(text, i)
         /\ text[i] \notin {"high", "low"} => (PairedFrom(text, i) <=> PairedFrom(text, i + 1))
         /\ text[i] = "high" /\ ~(i < Len(text) /\ text[i + 1] = "low") => ~PairedFrom(text, i)
         /\ text[i] = "high" /\ i < Len(text) /\ text[i + 1] = "low" =>
              (PairedFrom(text, i) <=> PairedFrom(text, i + 2))
<1>1. text[i] = "low" => ~PairedFrom(text, i)
  BY DEF PairedFrom
<1>2. ASSUME text[i] \notin {"high", "low"} PROVE PairedFrom(text, i) <=> PairedFrom(text, i + 1)
  <2>1. ASSUME PairedFrom(text, i) PROVE PairedFrom(text, i + 1)
    <3> SUFFICES ASSUME NEW j \in i + 1 .. Len(text)
                 PROVE  /\ text[j] = "high" => j + 1 \in i + 1 .. Len(text) /\ text[j + 1] = "low"
                        /\ text[j] = "low" => j - 1 \in i + 1 .. Len(text) /\ text[j - 1] = "high"
      BY DEF PairedFrom
    <3>1. j \in i .. Len(text)
      OBVIOUS
    <3>2. /\ text[j] = "high" => j + 1 \in i .. Len(text) /\ text[j + 1] = "low"
          /\ text[j] = "low" => j - 1 \in i .. Len(text) /\ text[j - 1] = "high"
      BY <2>1, <3>1 DEF PairedFrom
    <3>3. text[j] = "low" => j - 1 # i
      BY <1>2, <3>2
    <3> QED
      BY <3>2, <3>3
  <2>2. ASSUME PairedFrom(text, i + 1) PROVE PairedFrom(text, i)
    <3> SUFFICES ASSUME NEW j \in i .. Len(text), j # i
                 PROVE  /\ text[j] = "high" => j + 1 \in i .. Len(text) /\ text[j + 1] = "low"
                        /\ text[j] = "low" => j - 1 \in i .. Len(text) /\ text[j - 1] = "high"
      BY <1>2 DEF PairedFrom
    <3>1. j \in i + 1 .. Len(text)
      OBVIOUS
    <3> QED
      BY <2>2, <3>1 DEF PairedFrom
  <2> QED
    BY <2>1, <2>2
<1>3. text[i] = "high" /\ ~(i < Len(text) /\ text[i + 1] = "low") => ~PairedFrom(text, i)
  BY DEF PairedFrom
<1>4. ASSUME text[i] = "high", i < Len(text), text[i + 1] = "low"
      PROVE  PairedFrom(text, i) <=> PairedFrom(text, i + 2)
  <2>1. ASSUME PairedFrom(text, i) PROVE PairedFrom(text, i + 2)
    <3> SUFFICES ASSUME NEW j \in i + 2 .. Len(text)
                 PROVE  /\ text[j] = "high" => j + 1 \in i + 2 .. Len(text) /\ text[j + 1] = "low"
                        /\ text[j] = "low" => j - 1 \in i + 2 .. Len(text) /\ text[j - 1] = "high"
      BY DEF PairedFrom
    <3>1. j \in i .. Len(text)
      OBVIOUS
    <3>2. /\ text[j] = "high" => j + 1 \in i .. Len(text) /\ text[j + 1] = "low"
          /\ text[j] = "low" => j - 1 \in i .. Len(text) /\ text[j - 1] = "high"
      BY <2>1, <3>1 DEF PairedFrom
    <3>3. text[j] = "low" => j - 1 # i + 1
      BY <1>4, <3>2
    <3> QED
      BY <3>2, <3>3
  <2>2. ASSUME PairedFrom(text, i + 2) PROVE PairedFrom(text, i)
    <3> SUFFICES ASSUME NEW j \in i .. Len(text)
                 PROVE  /\ text[j] = "high" => j + 1 \in i .. Len(text) /\ text[j + 1] = "low"
                        /\ text[j] = "low" => j - 1 \in i .. Len(text) /\ text[j - 1] = "high"
      BY DEF PairedFrom
    <3>1. CASE j = i
      BY <1>4, <3>1
    <3>2. CASE j = i + 1
      BY <1>4, <3>2
    <3>3. CASE j \in i + 2 .. Len(text)
      BY <2>2, <3>3 DEF PairedFrom
    <3> QED
      BY <3>1, <3>2, <3>3
  <2> QED
    BY <2>1, <2>2
<1> QED
  BY <1>1, <1>2, <1>3, <1>4

LEMMA SameCardinality == \A S : Boundary!Cardinality(S) = Cardinality(S)
  BY DEF Cardinality, Boundary!Cardinality

(* The scan lets a text pass exactly when it is well formed and fits.       *)
LEMMA ScanIsExact ==
  ASSUME NEW text \in Seq(Boundary!Units), NEW limit \in Nat
  PROVE  Boundary!Scan(text, limit) = "sent"
           <=> Boundary!Paired(text) /\ Boundary!Utf8Length(text) <= limit
<1> DEFINE n == Len(text)
<1>1. n \in Nat /\ \A i \in 1 .. n : text[i] \in Boundary!Units
  OBVIOUS
<1> HIDE DEF n
<1>2. PICK step : /\ Boundary!Scan(text, limit) = step[1][0]
                  /\ \A i \in 1 .. n + 1 : step[i] = Row(text, limit, step, i)
  BY <1>1, ScanEquation DEF n
<1> DEFINE Exact(i) == \A b \in Nat : step[i][b] = "sent" <=> PairedFrom(text, i) /\ b + LengthFrom(text, i) <= limit
           T == {k \in Nat : \A i \in 1 .. n + 1 : i >= n + 1 - k => Exact(i)}
<1>3. ASSUME NEW i \in 1 .. n + 1, NEW b \in Nat
      PROVE step[i][b] = 
              IF b > limit THEN "range"
              ELSE IF i > n THEN "sent"
              ELSE IF text[i] = "high" THEN (IF i < n /\ text[i + 1] = "low" THEN step[i + 2][b + 4] ELSE "type")
              ELSE IF text[i] = "low" THEN "type" ELSE step[i + 1][b + Boundary!Bytes(text[i])]
  <2>1. step[i] = Row(text, limit, step, i)
    BY <1>2
  <2> QED
    BY <2>1 DEF Row, n
<1>4. 0 \in T
  <2> SUFFICES Exact(n + 1)
    BY <1>1
  <2>1. n + 1 .. n = {}
    BY <1>1
  <2>2. PairedFrom(text, n + 1)
    BY <2>1 DEF PairedFrom, n
  <2>3. \A unit : CountFrom(text, unit, n + 1) = 0
    BY <2>1, FS_EmptySet DEF CountFrom, n
  <2>4. LengthFrom(text, n + 1) = 0
    BY <2>3 DEF LengthFrom, Weight, CountsFrom, Boundary!Units
  <2>5. n + 1 \in 1 .. n + 1 /\ n + 1 > n
    BY <1>1
  <2>6. \A b \in Nat : step[n + 1][b] = IF b > limit THEN "range" ELSE "sent"
    BY <1>3, <2>5
  <2> QED
    BY <2>2, <2>4, <2>6
<1>5. ASSUME NEW k \in Nat, k \in T PROVE k + 1 \in T
  <2> SUFFICES ASSUME NEW i \in 1 .. n, i = n - k PROVE Exact(i)
    <3>1. \A i \in 1 .. n + 1 : i >= n + 1 - k => Exact(i)
      BY <1>5
    <3>2. \A i \in 1 .. n + 1 : i >= n + 1 - (k + 1) => i >= n + 1 - k \/ (i \in 1 .. n /\ i = n - k)
      BY <1>1
    <3> QED
      BY <3>1, <3>2
  <2>1. Exact(i + 1) /\ (i + 1 <= n => Exact(i + 2))
    <3>1. \A j \in 1 .. n + 1 : j >= n + 1 - k => Exact(j)
      BY <1>5
    <3>2. i + 1 \in 1 .. n + 1 /\ i + 1 >= n + 1 - k
      BY <1>1
    <3>3. i + 1 <= n => i + 2 \in 1 .. n + 1 /\ i + 2 >= n + 1 - k
      BY <1>1
    <3> HIDE DEF Exact
    <3> QED
      BY <3>1, <3>2, <3>3
  <2>2. i \in 1 .. n + 1 /\ i <= n /\ text[i] \in Boundary!Units
    BY <1>1
  <2>3. \A b \in Nat : b > limit => step[i][b] = "range"
    BY <1>3, <2>2
  <2>4. LengthFrom(text, i) \in Nat /\ LengthFrom(text, i + 1) \in Nat
    BY <1>1, LengthStep DEF n
  <2>5. CASE text[i] = "low"
    <3>1. ~PairedFrom(text, i)
      BY <1>1, <2>5, PairedStep DEF n
    <3>2. \A b \in Nat : step[i][b] \in {"range", "type"}
      BY <1>1, <1>3, <2>2, <2>5
    <3> QED
      BY <3>1, <3>2
  <2>6. CASE text[i] = "high" /\ ~(i < n /\ text[i + 1] = "low")
    <3>1. ~PairedFrom(text, i)
      BY <1>1, <2>6, PairedStep DEF n
    <3>2. \A b \in Nat : step[i][b] \in {"range", "type"}
      BY <1>1, <1>3, <2>2, <2>6
    <3> QED
      BY <3>1, <3>2
  <2>7. CASE text[i] = "high" /\ i < n /\ text[i + 1] = "low"
    <3>1. PairedFrom(text, i) <=> PairedFrom(text, i + 2)
      BY <1>1, <2>7, PairedStep DEF n
    <3>2. i + 1 \in 1 .. n /\ (i + 1) + 1 = i + 2 /\ text[i + 1] \in Boundary!Units
      BY <1>1, <2>7
    <3>3. LengthFrom(text, i + 1) = LengthFrom(text, i + 2) /\ LengthFrom(text, i + 2) \in Nat
      BY <1>1, <2>7, <3>2, LengthStep DEF n
    <3>4. LengthFrom(text, i) = LengthFrom(text, i + 2) + 4
      BY <1>1, <2>7, <3>3, LengthStep DEF n
    <3>5. \A b \in Nat : b <= limit => step[i][b] = step[i + 2][b + 4]
      <4>1. ~(i > n) /\ \A b \in Nat : b <= limit => ~(b > limit)
        BY <1>1
      <4> QED
        BY <1>3, <2>2, <2>7, <4>1
    <3>6. \A b \in Nat : step[i + 2][b + 4] = "sent" <=> PairedFrom(text, i + 2) /\ b + 4 + LengthFrom(text, i + 2) <= limit
      BY <1>1, <2>1, <2>7
    <3> DEFINE l == LengthFrom(text, i + 2)
    <3>7. ASSUME NEW b \in Nat
          PROVE  step[i][b] = "sent" <=> PairedFrom(text, i) /\ b + LengthFrom(text, i) <= limit
      <4>1. l \in Nat /\ b + LengthFrom(text, i) = b + 4 + l
        BY <3>3, <3>4
      <4> HIDE DEF l
      <4>2. CASE b > limit
        <5>1. ~(b + 4 + l <= limit)
          BY <4>1, <4>2
        <5> QED
          BY <2>3, <4>1, <4>2, <5>1
      <4>3. CASE b <= limit
        BY <3>1, <3>5, <3>6, <4>1, <4>3 DEF l
      <4> QED
        BY <4>2, <4>3
    <3> QED
      BY <3>7
  <2>8. CASE text[i] \notin {"high", "low"}
    <3> DEFINE w == Boundary!Bytes(text[i])
    <3>1. PairedFrom(text, i) <=> PairedFrom(text, i + 1)
      BY <1>1, <2>8, PairedStep DEF n
    <3>2. w \in Nat /\ LengthFrom(text, i) = LengthFrom(text, i + 1) + w
      BY <1>1, <2>8, LengthStep DEF n
    <3>3. \A b \in Nat : b <= limit => step[i][b] = step[i + 1][b + w]
      BY <1>1, <1>3, <2>2, <2>8
    <3> HIDE DEF w
    <3>4. \A b \in Nat : step[i + 1][b + w] = "sent" <=> PairedFrom(text, i + 1) /\ b + w + LengthFrom(text, i + 1) <= limit
      BY <2>1, <3>2
    <3> DEFINE l == LengthFrom(text, i + 1)
    <3>5. ASSUME NEW b \in Nat
          PROVE  step[i][b] = "sent" <=> PairedFrom(text, i) /\ b + LengthFrom(text, i) <= limit
      <4>1. l \in Nat /\ b + LengthFrom(text, i) = b + w + l
        BY <2>4, <3>2
      <4> HIDE DEF l
      <4>2. CASE b > limit
        <5>1. ~(b + w + l <= limit)
          BY <3>2, <4>1, <4>2
        <5> QED
          BY <2>3, <4>1, <4>2, <5>1
      <4>3. CASE b <= limit
        BY <3>1, <3>3, <3>4, <4>1, <4>3 DEF l
      <4> QED
        BY <4>2, <4>3
    <3> QED
      BY <3>5
  <2> QED
    BY <2>5, <2>6, <2>7, <2>8
<1>6. n \in T
  <2> HIDE DEF T
  <2>1. Nat \subseteq T
    BY <1>4, <1>5, Inductive
  <2> QED
    BY <1>1, <2>1
<1>7. Exact(1)
  BY <1>1, <1>6
<1>8. PairedFrom(text, 1) <=> Boundary!Paired(text)
  BY DEF PairedFrom, Boundary!Paired
<1>9. LengthFrom(text, 1) = Boundary!Utf8Length(text)
  <2>1. \A unit : CountFrom(text, unit, 1) = Boundary!Count(text, unit)
    BY SameCardinality DEF CountFrom, Boundary!Count
  <2> QED
    BY <2>1 DEF LengthFrom, Weight, CountsFrom, Boundary!Units, Boundary!Utf8Length
<1>10. LengthFrom(text, 1) \in Nat
  <2>1. \A unit : CountFrom(text, unit, 1) \in Nat
    BY <1>1, CountType DEF n
  <2> QED
    BY <2>1 DEF LengthFrom, Weight, CountsFrom, Boundary!Units
<1> QED
  BY <1>2, <1>7, <1>8, <1>9, <1>10

-----------------------------------------------------------------------------
(* What is held, as every step keeps it: a safe number and a string of      *)
(* digits are the integer meant, and a text is checked while nothing else   *)
(* is held.                                                                 *)
HeldInv ==
  /\ held \in [kind : Boundary!Kinds, value : Int] /\ meant \in Int
  /\ held.kind = "number" /\ Boundary!Safe(held.value) => held.value = meant
  /\ held.kind = "digits" => held.value = meant

CheckedInv ==
  checked # <<>> =>
    /\ held = Boundary!Nothing
    /\ \E field \in DOMAIN Limits, text \in Texts :
         checked = <<field, text>> /\ verdict = Boundary!Scan(text, Limits[field])

BoundaryInv == HeldInv /\ CheckedInv /\ Boundary!AnswersAreExact /\ Boundary!ReceivedIsMeant

LEMMA Widths ==
  /\ Precision \in Nat \ {0} /\ U8Max \in Nat /\ Numerals \subseteq Int
  /\ \A field \in DOMAIN Limits : Limits[field] \in Nat
  /\ Texts \subseteq Seq(Boundary!Units)
  BY BoundaryHasWidths DEF Boundary!WidthAssumption

(* Rounding keeps what is safe, and nothing else becomes safe.              *)
LEMMA RoundedSafely ==
  ASSUME NEW n \in Int
  PROVE  /\ Boundary!Round(n) \in Int
         /\ Boundary!Safe(n) => Boundary!Round(n) = n
         /\ Boundary!Safe(Boundary!Round(n)) => Boundary!Safe(n)
  BY Widths, SafeIsExact, UnsafeStaysUnsafe, RoundBy

LEMMA BoundaryInit == Boundary!Init => BoundaryInv
  BY DEF Boundary!Init, BoundaryInv, HeldInv, CheckedInv, Boundary!AnswersAreExact, Boundary!ReceivedIsMeant,
         Boundary!Nothing, Boundary!Value, Boundary!Kinds

(* Whatever is held next, nothing is received or checked with it yet.       *)
LEMMA HoldStep ==
  ASSUME NEW kind \in Boundary!Kinds, NEW n \in Int, NEW m \in Int,
         Boundary!Hold(Boundary!Value(kind, n), m),
         kind = "number" /\ Boundary!Safe(n) => n = m,
         kind = "digits" => n = m,
         answered' => n = m /\ kind = IF Boundary!Safe(m) THEN "number" ELSE "digits"
  PROVE  BoundaryInv'
<1>1. /\ held' = [kind |-> kind, value |-> n] /\ meant' = m
      /\ received'.kind = "nothing" /\ checked' = <<>>
  BY DEF Boundary!Hold, Boundary!Value, Boundary!Nothing
<1>2. HeldInv'
  BY <1>1 DEF HeldInv
<1>3. CheckedInv'
  BY <1>1 DEF CheckedInv
<1>4. Boundary!AnswersAreExact'
  BY <1>1 DEF Boundary!AnswersAreExact
<1>5. Boundary!ReceivedIsMeant'
  BY <1>1 DEF Boundary!ReceivedIsMeant
<1> QED
  BY <1>2, <1>3, <1>4, <1>5 DEF BoundaryInv

LEMMA AnswerStep ==
  ASSUME NEW token \in Boundary!Tokens, Boundary!Answer(token)
  PROVE  BoundaryInv'
<1>1. token.value \in Int /\ token.form \in {"integer", "exponent", "fraction"}
      /\ (token.form = "fraction" => token.value = 0)
  <2>1. \/ token \in [form : {"integer", "exponent"}, value : Numerals]
        \/ token = [form |-> "fraction", value |-> 0]
    BY DEF Boundary!Tokens
  <2>2. Numerals \subseteq Int
    BY Widths
  <2>3. CASE token \in [form : {"integer", "exponent"}, value : Numerals]
    BY <2>2, <2>3
  <2>4. CASE token = [form |-> "fraction", value |-> 0]
    BY <2>4
  <2> QED
    BY <2>1, <2>3, <2>4
<1> DEFINE m == token.value
           n == Boundary!Round(m)
<1>2. /\ n \in Int
      /\ Boundary!Safe(m) => n = m
      /\ Boundary!Safe(n) => Boundary!Safe(m)
  BY <1>1, RoundedSafely
<1>3. CASE /\ Boundary!parse(token) = {}
           /\ Boundary!Hold(Boundary!Nothing, 0) /\ answered' = FALSE
  BY <1>3, HoldStep DEF Boundary!Nothing, Boundary!Kinds
<1>4. ASSUME NEW v \in Boundary!parse(token),
             Boundary!Hold(v, m), answered' = (token.form = "integer")
      PROVE  BoundaryInv'
  <2>1. CASE token.form = "integer" /\ ~Boundary!Safe(n)
    <3>1. v = Boundary!Value("digits", m)
      BY <1>4, <2>1 DEF Boundary!parse, Boundary!Number, Boundary!Value
    <3> QED
      BY <1>1, <1>2, <1>4, <2>1, <3>1, HoldStep DEF Boundary!Kinds
  <2>2. CASE token.form = "fraction"
    <3>1. v = Boundary!Value("fraction", 0)
      BY <1>4, <2>2 DEF Boundary!parse, Boundary!Number, Boundary!Value
    <3> QED
      BY <1>1, <1>4, <2>2, <3>1, HoldStep DEF Boundary!Kinds
  <2>3. CASE token.form # "fraction" /\ ~(token.form = "integer" /\ ~Boundary!Safe(n))
    <3>1. v = Boundary!Value("number", n) /\ Boundary!Safe(n)
      BY <1>4, <2>3 DEF Boundary!parse, Boundary!Number, Boundary!Value, Boundary!checkedNumber
    <3> QED
      BY <1>1, <1>2, <1>4, <3>1, HoldStep DEF Boundary!Kinds
  <2> QED
    BY <2>1, <2>2, <2>3
<1> QED
  BY <1>3, <1>4 DEF Boundary!Answer

LEMMA WriteStep ==
  ASSUME BoundaryInv, Boundary!Write
  PROVE  BoundaryInv'
<1>1. answered' = FALSE
  BY DEF Boundary!Write
<1>2. ASSUME NEW n \in Numerals, Boundary!Hold(Boundary!Value("number", Boundary!Round(n)), n)
      PROVE  BoundaryInv'
  BY <1>1, <1>2, Widths, RoundedSafely, HoldStep DEF Boundary!Kinds
<1>3. ASSUME NEW n \in Numerals, Boundary!Hold(Boundary!Value("digits", n), n)
      PROVE  BoundaryInv'
  BY <1>1, <1>3, Widths, HoldStep DEF Boundary!Kinds
<1>4. ASSUME NEW n \in Numerals, held.kind = "number", Boundary!Safe(held.value),
             Boundary!Hold(Boundary!Value("number", Boundary!Round(held.value + n)), meant + n)
      PROVE  BoundaryInv'
  <2>1. n \in Int /\ held.value \in Int /\ held.value = meant
    BY <1>4, Widths DEF BoundaryInv, HeldInv
  <2>2. held.value + n \in Int /\ held.value + n = meant + n
    BY <2>1
  <2> QED
    BY <1>1, <1>4, <2>2, RoundedSafely, HoldStep DEF Boundary!Kinds
<1>5. ASSUME NEW kind \in {"fraction", "infinite", "text", "bigint"}, Boundary!Hold(Boundary!Value(kind, 0), 0)
      PROVE  BoundaryInv'
  BY <1>1, <1>5, HoldStep DEF Boundary!Kinds
<1> QED
  BY <1>2, <1>3, <1>4, <1>5 DEF Boundary!Write

(* What a request hands to native is the integer meant.                     *)
LEMMA SubmitStep ==
  ASSUME BoundaryInv, held # Boundary!Nothing, NEW result, NEW read,
         Boundary!Submit(result, read),
         result = "sent" => (read.kind = "number" => read.value = meant)
  PROVE  BoundaryInv'
<1>1. UNCHANGED <<held, meant, answered, checked>> /\ checked = <<>>
  BY DEF BoundaryInv, CheckedInv, Boundary!Submit
<1>2. received' = IF result = "sent" THEN read ELSE Boundary!Nothing
  BY DEF Boundary!Submit
<1>3. HeldInv'
  BY <1>1 DEF BoundaryInv, HeldInv
<1>4. CheckedInv'
  BY <1>1 DEF CheckedInv
<1>5. Boundary!AnswersAreExact'
  BY <1>1 DEF BoundaryInv, Boundary!AnswersAreExact
<1>6. Boundary!ReceivedIsMeant'
  BY <1>1, <1>2 DEF Boundary!ReceivedIsMeant, Boundary!Nothing, Boundary!Value
<1> QED
  BY <1>3, <1>4, <1>5, <1>6 DEF BoundaryInv

LEMMA CallStep ==
  ASSUME BoundaryInv, Boundary!Call
  PROVE  BoundaryInv'
<1>1. held # Boundary!Nothing
  BY DEF Boundary!Call
<1>2. Boundary!stringify(held) = "sent" => (held.kind = "number" => held.value = meant)
  BY DEF BoundaryInv, HeldInv, Boundary!stringify, Boundary!checkedNumber
<1>3. CASE Boundary!Submit(Boundary!stringify(held), held)
  BY <1>1, <1>2, <1>3, SubmitStep
<1>4. ASSUME NEW keys, Boundary!Submit(Boundary!paymentRequest(keys, held), held)
      PROVE  BoundaryInv'
  <2>1. Boundary!paymentRequest(keys, held) = "sent" => Boundary!stringify(held) = "sent"
    BY DEF Boundary!paymentRequest
  <2> QED
    BY <1>1, <1>2, <1>4, <2>1, SubmitStep
<1>5. ASSUME NEW keys, NEW c, NEW recipient,
             Boundary!Submit(Boundary!burnRequest(keys, held, c, recipient), Boundary!Burnt(held))
      PROVE  BoundaryInv'
  <2>1. Boundary!burnRequest(keys, held, c, recipient) = "sent" => Boundary!uint64(held) = "sent"
    BY DEF Boundary!burnRequest
  <2>2. Boundary!uint64(held) = "sent" => held.value = meant
    BY DEF BoundaryInv, HeldInv, Boundary!uint64, Boundary!checkedNumber
  <2>3. Boundary!Burnt(held).value = held.value
    BY DEF Boundary!Burnt, Boundary!Value
  <2> QED
    BY <1>1, <1>5, <2>1, <2>2, <2>3, SubmitStep
<1> QED
  BY <1>3, <1>4, <1>5 DEF Boundary!Call

LEMMA CheckTextStep ==
  ASSUME BoundaryInv, NEW field \in DOMAIN Limits, NEW text \in Texts, Boundary!CheckText(field, text)
  PROVE  BoundaryInv'
<1>1. /\ held = Boundary!Nothing /\ UNCHANGED <<held, meant, answered, received>>
      /\ checked' = <<field, text>> /\ verdict' = Boundary!Scan(text, Limits[field])
  BY DEF Boundary!CheckText, Boundary!bip322Request
<1>2. HeldInv'
  BY <1>1 DEF BoundaryInv, HeldInv
<1>3. CheckedInv'
  BY <1>1 DEF CheckedInv
<1>4. Boundary!AnswersAreExact' /\ Boundary!ReceivedIsMeant'
  BY <1>1 DEF BoundaryInv, Boundary!AnswersAreExact, Boundary!ReceivedIsMeant
<1> QED
  BY <1>2, <1>3, <1>4 DEF BoundaryInv

LEMMA BoundaryStep == BoundaryInv /\ [Boundary!Next]_jsonVars => BoundaryInv'
<1> SUFFICES ASSUME BoundaryInv, [Boundary!Next]_jsonVars PROVE BoundaryInv'
  OBVIOUS
<1>1. CASE UNCHANGED jsonVars
  BY <1>1 DEF jsonVars, BoundaryInv, HeldInv, CheckedInv, Boundary!AnswersAreExact, Boundary!ReceivedIsMeant
<1>2. CASE Boundary!Next
  BY <1>2, AnswerStep, WriteStep, CallStep, CheckTextStep DEF Boundary!Next
<1> QED
  BY <1>1, <1>2

LEMMA BoundaryHeld == BoundaryInv => BoundaryIsExact
<1> SUFFICES ASSUME BoundaryInv PROVE BoundaryIsExact
  OBVIOUS
<1>1. Boundary!EveryAmountBurns
  <2> SUFFICES ASSUME answered
               PROVE  Boundary!burnRequest(Boundary!BurnKeys, held, U8Max, TRUE) = "sent" <=> meant \in 0 .. U64Max
    BY DEF Boundary!EveryAmountBurns
  <2>1. held.value = meant /\ held.kind = IF Boundary!Safe(meant) THEN "number" ELSE "digits"
    BY DEF BoundaryInv, Boundary!AnswersAreExact
  <2>2. Boundary!burnRequest(Boundary!BurnKeys, held, U8Max, TRUE) = Boundary!uint64(held)
    <3>1. U8Max \in 0 .. U8Max
      BY Widths
    <3> QED
      BY <3>1 DEF Boundary!burnRequest
  <2>3. Boundary!checkedNumber(held)
    BY <2>1 DEF Boundary!checkedNumber
  <2> QED
    BY <2>1, <2>2, <2>3 DEF Boundary!uint64
<1>2. Boundary!SignedTextIsWellFormed
  <2> SUFFICES ASSUME checked # <<>>
               PROVE  verdict = "sent" <=> /\ Boundary!Paired(checked[2])
                                           /\ Boundary!Utf8Length(checked[2]) <= Limits[checked[1]]
    BY DEF Boundary!SignedTextIsWellFormed
  <2>1. PICK field \in DOMAIN Limits, text \in Texts :
          checked = <<field, text>> /\ verdict = Boundary!Scan(text, Limits[field])
    BY DEF BoundaryInv, CheckedInv
  <2>2. text \in Seq(Boundary!Units) /\ Limits[field] \in Nat
    BY Widths
  <2>3. checked[1] = field /\ checked[2] = text
    BY <2>1
  <2>4. Boundary!Scan(text, Limits[field]) = "sent"
          <=> Boundary!Paired(text) /\ Boundary!Utf8Length(text) <= Limits[field]
    BY <2>2, ScanIsExact
  <2> QED
    BY <2>1, <2>3, <2>4
<1> QED
  BY <1>1, <1>2 DEF BoundaryInv, BoundaryIsExact, Boundary!BoundaryIsExact

(* A number or a text keeps its value at the JSON boundary, whatever the    *)
(* widths, the integers and the texts (json-boundary.js).                   *)
THEOREM BoundaryHolds == Boundary!Spec => []BoundaryIsExact
<1>1. Boundary!vars = jsonVars
  BY DEF Boundary!vars, jsonVars
<1>2. BoundaryInv /\ [Boundary!Next]_(Boundary!vars) => BoundaryInv'
  BY <1>1, BoundaryStep DEF Boundary!vars, jsonVars
<1> QED
  BY <1>2, BoundaryInit, BoundaryHeld, PTL DEF Boundary!Spec

(* The instance's behaviours are behaviours of the boundary.                *)
THEOREM InstanceIsBoundary == MCSpec => Boundary!Spec
<1>1. MCInit => Boundary!Init
  BY DEF MCInit
<1>2. [MCNext]_<<vars, jsonVars>> => [Boundary!Next]_(Boundary!vars)
  BY DEF MCNext, jsonVars, Boundary!vars
<1> QED
  BY <1>1, <1>2, PTL DEF MCSpec, Boundary!Spec
=============================================================================
