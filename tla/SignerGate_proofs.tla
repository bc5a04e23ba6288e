------------------------- MODULE SignerGate_proofs --------------------------
(***************************************************************************)
(* Proofs about SignerGate, for any set of threads: the gate's inductive   *)
(* invariant, what a returned shutdown means, that no caller is admitted   *)
(* after the flag is up, and that the gate's steps are steps of the        *)
(* abstract promise RevocableStore; and, short of fairness, why revocation *)
(* completes: it is never stuck and every step brings it closer.           *)
(***************************************************************************)
EXTENDS SignerGate, Naturals, TLAPS

(* The gate opens in a state that satisfies its invariant                   *)
(* (NativeExternalSigner::from_backend).                                    *)
LEMMA GateInvInit == Init => GateInv
  BY NoneAssumption DEF Init, GateInv, TypeOK, Points

(* with_state keeps the invariant: its steps touch the readers only.        *)
LEMMA CallKeepsGateInv ==
  ASSUME GateInv, NEW t \in Threads,
         BeginCall(t) \/ AcquireRead(t) \/ Recheck(t) \/ FinishCall(t)
  PROVE  GateInv'
<1>1. CASE BeginCall(t)
  BY <1>1 DEF BeginCall, Goto, GateInv, TypeOK, Points
<1>2. CASE AcquireRead(t)
  BY <1>2, NoneAssumption DEF AcquireRead, Goto, GateInv, TypeOK, Points
<1>3. CASE Recheck(t)
  BY <1>3 DEF Recheck, MayRun, Goto, GateInv, TypeOK, Points
<1>4. CASE FinishCall(t)
  BY <1>4 DEF FinishCall, Goto, GateInv, TypeOK, Points
<1> QED
  BY <1>1, <1>2, <1>3, <1>4

(* shutdown keeps the invariant, whether the state's destructor returns or  *)
(* panics.                                                                  *)
LEMMA ShutdownKeepsGateInv ==
  ASSUME GateInv, NEW t \in Threads,
         BeginShutdown(t) \/ AcquireWrite(t) \/ DropState(t) \/ ClearPoison(t)
  PROVE  GateInv'
<1>1. CASE BeginShutdown(t)
  BY <1>1 DEF BeginShutdown, Goto, GateInv, TypeOK, Points
<1>2. CASE AcquireWrite(t)
  BY <1>2, NoneAssumption DEF AcquireWrite, Goto, GateInv, TypeOK, Points
<1>3. CASE DropState(t)
  BY <1>3, NoneAssumption DEF DropState, Goto, GateInv, TypeOK, Points
<1>4. CASE ClearPoison(t)
  BY <1>4, NoneAssumption DEF ClearPoison, Goto, GateInv, TypeOK, Points
<1> QED
  BY <1>1, <1>2, <1>3, <1>4

LEMMA GateInvStep == GateInv /\ [Next]_vars => GateInv'
<1> SUFFICES ASSUME GateInv, [Next]_vars PROVE GateInv'
  OBVIOUS
<1>1. CASE UNCHANGED vars
  BY <1>1 DEF vars, GateInv, TypeOK
<1>2. CASE Next
  <2>1. PICK t \in Threads : BeginCall(t) \/ BeginShutdown(t) \/ Continue(t)
    BY <1>2 DEF Next
  <2> QED
    BY <2>1, CallKeepsGateInv, ShutdownKeepsGateInv DEF Continue
<1> QED
  BY <1>1, <1>2

(* Guards, program points, the flag and the state agree in every reachable  *)
(* state, for any number of threads (with_state and shutdown of             *)
(* NativeExternalSigner).                                                   *)
THEOREM GateInvariant == Spec => []GateInv
<1>1. Init => GateInv
  BY GateInvInit
<1>2. GateInv /\ [Next]_vars => GateInv'
  BY GateInvStep
<1> QED
  BY <1>1, <1>2, PTL DEF Spec

(* When a shutdown has returned Ok no call is inside the signer and its     *)
(* store lock is released, however many threads call and shut down.         *)
THEOREM ReturnReleases == Spec => []ReturnedMeansReleased
<1>1. GateInv => ReturnedMeansReleased
  BY DEF GateInv, ReturnedMeansReleased
<1> QED
  BY <1>1, GateInvariant, PTL

(* Once the flag is up nobody is admitted any more: a reader that was       *)
(* queued on the lock is refused by its second look at the flag.            *)
THEOREM NobodyAdmitted == Spec => NoAdmissionAfterGate
<1> DEFINE Refuses == shutting_down => \A t \in Threads : pc'[t] = "running" => pc[t] = "running"
<1>1. GateInv /\ [Next]_vars => [Refuses]_vars
  <2> SUFFICES ASSUME GateInv, Next, shutting_down, NEW u \in Threads, pc'[u] = "running"
               PROVE  pc[u] = "running"
    OBVIOUS
  <2>1. PICK t \in Threads : BeginCall(t) \/ BeginShutdown(t) \/ Continue(t)
    BY DEF Next
  <2> QED
    BY <2>1 DEF BeginCall, BeginShutdown, Continue, AcquireRead, Recheck, MayRun, FinishCall,
                AcquireWrite, DropState, ClearPoison, Goto, GateInv, TypeOK
<1> QED
  BY <1>1, GateInvariant, PTL DEF Spec, NoAdmissionAfterGate

-----------------------------------------------------------------------------
(* Why revocation completes *)

(* While the signer is closed and its state is still there, somebody is on  *)
(* the way to drop it: a shutdown is not forgotten.                         *)
RevocationPursued ==
  shutting_down /\ state = "some" => \E t \in Threads : pc[t] \in {"wantWrite", "dropping"}

(* A pursued revocation is never stuck: the thread that drops the state is  *)
(* at it, or a call inside the signer is to finish, or the lock is free for *)
(* a shutdown that waits (the RwLock of native_signer.rs).                  *)
RevocationCanStep ==
  shutting_down /\ state = "some" =>
    \E t \in Threads :
      \/ pc[t] \in {"recheck", "running", "dropping"}
      \/ pc[t] = "wantWrite" /\ readers = {} /\ writer = None

(* The points of a thread in the order a closing signer lets it pass them.  *)
Stage(p) ==
  IF p = "wantRead" THEN 0 ELSE IF p = "recheck" THEN 1 ELSE IF p = "running" THEN 2
  ELSE IF p = "idle" THEN 3 ELSE IF p = "wantWrite" THEN 4 ELSE IF p = "dropping" THEN 5 ELSE 6

(* Until the state is gone every step of a closing signer takes one thread  *)
(* forward and none back: a caller leaves and can only return to shut the   *)
(* signer down, and a shutdown ends nowhere but in the drop (with_state and *)
(* shutdown).                                                               *)
RevocationAdvances ==
  [][shutting_down /\ state' = "some" =>
       \E t \in Threads :
         /\ Stage(pc'[t]) > Stage(pc[t])
         /\ \A u \in Threads \ {t} : pc'[u] = pc[u]]_vars

LEMMA PursuedStep == GateInv /\ RevocationPursued /\ [Next]_vars => RevocationPursued'
<1> SUFFICES ASSUME GateInv, RevocationPursued, [Next]_vars, shutting_down', state' = "some"
             PROVE  \E t \in Threads : pc'[t] \in {"wantWrite", "dropping"}
  BY DEF RevocationPursued
<1>1. CASE UNCHANGED vars
  BY <1>1 DEF vars, RevocationPursued
<1>2. CASE Next
  <2>1. PICK t \in Threads : BeginCall(t) \/ BeginShutdown(t) \/ Continue(t)
    BY <1>2 DEF Next
  <2>2. CASE BeginShutdown(t)
    BY <2>2 DEF BeginShutdown, Goto, GateInv, TypeOK
  <2>3. CASE BeginCall(t) \/ Continue(t)
    <3>1. shutting_down /\ state = "some" /\ ~DropState(t) /\ ~ClearPoison(t)
      BY <2>3 DEF BeginCall, Continue, AcquireRead, Recheck, FinishCall, AcquireWrite,
                  DropState, ClearPoison, Goto, GateInv
    <3>2. PICK u \in Threads : pc[u] \in {"wantWrite", "dropping"}
      BY <3>1 DEF RevocationPursued
    <3> QED
      BY <2>3, <3>1, <3>2 DEF BeginCall, Continue, AcquireRead, Recheck, FinishCall,
                              AcquireWrite, Goto, GateInv, TypeOK
  <2> QED
    BY <2>1, <2>2, <2>3
<1> QED
  BY <1>1, <1>2

(* However many threads call and shut down, a signer that was told to close *)
(* and still has its state is not stuck: someone can take the next step.    *)
THEOREM RevocationNeverStuck == Spec => []RevocationCanStep
<1>1. Init => RevocationPursued
  BY DEF Init, RevocationPursued
<1>2. GateInv /\ RevocationPursued /\ [Next]_vars => RevocationPursued'
  BY PursuedStep
<1>3. GateInv /\ RevocationPursued => RevocationCanStep
  <2> SUFFICES ASSUME GateInv, RevocationPursued, shutting_down, state = "some",
                      readers = {}, ~\E t \in Threads : pc[t] = "dropping"
               PROVE  \E t \in Threads : pc[t] = "wantWrite" /\ writer = None
    BY DEF RevocationCanStep, GateInv
  <2>1. PICK t \in Threads : pc[t] = "wantWrite"
    BY DEF RevocationPursued
  <2>2. writer = None
    BY DEF GateInv, TypeOK
  <2> QED
    BY <2>1, <2>2
<1> QED
  BY <1>1, <1>2, <1>3, GateInvariant, PTL DEF Spec

(* A closing signer makes progress with every step: between the flag and    *)
(* the drop of the state a thread takes at most five of them.               *)
THEOREM RevocationMovesOn == Spec => RevocationAdvances
<1> DEFINE Forward ==
      shutting_down /\ state' = "some" =>
        \E t \in Threads : /\ Stage(pc'[t]) > Stage(pc[t])
                           /\ \A u \in Threads \ {t} : pc'[u] = pc[u]
<1>1. GateInv /\ [Next]_vars => [Forward]_vars
  <2> SUFFICES ASSUME GateInv, Next, shutting_down, state' = "some" PROVE Forward
    OBVIOUS
  <2>1. PICK t \in Threads : BeginCall(t) \/ BeginShutdown(t) \/ Continue(t)
    BY DEF Next
  <2>2. \A u \in Threads \ {t} : pc'[u] = pc[u]
    BY <2>1 DEF BeginCall, BeginShutdown, Continue, AcquireRead, Recheck, FinishCall,
                AcquireWrite, DropState, ClearPoison, Goto, GateInv, TypeOK
  <2>3. \/ pc[t] = "wantRead" /\ pc'[t] \in {"idle", "recheck"}
        \/ pc[t] = "recheck" /\ pc'[t] = "idle"
        \/ pc[t] = "running" /\ pc'[t] = "idle"
        \/ pc[t] = "idle" /\ pc'[t] = "wantWrite"
        \/ pc[t] = "wantWrite" /\ pc'[t] = "dropping"
    BY <2>1 DEF BeginCall, BeginShutdown, Continue, AcquireRead, Recheck, MayRun, FinishCall,
                AcquireWrite, DropState, ClearPoison, Goto, GateInv, TypeOK
  <2>4. Stage(pc'[t]) > Stage(pc[t])
    BY <2>3 DEF Stage
  <2> QED
    BY <2>2, <2>4
<1> QED
  BY <1>1, GateInvariant, PTL DEF Spec, RevocationAdvances

-----------------------------------------------------------------------------
(* Refinement *)

LEMMA PromiseInit == Init => Promise!Init
  BY DEF Init, Promise!Init

(* A step of the gate is Enter, Leave, Close, Release or nothing to an      *)
(* observer who sees admission and release only.                            *)
LEMMA PromiseStep == GateInv /\ [Next]_vars => [Promise!Next]_(Promise!vars)
<1> USE DEF Promise!vars
<1> SUFFICES ASSUME GateInv, Next PROVE Promise!Next \/ UNCHANGED Promise!vars
  BY DEF vars
<1>1. PICK t \in Threads : BeginCall(t) \/ BeginShutdown(t) \/ Continue(t)
  BY DEF Next
<1>2. CASE BeginCall(t)
  BY <1>2 DEF BeginCall, Goto, GateInv, TypeOK
<1>3. CASE AcquireRead(t)
  BY <1>3 DEF AcquireRead, Goto, GateInv, TypeOK
<1>4. CASE Recheck(t) /\ MayRun
  <2>1. Promise!Enter(t)
    BY <1>4 DEF Recheck, MayRun, Goto, GateInv, TypeOK, Promise!Enter
  <2> QED
    BY <2>1 DEF Promise!Next
<1>5. CASE Recheck(t) /\ ~MayRun
  BY <1>5 DEF Recheck, Goto, GateInv, TypeOK
<1>6. CASE FinishCall(t)
  <2>1. Promise!Leave(t)
    BY <1>6 DEF FinishCall, Goto, GateInv, TypeOK, Promise!Leave
  <2> QED
    BY <2>1 DEF Promise!Next
<1>7. CASE BeginShutdown(t)
  <2>1. CASE shutting_down
    BY <1>7, <2>1 DEF BeginShutdown, Goto, GateInv, TypeOK
  <2>2. CASE ~shutting_down
    BY <1>7, <2>2 DEF BeginShutdown, Goto, GateInv, TypeOK, Promise!Next, Promise!Close
  <2> QED
    BY <2>1, <2>2
<1>8. CASE AcquireWrite(t)
  BY <1>8 DEF AcquireWrite, Goto, GateInv, TypeOK
<1>9. CASE DropState(t)
  <2>1. CASE state = "none"
    BY <1>9, <2>1 DEF DropState, Goto, GateInv, TypeOK
  <2>2. CASE state = "some"
    <3>1. shutting_down /\ \A u \in Threads : pc[u] # "running"
      BY <1>9, NoneAssumption DEF DropState, Goto, GateInv, TypeOK
    <3>2. Promise!Release
      BY <1>9, <2>2, <3>1 DEF DropState, Goto, GateInv, TypeOK, Promise!Release
    <3> QED
      BY <3>2 DEF Promise!Next
  <2> QED
    BY <2>1, <2>2 DEF GateInv, TypeOK
<1>10. CASE ClearPoison(t)
  BY <1>10 DEF ClearPoison, Goto, GateInv, TypeOK
<1> QED
  BY <1>1, <1>2, <1>3, <1>4, <1>5, <1>6, <1>7, <1>8, <1>9, <1>10 DEF Continue

(* The lock protocol of native_signer.rs keeps the promise RevocableStore   *)
(* states, for any number of threads (its safety part).                     *)
THEOREM GateKeepsPromise == Spec => Promise!Safety
<1>1. Init => Promise!Init
  BY PromiseInit
<1>2. GateInv /\ [Next]_vars => [Promise!Next]_(Promise!vars)
  BY PromiseStep
<1> QED
  BY <1>1, <1>2, GateInvariant, PTL DEF Spec, Promise!Safety

=============================================================================
