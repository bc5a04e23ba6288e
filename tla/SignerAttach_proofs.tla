------------------------- MODULE SignerAttach_proofs -------------------------
(***************************************************************************)
(* Proofs about SignerAttach, for any threads, signers and identities.     *)
(* The properties need four facts more: the API mutex has one holder, the  *)
(* wallet that is unlocked is the one on disk unless the file is damaged,  *)
(* a node whose shutdown returned is cancelled and locked for good, and a  *)
(* native signer is attached under its own bootstrap.                      *)
(***************************************************************************)
EXTENDS SignerAttach, TLAPS

InApi(t) == At(t, "look") \/ At(t, "signing")

OneInApi ==
  \A t, u \in Threads : InApi(t) /\ InApi(u) => t = u

ApiNeedsSession ==
  \A t \in Threads : InApi(t) => session # None

SessionIsStored == session # None => keySource \in {session, None}

ShutIsFinal ==
  /\ shut => cancelled /\ session = None
  /\ \A t \in Threads : At(t, "stop") => cancelled

ProperCalls ==
  \A t \in Threads :
    /\ call[t].at \in {"publish", "host", "check"} => call[t].boot \in Identities
    /\ At(t, "bind") \/ At(t, "revoke") => call[t].signer \in Signers
    /\ At(t, "signing") => call[t].signer \in Signers /\ session = Id[call[t].signer]
    /\ call[t].at \in {"publish", "host", "check"} => call[t].signer # None

AttachInv ==
  /\ TypeOK
  /\ BoundIsAttached
  /\ OneInApi
  /\ ApiNeedsSession
  /\ SessionIsStored
  /\ ShutIsFinal
  /\ ProperCalls

LEMMA Initially == Init => AttachInv
<1> SUFFICES ASSUME Init PROVE AttachInv
  OBVIOUS
<1>1. TypeOK
  BY DEF Init, TypeOK, Call, Places, Idle
<1> QED
  BY <1>1 DEF Init, AttachInv, BoundIsAttached, OneInApi, ApiNeedsSession, SessionIsStored,
              ShutIsFinal, ProperCalls, InApi, At, Idle

(* A step of one thread that leaves attachment, session and file alone and *)
(* ends outside the API mutex.                                             *)
LEMMA QuietStep ==
  ASSUME AttachInv, NEW t \in Threads, NEW to \in Call,
         call' = [call EXCEPT ![t] = to],
         UNCHANGED <<attached, session, keySource, shut>>,
         cancelled' \in BOOLEAN, cancelled => cancelled',
         signer' \in [Signers -> {"open", "closing", "released"}],
         to.at \notin {"look", "signing"},
         to.at = "stop" => cancelled',
         to.at \in {"publish", "host", "check"} => to.boot \in Identities /\ to.signer # None,
         to.at \in {"bind", "revoke"} => to.signer \in Signers
  PROVE  AttachInv'
<1> USE DEF AttachInv
<1>0. \A u \in Threads : call'[u] = IF u = t THEN to ELSE call[u]
  BY DEF TypeOK
<1>1. TypeOK'
  BY DEF TypeOK
<1>2. OneInApi' /\ ApiNeedsSession'
  BY <1>0 DEF OneInApi, ApiNeedsSession, InApi, At
<1>3. ShutIsFinal' /\ ProperCalls'
  BY <1>0 DEF ShutIsFinal, ProperCalls, At
<1> QED
  BY <1>1, <1>2, <1>3 DEF BoundIsAttached, SessionIsStored

(* The same, of a step that publishes or binds.                            *)
LEMMA AttachingStep ==
  ASSUME AttachInv, NEW t \in Threads, NEW to \in Call,
         call' = [call EXCEPT ![t] = to],
         UNCHANGED <<session, keySource, shut, cancelled, signer>>,
         attached' \in Attachment \cup {None}, BoundIsAttached',
         to.at \in {"idle", "bind"},
         to.at = "bind" => to.signer \in Signers
  PROVE  AttachInv'
<1> USE DEF AttachInv
<1>0. \A u \in Threads : call'[u] = IF u = t THEN to ELSE call[u]
  BY DEF TypeOK
<1>1. TypeOK'
  BY DEF TypeOK
<1>2. OneInApi' /\ ApiNeedsSession'
  BY <1>0 DEF OneInApi, ApiNeedsSession, InApi, At
<1>3. ShutIsFinal' /\ ProperCalls'
  BY <1>0 DEF ShutIsFinal, ProperCalls, At
<1> QED
  BY <1>1, <1>2, <1>3 DEF SessionIsStored

LEMMA IdleIsACall == Idle \in Call /\ Idle.at = "idle"
BY DEF Idle, Call, Places

LEMMA AttachSteps ==
  ASSUME AttachInv, NEW t \in Threads,
         \/ \E s \in Signers : AttachNative(t, s)
         \/ \E boot \in Identities : AttachForeign(t, boot)
         \/ Check(t) \/ HostAnswers(t)
  PROVE  AttachInv'
<1>1. ASSUME NEW s \in Signers, AttachNative(t, s) PROVE AttachInv'
  <2> DEFINE to == [at |-> "check", signer |-> s, boot |-> Id[s]]
  <2>1. to \in Call /\ Id[s] \in Identities
    BY ConstantsAssumption DEF Call, Places
  <2> QED
    BY <1>1, <2>1, ConstantsAssumption, QuietStep DEF AttachNative, Begin, AttachInv, TypeOK
<1>2. ASSUME NEW boot \in Identities, AttachForeign(t, boot) PROVE AttachInv'
  <2> DEFINE to == [at |-> "check", signer |-> Foreign, boot |-> boot]
  <2>1. to \in Call
    BY DEF Call, Places
  <2> QED
    BY <1>2, <2>1, ConstantsAssumption, QuietStep DEF AttachForeign, Begin, AttachInv, TypeOK
<1>3. ASSUME At(t, "check") \/ At(t, "host"), Return(t),
             UNCHANGED <<attached, session, keySource, cancelled, shut, signer>>
      PROVE AttachInv'
  BY <1>3, IdleIsACall, QuietStep DEF Return, AttachInv, TypeOK
<1>4. ASSUME NEW place \in {"host", "publish"}, At(t, "check") \/ At(t, "host"), Goto(t, place),
             UNCHANGED <<attached, session, keySource, cancelled, shut, signer>>
      PROVE AttachInv'
  <2> DEFINE to == [call[t] EXCEPT !.at = place]
  <2>1. to \in Call /\ to.at = place /\ to.boot = call[t].boot /\ to.signer = call[t].signer
    BY DEF AttachInv, TypeOK, Call, Places
  <2>2. call' = [call EXCEPT ![t] = to]
    BY <1>4 DEF Goto
  <2>3. call[t].boot \in Identities /\ call[t].signer # None
    BY <1>4 DEF AttachInv, ProperCalls, At
  <2> QED
    BY <1>4, <2>1, <2>2, <2>3, QuietStep DEF AttachInv, TypeOK
<1> QED
  BY <1>1, <1>2, <1>3, <1>4 DEF Check, HostAnswers

LEMMA PublishStep == ASSUME AttachInv, NEW t \in Threads, Publish(t) PROVE AttachInv'
<1>1. CASE cancelled /\ Return(t) /\ UNCHANGED attached
  BY <1>1, IdleIsACall, QuietStep DEF Publish, Return, AttachInv, TypeOK
<1>2. CASE ~cancelled /\ attached' = [boot |-> call[t].boot, bound |-> None]
           /\ IF call[t].signer = Foreign THEN Return(t) ELSE Goto(t, "bind")
  <2>1. /\ call[t].boot \in Identities /\ call[t].signer # None
        /\ call[t].signer \in Signers \cup {Foreign, None} /\ call[t] \in Call
    BY DEF Publish, AttachInv, ProperCalls, At, TypeOK, Call
  <2>2. attached' \in Attachment /\ BoundIsAttached'
    BY <1>2, <2>1 DEF Attachment, BoundIsAttached
  <2>3. CASE call[t].signer = Foreign
    BY <1>2, <2>2, <2>3, IdleIsACall, AttachingStep DEF Publish, Return
  <2>4. CASE call[t].signer # Foreign
    <3> DEFINE to == [call[t] EXCEPT !.at = "bind"]
    <3>1. to \in Call /\ to.at = "bind" /\ to.signer \in Signers
      BY <2>1, <2>4 DEF Call, Places
    <3>2. call' = [call EXCEPT ![t] = to]
      BY <1>2, <2>4 DEF Goto
    <3> QED
      BY <2>2, <3>1, <3>2, AttachingStep DEF Publish
  <2> QED
    BY <2>3, <2>4
<1> QED
  BY <1>1, <1>2 DEF Publish

LEMMA BindStep == ASSUME AttachInv, NEW t \in Threads, Bind(t) PROVE AttachInv'
<1>1. call[t].signer \in Signers
  BY DEF Bind, AttachInv, ProperCalls
<1>2. attached' \in Attachment \cup {None} /\ BoundIsAttached'
  <2>1. CASE UNCHANGED attached
    BY <2>1 DEF AttachInv, TypeOK, BoundIsAttached
  <2>2. CASE /\ attached # None /\ attached.boot = Id[call[t].signer]
             /\ attached' = [attached EXCEPT !.bound = call[t].signer]
    BY <1>1, <2>2 DEF AttachInv, TypeOK, Attachment, BoundIsAttached
  <2> QED
    BY <2>1, <2>2 DEF Bind
<1> QED
  BY <1>2, IdleIsACall, AttachingStep DEF Bind, Return

LEMMA ProofSteps ==
  ASSUME AttachInv, NEW t \in Threads, CheckUnlocked(t) \/ Look(t) \/ Signed(t)
  PROVE  AttachInv'
<1> USE DEF AttachInv
<1>0. ASSUME NEW to \in Call, call' = [call EXCEPT ![t] = to],
             UNCHANGED <<attached, session, keySource, cancelled, shut, signer>>,
             to.at \in {"look", "signing"}, session # None,
             \A u \in Threads \ {t} : ~InApi(u),
             to.at = "signing" => to.signer \in Signers /\ session = Id[to.signer]
      PROVE AttachInv'
  <2>0. \A u \in Threads : call'[u] = IF u = t THEN to ELSE call[u]
    BY <1>0 DEF TypeOK
  <2>1. TypeOK'
    BY <1>0 DEF TypeOK
  <2>2. OneInApi' /\ ApiNeedsSession'
    BY <1>0, <2>0 DEF OneInApi, ApiNeedsSession, InApi, At
  <2>3. ShutIsFinal' /\ ProperCalls'
    BY <1>0, <2>0 DEF ShutIsFinal, ProperCalls, At
  <2> QED
    BY <1>0, <2>1, <2>2, <2>3 DEF BoundIsAttached, SessionIsStored
<1>1. CASE CheckUnlocked(t)
  <2> DEFINE to == [at |-> "look", signer |-> None, boot |-> None]
  <2>1. to \in Call
    BY DEF Call, Places
  <2>2. \A u \in Threads \ {t} : ~InApi(u)
    BY <1>1 DEF CheckUnlocked, ApiFree, InApi, At
  <2> QED
    BY <1>0, <1>1, <2>1, <2>2 DEF CheckUnlocked, Begin
<1>2. ASSUME Return(t), UNCHANGED <<attached, session, keySource, cancelled, shut, signer>>
      PROVE AttachInv'
  BY <1>2, IdleIsACall, QuietStep DEF Return, TypeOK
<1>3. ASSUME At(t, "look"), attached # None, MatchesWallet(attached.boot), attached.bound # None,
             call' = [call EXCEPT ![t] = [at |-> "signing", signer |-> attached.bound, boot |-> None]],
             UNCHANGED <<attached, session, keySource, cancelled, shut, signer>>
      PROVE AttachInv'
  <2> DEFINE to == [at |-> "signing", signer |-> attached.bound, boot |-> None]
  <2>1. attached.bound \in Signers /\ attached.boot \in Identities
    BY <1>3 DEF TypeOK, Attachment
  <2>2. to \in Call
    BY <2>1 DEF Call, Places
  <2>3. session # None /\ keySource = attached.boot /\ keySource # None
    BY <1>3, <2>1, ConstantsAssumption DEF MatchesWallet, ApiNeedsSession, InApi
  <2>4. session = Id[attached.bound]
    BY <1>3, <2>3 DEF SessionIsStored, BoundIsAttached
  <2>5. \A u \in Threads \ {t} : ~InApi(u)
    BY <1>3 DEF OneInApi, InApi
  <2> QED
    BY <1>0, <1>3, <2>1, <2>2, <2>3, <2>4, <2>5
<1> QED
  BY <1>1, <1>2, <1>3 DEF Look, Signed

LEMMA ShutdownSteps ==
  ASSUME AttachInv, NEW t \in Threads, Shutdown(t) \/ Cancel(t) \/ Stop(t)
  PROVE  AttachInv'
<1> USE DEF AttachInv
<1>1. CASE Shutdown(t)
  <2> DEFINE to == [at |-> "cancel", signer |-> None, boot |-> None]
  <2>1. to \in Call
    BY DEF Call, Places
  <2> QED
    BY <1>1, <2>1, QuietStep DEF Shutdown, Begin, TypeOK
<1>2. CASE Cancel(t)
  <2> DEFINE to == [call[t] EXCEPT !.at = "stop"]
  <2>1. to \in Call /\ to.at = "stop"
    BY DEF TypeOK, Call, Places
  <2>2. call' = [call EXCEPT ![t] = to] /\ cancelled' = TRUE
    BY <1>2 DEF Cancel, Goto
  <2> QED
    BY <1>2, <2>1, <2>2, QuietStep DEF Cancel, TypeOK
<1>3. CASE Stop(t)
  <2>0. /\ \A u \in Threads : call'[u] = IF u = t THEN Idle ELSE call[u]
        /\ session' = None /\ shut' /\ UNCHANGED <<attached, keySource, cancelled, signer>>
    BY <1>3 DEF Stop, Return, TypeOK
  <2>1. \A u \in Threads : ~InApi(u) /\ ~InApi(u)'
    BY <1>3, <2>0, IdleIsACall DEF Stop, ApiFree, InApi, At
  <2>2. TypeOK'
    BY <1>3, <2>0, IdleIsACall DEF TypeOK, Stop, Return
  <2>3. ShutIsFinal'
    BY <1>3, <2>0, IdleIsACall DEF ShutIsFinal, Stop, At
  <2>4. ProperCalls'
    BY <2>0, <2>1, IdleIsACall DEF ProperCalls, InApi, At
  <2> QED
    BY <2>0, <2>1, <2>2, <2>3, <2>4
       DEF OneInApi, ApiNeedsSession, SessionIsStored, BoundIsAttached
<1> QED
  BY <1>1, <1>2, <1>3

LEMMA RevokeSteps ==
  ASSUME AttachInv, NEW t \in Threads, Release(t) \/ \E s \in Signers : Revoke(t, s)
  PROVE  AttachInv'
<1>1. ASSUME NEW s \in Signers, Revoke(t, s) PROVE AttachInv'
  <2> DEFINE to == [at |-> "revoke", signer |-> s, boot |-> None]
  <2>1. to \in Call
    BY DEF Call, Places
  <2>2. signer' \in [Signers -> {"open", "closing", "released"}]
    BY <1>1 DEF Revoke, AttachInv, TypeOK
  <2> QED
    BY <1>1, <2>1, <2>2, QuietStep DEF Revoke, Begin, AttachInv, TypeOK
<1>2. CASE Release(t)
  <2>1. signer' \in [Signers -> {"open", "closing", "released"}]
    BY <1>2 DEF Release, AttachInv, TypeOK
  <2> QED
    BY <1>2, <2>1, IdleIsACall, QuietStep DEF Release, Return, AttachInv, TypeOK
<1> QED
  BY <1>1, <1>2

LEMMA WorldSteps ==
  ASSUME AttachInv, Detach \/ Unlock \/ Lock \/ Damage
  PROVE  AttachInv'
<1> USE DEF AttachInv, InApi, At
<1>0. UNCHANGED <<call, cancelled, shut, signer>>
  BY DEF Detach, Unlock, Lock, Damage
<1>1. TypeOK'
  BY <1>0 DEF Detach, Unlock, Lock, Damage, TypeOK, Attachment
<1>2. OneInApi'
  BY <1>0 DEF OneInApi
<1>3. ApiNeedsSession'
  BY <1>0, ConstantsAssumption DEF ApiNeedsSession, Detach, Unlock, Lock, Damage, ApiFree
<1>4. SessionIsStored' /\ BoundIsAttached'
  BY <1>0 DEF SessionIsStored, BoundIsAttached, Detach, Unlock, Lock, Damage
<1>5. ShutIsFinal'
  BY <1>0 DEF ShutIsFinal, Detach, Unlock, Lock, Damage
<1>6. ProperCalls'
  BY <1>0 DEF ProperCalls, Detach, Unlock, Lock, Damage, ApiFree, AttachedFree
<1> QED
  BY <1>1, <1>2, <1>3, <1>4, <1>5, <1>6

LEMMA Inductive == AttachInv /\ [Next]_vars => AttachInv'
<1> SUFFICES ASSUME AttachInv, [Next]_vars PROVE AttachInv'
  OBVIOUS
<1>1. CASE UNCHANGED vars
  BY <1>1 DEF vars, AttachInv, TypeOK, BoundIsAttached, OneInApi, ApiNeedsSession, SessionIsStored,
              ShutIsFinal, ProperCalls, InApi, At
<1>2. CASE Next
  BY <1>2, AttachSteps, PublishStep, BindStep, ProofSteps, ShutdownSteps, RevokeSteps, WorldSteps
     DEF Next, Step
<1> QED
  BY <1>1, <1>2

(* The inductive invariant of attaching, signing and shutting down.        *)
THEOREM AttachInvariant == Spec => []AttachInv
<1> QED
  BY Initially, Inductive, PTL DEF Spec

(* The signer that makes proofs is the one that was attached.              *)
THEOREM BindsTheAttached == Spec => []BoundIsAttached
<1>1. AttachInv => BoundIsAttached
  BY DEF AttachInv
<1> QED
  BY <1>1, AttachInvariant, PTL

(* A proof is made by the signer the unlocked wallet runs with.            *)
THEOREM ProvesForTheWallet == Spec => []ProofIsTheWallets
<1>1. AttachInv => ProofIsTheWallets
  BY DEF AttachInv, ProofIsTheWallets, ProperCalls, At
<1> QED
  BY <1>1, AttachInvariant, PTL

(* No proof is under way when a shutdown has returned.                     *)
THEOREM ShutdownDrainsProofs == Spec => []NoProofOutlivesShutdown
<1>1. AttachInv => NoProofOutlivesShutdown
  BY DEF AttachInv, NoProofOutlivesShutdown, ShutIsFinal, ApiNeedsSession, InApi
<1> QED
  BY <1>1, AttachInvariant, PTL

(* After a terminal shutdown began no attachment is published or bound.    *)
THEOREM ShutdownEndsPublication == Spec => NothingPublishedAfterShutdown
<1>1. [Next]_vars => [cancelled => attached' \in {attached, None}]_vars
  <2> SUFFICES ASSUME Next, cancelled PROVE attached' \in {attached, None}
    BY DEF vars
  <2> QED
    BY DEF Next, Step, Check, HostAnswers, Publish, Bind, Look, Signed, Cancel, Stop, Release,
           CheckUnlocked, Shutdown, AttachNative, AttachForeign, Revoke, Detach, Unlock, Lock, Damage
<1> QED
  BY <1>1, PTL DEF Spec, NothingPublishedAfterShutdown

=============================================================================
