----------------------------- MODULE SignerAttach -----------------------------
(***************************************************************************)
(* Which signer a node may use (src/uniffi_api/mod.rs and node.rs in the   *)
(* runtime patch).  A native signer is attached in two steps: the generic  *)
(* path publishes an attachment that was checked without any lock, then    *)
(* attach_native_external_signer binds the signer to it for BIP-322        *)
(* proofs.  Other threads attach, detach, sign, lock, shut the node down   *)
(* and revoke signers meanwhile.                                           *)
(*                                                                         *)
(* Two locks are not variables: a proof holds the API mutex from           *)
(* check_unlocked on (ApiFree) and the attachment's mutex while it signs   *)
(* (AttachedFree).  Everything else takes and leaves them in one step.     *)
(*                                                                         *)
(* Abstractions.  A bootstrap is an identity, of which NodeOf is the node  *)
(* id.  The gate of a signer is what RevocableStore promises, and reading  *)
(* a bootstrap through it is one step.  Unlock and lock are the SDK's, and *)
(* one step each.                                                          *)
(***************************************************************************)
CONSTANTS
  Threads,
  Signers,     \* native signers
  Identities,  \* bootstraps: node id and account keys
  Id,          \* each native signer's bootstrap
  NodeOf,      \* the node id in a bootstrap
  Foreign,     \* a signer of the program's own
  None

ASSUME ConstantsAssumption ==
  /\ Id \in [Signers -> Identities]
  /\ None \notin Identities /\ None \notin Signers
  /\ Foreign \notin Signers /\ Foreign # None

VARIABLES
  attached,  \* the node's attachment: its bootstrap and the signer of messages
  session,   \* the bootstrap the unlocked wallet runs with
  keySource, \* the bootstrap in key_source.json, None when it is unreadable
  cancelled, \* cancel_token
  shut,      \* some shutdown has returned
  signer,    \* each native signer: "open", "closing" or "released"
  call       \* what each thread is in

vars == <<attached, session, keySource, cancelled, shut, signer, call>>

Attachment == [boot : Identities, bound : Signers \cup {None}]

Places == {"idle", "check", "host", "publish", "bind", "look", "signing", "cancel", "stop", "revoke"}

Call == [at : Places, signer : Signers \cup {Foreign, None}, boot : Identities \cup {None}]

TypeOK ==
  /\ attached \in Attachment \cup {None}
  /\ session \in Identities \cup {None}
  /\ keySource \in Identities \cup {None}
  /\ cancelled \in BOOLEAN /\ shut \in BOOLEAN
  /\ signer \in [Signers -> {"open", "closing", "released"}]
  /\ call \in [Threads -> Call]

Idle == [at |-> "idle", signer |-> None, boot |-> None]

Init ==
  /\ attached = None /\ session = None
  /\ keySource \in Identities
  /\ cancelled = FALSE /\ shut = FALSE
  /\ signer = [s \in Signers |-> "open"]
  /\ call = [t \in Threads |-> Idle]

-----------------------------------------------------------------------------
Begin(t, place, s, boot) ==
  /\ call[t].at = "idle"
  /\ call' = [call EXCEPT ![t] = [at |-> place, signer |-> s, boot |-> boot]]

At(t, place) == call[t].at = place

Goto(t, place) == call' = [call EXCEPT ![t].at = place]

Return(t) == call' = [call EXCEPT ![t] = Idle]

Open(s) == s \in Signers => signer[s] = "open"

(* No proof is inside the API mutex.                                       *)
ApiFree == \A t \in Threads : call[t].at \notin {"look", "signing"}

(* No proof is inside the attachment's mutex.                              *)
AttachedFree == \A t \in Threads : call[t].at # "signing"

-----------------------------------------------------------------------------
(* attach_native_external_signer, and attach_host_with_expected_key_source *)
(* by itself for a signer of the program's own.                            *)

(* What the caller expects is the native signer's own bootstrap.           *)
AttachNative(t, s) ==
  /\ Open(s)
  /\ Begin(t, "check", s, Id[s])
  /\ UNCHANGED <<attached, session, keySource, cancelled, shut, signer>>

AttachForeign(t, boot) ==
  /\ Begin(t, "check", Foreign, boot)
  /\ UNCHANGED <<attached, session, keySource, cancelled, shut, signer>>

(* A node that is shut down does not call a new host.                      *)
Check(t) ==
  /\ At(t, "check")
  /\ IF cancelled THEN Return(t) ELSE Goto(t, "host")
  /\ UNCHANGED <<attached, session, keySource, cancelled, shut, signer>>

(* The host's bootstrap is the expected one, or the call fails.  No lock   *)
(* is held, and a foreign host may never answer.                           *)
HostAnswers(t) ==
  /\ At(t, "host")
  /\ \/ Open(call[t].signer) /\ Goto(t, "publish")
     \/ (call[t].signer = Foreign \/ ~Open(call[t].signer)) /\ Return(t)
  /\ UNCHANGED <<attached, session, keySource, cancelled, shut, signer>>

(* mutant: a shutdown since the check goes unseen *)
PublishUnchecked(t) ==
  /\ At(t, "publish") /\ AttachedFree
  /\ attached' = [boot |-> call[t].boot, bound |-> None]
  /\ IF call[t].signer = Foreign THEN Return(t) ELSE Goto(t, "bind")
  /\ UNCHANGED <<session, keySource, cancelled, shut, signer>>

(* A fresh attachment has no signer of messages.                           *)
Publish(t) ==
  /\ At(t, "publish") /\ AttachedFree
  /\ \/ /\ cancelled
        /\ Return(t)
        /\ UNCHANGED attached
     \/ /\ ~cancelled
        /\ attached' = [boot |-> call[t].boot, bound |-> None]
        /\ IF call[t].signer = Foreign THEN Return(t) ELSE Goto(t, "bind")
  /\ UNCHANGED <<session, keySource, cancelled, shut, signer>>

(* mutant: the attachment is taken to be the one just published *)
BindUnread(t) ==
  /\ At(t, "bind") /\ AttachedFree
  /\ IF ~cancelled /\ attached # None /\ Open(call[t].signer)
     THEN attached' = [attached EXCEPT !.bound = call[t].signer]
     ELSE UNCHANGED attached
  /\ Return(t)
  /\ UNCHANGED <<session, keySource, cancelled, shut, signer>>

(* The mutex was free in between: the attachment may be gone, or be        *)
(* another's.  On a mismatch the call fails and the attachment stays.      *)
Bind(t) ==
  /\ At(t, "bind") /\ AttachedFree
  /\ IF /\ ~cancelled /\ attached # None /\ Open(call[t].signer)
        /\ attached.boot = Id[call[t].signer]
     THEN attached' = [attached EXCEPT !.bound = call[t].signer]
     ELSE UNCHANGED attached
  /\ Return(t)
  /\ UNCHANGED <<session, keySource, cancelled, shut, signer>>

-----------------------------------------------------------------------------
(* sign_message_bip322 and get_message_signing_address.                    *)

CheckUnlocked(t) ==
  /\ session # None /\ ApiFree
  /\ Begin(t, "look", None, None)
  /\ UNCHANGED <<attached, session, keySource, cancelled, shut, signer>>

(* validate_message_signer_wallet_identity.                                *)
MatchesWallet(boot) ==
  /\ NodeOf[boot] = NodeOf[session]
  /\ keySource = boot

(* mutant: the persisted bootstrap is not read *)
LookAtNodeId(t) ==
  /\ At(t, "look") /\ AttachedFree
  /\ \/ /\ attached # None /\ NodeOf[attached.boot] = NodeOf[session]
        /\ attached.bound # None /\ Open(attached.bound)
        /\ call' = [call EXCEPT ![t] = [at |-> "signing", signer |-> attached.bound, boot |-> None]]
     \/ Return(t)
  /\ UNCHANGED <<attached, session, keySource, cancelled, shut, signer>>

(* The address may be refused, too.                                        *)
Look(t) ==
  /\ At(t, "look") /\ AttachedFree
  /\ \/ /\ attached # None /\ MatchesWallet(attached.boot)
        /\ attached.bound # None /\ Open(attached.bound)
        /\ call' = [call EXCEPT ![t] = [at |-> "signing", signer |-> attached.bound, boot |-> None]]
     \/ Return(t)
  /\ UNCHANGED <<attached, session, keySource, cancelled, shut, signer>>

Signed(t) ==
  /\ At(t, "signing")
  /\ Return(t)
  /\ UNCHANGED <<attached, session, keySource, cancelled, shut, signer>>

-----------------------------------------------------------------------------
(* NodeHandle::shutdown: the cancellation under the attachment's mutex,    *)
(* then stop_node, which waits for the API mutex and empties the session.  *)

Shutdown(t) ==
  /\ Begin(t, "cancel", None, None)
  /\ UNCHANGED <<attached, session, keySource, cancelled, shut, signer>>

Cancel(t) ==
  /\ At(t, "cancel") /\ AttachedFree
  /\ cancelled' = TRUE
  /\ Goto(t, "stop")
  /\ UNCHANGED <<attached, session, keySource, shut, signer>>

Stop(t) ==
  /\ At(t, "stop") /\ ApiFree
  /\ session' = None /\ shut' = TRUE
  /\ Return(t)
  /\ UNCHANGED <<attached, keySource, cancelled, signer>>

-----------------------------------------------------------------------------
(* NativeExternalSigner::shutdown, as its gate promises it.                *)

Revoke(t, s) ==
  /\ Begin(t, "revoke", s, None)
  /\ signer' = [signer EXCEPT ![s] = IF @ = "open" THEN "closing" ELSE @]
  /\ UNCHANGED <<attached, session, keySource, cancelled, shut>>

Release(t) ==
  /\ At(t, "revoke")
  /\ \A u \in Threads : call[u].at = "signing" => call[u].signer # call[t].signer
  /\ signer' = [signer EXCEPT ![call[t].signer] = "released"]
  /\ Return(t)
  /\ UNCHANGED <<attached, session, keySource, cancelled, shut>>

-----------------------------------------------------------------------------
(* What the SDK and the world outside do.                                  *)

Detach ==
  /\ attached # None /\ AttachedFree
  /\ attached' = None
  /\ UNCHANGED <<session, keySource, cancelled, shut, signer, call>>

(* The wallet of the key source file, with an attachment that matches it.  *)
Unlock ==
  /\ session = None /\ ~cancelled /\ ApiFree /\ AttachedFree
  /\ attached # None /\ keySource = attached.boot
  /\ session' = attached.boot
  /\ UNCHANGED <<attached, keySource, cancelled, shut, signer, call>>

Lock ==
  /\ session # None /\ ApiFree
  /\ session' = None
  /\ UNCHANGED <<attached, keySource, cancelled, shut, signer, call>>

(* The file is damaged or removed by hand.                                 *)
Damage ==
  /\ keySource # None
  /\ keySource' = None
  /\ UNCHANGED <<attached, session, cancelled, shut, signer, call>>

Step(t) ==
  \/ Check(t) \/ HostAnswers(t) \/ Publish(t) \/ Bind(t) \/ Look(t) \/ Signed(t)
  \/ Cancel(t) \/ Stop(t) \/ Release(t)

Next ==
  \/ \E t \in Threads :
       \/ Step(t) \/ CheckUnlocked(t) \/ Shutdown(t)
       \/ \E s \in Signers : AttachNative(t, s) \/ Revoke(t, s)
       \/ \E boot \in Identities : AttachForeign(t, boot)
  \/ Detach \/ Unlock \/ Lock \/ Damage

Spec == Init /\ [][Next]_vars

-----------------------------------------------------------------------------
(* Properties.                                                             *)

(* The signer that makes proofs is the one the attachment's bootstrap      *)
(* names, although another thread may have attached another host between   *)
(* the two steps (attach_native_external_signer's second check).           *)
BoundIsAttached ==
  attached # None /\ attached.bound # None => Id[attached.bound] = attached.boot

(* A proof is made by the very signer the unlocked wallet runs with,       *)
(* however attachments change after the unlock                             *)
(* (validate_message_signer_wallet_identity).                              *)
ProofIsTheWallets ==
  \A t \in Threads : call[t].at = "signing" => session = Id[call[t].signer]

(* Once a shutdown has returned no proof is under way through the node,    *)
(* and the signer may be revoked (the guards a proof keeps, stop_node).    *)
NoProofOutlivesShutdown ==
  shut => \A t \in Threads : ~At(t, "signing")

(* After terminal shutdown took the node nothing is published or bound, by *)
(* whatever was in flight (the second check under the mutex, and the       *)
(* cancellation under the same).                                           *)
NothingPublishedAfterShutdown ==
  [][cancelled => attached' \in {attached, None}]_vars

=============================================================================
