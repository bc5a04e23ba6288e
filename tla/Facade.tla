------------------------------- MODULE Facade -------------------------------
(***************************************************************************)
(* index.js: the JavaScript classes SdkNode and NativeExternalSigner over  *)
(* the native binding, used by a program that retries what the facade      *)
(* refused, and that at some point leaves: it shuts its node down, then    *)
(* its signers, then destroys them, retrying what throws.                  *)
(*                                                                         *)
(* JavaScript runs a method to completion, so a method is one action; the  *)
(* outcomes of a native call are nondeterministic.  An argument is one of  *)
(* a few classes: "good", "unsafe" (holds a number checkedNumber refuses), *)
(* "unknown" (has a field the facade does not know), "mistyped".  Numbers  *)
(* in answers are JsonBoundary's tokens: "safe", "beyond" the exact range, *)
(* "fraction", and "exponent", an integer beyond it written with one.      *)
(* Garbage collection and environment teardown are HandleRegistry's.       *)
(***************************************************************************)
EXTENDS Naturals, FiniteSets, TLC

CONSTANTS
  Signers,     \* NativeExternalSigner objects over one storage directory
  Contract,    \* the fields of runtime-contract.json
  Answers,     \* the numbers native puts into answers
  MaxTries     \* bound: calls the program makes for its operation

ASSUME AnswersAssumption == Answers \subseteq {"safe", "beyond", "fraction", "exponent"}

VARIABLES
  module,    \* "unloaded", "loaded" or "refused"
  artifact,  \* the fields of the native artifact that differ from the contract
  node,      \* the SdkNode object: "none", "open" or "closed" (then its handle is null)
  native,    \* the native node: "none", "live", "failed" (its stop is recorded as failed), "freed"
  created,   \* the NativeExternalSigner objects made
  shut,      \* those whose _shutdown is set
  destroyed, \* those whose _destroyed is set (then the handle is null)
  stored,    \* signers made by createWithStorage, over the one directory
  arc,       \* signers whose native reference the host still holds
  revoked,   \* signers whose native state and store lock were released
  attached,  \* signers the native node holds a clone of
  wanted,    \* the method the program will call again; "none" before, "done" after
  effects,   \* how often its native operation ran
  told,      \* what the program was told last about it
  tries,
  leaving

signers == <<created, shut, destroyed, stored, arc, revoked>>
build == <<module, artifact>>
lifecycle == <<build, node, native, signers, attached>>
operation == <<wanted, effects, told, tries>>
program == <<operation, leaving>>
vars == <<lifecycle, program>>

-----------------------------------------------------------------------------
(* The methods, by what they do with their arguments and with the answer    *)

Json == "json"         \* stringify(request); the answer is parsed
JsonVoid == "jsonVoid" \* stringify(request); no answer
Plain == "plain"       \* strings and coerced booleans; the answer is parsed
Stub == "stub"         \* unsupported

Lifecycle == [unlock |-> JsonVoid, vssClearFence |-> JsonVoid]
Start == [init |-> "raw"]
Vss == [vssBackup |-> Plain, vssBackupInfo |-> Plain, vssBackupMetadata |-> Plain,
        setVssAutomaticBackupEnabled |-> "boolean", prepareVssRestore |-> Plain,
        vssRestoreInfo |-> Plain, vssDeleteAll |-> Stub]
Apay == [apayNew |-> Plain, apayNewWithAddress |-> Plain]
Operations == [startUnlockWithNativeExternalSigner |-> Stub, nativeOperationStatus |-> Stub,
               adoptNativeOperation |-> Stub, cancelNativeOperation |-> Stub]
Foreign == [initWithExternalSigner |-> JsonVoid, unlockWithAttachedExternalSigner |-> JsonVoid]
Info == [nodeInfo |-> Plain, networkInfo |-> Plain, sync |-> Plain, syncWallet |-> Stub,
         walletSnapshot |-> Stub, address |-> Plain, rotateAddress |-> Plain]
Channels == [openChannel |-> Json, closeChannel |-> Json, listChannels |-> Plain, getChannelId |-> Plain]
Peers == [connectPeer |-> Plain, disconnectPeer |-> Json, listPeers |-> Plain]
Invoices == [lnInvoice |-> Json, decodeLnInvoice |-> Plain, invoiceStatus |-> Plain, rgbInvoice |-> Json,
             decodeRgbInvoice |-> Plain, cancelHodlInvoice |-> Json, claimHodlInvoice |-> Json]
Payments == [sendPayment |-> "payment", keysend |-> Json, listPayments |-> Plain, getPayment |-> Plain]
Swaps == [makerInit |-> Json, makerExecute |-> Json, taker |-> Json, listSwaps |-> Plain, getSwap |-> Plain]
Assets == [issueAssetNia |-> Json, issueAssetUda |-> Json, issueAssetCfa |-> Json, issueAssetIfa |-> Json,
           listAssets |-> Json, assetBalance |-> Plain, assetLinkCreate |-> Json, assetMetadata |-> Plain]
Transfers == [listTransfers |-> Plain, listTransfersByTxid |-> Plain, refreshTransfers |-> Json,
              failTransfers |-> Json, sendRgb |-> Json, importRgbTransferConsignment |-> Json,
              importRgbContract |-> Json, getConsignment |-> Plain, getConsignmentPath |-> Plain]
Plans == [prepareRgbSend |-> Stub, commitPreparedRgbSend |-> Stub, cancelRgbSendPlan |-> Stub,
          listPendingRgbSendPlans |-> Stub]
Supply == [inflate |-> Json, burn |-> "burn", getAssetMedia |-> Plain, postAssetMedia |-> Json]
Btc == [btcBalance |-> Plain, sendBtc |-> Json]
BtcPlans == [prepareBtcSend |-> Stub, commitPreparedBtcSend |-> Stub, cancelBtcSendPlan |-> Stub,
             prepareCreateUtxos |-> Stub, commitPreparedCreateUtxos |-> Stub, cancelCreateUtxosPlan |-> Stub,
             listPendingVanillaTransactions |-> Stub, listAddressReceipts |-> Stub]
Outputs == [listTransactions |-> Plain, listTransactionsByTxid |-> Plain, listUnspents |-> Plain,
            createUtxos |-> Json, estimateFee |-> "blocks"]
Messages == [sendOnionMessage |-> Json, getMessageSigningAddress |-> Plain, signMessageBip322 |-> "bip322",
             verifyMessageBip322 |-> "bip322", signMessage |-> Plain, verifyMessage |-> Plain,
             checkIndexerUrl |-> Plain, checkProxyEndpoint |-> Plain]

Shapes == Lifecycle @@ Start @@ Vss @@ Apay @@ Operations @@ Foreign @@ Info @@ Channels @@ Peers @@ Invoices
          @@ Payments @@ Swaps @@ Assets @@ Transfers @@ Plans @@ Supply @@ Btc @@ BtcPlans @@ Outputs @@ Messages
Methods == DOMAIN Shapes

-----------------------------------------------------------------------------
(* What a method throws before it calls the binding, "none" when it calls.  *)

Args == {"good", "unsafe", "unknown", "mistyped"}
Local == {"unsafe", "type", "range", "unsupported"}

Refusal(shape, arg) ==
  CASE shape = Stub -> "unsupported"
    [] shape \in {Json, JsonVoid} /\ arg = "unsafe" -> "unsafe"
    [] shape \in {Json, JsonVoid, "boolean"} /\ arg = "mistyped" -> "type"
    [] shape = "payment" /\ arg # "good" ->
         [unsafe |-> "unsafe", unknown |-> "unsupported", mistyped |-> "type"][arg]
    [] shape = "burn" /\ arg # "good" -> IF arg = "unsafe" THEN "unsafe" ELSE "type"
    [] shape = "bip322" /\ arg = "mistyped" -> "type"
    [] shape = "blocks" /\ arg # "good" -> "range"
    [] OTHER -> "none"

ParsedRounded(number) == IF number \in {"beyond", "exponent"} THEN "unsafe" ELSE "ok"  \* mutant: no exact strings
(* What the caller gets for an answer that holds such a number.             *)
Parsed(number) == IF number = "exponent" THEN "unsafe" ELSE "ok"

-----------------------------------------------------------------------------
(* Init *)

Init ==
  /\ module = "unloaded" /\ artifact \in SUBSET Contract
  /\ node = "none" /\ native = "none"
  /\ created = {} /\ shut = {} /\ destroyed = {}
  /\ stored = {} /\ arc = {} /\ revoked = {} /\ attached = {}
  /\ wanted = "none" /\ effects = 0 /\ told = "nothing" /\ tries = 0
  /\ leaving = FALSE

-----------------------------------------------------------------------------
(* The module and the program's operation *)

(* Loading fails unless every field of the contract is the artifact's.      *)
Load ==
  /\ module = "unloaded"
  /\ module' = IF artifact = {} THEN "loaded" ELSE "refused"
  /\ UNCHANGED <<artifact, node, native, signers, attached, program>>

Usable == module = "loaded" /\ ~leaving

(* One call of a method for the program's operation.  It calls again only   *)
(* when the facade told it that nothing reached the node.                   *)
Perform(method, arg) ==
  /\ Usable /\ node # "none"
  /\ wanted # "done" /\ wanted \in {"none", method}
  /\ tries < MaxTries /\ tries' = tries + 1
  /\ LET shape == Shapes[method]
         refusal == Refusal(shape, arg)
     IN \/ /\ refusal # "none"
           /\ told' = refusal /\ UNCHANGED effects
        \/ /\ refusal = "none" /\ node = "closed"
           /\ told' = "closed" /\ UNCHANGED effects
        \/ /\ refusal = "none" /\ node = "open"
           /\ told' = "native" /\ effects' \in {effects, effects + 1}
        \/ /\ refusal = "none" /\ node = "open"
           /\ effects' = effects + 1
           /\ IF shape \in {JsonVoid, "raw"} THEN told' = "ok"
              ELSE \E number \in Answers : told' = Parsed(number)
  /\ wanted' = IF told' \in Local THEN method ELSE "done"
  /\ UNCHANGED <<lifecycle, leaving>>

-----------------------------------------------------------------------------
(* SdkNode *)

(* A request stringify refuses, or native does, makes no object.            *)
Create ==
  /\ Usable /\ node # "open"
  /\ node' = "open"
  /\ native' = "live"
  /\ UNCHANGED <<build, signers, attached, program>>

(* initWithNativeExternalSigner, attachNativeExternalSigner,                *)
(* unlockWithNativeExternalSigner: native keeps a clone of the signer.  A   *)
(* node that was told to stop takes none.                                   *)
UseSigner(s) ==
  /\ Usable /\ native = "live" /\ s \in created \ destroyed
  /\ s \notin revoked
  /\ attached' = attached \cup {s}
  /\ UNCHANGED <<build, node, native, signers, program>>

(* A session unlocked with the signer keeps a clone of its own.             *)
detachExternalSigner ==
  /\ Usable /\ node = "open" /\ attached # {}
  /\ attached' \in SUBSET attached
  /\ UNCHANGED <<build, node, native, signers, program>>

ShutdownWithoutFree ==  \* mutant: freeing the native node is left to the collector
  /\ node = "open"
  /\ \/ native = "live" /\ node' = "closed" /\ UNCHANGED <<native, attached>>
     \/ native' = "failed" /\ UNCHANGED <<node, attached>>
  /\ UNCHANGED <<build, signers, program>>
(* The handle and the flag change only after both native calls.  A terminal *)
(* stop that failed is recorded in native (SessionTeardown): this call and  *)
(* every later one throws, and the object stays open for ever.              *)
Shutdown ==
  /\ node = "open"
  /\ \/ /\ native = "live" /\ native' = "freed"
        /\ attached' = {}
        /\ node' = "closed"
     \/ native' = "failed" /\ UNCHANGED <<node, attached>>
  /\ UNCHANGED <<build, signers, program>>

-----------------------------------------------------------------------------
(* NativeExternalSigner *)

(* The store is locked by every native clone of a signer not shut down.     *)
Locked == (stored \ revoked) \cap (arc \cup attached) # {}

SignerCreate(s, persistent) ==
  /\ Usable /\ s \notin created
  /\ persistent => ~Locked
  /\ created' = created \cup {s}
  /\ stored' = IF persistent THEN stored \cup {s} ELSE stored
  /\ arc' = arc \cup {s}
  /\ UNCHANGED <<build, node, native, shut, destroyed, revoked, attached, program>>

(* The program shuts a signer down when no node it did not close uses it.   *)
(* The call throws when the backend's destructor panics: the signer is      *)
(* revoked all the same (SignerGate), and the next call finds nothing left. *)
SignerShutdown(s) ==
  /\ s \in created \ (shut \cup destroyed)
  /\ s \in attached => node = "closed"
  /\ revoked' = revoked \cup {s}
  /\ \/ shut' = shut \cup {s}
     \/ s \notin revoked /\ UNCHANGED shut
  /\ UNCHANGED <<build, node, native, created, destroyed, stored, arc, attached, program>>

(* Drops the host's reference only; when it leaves, the program has shut    *)
(* the signer down before.                                                  *)
SignerDestroy(s) ==
  /\ s \in created \ destroyed
  /\ leaving => s \in shut
  /\ arc' = arc \ {s}
  /\ destroyed' = destroyed \cup {s}
  /\ UNCHANGED <<build, node, native, created, shut, stored, revoked, attached, program>>

-----------------------------------------------------------------------------

Leave ==
  /\ Usable
  /\ leaving' = TRUE
  /\ UNCHANGED <<lifecycle, operation>>

Next ==
  \/ Load \/ Create \/ detachExternalSigner \/ Shutdown \/ Leave
  \/ \E method \in Methods, arg \in Args : Perform(method, arg)
  \/ \E s \in Signers :
       \/ UseSigner(s) \/ SignerShutdown(s) \/ SignerDestroy(s)
       \/ \E persistent \in BOOLEAN : SignerCreate(s, persistent)

Spec == Init /\ [][Next]_vars

(* A program that leaves makes the calls that are left, again if they threw. *)
Fairness ==
  /\ WF_vars(leaving /\ Shutdown)
  /\ \A s \in Signers : WF_vars(leaving /\ SignerShutdown(s)) /\ WF_vars(leaving /\ SignerDestroy(s))

FairSpec == Spec /\ Fairness

-----------------------------------------------------------------------------
(* Properties *)

(* A program that repeats a call whenever the facade says that it failed    *)
(* before native access (README.md:131 and 147) never runs the operation      *)
(* twice, and one that was told of success ran it: no error of the facade   *)
(* stands for an operation that took place.                                 *)
RanOnce ==
  /\ effects <= 1
  /\ told = "ok" => effects = 1

(* A signer is not revoked under a node that may still persist through it   *)
(* (index.js:562), though the program learns only from shutdown() that the  *)
(* node is finished; a node whose stop failed never is.                     *)
SignerOutlivesNode == native \in {"live", "failed"} => attached \cap revoked = {}

(* The facade's flags tell what native holds, over any order of failing and *)
(* repeated calls: a closed node is freed, a signer shut down is revoked    *)
(* and its store can be opened again (test.js:86), a destroyed one is no    *)
(* longer the host's; nothing exists over an artifact of another build.     *)
FlagsTellTheTruth ==
  /\ node = "closed" => native = "freed"
  /\ shut \subseteq revoked
  /\ destroyed \cap arc = {}
  /\ native # "none" \/ arc # {} => artifact = {}

(* What may be left: a node whose terminal stop failed, with the signers it  *)
(* holds; nothing at all when it did not fail.                              *)
Released ==
  /\ native # "live"
  /\ native # "failed" => attached = {}
  /\ arc \subseteq attached

(* A program that leaves releases its node, its signers and their store,    *)
(* whatever threw on the way and whatever it destroyed too early to revoke, *)
(* except for a node whose terminal stop failed and the signers that node   *)
(* uses: those it can never release (SdkNode.shutdown throws for ever).     *)
LeavingReleases == leaving ~> Released
=============================================================================
