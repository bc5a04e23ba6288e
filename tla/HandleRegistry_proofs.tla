----------------------- MODULE HandleRegistry_proofs ------------------------
(***************************************************************************)
(* Proofs about HandleRegistry for all values of its constants.            *)
(*                                                                         *)
(* OwnershipInv ties a registered wrapper to the one object it owns and to *)
(* the handlers that hold a pointer to it; HooksAgree and HookAgreement    *)
(* tie it to libjs's teardown callbacks.  The two need each other: a       *)
(* teardown callback finds its wrapper by identity and kind alone, and     *)
(* only the uniqueness of identities among callbacks makes it a wrapper of *)
(* the environment that is torn down.                                      *)
(***************************************************************************)
EXTENDS HandleRegistry, NaturalsInduction, WellFoundedInduction, TLAPS

USE DEF Kinds, Objs, Ids, NodeStates, BoxStates, Ops

(* The frames a handler enters are well-typed.                              *)
LEMMA FrameType ==
  /\ Idle \in Frame
  /\ \A op \in Ops : \A a \in Addrs \cup {None} : In(op, a) \in Frame
  BY ConstantsAssumption DEF Idle, In, Frame

(* The registry starts empty (handles and next_handle_id, binding.cc).      *)
LEMMA InitInv == Init => OwnershipInv
<1> SUFFICES ASSUME Init PROVE OwnershipInv
  OBVIOUS
<1>1. TypeOK
  BY ConstantsAssumption DEF Init, TypeOK, Idle, In, Frame
<1>2. FramesAgree
  BY DEF Init, FramesAgree, FrameAgrees, Idle, In
<1>3. WrappersAgree /\ WrappersDistinct /\ DrainsComplete /\ ObjectsAccounted /\ LiveNodeCanSign
  BY DEF Init, WrappersAgree, WrappersDistinct, DrainsComplete, DrainLeavesNone,
         ObjectsAccounted,
         LiveNodeCanSign, Idle, In
<1> QED
  BY <1>1, <1>2, <1>3 DEF OwnershipInv

(* shutdown_and_free_sdk_node changes nothing of a wrapper but its two      *)
(* flags.                                                                   *)
LEMMA ShutdownKeepsWrapper ==
  ASSUME NEW w \in Ref, NEW ok \in BOOLEAN
  PROVE  LET v == shutdown_and_free_sdk_node(w, ok) IN
         /\ v \in Ref
         /\ v.env = w.env /\ v.kind = w.kind /\ v.id = w.id /\ v.obj = w.obj /\ v.hook = w.hook
         /\ v.freed <=> w.freed \/ Releases(w, ok)
         /\ ~v.freed => v = w
         /\ v.freed /\ ~w.freed => v.stopped
  BY DEF shutdown_and_free_sdk_node, Releases, Ref

(* Whatever the native shutdown answers, shutdown_and_free_sdk_node ends    *)
(* with the node freed, or with wrapper and node untouched.                 *)
LEMMA NodeAfterShutdown ==
  ASSUME OwnershipInv, NEW a \in handles, refs[a].kind = "node", NEW ok \in BOOLEAN
  PROVE  NodeAfter(refs[a], ok) =
           IF shutdown_and_free_sdk_node(refs[a], ok).freed
           THEN [node EXCEPT ![refs[a].obj] = "freed"] ELSE node
<1> DEFINE w == refs[a]
<1>1. /\ w \in Ref /\ w.obj \in NodeObjs /\ node \in [NodeObjs -> NodeStates]
      /\ node[w.obj] = IF w.freed THEN "freed" ELSE IF w.stopped THEN "stopped" ELSE "live"
  BY DEF OwnershipInv, TypeOK, WrappersAgree, WrapperAgrees
<1>2. shutdown_and_free_sdk_node(w, ok).freed <=> w.freed \/ Releases(w, ok)
  BY <1>1, ShutdownKeepsWrapper
<1>3. CASE w.freed
  BY <1>1, <1>2, <1>3 DEF NodeAfter, Releases
<1>4. CASE ~w.freed /\ Releases(w, ok)
  <2>1. FreeNode(IF CallsShutdown(w) /\ ok THEN StopNode(node[w.obj]) ELSE node[w.obj]) = "freed"
    BY <1>1, <1>4 DEF Releases, CallsShutdown, StopNode, FreeNode
  <2> QED
    BY <1>1, <1>2, <1>4, <2>1 DEF NodeAfter
<1>5. CASE ~w.freed /\ ~Releases(w, ok)
  BY <1>2, <1>5 DEF NodeAfter
<1> QED
  BY <1>3, <1>4, <1>5

(* next_handle_id counts up and stops at 0 when the identities are used up  *)
(* (register_handle).                                                       *)
LEMMA BumpBounds ==
  ASSUME nextId \in 0 .. MaxId, CanRegister
  PROVE  nextId \in 1 .. MaxId /\ Bump(nextId) \in 0 .. MaxId /\ (Bump(nextId) # 0 => Bump(nextId) = nextId + 1)
  BY ConstantsAssumption DEF Bump, CanRegister

(* sdkNodeNew registers a fresh wrapper with a fresh identity.              *)
LEMMA NewNodeKeeps ==
  ASSUME OwnershipInv, NEW e \in Envs, NEW o \in NodeObjs, NEW a \in Addrs, NewNode(e, o, a)
  PROVE  OwnershipInv'
<1> USE DEF NewNode, Wrap, register_handle, NewRef, Runs
<1>a. a \notin handles /\ \A b \in handles : refs[b].obj # o
  BY NullAssumption, ConstantsAssumption DEF OwnershipInv, TypeOK, WrappersAgree,
                                             WrapperAgrees, Ref
<1>b. nextId \in 1 .. MaxId /\ Bump(nextId) \in 0 .. MaxId /\ (Bump(nextId) # 0 => Bump(nextId) = nextId + 1)
  BY BumpBounds DEF OwnershipInv, TypeOK
<1>1. TypeOK'
  BY ConstantsAssumption, <1>b DEF OwnershipInv, TypeOK, Ref, External
<1>2. WrappersAgree'
  BY <1>1, <1>a, <1>b, ConstantsAssumption DEF OwnershipInv, TypeOK, WrappersAgree,
                                               WrapperAgrees
<1>3. WrappersDistinct'
  BY <1>a, <1>b, ConstantsAssumption DEF OwnershipInv, TypeOK, WrappersDistinct,
                                         WrappersAgree, WrapperAgrees, Ref
<1>4. FramesAgree'
  BY <1>a DEF OwnershipInv, TypeOK, FramesAgree, FrameAgrees
<1>5. DrainsComplete'
  BY <1>a DEF OwnershipInv, TypeOK, FramesAgree, FrameAgrees, DrainsComplete, DrainLeavesNone,
              EnvNodes, Idle, In
<1>6. ObjectsAccounted'
  BY <1>a, ConstantsAssumption DEF OwnershipInv, TypeOK, ObjectsAccounted
<1>7. LiveNodeCanSign'
  BY ConstantsAssumption DEF OwnershipInv, TypeOK, LiveNodeCanSign, ObjectsAccounted
<1> QED
  BY <1>1, <1>2, <1>3, <1>4, <1>5, <1>6, <1>7 DEF OwnershipInv

(* Unlinking one wrapper (unregister_handle and free) leaves the others in  *)
(* agreement with their objects, and its own object accounted for.          *)
LEMMA UnlinkKeeps ==
  ASSUME OwnershipInv, NEW a \in handles, unregister_and_free(a), TypeOK',
         UNCHANGED <<nextId, home, uses>>,
         refs[a].kind = "node" => node' = [node EXCEPT ![refs[a].obj] = "freed"] /\ box' = box,
         refs[a].kind = "signer" => node' = node /\ \/ box' = box
                                                    \/ box' = [box EXCEPT ![refs[a].obj] = "freed"]
  PROVE  WrappersAgree' /\ WrappersDistinct' /\ ObjectsAccounted'
<1> USE DEF unregister_and_free
<1>1. /\ a \in Addrs /\ refs[a] \in Ref /\ refs[a].kind \in Kinds /\ handles' = handles \ {a}
      /\ \A b \in handles' : refs'[b] = refs[b] /\ refs[b].obj # refs[a].obj
  BY DEF OwnershipInv, TypeOK, WrappersDistinct, Ref
<1>2. WrappersAgree'
  BY <1>1 DEF OwnershipInv, TypeOK, WrappersAgree, WrapperAgrees
<1>3. WrappersDistinct'
  BY <1>1 DEF OwnershipInv, WrappersDistinct
<1>4. ObjectsAccounted'
  <2>1. CASE refs[a].kind = "node"
    BY <1>1, <2>1 DEF OwnershipInv, TypeOK, ObjectsAccounted
  <2>2. CASE refs[a].kind = "signer"
    BY <1>1, <2>2 DEF OwnershipInv, TypeOK, ObjectsAccounted
  <2> QED
    BY <1>1, <2>1, <2>2
<1> QED
  BY <1>2, <1>3, <1>4

(* A wrapper is only unlinked by its own environment's thread, so no other  *)
(* handler's raw pointer dangles.                                           *)
LEMMA UnlinkKeepsThreads ==
  ASSUME OwnershipInv, NEW e \in Envs, NEW a \in handles, refs[a].env = e,
  unregister_and_free(a),
         UNCHANGED envState, NEW f \in Frame, thread' = [thread EXCEPT ![e] = f],
         FrameAgrees(e)', DrainLeavesNone(e)'
  PROVE  FramesAgree' /\ DrainsComplete'
<1> USE DEF unregister_and_free
<1>1. SUFFICES ASSUME NEW d \in Envs, d # e PROVE FrameAgrees(d)' /\ DrainLeavesNone(d)'
  BY DEF FramesAgree, DrainsComplete
<1>2. thread'[d] = thread[d] /\ \A b \in handles' : b \in handles /\ b # a /\ refs'[b] = refs[b]
  BY <1>1 DEF OwnershipInv, TypeOK
<1>3. FrameAgrees(d)'
  BY <1>1, <1>2 DEF OwnershipInv, FramesAgree, FrameAgrees
<1>4. DrainLeavesNone(d)'
  BY <1>1, <1>2 DEF OwnershipInv, DrainsComplete, DrainLeavesNone, EnvNodes
<1> QED
  BY <1>3, <1>4

(* nativeExternalSignerNew registers a fresh wrapper with a fresh           *)
(* identity.                                                                *)
LEMMA NewSignerKeeps ==
  ASSUME OwnershipInv, NEW e \in Envs, NEW s \in SignerObjs, NEW a \in Addrs, NewSigner(e, s, a)
  PROVE  OwnershipInv'
<1> USE DEF NewSigner, Wrap, register_handle, NewRef, Runs
<1>a. a \notin handles /\ \A b \in handles : refs[b].obj # s
  BY NullAssumption, ConstantsAssumption DEF OwnershipInv, TypeOK, WrappersAgree,
                                             WrapperAgrees, Ref
<1>b. nextId \in 1 .. MaxId /\ Bump(nextId) \in 0 .. MaxId /\ (Bump(nextId) # 0 => Bump(nextId) = nextId + 1)
  BY BumpBounds DEF OwnershipInv, TypeOK
<1>1. TypeOK'
  BY ConstantsAssumption, <1>b DEF OwnershipInv, TypeOK, Ref, External
<1>2. WrappersAgree'
  BY <1>1, <1>a, <1>b, ConstantsAssumption DEF OwnershipInv, TypeOK, WrappersAgree,
                                               WrapperAgrees
<1>3. WrappersDistinct'
  BY <1>a, <1>b, ConstantsAssumption DEF OwnershipInv, TypeOK, WrappersDistinct,
                                         WrappersAgree, WrapperAgrees, Ref
<1>4. FramesAgree'
  BY <1>a DEF OwnershipInv, TypeOK, FramesAgree, FrameAgrees
<1>5. DrainsComplete'
  BY <1>a DEF OwnershipInv, TypeOK, FramesAgree, FrameAgrees, DrainsComplete, DrainLeavesNone,
              EnvNodes, Idle, In
<1>6. ObjectsAccounted'
  BY <1>a, ConstantsAssumption DEF OwnershipInv, TypeOK, ObjectsAccounted
<1>7. LiveNodeCanSign'
  BY DEF OwnershipInv, TypeOK, LiveNodeCanSign
<1> QED
  BY <1>1, <1>2, <1>3, <1>4, <1>5, <1>6, <1>7 DEF OwnershipInv

(* A creation that is undone (wrap_sdk_node, wrap_signer) costs an          *)
(* identity at most.                                                        *)
LEMMA CreationFailureKeeps ==
  ASSUME OwnershipInv, NEW e \in Envs,
         \/ \E o \in NodeObjs : NewNodeFails(e, o)
         \/ \E s \in SignerObjs : NewSignerFails(e, s)
  PROVE  OwnershipInv'
<1>1. nextId' \in 0 .. MaxId /\ (nextId' # 0 => nextId # 0 /\ nextId' >= nextId)
  <2>1. nextId' = nextId \/ (CanRegister /\ nextId' = Bump(nextId))
    BY DEF NewNodeFails, NewSignerFails, WrapFails
  <2> QED
    BY <2>1, BumpBounds, ConstantsAssumption DEF OwnershipInv, TypeOK
<1>2. UNCHANGED <<envState, handles, refs, hooks, held, garbage, thread, revoked, uses, home,
                  hostRevoked, failures>>
  BY DEF NewNodeFails, NewSignerFails
<1>3. \/ /\ box' = box
         /\ \E o \in NodeObjs : \E s \in {"freed", "live"} :
              node[o] = "unborn" /\ node' = [node EXCEPT ![o] = s]
      \/ /\ node' = node
         /\ \E s \in SignerObjs : box[s] = "unborn" /\ box' = [box EXCEPT ![s] = "freed"]
  BY DEF NewNodeFails, NewSignerFails
<1>4. TypeOK'
  BY <1>1, <1>2, <1>3 DEF OwnershipInv, TypeOK
<1>5. WrappersAgree'
  BY <1>1, <1>2, <1>3, ConstantsAssumption DEF OwnershipInv, TypeOK, WrappersAgree,
                                               WrapperAgrees
<1>6. WrappersDistinct' /\ FramesAgree' /\ DrainsComplete'
  BY <1>2 DEF OwnershipInv, WrappersDistinct, FramesAgree, FrameAgrees, DrainsComplete,
              DrainLeavesNone, EnvNodes
<1>7. ObjectsAccounted'
  BY <1>2, <1>3 DEF OwnershipInv, TypeOK, ObjectsAccounted
<1>8. LiveNodeCanSign'
  BY <1>2, <1>3, ConstantsAssumption DEF OwnershipInv, TypeOK, LiveNodeCanSign, ObjectsAccounted
<1> QED
  BY <1>4, <1>5, <1>6, <1>7, <1>8 DEF OwnershipInv

(* require_sdk_node and require_signer admit a usable node and a held       *)
(* signer of the caller's own environment only (FN_NODE_SIGNER).            *)
LEMMA AttachKeeps ==
  ASSUME OwnershipInv, NEW e \in Envs, NEW x \in held, NEW y \in held, Attach(e, x, y)
  PROVE  OwnershipInv'
<1> DEFINE o == refs[x.addr].obj
           s == refs[y.addr].obj
<1> USE DEF Attach, registry
<1>1. /\ o \in NodeObjs /\ s \in SignerObjs /\ home[o] = e /\ home[s] = e
      /\ node[o] = "live" /\ box[s] = "held"
  BY DEF OwnershipInv, TypeOK, WrappersAgree, WrapperAgrees, require_sdk_node, require_signer,
         owns_handle
<1>2. node' = node /\ box' = box
  BY <1>1 DEF OwnershipInv, TypeOK
<1>3. uses' = uses \/ (s \notin revoked /\ uses' = [uses EXCEPT ![o] = @ \cup {s}])
  OBVIOUS
<1>4. TypeOK'
  BY <1>1, <1>2, <1>3 DEF OwnershipInv, TypeOK
<1>5. WrappersAgree' /\ WrappersDistinct'
  BY <1>2 DEF OwnershipInv, WrappersAgree, WrapperAgrees, WrappersDistinct
<1>6. FramesAgree'
  BY <1>2 DEF OwnershipInv, FramesAgree, FrameAgrees
<1>7. DrainsComplete'
  BY <1>2 DEF OwnershipInv, DrainsComplete, DrainLeavesNone, EnvNodes
<1>8. ObjectsAccounted'
  BY <1>1, <1>2, <1>3, ConstantsAssumption DEF OwnershipInv, TypeOK, ObjectsAccounted
<1>9. LiveNodeCanSign'
  BY <1>1, <1>2, <1>3 DEF OwnershipInv, TypeOK, LiveNodeCanSign
<1> QED
  BY <1>4, <1>5, <1>6, <1>7, <1>8, <1>9 DEF OwnershipInv

(* SdkNode.shutdown() enters the native shutdown for a live node, the       *)
(* destroy for a stopped one.                                               *)
LEMMA BeginShutdownKeeps ==
  ASSUME OwnershipInv, NEW e \in Envs, NEW x \in held, BeginShutdown(e, x)
  PROVE  OwnershipInv'
<1> USE DEF BeginShutdown, registry, natives
<1>1. x.addr \in handles /\ x.addr \in Addrs /\ x.addr # None
  BY ConstantsAssumption DEF OwnershipInv, TypeOK, owns_handle
<1>2. TypeOK'
  BY <1>1, FrameType DEF OwnershipInv, TypeOK
<1>3. WrappersAgree' /\ WrappersDistinct' /\ ObjectsAccounted' /\ LiveNodeCanSign'
  BY DEF OwnershipInv, WrappersAgree, WrapperAgrees, WrappersDistinct, ObjectsAccounted,
         LiveNodeCanSign
<1>4. FramesAgree'
  BY <1>1 DEF OwnershipInv, TypeOK, FramesAgree, FrameAgrees, In, Idle, owns_handle
<1>5. DrainsComplete'
  BY DEF OwnershipInv, TypeOK, DrainsComplete, DrainLeavesNone, EnvNodes, In, Idle
<1> QED
  BY <1>2, <1>3, <1>4, <1>5 DEF OwnershipInv

(* fn_sdk_node_shutdown marks the wrapper after its node stopped, and only  *)
(* then.                                                                    *)
LEMMA ShutdownReturnsKeeps ==
  ASSUME OwnershipInv, NEW e \in Envs, NEW ok \in BOOLEAN, ShutdownReturns(e, ok)
  PROVE  OwnershipInv'
<1> USE DEF ShutdownReturns, Return
<1> DEFINE a == thread[e].ref
           w == refs[a]
<1>1. /\ a \in handles /\ a \in Addrs /\ w \in Ref /\ w.env = e /\ w.kind = "node"
      /\ ~w.freed /\ ~w.stopped /\ w.obj \in NodeObjs /\ node[w.obj] = "live"
  BY DEF OwnershipInv, TypeOK, FramesAgree, FrameAgrees, WrappersAgree, WrapperAgrees
<1>2. CASE ~ok
  <2>1. TypeOK'
    BY <1>2, FrameType DEF OwnershipInv, TypeOK
  <2>2. WrappersAgree' /\ WrappersDistinct' /\ ObjectsAccounted' /\ LiveNodeCanSign'
    BY <1>2 DEF OwnershipInv, WrappersAgree, WrapperAgrees, WrappersDistinct,
                ObjectsAccounted, LiveNodeCanSign
  <2>3. FramesAgree'
    BY <1>2 DEF OwnershipInv, TypeOK, FramesAgree, FrameAgrees, Idle, In
  <2>4. DrainsComplete'
    BY <1>2 DEF OwnershipInv, TypeOK, DrainsComplete, DrainLeavesNone, EnvNodes, Idle, In
  <2> QED
    BY <2>1, <2>2, <2>3, <2>4 DEF OwnershipInv
<1>3. CASE ok
  <2>1. /\ refs' = [refs EXCEPT ![a].stopped = TRUE]
        /\ node' = [node EXCEPT ![w.obj] = "stopped"]
        /\ thread' = [thread EXCEPT ![e].op = "destroy"]
    BY <1>1, <1>3 DEF StopNode, OwnershipInv, TypeOK
  <2>2. /\ refs' = [refs EXCEPT ![a] = [w EXCEPT !.stopped = TRUE]]
        /\ [w EXCEPT !.stopped = TRUE] \in Ref
    BY <2>1, <1>1 DEF OwnershipInv, TypeOK, Ref
  <2>3. TypeOK'
    <3>1. thread' \in [Envs -> Frame]
      <4>1. thread[e] \in Frame /\ thread \in [Envs -> Frame]
        BY DEF OwnershipInv, TypeOK
      <4>2. [thread[e] EXCEPT !.op = "destroy"] \in Frame
        BY <4>1 DEF Frame
      <4> QED
        BY <2>1, <4>1, <4>2
    <3>2. refs' \in [Addrs -> Ref \cup {None}] /\ \A b \in Addrs : b \in handles => refs'[b] \in Ref
      BY <2>2 DEF OwnershipInv, TypeOK
    <3>3. node' \in [NodeObjs -> NodeStates]
      BY <2>1 DEF OwnershipInv, TypeOK
    <3> QED
      BY <1>3, <3>1, <3>2, <3>3 DEF OwnershipInv, TypeOK
  <2>4. /\ WrappersAgree'
        /\ WrappersDistinct'
    <3>1. WrappersAgree'
      BY <1>1, <1>3, <2>1, SMTT(30)
         DEF OwnershipInv, TypeOK, WrappersAgree, WrapperAgrees, WrappersDistinct
    <3>2. WrappersDistinct'
      BY <1>1, <1>3, <2>1, SMTT(30) DEF OwnershipInv, TypeOK, WrappersDistinct
    <3> QED
      BY <3>1, <3>2
  <2>5. FramesAgree'
    BY <1>1, <1>3, <2>1 DEF OwnershipInv, TypeOK, FramesAgree, FrameAgrees, Frame
  <2>6. DrainsComplete'
    BY <1>1, <1>3, <2>1 DEF OwnershipInv, TypeOK, DrainsComplete, DrainLeavesNone, EnvNodes,
                            Frame
  <2>7. ObjectsAccounted' /\ LiveNodeCanSign'
    BY <1>1, <1>3, <2>1 DEF OwnershipInv, TypeOK, ObjectsAccounted, LiveNodeCanSign
  <2> QED
    BY <2>3, <2>4, <2>5, <2>6, <2>7 DEF OwnershipInv
<1> QED
  BY <1>2, <1>3

(* fn_sdk_node_destroy keeps the wrapper and records that its node is       *)
(* freed.                                                                   *)
LEMMA DestroyReturnsKeeps ==
  ASSUME OwnershipInv, NEW e \in Envs, NEW ok \in BOOLEAN, DestroyReturns(e, ok)
  PROVE  OwnershipInv'
<1>1. PICK a \in handles : a = thread[e].ref /\ refs[a].env = e /\ refs[a].kind = "node"
  BY DEF DestroyReturns, OwnershipInv, FramesAgree, FrameAgrees
<1> DEFINE w == refs[a]
           v == shutdown_and_free_sdk_node(w, ok)
<1>2. /\ a \in Addrs /\ w \in Ref /\ w.obj \in NodeObjs
      /\ node[w.obj] = IF w.freed THEN "freed" ELSE IF w.stopped THEN "stopped" ELSE "live"
  BY <1>1 DEF OwnershipInv, TypeOK, WrappersAgree, WrapperAgrees
<1>3. /\ v \in Ref
      /\ v.env = w.env /\ v.kind = w.kind /\ v.id = w.id /\ v.obj = w.obj
      /\ v.freed \/ v = w
      /\ refs' = [refs EXCEPT ![a] = v]
  BY <1>1, <1>2, ShutdownKeepsWrapper DEF DestroyReturns
<1>4. node' = IF v.freed THEN [node EXCEPT ![w.obj] = "freed"] ELSE node
  BY <1>1, NodeAfterShutdown DEF DestroyReturns
<1>5. /\ thread' = [thread EXCEPT ![e] = Idle]
      /\ UNCHANGED <<envState, handles, nextId, hooks, box, revoked, uses, home, hostRevoked, failures>>
      /\ held' \in SUBSET External /\ garbage' \in SUBSET External
  BY DEF DestroyReturns, Return, OwnershipInv, TypeOK
<1> HIDE DEF v
<1>6. TypeOK'
  BY <1>2, <1>3, <1>4, <1>5, FrameType DEF OwnershipInv, TypeOK
<1>7. WrappersAgree' /\ WrappersDistinct'
  <2>1. ASSUME NEW b \in handles, b # a PROVE refs'[b] = refs[b] /\ refs[b].obj # w.obj
    BY <1>2, <1>3, <2>1 DEF OwnershipInv, TypeOK, WrappersDistinct
  <2>2. WrapperAgrees(a)'
    BY <1>1, <1>2, <1>3, <1>4, <1>5 DEF OwnershipInv, TypeOK, WrappersAgree, WrapperAgrees
  <2>3. ASSUME NEW b \in handles, b # a PROVE WrapperAgrees(b)'
    BY <1>2, <1>4, <1>5, <2>1, <2>3 DEF OwnershipInv, TypeOK, WrappersAgree, WrapperAgrees
  <2>4. WrappersDistinct'
    BY <1>2, <1>3, <1>5 DEF OwnershipInv, TypeOK, WrappersDistinct
  <2> QED
    BY <1>5, <2>2, <2>3, <2>4 DEF WrappersAgree
<1>8. FramesAgree'
  BY <1>1, <1>2, <1>3, <1>5 DEF OwnershipInv, TypeOK, FramesAgree, FrameAgrees, Idle, In
<1>9. DrainsComplete'
  BY <1>2, <1>3, <1>5 DEF OwnershipInv, TypeOK, DrainsComplete, DrainLeavesNone, EnvNodes,
                          Idle, In
<1>10. ObjectsAccounted' /\ LiveNodeCanSign'
  BY <1>2, <1>3, <1>4, <1>5 DEF OwnershipInv, TypeOK, ObjectsAccounted, LiveNodeCanSign
<1> QED
  BY <1>6, <1>7, <1>8, <1>9, <1>10 DEF OwnershipInv

(* A program may revoke its signer under a live node; the history           *)
(* remembers it.                                                            *)
LEMMA RevokeSignerKeeps ==
  ASSUME OwnershipInv, NEW e \in Envs, NEW y \in held, RevokeSigner(e, y)
  PROVE  OwnershipInv'
<1> USE DEF RevokeSigner, registry
<1>1. refs[y.addr].obj \in SignerObjs /\ box[refs[y.addr].obj] = "held"
  BY DEF OwnershipInv, TypeOK, WrappersAgree, WrapperAgrees, require_signer, owns_handle
<1>2. box' = box
  BY <1>1 DEF OwnershipInv, TypeOK
<1>3. TypeOK'
  BY <1>1, <1>2 DEF OwnershipInv, TypeOK
<1>4. WrappersAgree' /\ WrappersDistinct' /\ FramesAgree' /\ DrainsComplete' /\ ObjectsAccounted'
  BY <1>2 DEF OwnershipInv, WrappersAgree, WrapperAgrees, WrappersDistinct, FramesAgree,
              FrameAgrees,
              DrainsComplete, DrainLeavesNone, EnvNodes, ObjectsAccounted
<1>5. LiveNodeCanSign'
  BY DEF OwnershipInv, TypeOK, LiveNodeCanSign
<1> QED
  BY <1>3, <1>4, <1>5 DEF OwnershipInv

(* fn_native_external_signer_destroy frees the host's clone once.           *)
LEMMA DestroySignerKeeps ==
  ASSUME OwnershipInv, NEW e \in Envs, NEW y \in held, DestroySigner(e, y)
  PROVE  OwnershipInv'
<1> USE DEF DestroySigner
<1> DEFINE a == y.addr
           w == refs[a]
           v == [w EXCEPT !.freed = TRUE]
<1>1. /\ a \in handles /\ a \in Addrs /\ w \in Ref /\ w.kind = "signer" /\ w.obj \in SignerObjs
      /\ box[w.obj] = IF w.freed THEN "freed" ELSE "held"
  BY DEF OwnershipInv, TypeOK, WrappersAgree, WrapperAgrees, owns_handle
<1>2. v \in Ref /\ v.env = w.env /\ v.kind = w.kind /\ v.id = w.id /\ v.obj = w.obj /\ v.freed
  BY <1>1 DEF Ref
<1>3. \/ w.freed /\ UNCHANGED <<refs, box>>
      \/ refs' = [refs EXCEPT ![a] = v] /\ box' = [box EXCEPT ![w.obj] = "freed"]
  BY <1>1 DEF FreeBox, OwnershipInv, TypeOK
<1>4. held' \in SUBSET External /\ garbage' \in SUBSET External
  BY DEF OwnershipInv, TypeOK
<1> HIDE DEF v
<1>5. TypeOK'
  BY <1>1, <1>2, <1>3, <1>4 DEF OwnershipInv, TypeOK
<1>6. WrappersAgree' /\ WrappersDistinct'
  BY <1>1, <1>2, <1>3 DEF OwnershipInv, TypeOK, WrappersAgree, WrapperAgrees, WrappersDistinct
<1>7. FramesAgree' /\ DrainsComplete'
  BY <1>1, <1>2, <1>3 DEF OwnershipInv, TypeOK, FramesAgree, FrameAgrees, DrainsComplete,
                          DrainLeavesNone, EnvNodes
<1>8. ObjectsAccounted' /\ LiveNodeCanSign'
  BY <1>1, <1>2, <1>3 DEF OwnershipInv, TypeOK, ObjectsAccounted, LiveNodeCanSign
<1> QED
  BY <1>5, <1>6, <1>7, <1>8 DEF OwnershipInv

(* sdk_node_destructor takes a pointer from a matching wrapper only.        *)
LEMMA CollectNodeKeeps ==
  ASSUME OwnershipInv, NEW e \in Envs, NEW x \in held \cup garbage, CollectNode(e, x)
  PROVE  OwnershipInv'
<1> USE DEF CollectNode, Finalizes, registry, natives
<1>1. \/ UNCHANGED thread
      \/ \E a \in handles : /\ a \in Addrs /\ refs[a].env = e /\ refs[a].kind = "node"
                            /\ thread' = [thread EXCEPT ![e] = In("collect", a)]
  BY DEF FinalizerMatch, OwnershipInv, TypeOK
<1>2. held' \in SUBSET External /\ garbage' \in SUBSET External
  BY DEF OwnershipInv, TypeOK
<1>3. WrappersAgree' /\ WrappersDistinct' /\ ObjectsAccounted' /\ LiveNodeCanSign'
  BY DEF OwnershipInv, WrappersAgree, WrapperAgrees, WrappersDistinct, ObjectsAccounted,
         LiveNodeCanSign
<1>4. CASE UNCHANGED thread
  <2>1. TypeOK'
    BY <1>2, <1>4 DEF OwnershipInv, TypeOK
  <2>2. FramesAgree'
    BY <1>4 DEF OwnershipInv, FramesAgree, FrameAgrees
  <2>3. DrainsComplete'
    BY <1>4 DEF OwnershipInv, DrainsComplete, DrainLeavesNone, EnvNodes
  <2> QED
    BY <1>3, <2>1, <2>2, <2>3 DEF OwnershipInv
<1>5. ASSUME NEW a \in handles, a \in Addrs, refs[a].env = e, refs[a].kind = "node",
             thread' = [thread EXCEPT ![e] = In("collect", a)]
      PROVE  OwnershipInv'
  <2>1. In("collect", a) \in Frame
    BY <1>5, FrameType
  <2>2. TypeOK'
    BY <1>2, <1>5, <2>1 DEF OwnershipInv, TypeOK
  <2>3. FramesAgree'
    BY <1>5, ConstantsAssumption DEF OwnershipInv, TypeOK, FramesAgree, FrameAgrees, In
  <2>4. DrainsComplete'
    BY <1>5 DEF OwnershipInv, TypeOK, DrainsComplete, DrainLeavesNone, EnvNodes, In
  <2> QED
    BY <1>3, <2>2, <2>3, <2>4 DEF OwnershipInv
<1> QED
  BY <1>1, <1>4, <1>5

(* A collected node is unlinked when its shutdown succeeded and stays       *)
(* registered when it failed (sdk_node_destructor).                         *)
LEMMA CollectReturnsKeeps ==
  ASSUME OwnershipInv, NEW e \in Envs, NEW ok \in BOOLEAN, CollectReturns(e, ok)
  PROVE  OwnershipInv'
<1>1. PICK a \in handles : a = thread[e].ref /\ refs[a].env = e /\ refs[a].kind = "node"
  BY DEF CollectReturns, OwnershipInv, FramesAgree, FrameAgrees
<1> DEFINE w == refs[a]
           done == shutdown_and_free_sdk_node(w, ok).freed
<1>2. node' = IF done THEN [node EXCEPT ![w.obj] = "freed"] ELSE node
  BY <1>1, NodeAfterShutdown DEF CollectReturns
<1>3. /\ thread' = [thread EXCEPT ![e] = Idle]
      /\ UNCHANGED <<envState, nextId, held, garbage, box, revoked, uses, home, hostRevoked, failures>>
      /\ IF done THEN unregister_and_free(a) ELSE UNCHANGED <<handles, refs>>
      /\ hooks' = hooks \/ hooks' = [hooks EXCEPT ![e] = @ \ {<<"node", w.id>>}]
  BY <1>1 DEF CollectReturns, Return
<1> HIDE DEF done
<1>4. /\ a \in Addrs /\ w.obj \in NodeObjs /\ hooks' \in [Envs -> SUBSET (Kinds \X (0 .. MaxId))]
  BY <1>1, <1>3 DEF OwnershipInv, TypeOK, WrappersAgree, WrapperAgrees
<1>5. CASE done
  <2>1. TypeOK'
    BY <1>2, <1>3, <1>4, <1>5, FrameType DEF OwnershipInv, TypeOK, unregister_and_free
  <2>2. WrappersAgree' /\ WrappersDistinct' /\ ObjectsAccounted'
    BY <1>1, <1>2, <1>3, <1>5, <2>1, UnlinkKeeps
  <2>3. FramesAgree' /\ DrainsComplete'
    <3>1. FrameAgrees(e)' /\ DrainLeavesNone(e)'
      BY <1>3 DEF OwnershipInv, TypeOK, FrameAgrees, DrainLeavesNone, Idle, In
    <3> QED
      BY <1>1, <1>3, <1>5, <3>1, FrameType, UnlinkKeepsThreads
  <2>4. LiveNodeCanSign'
    BY <1>2, <1>3, <1>4 DEF OwnershipInv, TypeOK, LiveNodeCanSign
  <2> QED
    BY <2>1, <2>2, <2>3, <2>4 DEF OwnershipInv
<1>6. CASE ~done
  <2>1. TypeOK'
    BY <1>2, <1>3, <1>4, <1>6, FrameType DEF OwnershipInv, TypeOK
  <2>2. WrappersAgree' /\ WrappersDistinct' /\ ObjectsAccounted' /\ LiveNodeCanSign'
    BY <1>2, <1>3, <1>6 DEF OwnershipInv, WrappersAgree, WrapperAgrees, WrappersDistinct,
                            ObjectsAccounted, LiveNodeCanSign
  <2>3. FramesAgree' /\ DrainsComplete'
    BY <1>3, <1>6 DEF OwnershipInv, TypeOK, FramesAgree, FrameAgrees, DrainsComplete,
                      DrainLeavesNone, EnvNodes, Idle, In
  <2> QED
    BY <2>1, <2>2, <2>3 DEF OwnershipInv
<1> QED
  BY <1>5, <1>6

(* signer_destructor frees the host's clone at most once and unlinks the    *)
(* wrapper.                                                                 *)
LEMMA CollectSignerKeeps ==
  ASSUME OwnershipInv, NEW e \in Envs, NEW x \in held \cup garbage, CollectSigner(e, x)
  PROVE  OwnershipInv'
<1> DEFINE a == x.addr
           w == refs[a]
<1>1. /\ thread[e] = Idle
      /\ UNCHANGED <<envState, nextId, thread, node, revoked, uses, home, hostRevoked, failures>>
      /\ held' \in SUBSET External /\ garbage' \in SUBSET External
      /\ x.kind = "signer"
  BY DEF CollectSigner, Finalizes, OwnershipInv, TypeOK
<1>2. CASE FinalizerMatch(e, x)
  <2>1. /\ a \in handles /\ a \in Addrs /\ w.env = e /\ w.kind = "signer" /\ w.obj \in SignerObjs
        /\ box[w.obj] = IF w.freed THEN "freed" ELSE "held"
    BY <1>1, <1>2 DEF FinalizerMatch, OwnershipInv, TypeOK, WrappersAgree, WrapperAgrees
  <2>2. /\ unregister_and_free(a)
        /\ box' = box \/ box' = [box EXCEPT ![w.obj] = "freed"]
        /\ hooks' = hooks \/ hooks' = [hooks EXCEPT ![e] = @ \ {<<"signer", w.id>>}]
    BY <1>2, <2>1 DEF CollectSigner, FreeBox, OwnershipInv, TypeOK
  <2>3. TypeOK'
    <3>1. hooks' \in [Envs -> SUBSET (Kinds \X (0 .. MaxId))] /\ box' \in [SignerObjs -> BoxStates]
      BY <2>2 DEF OwnershipInv, TypeOK
    <3> QED
      BY <1>1, <2>1, <2>2, <3>1 DEF OwnershipInv, TypeOK, unregister_and_free
  <2>4. WrappersAgree' /\ WrappersDistinct' /\ ObjectsAccounted'
    BY <1>1, <2>1, <2>2, <2>3, UnlinkKeeps
  <2>5. FramesAgree' /\ DrainsComplete'
    <3>1. FrameAgrees(e)' /\ DrainLeavesNone(e)'
      BY <1>1 DEF OwnershipInv, TypeOK, FrameAgrees, DrainLeavesNone, Idle, In
    <3>2. thread' = [thread EXCEPT ![e] = Idle]
      BY <1>1 DEF OwnershipInv, TypeOK
    <3> QED
      BY <1>1, <2>1, <2>2, <3>1, <3>2, FrameType, UnlinkKeepsThreads
  <2>6. LiveNodeCanSign'
    BY <1>1 DEF OwnershipInv, LiveNodeCanSign
  <2> QED
    BY <2>3, <2>4, <2>5, <2>6 DEF OwnershipInv
<1>3. CASE ~FinalizerMatch(e, x)
  <2>1. UNCHANGED <<handles, refs, hooks, box>>
    BY <1>3 DEF CollectSigner
  <2> QED
    BY <1>1, <2>1 DEF OwnershipInv, TypeOK, WrappersAgree, WrapperAgrees, WrappersDistinct,
                      FramesAgree,
                      FrameAgrees, DrainsComplete, DrainLeavesNone, EnvNodes, ObjectsAccounted,
                      LiveNodeCanSign
<1> QED
  BY <1>2, <1>3

(* The end of an environment's program changes no wrapper.                  *)
LEMMA BeginTeardownKeeps ==
  ASSUME OwnershipInv, NEW e \in Envs, BeginTeardown(e)
  PROVE  OwnershipInv'
<1> USE DEF BeginTeardown, Runs, registry, natives
<1>1. TypeOK'
  BY DEF OwnershipInv, TypeOK
<1>2. FramesAgree'
  BY DEF OwnershipInv, TypeOK, FramesAgree, FrameAgrees, Idle, In
<1> QED
  BY <1>1, <1>2 DEF OwnershipInv, WrappersAgree, WrapperAgrees, WrappersDistinct,
                    DrainsComplete,
                    DrainLeavesNone, EnvNodes, ObjectsAccounted, LiveNodeCanSign

(* find_teardown_handle compares no environment; identities make sure that  *)
(* it finds a wrapper of the environment whose callback runs.               *)
LEMMA FoundByHook ==
  ASSUME RegistryInv, NEW e \in Envs, NEW kind \in Kinds, NEW id \in 0 .. MaxId,
         <<kind, id>> \in hooks[e], NEW a \in Addrs, TeardownMatch(a, kind, id)
  PROVE  a \in handles /\ refs[a] \in Ref /\ refs[a].env = e /\ refs[a].kind = kind
  BY DEF TeardownMatch, RegistryInv, OwnershipInv, TypeOK, HooksAgree

(* A teardown callback enters its handler with a pointer to a wrapper of    *)
(* its own environment (sdk_node_teardown, signer_teardown).                *)
LEMMA HookKeeps ==
  ASSUME RegistryInv, NEW e \in Envs, NEW kind \in Kinds, NEW id \in 0 .. MaxId,
         NEW g \in [Addrs -> Frame], Hook(e, kind, id, g),
         \A a \in Addrs : IF kind = "node" THEN g[a] = In("teardown", a)
                                           ELSE g[a] = [In("drain", None) EXCEPT !.self = a]
  PROVE  OwnershipInv'
<1> USE DEF Hook, natives
<1>1. /\ envState[e] = "tearing" /\ thread[e] = Idle
      /\ UNCHANGED <<natives, envState, handles, nextId, held, garbage, failures>>
      /\ hooks' \in [Envs -> SUBSET (Kinds \X (0 .. MaxId))]
  BY DEF RegistryInv, OwnershipInv, TypeOK
<1>2. CASE UNCHANGED <<refs, thread>>
  BY <1>1, <1>2 DEF RegistryInv, OwnershipInv, TypeOK, WrappersAgree, WrapperAgrees,
                    WrappersDistinct,
       FramesAgree, FrameAgrees, DrainsComplete, DrainLeavesNone, EnvNodes, ObjectsAccounted,
       LiveNodeCanSign
<1>3. ASSUME NEW a \in Addrs, TeardownMatch(a, kind, id),
             refs' = [refs EXCEPT ![a] = ClearFlag(@)],
             thread' = [thread EXCEPT ![e] = g[a]]
      PROVE  OwnershipInv'
  <2>1. a \in handles /\ refs[a] \in Ref /\ refs[a].env = e /\ refs[a].kind = kind
    BY <1>3, FoundByHook
  <2> DEFINE w == refs[a]
             v == ClearFlag(w)
  <2>2. /\ v \in Ref /\ v.env = w.env /\ v.kind = w.kind /\ v.id = w.id /\ v.obj = w.obj
        /\ v.freed = w.freed /\ v.stopped = w.stopped
        /\ refs' = [refs EXCEPT ![a] = v]
    BY <1>3, <2>1 DEF ClearFlag, Ref
  <2> HIDE DEF v, Hook
  <2>3. TypeOK'
    BY <1>1, <1>3, <2>2 DEF RegistryInv, OwnershipInv, TypeOK
  <2>4. WrappersAgree' /\ WrappersDistinct'
    BY <1>1, <2>1, <2>2 DEF RegistryInv, OwnershipInv, TypeOK, WrappersAgree, WrapperAgrees,
                            WrappersDistinct
  <2>5. FramesAgree'
    <3>1. FrameAgrees(e)'
      BY <1>1, <1>3, <2>1, <2>2, ConstantsAssumption DEF RegistryInv, OwnershipInv, TypeOK,
                                                         FrameAgrees, In
    <3>2. ASSUME NEW d \in Envs, d # e PROVE FrameAgrees(d)'
      BY <1>1, <1>3, <2>1, <2>2, <3>2 DEF RegistryInv, OwnershipInv, TypeOK, FramesAgree,
                                          FrameAgrees
    <3> QED
      BY <3>1, <3>2 DEF FramesAgree
  <2>6. DrainsComplete'
    <3>1. DrainLeavesNone(e)'
      BY <1>1, <1>3, <2>1, <2>2 DEF RegistryInv, OwnershipInv, TypeOK, WrappersAgree,
                                    WrapperAgrees,
                                    DrainLeavesNone, EnvNodes, In
    <3>2. ASSUME NEW d \in Envs, d # e PROVE DrainLeavesNone(d)'
      BY <1>1, <1>3, <2>1, <2>2, <3>2 DEF RegistryInv, OwnershipInv, TypeOK, DrainsComplete,
                                          DrainLeavesNone, EnvNodes
    <3> QED
      BY <3>1, <3>2 DEF DrainsComplete
  <2>7. ObjectsAccounted' /\ LiveNodeCanSign'
    BY <1>1, <2>1, <2>2 DEF RegistryInv, OwnershipInv, TypeOK, ObjectsAccounted, LiveNodeCanSign
  <2> QED
    BY <2>3, <2>4, <2>5, <2>6, <2>7 DEF OwnershipInv
<1> QED
  BY <1>2, <1>3

(* sdk_node_teardown frees and unlinks a node that stopped and retains one  *)
(* that did not.                                                            *)
LEMMA NodeHookReturnsKeeps ==
  ASSUME OwnershipInv, NEW e \in Envs, NEW ok \in BOOLEAN, NodeHookReturns(e, ok)
  PROVE  OwnershipInv'
<1>1. PICK a \in handles : a = thread[e].ref /\ refs[a].env = e /\ refs[a].kind = "node"
  BY DEF NodeHookReturns, OwnershipInv, FramesAgree, FrameAgrees
<1> DEFINE w == refs[a]
           done == shutdown_and_free_sdk_node(w, ok).freed
<1>2. node' = IF done THEN [node EXCEPT ![w.obj] = "freed"] ELSE node
  BY <1>1, NodeAfterShutdown DEF NodeHookReturns
<1>3. /\ thread' = [thread EXCEPT ![e] = Idle]
      /\ UNCHANGED <<envState, nextId, hooks, held, garbage, box, revoked, uses, home, hostRevoked>>
      /\ IF done THEN unregister_and_free(a) ELSE UNCHANGED <<handles, refs>>
      /\ failures' \in SUBSET Envs
  BY <1>1 DEF NodeHookReturns, Return, FailuresAfter, OwnershipInv, TypeOK
<1> HIDE DEF done
<1>4. a \in Addrs /\ w.obj \in NodeObjs
  BY <1>1 DEF OwnershipInv, TypeOK, WrappersAgree, WrapperAgrees
<1>5. CASE done
  <2>1. TypeOK'
    BY <1>2, <1>3, <1>4, <1>5, FrameType DEF OwnershipInv, TypeOK, unregister_and_free
  <2>2. WrappersAgree' /\ WrappersDistinct' /\ ObjectsAccounted'
    BY <1>1, <1>2, <1>3, <1>5, <2>1, UnlinkKeeps
  <2>3. FramesAgree' /\ DrainsComplete'
    <3>1. FrameAgrees(e)' /\ DrainLeavesNone(e)'
      BY <1>3 DEF OwnershipInv, TypeOK, FrameAgrees, DrainLeavesNone, Idle, In
    <3> QED
      BY <1>1, <1>3, <1>5, <3>1, FrameType, UnlinkKeepsThreads
  <2>4. LiveNodeCanSign'
    BY <1>2, <1>3, <1>4 DEF OwnershipInv, TypeOK, LiveNodeCanSign
  <2> QED
    BY <2>1, <2>2, <2>3, <2>4 DEF OwnershipInv
<1>6. CASE ~done
  <2>1. TypeOK'
    BY <1>2, <1>3, <1>4, <1>6, FrameType DEF OwnershipInv, TypeOK
  <2>2. WrappersAgree' /\ WrappersDistinct' /\ ObjectsAccounted' /\ LiveNodeCanSign'
    BY <1>2, <1>3, <1>6 DEF OwnershipInv, WrappersAgree, WrapperAgrees, WrappersDistinct,
                            ObjectsAccounted, LiveNodeCanSign
  <2>3. FramesAgree' /\ DrainsComplete'
    BY <1>3, <1>6 DEF OwnershipInv, TypeOK, FramesAgree, FrameAgrees, DrainsComplete,
                      DrainLeavesNone, EnvNodes, Idle, In
  <2> QED
    BY <2>1, <2>2, <2>3 DEF OwnershipInv
<1> QED
  BY <1>5, <1>6

(* shutdown_environment_nodes takes the least identity above its cursor,    *)
(* so no node of the environment is skipped.                                *)
LEMMA DrainNextKeeps ==
  ASSUME OwnershipInv, NEW e \in Envs, DrainNext(e)
  PROVE  OwnershipInv'
<1> USE DEF registry, natives
<1> DEFINE f == thread[e]
<1>1. /\ f \in Frame /\ f.op = "drain" /\ f.self \in handles /\ refs[f.self].env = e
      /\ f.ref = None /\ thread \in [Envs -> Frame]
      /\ UNCHANGED <<registry, natives, envState, held, garbage, failures>>
  BY DEF DrainNext, OwnershipInv, TypeOK, FramesAgree, FrameAgrees
<1>2. PICK a \in handles : /\ a \in Addrs /\ refs[a].env = e /\ refs[a].kind = "node"
                           /\ \A b \in Ahead(f) : refs[a].id <= refs[b].id
                           /\ thread' = [thread EXCEPT ![e] =
                                           [f EXCEPT !.op = "drainStop", !.ref = a, !.cursor = refs[a].id]]
  BY <1>1 DEF DrainNext, Ahead, EnvNodes, OwnershipInv, TypeOK
<1> DEFINE g == [f EXCEPT !.op = "drainStop", !.ref = a, !.cursor = refs[a].id]
<1>3. /\ g \in Frame /\ g.op = "drainStop" /\ g.ref = a /\ g.self = f.self /\ g.ok = f.ok
      /\ g.cursor = refs[a].id
  <2>1. refs[a].id \in 0 .. MaxId
    BY <1>2 DEF OwnershipInv, TypeOK, Ref
  <2> QED
    BY <1>1, <1>2, <2>1 DEF Frame
<1>4. thread' = [thread EXCEPT ![e] = g]
  BY <1>2
<1> HIDE DEF g
<1>5. TypeOK'
  BY <1>1, <1>3, <1>4 DEF OwnershipInv, TypeOK
<1>6. WrappersAgree' /\ WrappersDistinct' /\ ObjectsAccounted' /\ LiveNodeCanSign'
  BY <1>1 DEF OwnershipInv, WrappersAgree, WrapperAgrees, WrappersDistinct, ObjectsAccounted,
              LiveNodeCanSign
<1>7. FramesAgree'
  <2>1. FrameAgrees(e)'
    BY <1>1, <1>2, <1>3, <1>4, ConstantsAssumption DEF OwnershipInv, TypeOK, FramesAgree,
                                                       FrameAgrees
  <2>2. ASSUME NEW d \in Envs, d # e PROVE FrameAgrees(d)'
    BY <1>1, <1>4, <2>2 DEF OwnershipInv, FramesAgree, FrameAgrees
  <2> QED
    BY <2>1, <2>2 DEF FramesAgree
<1>8. DrainsComplete'
  <2>1. DrainLeavesNone(e)'
    <3>1. SUFFICES ASSUME f.ok, NEW b \in handles, refs[b].env = e, refs[b].kind = "node", b # a
                   PROVE  refs[b].id > refs[a].id
      BY <1>1, <1>3, <1>4 DEF DrainLeavesNone, EnvNodes
    <3>2. refs[b].id > f.cursor
      BY <1>1, <3>1, ConstantsAssumption DEF OwnershipInv, TypeOK, DrainsComplete,
                                             DrainLeavesNone, EnvNodes
    <3>3. refs[a].id <= refs[b].id
      BY <1>1, <1>2, <3>1, <3>2 DEF Ahead, EnvNodes
    <3>4. refs[a].id # refs[b].id /\ refs[a].id \in Nat /\ refs[b].id \in Nat
      BY <1>2, <3>1 DEF OwnershipInv, WrappersDistinct, WrappersAgree, WrapperAgrees
    <3> QED
      BY <3>3, <3>4
  <2>2. ASSUME NEW d \in Envs, d # e PROVE DrainLeavesNone(d)'
    BY <1>1, <1>4, <2>2 DEF OwnershipInv, DrainsComplete, DrainLeavesNone, EnvNodes
  <2> QED
    BY <2>1, <2>2 DEF DrainsComplete
<1> QED
  BY <1>5, <1>6, <1>7, <1>8 DEF OwnershipInv

(* shutdown_environment_nodes unlinks a node that stopped and remembers a   *)
(* failure in all_shutdown.                                                 *)
LEMMA DrainReturnsKeeps ==
  ASSUME OwnershipInv, NEW e \in Envs, NEW ok \in BOOLEAN, DrainReturns(e, ok)
  PROVE  OwnershipInv'
<1> DEFINE f == thread[e]
<1>1. PICK a \in handles : /\ a = f.ref /\ a \in Addrs /\ refs[a].env = e /\ refs[a].kind = "node"
                           /\ f \in Frame /\ f.op = "drainStop" /\ envState[e] = "tearing"
                           /\ f.self # a /\ f.self \in handles /\ f.self # None
                           /\ refs[f.self].env = e /\ refs[f.self].kind = "signer"
  BY DEF DrainReturns, OwnershipInv, TypeOK, FramesAgree, FrameAgrees
<1> DEFINE w == refs[a]
           done == shutdown_and_free_sdk_node(w, ok).freed
           g == [f EXCEPT !.op = "drain", !.ref = None, !.ok = f.ok /\ done]
<1>2. node' = IF done THEN [node EXCEPT ![w.obj] = "freed"] ELSE node
  BY <1>1, NodeAfterShutdown DEF DrainReturns
<1>3. /\ thread' = [thread EXCEPT ![e] = g]
      /\ UNCHANGED <<envState, nextId, hooks, held, garbage, box, revoked, uses, home, hostRevoked>>
      /\ IF done THEN unregister_and_free(a) ELSE UNCHANGED <<handles, refs>>
      /\ failures' \in SUBSET Envs
  BY <1>1 DEF DrainReturns, FailuresAfter, OwnershipInv, TypeOK
<1>4. a \in Addrs /\ w.obj \in NodeObjs
  BY <1>1 DEF OwnershipInv, TypeOK, WrappersAgree, WrapperAgrees
<1>5. done \in BOOLEAN
  BY <1>1, ShutdownKeepsWrapper DEF OwnershipInv, TypeOK, Ref
<1> HIDE DEF done
<1>6. /\ g \in Frame /\ g.op = "drain" /\ g.ref = None /\ g.self = f.self /\ g.cursor = f.cursor
      /\ g.ok => f.ok /\ done
  BY <1>1, <1>5 DEF Frame
<1> HIDE DEF g
<1>7. CASE done
  <2>1. TypeOK'
    BY <1>2, <1>3, <1>4, <1>6, <1>7 DEF OwnershipInv, TypeOK, unregister_and_free
  <2>2. WrappersAgree' /\ WrappersDistinct' /\ ObjectsAccounted'
    BY <1>1, <1>2, <1>3, <1>7, <2>1, UnlinkKeeps
  <2>3. FramesAgree' /\ DrainsComplete'
    <3>1. FrameAgrees(e)'
      BY <1>1, <1>3, <1>6, <1>7 DEF OwnershipInv, TypeOK, FrameAgrees, unregister_and_free
    <3>2. DrainLeavesNone(e)'
      BY <1>1, <1>3, <1>6, <1>7 DEF OwnershipInv, TypeOK, DrainsComplete, DrainLeavesNone,
                                    EnvNodes,
                                    unregister_and_free
    <3> QED
      BY <1>1, <1>3, <1>6, <1>7, <3>1, <3>2, UnlinkKeepsThreads
  <2>4. LiveNodeCanSign'
    BY <1>2, <1>3, <1>4 DEF OwnershipInv, TypeOK, LiveNodeCanSign
  <2> QED
    BY <2>1, <2>2, <2>3, <2>4 DEF OwnershipInv
<1>8. CASE ~done
  <2>1. TypeOK'
    BY <1>2, <1>3, <1>4, <1>6, <1>8 DEF OwnershipInv, TypeOK
  <2>2. WrappersAgree' /\ WrappersDistinct' /\ ObjectsAccounted' /\ LiveNodeCanSign'
    BY <1>2, <1>3, <1>8 DEF OwnershipInv, WrappersAgree, WrapperAgrees, WrappersDistinct,
                            ObjectsAccounted, LiveNodeCanSign
  <2>3. FramesAgree'
    BY <1>1, <1>3, <1>6, <1>8 DEF OwnershipInv, TypeOK, FramesAgree, FrameAgrees
  <2>4. DrainsComplete'
    BY <1>3, <1>6, <1>8 DEF OwnershipInv, TypeOK, DrainsComplete, DrainLeavesNone, EnvNodes
  <2> QED
    BY <2>1, <2>2, <2>3, <2>4 DEF OwnershipInv
<1> QED
  BY <1>7, <1>8

(* When the drain has found no more node and met no failure, every node of  *)
(* the environment is freed.                                                *)
LEMMA DrainedMeansFreed ==
  ASSUME OwnershipInv, NEW e \in Envs, thread[e].op = "drain", thread[e].ok,
  Ahead(thread[e]) = {}
  PROVE  \A o \in NodeObjs : home[o] = e => node[o] = "freed"
<1> DEFINE f == thread[e]
<1>1. f.ref = None /\ f.self \in handles /\ refs[f.self].env = e
  BY DEF OwnershipInv, FramesAgree, FrameAgrees
<1>2. ASSUME NEW a \in EnvNodes(e) PROVE FALSE
  <2>1. a \in handles /\ a # None
    BY <1>2, ConstantsAssumption DEF EnvNodes, OwnershipInv, TypeOK
  <2>2. refs[a].id > f.cursor
    BY <1>1, <1>2, <2>1 DEF OwnershipInv, DrainsComplete, DrainLeavesNone
  <2>3. a \in Ahead(f)
    BY <1>1, <1>2, <2>1, <2>2 DEF Ahead
  <2> QED
    BY <2>3
<1>3. ASSUME NEW o \in NodeObjs, home[o] = e, node[o] # "freed" PROVE FALSE
  <2>1. PICK a \in handles : refs[a].kind = "node" /\ refs[a].obj = o
    BY <1>3, ConstantsAssumption DEF OwnershipInv, ObjectsAccounted
  <2>2. refs[a].env = e
    BY <1>3, <2>1 DEF OwnershipInv, WrappersAgree, WrapperAgrees
  <2> QED
    BY <1>2, <2>1, <2>2 DEF EnvNodes
<1> QED
  BY <1>3

(* A drain is the callback of a registered signer of its environment.       *)
LEMMA DrainIsASigners ==
  ASSUME OwnershipInv, NEW e \in Envs, NEW ok \in BOOLEAN, DrainDone(e, ok)
  PROVE  \E a \in handles :
           /\ a = thread[e].self /\ a \in Addrs /\ thread[e].ref = None
           /\ thread[e].op = "drain" /\ envState[e] = "tearing"
           /\ refs[a].env = e /\ refs[a].kind = "signer"
           /\ refs[a].obj \in SignerObjs /\ home[refs[a].obj] = e
           /\ box[refs[a].obj] = IF refs[a].freed THEN "freed" ELSE "held"
<1>1. thread[e].op = "drain"
  BY DEF DrainDone
<1>2. FrameAgrees(e)
  BY DEF OwnershipInv, FramesAgree
<1>3. PICK a \in handles : /\ a = thread[e].self /\ refs[a].env = e /\ refs[a].kind = "signer"
                           /\ envState[e] = "tearing" /\ thread[e].ref = None
  BY <1>1, <1>2 DEF FrameAgrees
<1>4. a \in Addrs /\ WrapperAgrees(a)
  BY DEF OwnershipInv, TypeOK, WrappersAgree
<1> QED
  BY <1>1, <1>3, <1>4 DEF WrapperAgrees

(* signer_teardown revokes its signer only when no node can still be using  *)
(* it.                                                                      *)
LEMMA DrainDoneKeeps ==
  ASSUME OwnershipInv, NEW e \in Envs, NEW ok \in BOOLEAN, DrainDone(e, ok)
  PROVE  OwnershipInv'
<1>1. PICK a \in handles : /\ a = thread[e].self /\ a \in Addrs /\ refs[a].env = e
                           /\ refs[a].kind = "signer" /\ refs[a].obj \in SignerObjs
                           /\ box[refs[a].obj] = IF refs[a].freed THEN "freed" ELSE "held"
  BY DrainIsASigners
<1> DEFINE w == refs[a]
<1>2. /\ thread' = [thread EXCEPT ![e] = Idle]
      /\ UNCHANGED <<envState, nextId, hooks, held, garbage, node, uses, home, hostRevoked>>
      /\ failures' \in SUBSET Envs
  BY DEF DrainDone, Return, OwnershipInv, TypeOK
<1>3. \/ UNCHANGED <<handles, refs, box, revoked>>
      \/ unregister_and_free(a) /\ UNCHANGED <<box, revoked>>
      \/ /\ unregister_and_free(a) /\ thread[e].op = "drain" /\ thread[e].ok /\ Ahead(thread[e]) = {}
         /\ box' = [box EXCEPT ![w.obj] = "freed"] /\ revoked' = revoked \cup {w.obj}
  BY <1>1 DEF DrainDone, FreeBox, OwnershipInv, TypeOK
<1>4. CASE UNCHANGED <<handles, refs, box, revoked>>
  <2>1. TypeOK'
    BY <1>2, <1>4, FrameType DEF OwnershipInv, TypeOK
  <2>2. WrappersAgree' /\ WrappersDistinct' /\ ObjectsAccounted' /\ LiveNodeCanSign'
    BY <1>2, <1>4 DEF OwnershipInv, WrappersAgree, WrapperAgrees, WrappersDistinct,
                      ObjectsAccounted, LiveNodeCanSign
  <2>3. FramesAgree' /\ DrainsComplete'
    BY <1>2, <1>4 DEF OwnershipInv, TypeOK, FramesAgree, FrameAgrees, DrainsComplete,
                      DrainLeavesNone, EnvNodes, Idle, In
  <2> QED
    BY <2>1, <2>2, <2>3 DEF OwnershipInv
<1>5. CASE /\ unregister_and_free(a)
           /\ \/ UNCHANGED <<box, revoked>>
              \/ /\ thread[e].op = "drain" /\ thread[e].ok /\ Ahead(thread[e]) = {}
                 /\ box' = [box EXCEPT ![w.obj] = "freed"] /\ revoked' = revoked \cup {w.obj}
  <2>1. TypeOK'
    BY <1>1, <1>2, <1>5, FrameType DEF OwnershipInv, TypeOK, unregister_and_free
  <2>2. WrappersAgree' /\ WrappersDistinct' /\ ObjectsAccounted'
    BY <1>1, <1>2, <1>5, <2>1, UnlinkKeeps
  <2>3. FramesAgree' /\ DrainsComplete'
    <3>1. FrameAgrees(e)' /\ DrainLeavesNone(e)'
      BY <1>2 DEF OwnershipInv, TypeOK, FrameAgrees, DrainLeavesNone, Idle, In
    <3> QED
      BY <1>1, <1>2, <1>5, <3>1, FrameType, UnlinkKeepsThreads
  <2>4. LiveNodeCanSign'
    <3>1. CASE revoked' = revoked
      BY <1>2, <3>1 DEF OwnershipInv, LiveNodeCanSign
    <3>2. CASE thread[e].op = "drain" /\ thread[e].ok /\ Ahead(thread[e]) = {} /\ revoked' = revoked \cup {w.obj}
      <4>1. \A o \in NodeObjs : home[o] = e => node[o] = "freed"
        BY <3>2, DrainedMeansFreed
      <4>2. home[w.obj] = e
        BY <1>1 DEF OwnershipInv, WrappersAgree, WrapperAgrees
      <4>3. \A o \in NodeObjs : w.obj \in uses[o] => node[o] = "freed"
        BY <4>1, <4>2 DEF OwnershipInv, ObjectsAccounted
      <4> QED
        BY <1>2, <3>2, <4>3 DEF OwnershipInv, LiveNodeCanSign
    <3> QED
      BY <1>5, <3>1, <3>2
  <2> QED
    BY <2>1, <2>2, <2>3, <2>4 DEF OwnershipInv
<1> QED
  BY <1>3, <1>4, <1>5

(* The last step of a teardown, and the reuse of an environment's address,  *)
(* change no wrapper.                                                       *)
LEMMA EnvironmentKeeps ==
  ASSUME OwnershipInv, NEW e \in Envs, TeardownDone(e) \/ Reopen(e)
  PROVE  OwnershipInv'
<1> USE DEF TeardownDone, Reopen, registry, natives
<1>1. TypeOK'
  BY DEF OwnershipInv, TypeOK
<1>2. FramesAgree'
  BY DEF OwnershipInv, TypeOK, FramesAgree, FrameAgrees, Idle, In
<1> QED
  BY <1>1, <1>2 DEF OwnershipInv, WrappersAgree, WrapperAgrees, WrappersDistinct,
                    DrainsComplete,
                    DrainLeavesNone, EnvNodes, ObjectsAccounted, LiveNodeCanSign

(* Both kinds of teardown callback keep the ownership invariant.            *)
LEMMA CallbackKeeps ==
  ASSUME RegistryInv, NEW e \in Envs, NEW id \in 0 .. MaxId, NodeHook(e, id) \/ SignerHook(e,
  id)
  PROVE  OwnershipInv'
<1> DEFINE g == [a \in Addrs |-> In("teardown", a)]
           h == [a \in Addrs |-> [In("drain", None) EXCEPT !.self = a]]
<1>1. g \in [Addrs -> Frame] /\ h \in [Addrs -> Frame]
  <2>1. In("drain", None) \in Frame
    BY FrameType
  <2>2. ASSUME NEW a \in Addrs PROVE [In("drain", None) EXCEPT !.self = a] \in Frame
    BY <2>1 DEF Frame
  <2> QED
    BY <2>2, FrameType
<1>2. CASE NodeHook(e, id)
  <2>1. Hook(e, "node", id, g)
    BY <1>2 DEF NodeHook
  <2> HIDE DEF Hook
  <2> QED
    BY <1>1, <2>1, HookKeeps
<1>3. CASE SignerHook(e, id)
  <2>1. Hook(e, "signer", id, h)
    BY <1>3 DEF SignerHook
  <2> QED
    BY <1>1, <2>1, HookKeeps
<1> QED
  BY <1>2, <1>3

(* Every step of the registry keeps the ownership invariant.                *)
LEMMA OwnershipStep == RegistryInv /\ [Next]_vars => OwnershipInv'
<1> SUFFICES ASSUME RegistryInv, [Next]_vars PROVE OwnershipInv'
  OBVIOUS
<1>1. OwnershipInv
  BY DEF RegistryInv
<1>2. CASE UNCHANGED vars
  BY <1>1, <1>2 DEF vars, OwnershipInv, TypeOK, WrappersAgree, WrapperAgrees, WrappersDistinct,
       FramesAgree, FrameAgrees, DrainsComplete, DrainLeavesNone, EnvNodes, ObjectsAccounted,
       LiveNodeCanSign
<1>3. CASE Next
  <2>1. PICK e \in Envs : Program(e) \/ Collector(e) \/ BeginTeardown(e) \/ Reopen(e) \/ Continue(e)
    BY <1>3 DEF Next
  <2>2. CASE Program(e)
    BY <1>1, <2>2, NewNodeKeeps, NewSignerKeeps, CreationFailureKeeps, BeginShutdownKeeps,
       RevokeSignerKeeps, DestroySignerKeeps, AttachKeeps DEF Program
  <2>3. CASE Collector(e)
    BY <1>1, <2>3, CollectNodeKeeps, CollectSignerKeeps DEF Collector
  <2>4. CASE BeginTeardown(e) \/ Reopen(e) \/ TeardownDone(e)
    BY <1>1, <2>4, BeginTeardownKeeps, EnvironmentKeeps
  <2>5. CASE Continue(e)
    BY <1>1, <2>4, <2>5, ShutdownReturnsKeeps, DestroyReturnsKeeps, CollectReturnsKeeps,
       NodeHookReturnsKeeps, DrainReturnsKeeps, DrainDoneKeeps, CallbackKeeps, DrainNextKeeps
       DEF Continue
  <2> QED
    BY <2>1, <2>2, <2>3, <2>4, <2>5
<1> QED
  BY <1>2, <1>3

(* Steps that leave the registry's list, its flags and libjs's list alone   *)
(* keep the hook invariant.                                                 *)
LEMMA HooksUntouched ==
  ASSUME RegistryInv, TypeOK', UNCHANGED <<envState, handles, hooks>>,
         nextId' # 0 => nextId # 0 /\ nextId' >= nextId,
         \A a \in handles : /\ refs'[a].env = refs[a].env /\ refs'[a].kind = refs[a].kind
                            /\ refs'[a].id = refs[a].id /\ refs'[a].hook = refs[a].hook
  PROVE  HooksAgree' /\ HookAgreement'
<1>1. envState' = envState /\ handles' = handles /\ hooks' = hooks
  OBVIOUS
<1>2. HooksAgree'
  <2>1. nextId \in 0 .. MaxId /\ nextId' \in 0 .. MaxId /\ MaxId \in Nat
    BY ConstantsAssumption DEF RegistryInv, OwnershipInv, TypeOK
  <2>2. \A id \in 0 .. MaxId : (nextId # 0 => id < nextId) => (nextId' # 0 => id < nextId')
    BY <2>1
  <2> QED
    BY <1>1, <2>2 DEF RegistryInv, HooksAgree
<1>3. HookAgreement'
  BY <1>1 DEF RegistryInv, HookAgreement
<1> QED
  BY <1>2, <1>3

(* Unlinking a wrapper keeps the hook invariant if its callback is removed  *)
(* with it, or its environment is being torn down.                          *)
LEMMA HooksAfterUnlink ==
  ASSUME RegistryInv, TypeOK', NEW e \in Envs, NEW a \in handles, refs[a].env = e,
         unregister_and_free(a), UNCHANGED <<envState, nextId>>,
         \/ envState[e] = "tearing" /\ hooks' = hooks
         \/ hooks' = IF refs[a].hook THEN [hooks EXCEPT ![e] = @ \ {<<refs[a].kind, refs[a].id>>}] ELSE hooks
  PROVE  HooksAgree' /\ HookAgreement'
<1>1. /\ a \in Addrs /\ refs[a].kind \in Kinds /\ refs[a].id \in 0 .. MaxId /\ handles' = handles \ {a}
      /\ \A b \in handles' : b \in handles /\ b # a /\ b \in Addrs /\ refs'[b] = refs[b] /\ refs[b].id # refs[a].id
      /\ \A d \in Envs : hooks'[d] \subseteq hooks[d]
      /\ \A d \in Envs \ {e} : hooks'[d] = hooks[d]
      /\ \A kind \in Kinds, id \in 0 .. MaxId :
           <<kind, id>> \in hooks[e] /\ <<kind, id>> \notin hooks'[e] => kind = refs[a].kind /\ id = refs[a].id
      /\ envState[e] = "running" => <<refs[a].kind, refs[a].id>> \notin hooks'[e]
  <2>1. /\ a \in Addrs /\ refs[a] \in Ref /\ hooks \in [Envs -> SUBSET (Kinds \X (0 .. MaxId))]
        /\ refs[a].kind \in Kinds /\ refs[a].id \in 0 .. MaxId
    BY DEF RegistryInv, OwnershipInv, TypeOK, Ref
  <2>2. handles' = handles \ {a} /\ \A b \in handles' : b \in handles /\ b # a /\ b \in Addrs
                                        /\ refs'[b] = refs[b] /\ refs[b].id # refs[a].id
    BY DEF RegistryInv, OwnershipInv, TypeOK, WrappersDistinct, unregister_and_free
  <2>3. envState[e] = "running" => <<refs[a].kind, refs[a].id>> \notin hooks'[e]
    BY <2>1 DEF RegistryInv, HookAgreement
  <2> QED
    BY <2>1, <2>2, <2>3
<1>2. HooksAgree'
  BY <1>1 DEF RegistryInv, HooksAgree
<1>3. HookAgreement'
  <2>1. ASSUME NEW b \in handles'
        PROVE refs'[b].hook <=> <<refs'[b].kind, refs'[b].id>> \in hooks'[refs'[b].env]
    <3>1. refs[b] \in Ref /\ refs[b].env \in Envs /\ refs[b].kind \in Kinds /\ refs[b].id \in 0 .. MaxId
      BY <1>1, <2>1 DEF RegistryInv, OwnershipInv, TypeOK, Ref
    <3>2. refs[b].hook <=> <<refs[b].kind, refs[b].id>> \in hooks[refs[b].env]
      BY <1>1, <2>1 DEF RegistryInv, HookAgreement
    <3> QED
      BY <1>1, <2>1, <3>1, <3>2
  <2>2. ASSUME NEW d \in Envs, envState[d] = "running", NEW kind \in Kinds, NEW id \in 0 .. MaxId,
               <<kind, id>> \in hooks'[d]
        PROVE  \E b \in handles' : refs'[b].kind = kind /\ refs'[b].id = id
    <3>1. PICK b \in handles : refs[b].kind = kind /\ refs[b].id = id
      BY <1>1, <2>2 DEF RegistryInv, HookAgreement
    <3>2. b # a
      <4>1. refs[b].env = d
        BY <1>1, <2>2, <3>1 DEF RegistryInv, HooksAgree
      <4> QED
        BY <1>1, <2>2, <3>1, <4>1
    <3> QED
      BY <1>1, <3>1, <3>2
  <2> QED
    BY <2>1, <2>2 DEF HookAgreement
<1> QED
  BY <1>2, <1>3

(* A new wrapper's callback carries an identity no other callback has       *)
(* (js_add_teardown_callback).                                              *)
LEMMA HooksAfterWrap ==
  ASSUME RegistryInv, NEW e \in Envs, envState[e] = "running", NEW kind \in Kinds,
  NEW o \in Objs,
         NEW a \in Addrs, Wrap(e, kind, o, a), UNCHANGED envState
  PROVE  HooksAgree' /\ HookAgreement'
<1> USE DEF Wrap, register_handle, NewRef
<1>1. /\ a \notin handles /\ handles' = handles \cup {a}
      /\ refs'[a].env = e /\ refs'[a].kind = kind /\ refs'[a].id = nextId /\ refs'[a].hook
      /\ \A b \in handles : b # a /\ b \in Addrs /\ refs'[b] = refs[b] /\ refs[b] \in Ref
      /\ hooks'[e] = hooks[e] \cup {<<kind, nextId>>}
      /\ \A d \in Envs \ {e} : hooks'[d] = hooks[d]
  BY NullAssumption DEF RegistryInv, OwnershipInv, TypeOK
<1>2. /\ nextId \in 1 .. MaxId
      /\ nextId' \in 0 .. MaxId /\ (nextId' # 0 => nextId' = nextId + 1)
      /\ \A b \in handles : refs[b].id < nextId /\ refs[b].id \in 0 .. MaxId /\ refs[b].kind \in Kinds
                            /\ refs[b].env \in Envs
      /\ \A d \in Envs, k \in Kinds, id \in 0 .. MaxId : <<k, id>> \in hooks[d] => id < nextId
  <2>1. nextId \in 1 .. MaxId /\ Bump(nextId) \in 0 .. MaxId /\ (Bump(nextId) # 0 => Bump(nextId) = nextId + 1)
    BY BumpBounds DEF RegistryInv, OwnershipInv, TypeOK
  <2>2. \A b \in handles : refs[b].id < nextId
    BY <2>1 DEF RegistryInv, OwnershipInv, WrappersAgree, WrapperAgrees
  <2>3. \A b \in handles : refs[b].id \in 0 .. MaxId /\ refs[b].kind \in Kinds /\ refs[b].env \in Envs
    BY <1>1 DEF Ref
  <2>4. \A d \in Envs, k \in Kinds, id \in 0 .. MaxId : <<k, id>> \in hooks[d] => id < nextId
    BY <2>1 DEF RegistryInv, HooksAgree
  <2> QED
    BY <2>1, <2>2, <2>3, <2>4
<1> HIDE DEF Wrap
<1>3. HooksAgree'
  <2>1. ASSUME NEW d \in Envs, envState'[d] = "dead" PROVE hooks'[d] = {}
    BY <1>1, <2>1 DEF RegistryInv, HooksAgree
  <2>2. ASSUME NEW d \in Envs, NEW k \in Kinds, NEW id \in 0 .. MaxId, <<k, id>> \in hooks'[d]
        PROVE  /\ nextId' # 0 => id < nextId'
               /\ \A b \in handles' : refs'[b].kind = k /\ refs'[b].id = id => refs'[b].env = d
    <3>1. CASE <<k, id>> \in hooks[d]
      <4>1. id < nextId
        BY <1>2, <3>1
      <4>2. \A b \in handles : refs[b].kind = k /\ refs[b].id = id => refs[b].env = d
        BY <3>1 DEF RegistryInv, HooksAgree
      <4> QED
        BY <1>1, <1>2, <4>1, <4>2
    <3>2. CASE d = e /\ k = kind /\ id = nextId
      BY <1>1, <1>2, <3>2
    <3> QED
      BY <1>1, <2>2, <3>1, <3>2
  <2> QED
    BY <2>1, <2>2 DEF HooksAgree
<1>4. HookAgreement'
  <2>1. ASSUME NEW b \in handles
        PROVE refs'[b].hook <=> <<refs'[b].kind, refs'[b].id>> \in hooks'[refs'[b].env]
    <3>1. refs[b].hook <=> <<refs[b].kind, refs[b].id>> \in hooks[refs[b].env]
      BY DEF RegistryInv, HookAgreement
    <3>2. <<refs[b].kind, refs[b].id>> # <<kind, nextId>>
      BY <1>2
    <3> QED
      BY <1>1, <1>2, <3>1, <3>2
  <2>2. refs'[a].hook <=> <<refs'[a].kind, refs'[a].id>> \in hooks'[refs'[a].env]
    BY <1>1
  <2>3. ASSUME NEW d \in Envs, envState'[d] = "running", NEW k \in Kinds, NEW id \in 0 .. MaxId,
               <<k, id>> \in hooks'[d]
        PROVE  \E b \in handles' : refs'[b].kind = k /\ refs'[b].id = id
    <3>1. CASE <<k, id>> \in hooks[d]
      <4>1. PICK b \in handles : refs[b].kind = k /\ refs[b].id = id
        BY <2>3, <3>1 DEF RegistryInv, HookAgreement
      <4> QED
        BY <1>1, <4>1
    <3>2. CASE k = kind /\ id = nextId
      BY <1>1, <3>2
    <3> QED
      BY <1>1, <2>3, <3>1, <3>2
  <2> QED
    BY <1>1, <2>1, <2>2, <2>3 DEF HookAgreement
<1> QED
  BY <1>3, <1>4

(* A callback that runs is removed from libjs's list and its wrapper's      *)
(* flag is cleared in the same step.                                        *)
LEMMA HooksAfterCallback ==
  ASSUME RegistryInv, NEW e \in Envs, NEW kind \in Kinds, NEW id \in 0 .. MaxId,
         NEW g, Hook(e, kind, id, g)
  PROVE  HooksAgree' /\ HookAgreement'
<1>1. /\ envState[e] = "tearing" /\ <<kind, id>> \in hooks[e]
      /\ UNCHANGED <<envState, handles, nextId>>
      /\ hooks'[e] = hooks[e] \ {<<kind, id>>}
      /\ \A d \in Envs \ {e} : hooks'[d] = hooks[d]
  BY DEF Hook, RegistryInv, OwnershipInv, TypeOK
<1>2. \A a \in handles : /\ a \in Addrs /\ refs[a] \in Ref
                         /\ refs[a].kind \in Kinds /\ refs[a].id \in 0 .. MaxId /\ refs[a].env \in Envs
  BY DEF RegistryInv, OwnershipInv, TypeOK, Ref
<1>3. \A a \in handles :
        /\ refs'[a].env = refs[a].env /\ refs'[a].kind = refs[a].kind /\ refs'[a].id = refs[a].id
        /\ refs'[a].hook <=> refs[a].hook /\ ~(refs[a].kind = kind /\ refs[a].id = id)
  <2>1. CASE UNCHANGED refs /\ \A a \in Addrs : ~TeardownMatch(a, kind, id)
    BY <1>2, <2>1 DEF TeardownMatch
  <2>2. ASSUME NEW a \in Addrs, TeardownMatch(a, kind, id), refs' = [refs EXCEPT ![a] = ClearFlag(@)]
        PROVE  <1>3
    <3>1. \A b \in handles : b # a => refs'[b] = refs[b] /\ refs[b].id # refs[a].id
      BY <1>2, <2>2 DEF TeardownMatch, RegistryInv, OwnershipInv, WrappersDistinct, TypeOK
    <3>2. /\ a \in handles /\ refs'[a] = ClearFlag(refs[a]) /\ refs[a].id = id /\ refs[a].kind = kind
      BY <2>2 DEF TeardownMatch, RegistryInv, OwnershipInv, TypeOK
    <3>3. /\ refs'[a].env = refs[a].env /\ refs'[a].kind = refs[a].kind /\ refs'[a].id = refs[a].id
          /\ refs'[a].hook = FALSE
      BY <1>2, <3>2 DEF ClearFlag, Ref
    <3> QED
      BY <3>1, <3>2, <3>3
  <2> QED
    BY <2>1, <2>2 DEF Hook
<1>4. HooksAgree'
  <2>1. ASSUME NEW d \in Envs, envState'[d] = "dead" PROVE hooks'[d] = {}
    BY <1>1, <2>1 DEF RegistryInv, HooksAgree
  <2>2. ASSUME NEW d \in Envs, NEW k \in Kinds, NEW i \in 0 .. MaxId, <<k, i>> \in hooks'[d]
        PROVE  /\ nextId' # 0 => i < nextId'
               /\ \A b \in handles' : refs'[b].kind = k /\ refs'[b].id = i => refs'[b].env = d
    <3>1. <<k, i>> \in hooks[d]
      BY <1>1, <2>2
    <3> QED
      BY <1>1, <1>3, <3>1 DEF RegistryInv, HooksAgree
  <2> QED
    BY <2>1, <2>2 DEF HooksAgree
<1>5. HookAgreement'
  <2>1. ASSUME NEW a \in handles
        PROVE refs'[a].hook <=> <<refs'[a].kind, refs'[a].id>> \in hooks'[refs'[a].env]
    <3>1. refs[a].hook <=> <<refs[a].kind, refs[a].id>> \in hooks[refs[a].env]
      BY DEF RegistryInv, HookAgreement
    <3>2. CASE refs[a].kind = kind /\ refs[a].id = id
      <4>1. refs[a].env = e
        BY <1>1, <3>2 DEF RegistryInv, HooksAgree
      <4> QED
        BY <1>1, <1>3, <3>2, <4>1
    <3>3. CASE ~(refs[a].kind = kind /\ refs[a].id = id)
      BY <1>1, <1>2, <1>3, <3>1, <3>3
    <3> QED
      BY <3>2, <3>3
  <2>2. ASSUME NEW d \in Envs, envState'[d] = "running", NEW k \in Kinds, NEW i \in 0 .. MaxId,
               <<k, i>> \in hooks'[d]
        PROVE  \E b \in handles' : refs'[b].kind = k /\ refs'[b].id = i
    <3>1. d # e /\ <<k, i>> \in hooks[d]
      BY <1>1, <2>2
    <3> QED
      BY <1>1, <1>3, <2>2, <3>1 DEF RegistryInv, HookAgreement
  <2> QED
    BY <1>1, <2>1, <2>2 DEF HookAgreement
<1> QED
  BY <1>4, <1>5

(* Teardown ends with libjs's list of the environment empty, so that a new  *)
(* environment at its address starts with none.                             *)
LEMMA HooksAfterEnvState ==
  ASSUME RegistryInv, NEW e \in Envs, NEW new, envState' = [envState EXCEPT ![e] = new],
         UNCHANGED registry, new = "tearing" \/ hooks[e] = {}
  PROVE  HooksAgree' /\ HookAgreement'
<1>1. /\ handles' = handles /\ refs' = refs /\ nextId' = nextId /\ hooks' = hooks
      /\ envState'[e] = new /\ \A d \in Envs \ {e} : envState'[d] = envState[d]
  BY DEF registry, RegistryInv, OwnershipInv, TypeOK
<1>2. \A d \in Envs : envState'[d] = "dead" => hooks[d] = {}
  BY <1>1 DEF RegistryInv, HooksAgree
<1>3. \A d \in Envs : envState'[d] = "running" => hooks[d] = {} \/ envState[d] = "running"
  BY <1>1
<1> QED
  BY <1>1, <1>2, <1>3 DEF RegistryInv, HooksAgree, HookAgreement

(* Calls of a running program keep the hook invariant.                      *)
LEMMA HooksAfterProgram ==
  ASSUME RegistryInv, TypeOK', NEW e \in Envs, Program(e)
  PROVE  HooksAgree' /\ HookAgreement'
<1>1. ASSUME NEW o \in NodeObjs, NEW a \in Addrs, NewNode(e, o, a)
      PROVE HooksAgree' /\ HookAgreement'
  BY <1>1, HooksAfterWrap DEF NewNode, Runs
<1>2. ASSUME NEW s \in SignerObjs, NEW a \in Addrs, NewSigner(e, s, a)
      PROVE HooksAgree' /\ HookAgreement'
  BY <1>2, HooksAfterWrap DEF NewSigner, Runs
<1>3. CASE \/ \E o \in NodeObjs : NewNodeFails(e, o)
           \/ \E s \in SignerObjs : NewSignerFails(e, s)
  <2>1. nextId' = nextId \/ (CanRegister /\ nextId' = Bump(nextId))
    BY <1>3 DEF NewNodeFails, NewSignerFails, WrapFails
  <2>2. nextId' # 0 => nextId # 0 /\ nextId' >= nextId
    BY <2>1, BumpBounds, ConstantsAssumption DEF RegistryInv, OwnershipInv, TypeOK
  <2> QED
    BY <1>3, <2>2, HooksUntouched DEF NewNodeFails, NewSignerFails
<1>4. CASE \E x \in held : \/ BeginShutdown(e, x) \/ RevokeSigner(e, x)
                           \/ \E y \in held : Attach(e, x, y)
  <2>1. UNCHANGED <<envState, handles, refs, hooks, nextId>>
    BY <1>4 DEF BeginShutdown, RevokeSigner, Attach, registry
  <2> QED
    BY <2>1, HooksUntouched DEF RegistryInv, OwnershipInv, TypeOK
<1>5. ASSUME NEW y \in held, DestroySigner(e, y) PROVE HooksAgree' /\ HookAgreement'
  <2>1. y.addr \in handles /\ \A a \in handles : a \in Addrs /\ refs[a] \in Ref
    BY <1>5 DEF DestroySigner, owns_handle, RegistryInv, OwnershipInv, TypeOK
  <2>2. UNCHANGED refs \/ refs' = [refs EXCEPT ![y.addr].freed = TRUE]
    BY <1>5 DEF DestroySigner
  <2>3. \A a \in handles : /\ refs'[a].env = refs[a].env /\ refs'[a].kind = refs[a].kind
                           /\ refs'[a].id = refs[a].id /\ refs'[a].hook = refs[a].hook
    BY <2>1, <2>2 DEF RegistryInv, OwnershipInv, TypeOK, Ref
  <2> QED
    BY <1>5, <2>3, HooksUntouched DEF DestroySigner, RegistryInv, OwnershipInv, TypeOK
<1> QED
  BY <1>1, <1>2, <1>3, <1>4, <1>5 DEF Program

(* Finalizers keep the hook invariant (js_remove_teardown_callback).        *)
LEMMA HooksAfterCollector ==
  ASSUME RegistryInv, TypeOK', NEW e \in Envs, Collector(e)
  PROVE  HooksAgree' /\ HookAgreement'
<1>1. ASSUME NEW x \in held \cup garbage, CollectNode(e, x) PROVE HooksAgree' /\ HookAgreement'
  BY <1>1, HooksUntouched DEF CollectNode, registry, RegistryInv, OwnershipInv, TypeOK
<1>2. ASSUME NEW x \in held \cup garbage, CollectSigner(e, x)
      PROVE HooksAgree' /\ HookAgreement'
  <2>1. CASE FinalizerMatch(e, x)
    <3>1. /\ x.addr \in handles /\ refs[x.addr].env = e /\ refs[x.addr].kind = "signer"
          /\ unregister_and_free(x.addr) /\ UNCHANGED <<envState, nextId>>
          /\ hooks' = IF refs[x.addr].hook THEN [hooks EXCEPT ![e] = @ \ {<<"signer", refs[x.addr].id>>}]
                                           ELSE hooks
      BY <1>2, <2>1 DEF CollectSigner, FinalizerMatch
    <3> QED
      BY <3>1, HooksAfterUnlink
  <2>2. CASE ~FinalizerMatch(e, x)
    BY <1>2, <2>2, HooksUntouched DEF CollectSigner, RegistryInv, OwnershipInv, TypeOK
  <2> QED
    BY <2>1, <2>2
<1> QED
  BY <1>1, <1>2 DEF Collector

(* Returns of native calls and teardown callbacks keep the hook invariant.  *)
LEMMA HooksAfterContinue ==
  ASSUME RegistryInv, TypeOK', NEW e \in Envs, Continue(e)
  PROVE  HooksAgree' /\ HookAgreement'
<1>1. ASSUME NEW ok \in BOOLEAN, ShutdownReturns(e, ok) PROVE HooksAgree' /\ HookAgreement'
  <2>1. \A a \in handles : a \in Addrs /\ refs[a] \in Ref
    BY DEF RegistryInv, OwnershipInv, TypeOK
  <2>2. UNCHANGED refs \/ refs' = [refs EXCEPT ![thread[e].ref].stopped = TRUE]
    BY <1>1 DEF ShutdownReturns
  <2>3. \A a \in handles : /\ refs'[a].env = refs[a].env /\ refs'[a].kind = refs[a].kind
                           /\ refs'[a].id = refs[a].id /\ refs'[a].hook = refs[a].hook
    BY <2>1, <2>2 DEF RegistryInv, OwnershipInv, TypeOK, Ref
  <2> QED
    BY <1>1, <2>3, HooksUntouched DEF ShutdownReturns, RegistryInv, OwnershipInv, TypeOK
<1>2. ASSUME NEW ok \in BOOLEAN, DestroyReturns(e, ok) PROVE HooksAgree' /\ HookAgreement'
  <2>1. PICK a \in handles : a = thread[e].ref /\ refs[a] \in Ref /\ a \in Addrs
    BY <1>2 DEF DestroyReturns, RegistryInv, OwnershipInv, TypeOK, FramesAgree, FrameAgrees
  <2>2. refs' = [refs EXCEPT ![a] = shutdown_and_free_sdk_node(refs[a], ok)]
    BY <1>2, <2>1 DEF DestroyReturns
  <2>3. \A b \in handles : /\ refs'[b].env = refs[b].env /\ refs'[b].kind = refs[b].kind
                           /\ refs'[b].id = refs[b].id /\ refs'[b].hook = refs[b].hook
    BY <2>1, <2>2, ShutdownKeepsWrapper DEF RegistryInv, OwnershipInv, TypeOK
  <2> QED
    BY <1>2, <2>3, HooksUntouched DEF DestroyReturns, RegistryInv, OwnershipInv, TypeOK
<1>3. ASSUME NEW ok \in BOOLEAN, CollectReturns(e, ok) PROVE HooksAgree' /\ HookAgreement'
  <2>1. PICK a \in handles : a = thread[e].ref /\ refs[a].env = e /\ refs[a].kind = "node"
    BY <1>3 DEF CollectReturns, RegistryInv, OwnershipInv, FramesAgree, FrameAgrees
  <2>2. /\ UNCHANGED <<envState, nextId>>
        /\ \/ UNCHANGED <<handles, refs, hooks>>
           \/ /\ unregister_and_free(a)
              /\ hooks' = IF refs[a].hook THEN [hooks EXCEPT ![e] = @ \ {<<"node", refs[a].id>>}] ELSE hooks
    BY <1>3, <2>1 DEF CollectReturns
  <2>3. CASE UNCHANGED <<handles, refs, hooks>>
    BY <2>2, <2>3, HooksUntouched DEF RegistryInv, OwnershipInv, TypeOK
  <2> QED
    BY <2>1, <2>2, <2>3, HooksAfterUnlink
<1>4. ASSUME NEW ok \in BOOLEAN, NodeHookReturns(e, ok) \/ DrainReturns(e, ok)
      PROVE  HooksAgree' /\ HookAgreement'
  <2>1. PICK a \in handles : a = thread[e].ref /\ refs[a].env = e /\ envState[e] = "tearing"
    BY <1>4 DEF NodeHookReturns, DrainReturns, RegistryInv, OwnershipInv, FramesAgree,
                FrameAgrees
  <2>2. /\ UNCHANGED <<envState, nextId, hooks>>
        /\ UNCHANGED <<handles, refs>> \/ unregister_and_free(a)
    BY <1>4, <2>1 DEF NodeHookReturns, DrainReturns
  <2>3. CASE UNCHANGED <<handles, refs>>
    BY <2>2, <2>3, HooksUntouched DEF RegistryInv, OwnershipInv, TypeOK
  <2> QED
    BY <2>1, <2>2, <2>3, HooksAfterUnlink
<1>5. ASSUME NEW ok \in BOOLEAN, DrainDone(e, ok) PROVE HooksAgree' /\ HookAgreement'
  <2>1. PICK a \in handles : a = thread[e].self /\ refs[a].env = e /\ envState[e] = "tearing"
    BY <1>5 DEF DrainDone, RegistryInv, OwnershipInv, FramesAgree, FrameAgrees
  <2>2. /\ UNCHANGED <<envState, nextId, hooks>>
        /\ UNCHANGED <<handles, refs>> \/ unregister_and_free(a)
    BY <1>5, <2>1 DEF DrainDone
  <2>3. CASE UNCHANGED <<handles, refs>>
    BY <2>2, <2>3, HooksUntouched DEF RegistryInv, OwnershipInv, TypeOK
  <2> QED
    BY <2>1, <2>2, <2>3, HooksAfterUnlink
<1>6. ASSUME NEW id \in 0 .. MaxId, NodeHook(e, id) \/ SignerHook(e, id)
      PROVE  HooksAgree' /\ HookAgreement'
  BY <1>6, HooksAfterCallback DEF NodeHook, SignerHook
<1>7. CASE DrainNext(e)
  BY <1>7, HooksUntouched DEF DrainNext, registry, RegistryInv, OwnershipInv, TypeOK
<1>8. CASE TeardownDone(e)
  BY <1>8, HooksAfterEnvState DEF TeardownDone
<1> QED
  BY <1>1, <1>2, <1>3, <1>4, <1>5, <1>6, <1>7, <1>8 DEF Continue

(* The invariant is inductive.                                              *)
LEMMA RegistryInvStep == RegistryInv /\ [Next]_vars => RegistryInv'
<1> SUFFICES ASSUME RegistryInv, [Next]_vars PROVE RegistryInv'
  OBVIOUS
<1>1. OwnershipInv' /\ TypeOK'
  BY OwnershipStep DEF OwnershipInv
<1>2. HooksAgree' /\ HookAgreement'
  <2>1. CASE UNCHANGED vars
    BY <2>1 DEF vars, RegistryInv, HooksAgree, HookAgreement
  <2>2. CASE Next
    <3>1. PICK e \in Envs : Program(e) \/ Collector(e) \/ BeginTeardown(e) \/ Reopen(e) \/ Continue(e)
      BY <2>2 DEF Next
    <3>2. CASE BeginTeardown(e)
      BY <3>2, HooksAfterEnvState DEF BeginTeardown
    <3>3. CASE Reopen(e)
      BY <3>3, HooksAfterEnvState DEF Reopen, RegistryInv, HooksAgree
    <3> QED
      BY <1>1, <3>1, <3>2, <3>3, HooksAfterProgram, HooksAfterCollector, HooksAfterContinue
  <2> QED
    BY <2>1, <2>2
<1> QED
  BY <1>1, <1>2 DEF RegistryInv

-----------------------------------------------------------------------------
(* Wrappers, native objects, the frames of running handlers and libjs's     *)
(* callback lists agree in every reachable state of binding.cc's registry,  *)
(* for any number of environments, addresses, objects and identities.       *)
THEOREM RegistryInvariant == Spec => []RegistryInv
<1>1. Init => RegistryInv
  <2>1. Init => HooksAgree /\ HookAgreement
    BY DEF Init, HooksAgree, HookAgreement
  <2> QED
    BY <2>1, InitInv DEF RegistryInv
<1>2. RegistryInv /\ [Next]_vars => RegistryInv'
  BY RegistryInvStep
<1> QED
  BY <1>1, <1>2, PTL DEF Spec

(* The registry's variables keep their types; next_handle_id stays within   *)
(* UINTPTR_MAX.                                                             *)
THEOREM TypeCorrect == Spec => []TypeOK
<1>1. RegistryInv => TypeOK
  BY DEF RegistryInv, OwnershipInv
<1> QED
  BY <1>1, RegistryInvariant, PTL

(* No handler, finalizer or teardown callback ever makes a native call      *)
(* outside the C-FFI contract: no double free, no use after free, no free   *)
(* of a node whose tasks may run.                                           *)
THEOREM ContractKept == Spec => []NativeContract
<1>1. RegistryInv => NativeContract
  BY DEF RegistryInv, OwnershipInv, ObjectsAccounted, NativeContract
<1> QED
  BY <1>1, RegistryInvariant, PTL

(* The raw pointer a handler keeps across a native shutdown is valid when   *)
(* the call returns, whatever other environments did meanwhile.             *)
THEOREM FramesValid == Spec => []FramePointersValid
<1>1. RegistryInv => FramePointersValid
  BY DEF RegistryInv, OwnershipInv, FramesAgree, FrameAgrees, FramePointersValid
<1> QED
  BY <1>1, RegistryInvariant, PTL

(* The addon never revokes a signer a live node still uses: signer_teardown *)
(* revokes only after shutdown_environment_nodes left no node behind.       *)
THEOREM LiveNodesKeepTheirSigner == Spec => []LiveNodeCanSign
<1>1. RegistryInv => LiveNodeCanSign
  BY DEF RegistryInv, OwnershipInv
<1> QED
  BY <1>1, RegistryInvariant, PTL

(* teardown_registered never disagrees with libjs's callback list.          *)
THEOREM HooksAgreeWithLibjs == Spec => []HookAgreement
<1>1. RegistryInv => HookAgreement
  BY DEF RegistryInv
<1> QED
  BY <1>1, RegistryInvariant, PTL

-----------------------------------------------------------------------------
(***************************************************************************)
(* Externals.  owns_handle compares an address only, finalize_handle also  *)
(* the identity.  Both are right because an external JavaScript can reach  *)
(* keeps its wrapper registered, and no identity is ever given out twice.  *)
(***************************************************************************)

(* An external carries an identity that was given out, and a wrapper found  *)
(* at its address with that identity is the one it was made for.            *)
ExternalsDated ==
  \A x \in held \cup garbage :
    /\ x.id \in 1 .. MaxId
    /\ nextId # 0 => x.id < nextId
    /\ x.addr \in handles /\ refs[x.addr].id = x.id =>
         /\ refs[x.addr].env = x.env
         /\ refs[x.addr].kind = x.kind
         /\ refs[x.addr].obj = x.obj

(* An external JavaScript still refers to keeps its wrapper registered.     *)
ExternalNamed(x) ==
  /\ envState[x.env] = "running"
  /\ x.addr \in handles
  /\ refs[x.addr].id = x.id
  /\ refs[x.addr].env = x.env
  /\ refs[x.addr].kind = x.kind
  /\ refs[x.addr].obj = x.obj

HeldNamed == \A x \in held : ExternalNamed(x)

(* A finalizer that is stopping its node has taken the last external of it. *)
CollectedUnheld ==
  \A e \in Envs : thread[e].op = "collect" =>
    \A x \in held : x.addr # thread[e].ref

ExternalsInv == ExternalsDated /\ HeldNamed /\ CollectedUnheld

(* What a step may do to a registered wrapper without touching who it is.   *)
SameWrapper(a) ==
  /\ refs'[a].env = refs[a].env
  /\ refs'[a].kind = refs[a].kind
  /\ refs'[a].id = refs[a].id
  /\ refs'[a].obj = refs[a].obj

FinalizersKeep == \A d \in Envs : thread'[d].op = "collect" => thread'[d] = thread[d]

(* The list of wrappers and the externals only shrink: what was true of an  *)
(* external stays true.                                                     *)
LEMMA ExternalsShrink ==
  ASSUME RegistryInv, TypeOK', ExternalsInv,
         nextId' # 0 => nextId # 0 /\ nextId' >= nextId,
         handles' \subseteq handles, \A a \in handles' : SameWrapper(a),
         held' \subseteq held, garbage' \subseteq held \cup garbage,
         \A x \in held' : x.addr \in handles' /\ envState'[x.env] = "running",
         CollectedUnheld'
  PROVE  ExternalsInv'
<1>1. ExternalsDated'
  <2>1. nextId \in 0 .. MaxId /\ nextId' \in 0 .. MaxId /\ MaxId \in Nat
    BY ConstantsAssumption DEF RegistryInv, OwnershipInv, TypeOK
  <2>2. \A id \in 1 .. MaxId : (nextId # 0 => id < nextId) => (nextId' # 0 => id < nextId')
    BY <2>1
  <2> QED
    BY <2>2 DEF ExternalsInv, ExternalsDated, SameWrapper
<1>2. HeldNamed'
  BY DEF ExternalsInv, HeldNamed, ExternalNamed, SameWrapper
<1> QED
  BY <1>1, <1>2 DEF ExternalsInv

(* Steps that keep every wrapper, every environment and every finalizer.    *)
LEMMA ExternalsKeep ==
  ASSUME RegistryInv, TypeOK', ExternalsInv,
         nextId' # 0 => nextId # 0 /\ nextId' >= nextId,
         UNCHANGED <<envState, handles>>, \A a \in handles : SameWrapper(a),
         held' \subseteq held, garbage' \subseteq held \cup garbage, FinalizersKeep
  PROVE  ExternalsInv'
<1>1. \A x \in held' : x.addr \in handles' /\ envState'[x.env] = "running"
  BY DEF ExternalsInv, HeldNamed, ExternalNamed
<1>2. CollectedUnheld'
  BY DEF ExternalsInv, CollectedUnheld, FinalizersKeep
<1> QED
  BY <1>1, <1>2, ExternalsShrink

(* Unlinking a wrapper no held external refers to (unregister_handle).      *)
LEMMA ExternalsAfterUnlink ==
  ASSUME RegistryInv, TypeOK', ExternalsInv, NEW a \in handles, unregister_and_free(a),
         UNCHANGED <<envState, nextId>>,
         held' \subseteq held, garbage' \subseteq held \cup garbage, FinalizersKeep,
         \A x \in held' : x.addr # a
  PROVE  ExternalsInv'
<1>1. handles' \subseteq handles /\ \A b \in handles' : SameWrapper(b) /\ b # a
  BY DEF unregister_and_free, SameWrapper, RegistryInv, OwnershipInv, TypeOK
<1>2. \A x \in held' : x.addr \in handles' /\ envState'[x.env] = "running"
  BY DEF unregister_and_free, ExternalsInv, HeldNamed, ExternalNamed
<1>3. CollectedUnheld'
  BY DEF ExternalsInv, CollectedUnheld, FinalizersKeep
<1>4. nextId' # 0 => nextId # 0 /\ nextId' >= nextId
  BY ConstantsAssumption DEF RegistryInv, OwnershipInv, TypeOK
<1> QED
  BY <1>1, <1>2, <1>3, <1>4, ExternalsShrink

(* A new external names the new wrapper, and no late finalizer's identity   *)
(* is the new one (wrap_sdk_node, wrap_signer).                             *)
LEMMA ExternalsAfterWrap ==
  ASSUME RegistryInv, TypeOK', ExternalsInv, NEW e \in Envs, NEW kind \in Kinds, NEW o \in Objs,
         NEW a \in Addrs, Runs(e), Wrap(e, kind, o, a), UNCHANGED <<envState, garbage, thread>>
  PROVE  ExternalsInv'
<1>0. PICK x : x = [env |-> e, kind |-> kind, addr |-> a, id |-> nextId, obj |-> o]
  OBVIOUS
<1>1. /\ a \notin handles /\ handles' = handles \cup {a}
      /\ refs'[a].env = e /\ refs'[a].kind = kind /\ refs'[a].id = nextId /\ refs'[a].obj = o
      /\ \A b \in handles : b # a /\ refs'[b] = refs[b]
      /\ held' = held \cup {x} /\ nextId' = Bump(nextId) /\ nextId # 0
  BY <1>0, NullAssumption
     DEF Wrap, register_handle, NewRef, CanRegister, RegistryInv, OwnershipInv, TypeOK
<1>2. nextId \in 1 .. MaxId /\ nextId' \in 0 .. MaxId /\ (nextId' # 0 => nextId' = nextId + 1)
  BY <1>1, BumpBounds DEF RegistryInv, OwnershipInv, TypeOK, CanRegister
<1>3. /\ x.env = e /\ x.kind = kind /\ x.addr = a /\ x.id = nextId /\ x.obj = o
  BY <1>0
<1>4. ExternalsDated'
  <2>1. ASSUME NEW y \in held \cup garbage
        PROVE  /\ y.id \in 1 .. MaxId
               /\ y.id < nextId
               /\ y.addr \in handles /\ refs[y.addr].id = y.id =>
                    refs[y.addr].env = y.env /\ refs[y.addr].kind = y.kind /\ refs[y.addr].obj = y.obj
    BY <1>1 DEF ExternalsInv, ExternalsDated
  <2>2. ASSUME NEW y \in held \cup garbage
        PROVE  /\ nextId' # 0 => y.id < nextId'
               /\ y.addr \in handles' /\ refs'[y.addr].id = y.id =>
                    refs'[y.addr].env = y.env /\ refs'[y.addr].kind = y.kind /\ refs'[y.addr].obj = y.obj
    BY <1>1, <1>2, <2>1
  <2> QED
    BY <1>1, <1>2, <1>3, <2>1, <2>2 DEF ExternalsDated
<1>5. HeldNamed'
  <2>1. ExternalNamed(x)'
    BY <1>1, <1>3 DEF ExternalNamed, Runs
  <2>2. ASSUME NEW y \in held PROVE ExternalNamed(y)'
    BY <1>1 DEF ExternalsInv, HeldNamed, ExternalNamed
  <2> QED
    BY <1>1, <2>1, <2>2 DEF HeldNamed
<1>6. CollectedUnheld'
  <2>1. ASSUME NEW d \in Envs, thread[d].op = "collect" PROVE thread[d].ref # a
    BY <1>1, <2>1 DEF RegistryInv, OwnershipInv, FramesAgree, FrameAgrees
  <2> QED
    BY <1>1, <1>3, <2>1 DEF ExternalsInv, CollectedUnheld
<1> QED
  BY <1>4, <1>5, <1>6 DEF ExternalsInv

(* Only one external names a wrapper.                                       *)
LEMMA HeldOnce ==
  ASSUME RegistryInv, ExternalsInv, NEW e \in Envs, NEW x \in held \cup garbage,
         FinalizerMatch(e, x), x.env = e, NEW y \in held, y.addr = x.addr
  PROVE  y = x
<1>1. x \in External /\ y \in External
  BY DEF RegistryInv, OwnershipInv, TypeOK
<1>2. x.env = y.env /\ x.kind = y.kind /\ x.id = y.id /\ x.obj = y.obj
  BY DEF FinalizerMatch, ExternalsInv, ExternalsDated, HeldNamed, ExternalNamed
<1> QED
  BY <1>1, <1>2 DEF External

(* Calls of a running program keep externals and wrappers together.         *)
LEMMA ExternalsAfterProgram ==
  ASSUME RegistryInv, TypeOK', ExternalsInv, NEW e \in Envs, Program(e)
  PROVE  ExternalsInv'
<1>1. ASSUME NEW o \in NodeObjs, NEW a \in Addrs, NewNode(e, o, a) PROVE ExternalsInv'
  BY <1>1, ExternalsAfterWrap DEF NewNode
<1>2. ASSUME NEW s \in SignerObjs, NEW a \in Addrs, NewSigner(e, s, a) PROVE ExternalsInv'
  BY <1>2, ExternalsAfterWrap DEF NewSigner
<1>3. CASE \/ \E o \in NodeObjs : NewNodeFails(e, o)
           \/ \E s \in SignerObjs : NewSignerFails(e, s)
  <2>1. nextId' = nextId \/ (CanRegister /\ nextId' = Bump(nextId))
    BY <1>3 DEF NewNodeFails, NewSignerFails, WrapFails
  <2>2. nextId' # 0 => nextId # 0 /\ nextId' >= nextId
    BY <2>1, BumpBounds, ConstantsAssumption DEF RegistryInv, OwnershipInv, TypeOK
  <2>3. UNCHANGED <<envState, handles, refs, held, garbage, thread>>
    BY <1>3 DEF NewNodeFails, NewSignerFails
  <2> QED
    BY <2>2, <2>3, ExternalsKeep DEF SameWrapper, FinalizersKeep
<1>4. CASE \E x \in held : \/ BeginShutdown(e, x) \/ RevokeSigner(e, x)
                           \/ \E y \in held : Attach(e, x, y)
  <2>1. UNCHANGED <<envState, handles, refs, nextId, held, garbage>>
    BY <1>4 DEF BeginShutdown, RevokeSigner, Attach, registry
  <2>2. FinalizersKeep
    <3>1. \/ UNCHANGED thread
          \/ \E op \in {"destroy", "shutdown"} : \E a : thread' = [thread EXCEPT ![e] = In(op, a)]
      BY <1>4 DEF BeginShutdown, RevokeSigner, Attach
    <3>2. \A op, a : In(op, a).op = op
      BY DEF In
    <3>3. thread \in [Envs -> Frame]
      BY DEF RegistryInv, OwnershipInv, TypeOK
    <3> QED
      BY <3>1, <3>2, <3>3 DEF FinalizersKeep
  <2>3. nextId' # 0 => nextId # 0 /\ nextId' >= nextId
    BY <2>1, ConstantsAssumption DEF RegistryInv, OwnershipInv, TypeOK
  <2> QED
    BY <2>1, <2>2, <2>3, ExternalsKeep DEF SameWrapper
<1>5. ASSUME NEW y \in held, DestroySigner(e, y) PROVE ExternalsInv'
  <2>1. y.addr \in handles /\ \A a \in handles : a \in Addrs /\ refs[a] \in Ref
    BY <1>5 DEF DestroySigner, owns_handle, RegistryInv, OwnershipInv, TypeOK
  <2>2. UNCHANGED refs \/ refs' = [refs EXCEPT ![y.addr].freed = TRUE]
    BY <1>5 DEF DestroySigner
  <2>3. \A a \in handles : SameWrapper(a)
    BY <2>1, <2>2 DEF RegistryInv, OwnershipInv, TypeOK, Ref, SameWrapper
  <2>4. /\ UNCHANGED <<envState, handles, nextId, thread>>
        /\ held' \subseteq held /\ garbage' \subseteq held \cup garbage
    BY <1>5 DEF DestroySigner
  <2>5. nextId' # 0 => nextId # 0 /\ nextId' >= nextId
    BY <2>4, ConstantsAssumption DEF RegistryInv, OwnershipInv, TypeOK
  <2> QED
    BY <2>3, <2>4, <2>5, ExternalsKeep DEF FinalizersKeep
<1> QED
  BY <1>1, <1>2, <1>3, <1>4, <1>5 DEF Program

(* A finalizer that matches a wrapper had its only external                 *)
(* (finalize_handle).                                                       *)
LEMMA ExternalsAfterCollector ==
  ASSUME RegistryInv, TypeOK', ExternalsInv, NEW e \in Envs, Collector(e)
  PROVE  ExternalsInv'
<1>1. ASSUME NEW x \in held \cup garbage, Finalizes(e, x)
      PROVE  /\ held' \subseteq held /\ garbage' \subseteq held \cup garbage
             /\ FinalizerMatch(e, x) => \A y \in held' : y.addr # x.addr
  BY <1>1, HeldOnce DEF Finalizes
<1>2. nextId' = nextId => (nextId' # 0 => nextId # 0 /\ nextId' >= nextId)
  BY ConstantsAssumption DEF RegistryInv, OwnershipInv, TypeOK
<1>3. ASSUME NEW x \in held \cup garbage, CollectNode(e, x) PROVE ExternalsInv'
  <2>1. /\ Finalizes(e, x) /\ UNCHANGED <<envState, handles, refs, nextId>>
        /\ thread' = IF FinalizerMatch(e, x) THEN [thread EXCEPT ![e] = In("collect", x.addr)] ELSE thread
    BY <1>3 DEF CollectNode, registry
  <2>2. \A y \in held' : y.addr \in handles' /\ envState'[y.env] = "running"
    BY <1>1, <2>1 DEF ExternalsInv, HeldNamed, ExternalNamed
  <2>3. CollectedUnheld'
    BY <1>1, <2>1 DEF ExternalsInv, CollectedUnheld, In, RegistryInv, OwnershipInv, TypeOK
  <2> QED
    BY <1>1, <1>2, <2>1, <2>2, <2>3, ExternalsShrink DEF SameWrapper
<1>4. ASSUME NEW x \in held \cup garbage, CollectSigner(e, x) PROVE ExternalsInv'
  <2>1. Finalizes(e, x) /\ UNCHANGED <<envState, nextId, thread>>
    BY <1>4 DEF CollectSigner
  <2>2. CASE FinalizerMatch(e, x)
    <3>1. x.addr \in handles /\ unregister_and_free(x.addr)
      BY <1>4, <2>2 DEF CollectSigner, FinalizerMatch
    <3> QED
      BY <1>1, <2>1, <2>2, <3>1, ExternalsAfterUnlink DEF FinalizersKeep
  <2>3. CASE ~FinalizerMatch(e, x)
    <3>1. UNCHANGED <<handles, refs>>
      BY <1>4, <2>3 DEF CollectSigner
    <3> QED
      BY <1>1, <1>2, <2>1, <3>1, ExternalsKeep DEF FinalizersKeep, SameWrapper
  <2> QED
    BY <2>2, <2>3
<1> QED
  BY <1>3, <1>4 DEF Collector

(* Native calls return and teardown callbacks run while no external of the  *)
(* wrapper they free is held: either its finalizer took the last one, or    *)
(* the environment of its externals no longer runs.                         *)
LEMMA ExternalsAfterContinue ==
  ASSUME RegistryInv, TypeOK', ExternalsInv, NEW e \in Envs, Continue(e)
  PROVE  ExternalsInv'
<1>0. /\ nextId' = nextId => (nextId' # 0 => nextId # 0 /\ nextId' >= nextId)
      /\ thread \in [Envs -> Frame] /\ \A a \in handles : a \in Addrs /\ refs[a] \in Ref
  BY ConstantsAssumption DEF RegistryInv, OwnershipInv, TypeOK
<1>1. ASSUME NEW ok \in BOOLEAN, ShutdownReturns(e, ok) PROVE ExternalsInv'
  <2>1. UNCHANGED refs \/ refs' = [refs EXCEPT ![thread[e].ref].stopped = TRUE]
    BY <1>1 DEF ShutdownReturns
  <2>2. \A a \in handles : SameWrapper(a)
    BY <1>0, <2>1 DEF RegistryInv, OwnershipInv, TypeOK, Ref, SameWrapper
  <2>3. FinalizersKeep
    BY <1>0, <1>1 DEF ShutdownReturns, Return, FinalizersKeep, Idle, In, Frame
  <2> QED
    BY <1>0, <1>1, <2>2, <2>3, ExternalsKeep DEF ShutdownReturns
<1>2. ASSUME NEW ok \in BOOLEAN, DestroyReturns(e, ok) PROVE ExternalsInv'
  <2>1. PICK a \in handles : a = thread[e].ref /\ refs[a] \in Ref /\ a \in Addrs
    BY <1>2 DEF DestroyReturns, RegistryInv, OwnershipInv, TypeOK, FramesAgree, FrameAgrees
  <2>2. refs' = [refs EXCEPT ![a] = shutdown_and_free_sdk_node(refs[a], ok)]
    BY <1>2, <2>1 DEF DestroyReturns
  <2>3. \A b \in handles : SameWrapper(b)
    BY <2>1, <2>2, ShutdownKeepsWrapper DEF RegistryInv, OwnershipInv, TypeOK, SameWrapper
  <2>4. /\ UNCHANGED <<envState, handles, nextId>> /\ FinalizersKeep
        /\ held' \subseteq held /\ garbage' \subseteq held \cup garbage
    BY <1>0, <1>2 DEF DestroyReturns, Return, FinalizersKeep, Idle, In
  <2> QED
    BY <1>0, <2>3, <2>4, ExternalsKeep
<1>3. ASSUME NEW ok \in BOOLEAN, CollectReturns(e, ok) PROVE ExternalsInv'
  <2>1. PICK a \in handles : a = thread[e].ref /\ thread[e].op = "collect"
    BY <1>3 DEF CollectReturns, RegistryInv, OwnershipInv, FramesAgree, FrameAgrees
  <2>2. /\ UNCHANGED <<envState, nextId, held, garbage>> /\ FinalizersKeep
        /\ UNCHANGED <<handles, refs>> \/ unregister_and_free(a)
    BY <1>0, <1>3, <2>1 DEF CollectReturns, Return, FinalizersKeep, Idle, In
  <2>3. \A x \in held' : x.addr # a
    BY <2>1, <2>2 DEF ExternalsInv, CollectedUnheld
  <2>4. CASE UNCHANGED <<handles, refs>>
    BY <1>0, <2>2, <2>4, ExternalsKeep DEF SameWrapper
  <2> QED
    BY <2>2, <2>3, <2>4, ExternalsAfterUnlink
<1>4. ASSUME NEW ok \in BOOLEAN, NodeHookReturns(e, ok) \/ DrainReturns(e, ok) \/ DrainDone(e, ok)
      PROVE  ExternalsInv'
  <2>1. PICK a \in handles : /\ a = (IF thread[e].op = "drain" THEN thread[e].self ELSE thread[e].ref)
                             /\ refs[a].env = e /\ envState[e] = "tearing"
    <3>1. FrameAgrees(e)
      BY DEF RegistryInv, OwnershipInv, FramesAgree
    <3>2. CASE NodeHookReturns(e, ok)
      BY <3>1, <3>2 DEF NodeHookReturns, FrameAgrees
    <3>3. CASE DrainReturns(e, ok)
      BY <3>1, <3>3 DEF DrainReturns, FrameAgrees
    <3>4. CASE DrainDone(e, ok)
      BY <3>1, <3>4 DEF DrainDone, FrameAgrees
    <3> QED
      BY <1>4, <3>2, <3>3, <3>4
  <2>2. /\ UNCHANGED <<envState, nextId, held, garbage>>
        /\ UNCHANGED <<handles, refs>> \/ unregister_and_free(a)
    BY <1>4, <2>1 DEF NodeHookReturns, DrainReturns, DrainDone
  <2>3. FinalizersKeep
    <3>1. \/ thread' = [thread EXCEPT ![e] = Idle]
          \/ \E f : thread' = [thread EXCEPT ![e] = f] /\ f.op = "drain"
      <4>1. CASE DrainReturns(e, ok)
        <5> DEFINE done == shutdown_and_free_sdk_node(refs[thread[e].ref], ok).freed
                   g == [thread[e] EXCEPT !.op = "drain", !.ref = None, !.ok = thread[e].ok /\ done]
        <5>1. g.op = "drain"
          BY <1>0 DEF Frame
        <5>2. thread' = [thread EXCEPT ![e] = g]
          BY <4>1 DEF DrainReturns
        <5> QED
          BY <5>1, <5>2
      <4>2. CASE NodeHookReturns(e, ok) \/ DrainDone(e, ok)
        BY <4>2 DEF NodeHookReturns, DrainDone, Return
      <4> QED
        BY <1>4, <4>1, <4>2
    <3> QED
      BY <1>0, <3>1 DEF FinalizersKeep, Idle, In
  <2>4. \A x \in held' : x.addr # a
    BY <2>1, <2>2 DEF ExternalsInv, HeldNamed, ExternalNamed
  <2>5. CASE UNCHANGED <<handles, refs>>
    BY <1>0, <2>2, <2>3, <2>5, ExternalsKeep DEF SameWrapper
  <2> QED
    BY <2>2, <2>3, <2>4, <2>5, ExternalsAfterUnlink
<1>5. ASSUME NEW id \in 0 .. MaxId, NodeHook(e, id) \/ SignerHook(e, id) PROVE ExternalsInv'
  <2>1. PICK kind \in Kinds, g \in [Addrs -> {f \in Frame : f.op # "collect"}] : Hook(e, kind, id, g)
    <3>1. CASE NodeHook(e, id)
      BY <3>1, FrameType DEF NodeHook, In
    <3>2. CASE SignerHook(e, id)
      BY <3>2, FrameType DEF SignerHook, In, Frame
    <3> QED
      BY <1>5, <3>1, <3>2
  <2>2. UNCHANGED <<envState, handles, nextId, held, garbage>>
    BY <2>1 DEF Hook
  <2>3. UNCHANGED <<refs, thread>> \/ \E a \in Addrs : /\ a \in handles
                                                       /\ refs' = [refs EXCEPT ![a] = ClearFlag(@)]
                                                       /\ thread' = [thread EXCEPT ![e] = g[a]]
    BY <2>1 DEF Hook, TeardownMatch
  <2>4. \A a \in handles : SameWrapper(a)
    BY <1>0, <2>3 DEF SameWrapper, ClearFlag, RegistryInv, OwnershipInv, TypeOK, Ref
  <2>5. FinalizersKeep
    BY <1>0, <2>3 DEF FinalizersKeep
  <2> QED
    BY <1>0, <2>2, <2>4, <2>5, ExternalsKeep
<1>6. CASE DrainNext(e)
  <2>1. FinalizersKeep
    <3>1. PICK a \in Ahead(thread[e]) : thread' = [thread EXCEPT ![e] =
                       [thread[e] EXCEPT !.op = "drainStop", !.ref = a, !.cursor = refs[a].id]]
      BY <1>6 DEF DrainNext
    <3> QED
      BY <1>0, <3>1 DEF FinalizersKeep, Frame
  <2> QED
    BY <1>0, <1>6, <2>1, ExternalsKeep DEF DrainNext, registry, SameWrapper
<1>7. CASE TeardownDone(e)
  <2>1. UNCHANGED <<handles, refs, nextId, held, garbage, thread>>
    BY <1>7 DEF TeardownDone, registry
  <2>2. \A x \in held' : x.addr \in handles' /\ envState'[x.env] = "running"
    BY <1>7, <2>1
       DEF TeardownDone, ExternalsInv, HeldNamed, ExternalNamed, RegistryInv, OwnershipInv,
           TypeOK, External
  <2>3. CollectedUnheld'
    BY <2>1 DEF ExternalsInv, CollectedUnheld
  <2> QED
    BY <1>0, <2>1, <2>2, <2>3, ExternalsShrink DEF SameWrapper
<1> QED
  BY <1>1, <1>2, <1>3, <1>4, <1>5, <1>6, <1>7 DEF Continue

(* The externals' invariant is inductive together with RegistryInv.         *)
LEMMA ExternalsStep == RegistryInv /\ ExternalsInv /\ [Next]_vars => ExternalsInv'
<1> SUFFICES ASSUME RegistryInv, ExternalsInv, [Next]_vars PROVE ExternalsInv'
  OBVIOUS
<1>1. TypeOK'
  BY RegistryInvStep DEF RegistryInv, OwnershipInv
<1>2. CASE UNCHANGED vars
  BY <1>2 DEF vars, ExternalsInv, ExternalsDated, HeldNamed, ExternalNamed, CollectedUnheld
<1>3. CASE Next
  <2>1. PICK e \in Envs : Program(e) \/ Collector(e) \/ BeginTeardown(e) \/ Reopen(e) \/ Continue(e)
    BY <1>3 DEF Next
  <2>2. CASE BeginTeardown(e) \/ Reopen(e)
    <3>1. /\ UNCHANGED <<handles, refs, nextId, thread>>
          /\ held' \subseteq held /\ garbage' \subseteq held \cup garbage
      BY <2>2 DEF BeginTeardown, Reopen, registry
    <3>2. \A x \in held' : x.addr \in handles' /\ envState'[x.env] = "running"
      BY <2>2, <3>1
         DEF BeginTeardown, Reopen, ExternalsInv, HeldNamed, ExternalNamed, RegistryInv,
             OwnershipInv, TypeOK, External
    <3>3. CollectedUnheld'
      BY <3>1 DEF ExternalsInv, CollectedUnheld
    <3>4. nextId' # 0 => nextId # 0 /\ nextId' >= nextId
      BY <3>1, ConstantsAssumption DEF RegistryInv, OwnershipInv, TypeOK
    <3> QED
      BY <1>1, <3>1, <3>2, <3>3, <3>4, ExternalsShrink DEF SameWrapper
  <2> QED
    BY <1>1, <2>1, <2>2, ExternalsAfterProgram, ExternalsAfterCollector, ExternalsAfterContinue
<1> QED
  BY <1>2, <1>3

(* No external is ever taken for another wrapper: owns_handle may compare   *)
(* the address alone because a reachable external keeps its wrapper         *)
(* registered, and a late finalizer compares the identity too.              *)
THEOREM ExternalsFindTheirWrapper == Spec => []ExternalsNameTheirWrapper
<1>1. Init => ExternalsInv
  BY DEF Init, ExternalsInv, ExternalsDated, HeldNamed, CollectedUnheld, Idle, In
<1>2. RegistryInv /\ RegistryInv' /\ ExternalsInv /\ [Next]_vars => ExternalsInv'
  BY ExternalsStep
<1>3. RegistryInv /\ ExternalsInv => ExternalsNameTheirWrapper
  <2> SUFFICES ASSUME RegistryInv, ExternalsInv PROVE ExternalsNameTheirWrapper
    OBVIOUS
  <2>1. ReachableStaysRegistered
    BY DEF ExternalsInv, HeldNamed, ExternalNamed, ReachableStaysRegistered, FinalizerMatch
  <2>2. GenerationsNeverReused
    BY DEF ExternalsInv, ExternalsDated, GenerationsNeverReused
  <2> QED
    BY <2>1, <2>2 DEF ExternalsNameTheirWrapper
<1> QED
  BY <1>1, <1>2, <1>3, RegistryInvariant, PTL DEF Spec

-----------------------------------------------------------------------------
(***************************************************************************)
(* Retention.  Follow a wrapper through the end of its environment: it     *)
(* keeps its callback until the callback runs, it is then in the frame of  *)
(* the handler, and it leaves the frame freed or with a failure recorded.  *)
(***************************************************************************)

(* While no shutdown of environment e's teardown has failed, libjs or the   *)
(* handler under way will still come to every wrapper of e.                 *)
Covered(e) ==
  \A a \in handles : refs[a].env = e =>
    \/ refs[a].hook
    \/ envState[e] = "tearing" /\ a \in {thread[e].ref, thread[e].self}

HooksCover == \A e \in Envs : e \notin failures => Covered(e)

(* A drain remembers a failed shutdown, the program's handlers only run     *)
(* while its environment does and no finalizer runs in a teardown.          *)
FrameRecorded(e) ==
  /\ thread[e].op \in {"drain", "drainStop"} /\ ~thread[e].ok => e \in failures
  /\ thread[e].op \in {"shutdown", "destroy"} => envState[e] = "running"
  /\ thread[e].op = "collect" => envState[e] # "tearing"

FramesRecorded == \A e \in Envs : FrameRecorded(e)

(* The host's box of a signer is freed, or a wrapper still owns it.         *)
BoxesAccounted ==
  \A s \in SignerObjs : box[s] # "freed" /\ home[s] # None =>
    \E a \in handles : refs[a].kind = "signer" /\ refs[a].obj = s

RetentionInv == HooksCover /\ FramesRecorded /\ BoxesAccounted

(* A step of one environment's thread leaves the wrappers of the others     *)
(* covered.                                                                 *)
LEMMA CoverByEnvironment ==
  ASSUME RetentionInv, NEW e \in Envs,
         \A a \in handles' : refs'[a].env # e =>
           a \in handles /\ refs'[a].env = refs[a].env /\ refs'[a].hook = refs[a].hook,
         \A d \in Envs : d # e => envState'[d] = envState[d] /\ thread'[d] = thread[d],
         failures \subseteq failures',
         \A d \in Envs : d # e /\ d \in failures' => d \in failures,
         e \notin failures' => Covered(e)', FrameRecorded(e)'
  PROVE  HooksCover' /\ FramesRecorded'
<1>1. ASSUME NEW d \in Envs, d # e, d \notin failures' PROVE Covered(d)'
  BY <1>1 DEF RetentionInv, HooksCover, Covered
<1>2. ASSUME NEW d \in Envs, d # e PROVE FrameRecorded(d)'
  BY <1>2 DEF RetentionInv, FramesRecorded, FrameRecorded
<1> QED
  BY <1>1, <1>2 DEF HooksCover, FramesRecorded

(* Steps that leave flags, frames and environments alone keep the cover.    *)
LEMMA CoverKeeps ==
  ASSUME RetentionInv, UNCHANGED <<envState, thread, failures>>, handles' \subseteq handles,
         \A a \in handles' : refs'[a].env = refs[a].env /\ refs'[a].hook = refs[a].hook
  PROVE  HooksCover' /\ FramesRecorded'
<1>1. envState' = envState /\ thread' = thread /\ failures' = failures
  OBVIOUS
<1> QED
  BY <1>1 DEF RetentionInv, HooksCover, Covered, FramesRecorded, FrameRecorded

(* A signer's box keeps its owner while no signer is unlinked.              *)
LEMMA BoxesKeep ==
  ASSUME RetentionInv, handles \subseteq handles',
         \A a \in handles : refs'[a].kind = refs[a].kind /\ refs'[a].obj = refs[a].obj,
         \A s \in SignerObjs : home'[s] = home[s] /\ (box'[s] # "freed" => box[s] # "freed")
  PROVE  BoxesAccounted'
  BY DEF RetentionInv, BoxesAccounted

(* A wrapper that is unlinked was a node's, or its signer's box is freed    *)
(* with it (signer_destructor, signer_teardown).                            *)
LEMMA BoxesAfterUnlink ==
  ASSUME RegistryInv, RetentionInv, NEW a \in handles, unregister_and_free(a), UNCHANGED home,
         \A s \in SignerObjs : box'[s] # "freed" => box[s] # "freed",
         refs[a].kind = "signer" => box'[refs[a].obj] = "freed"
  PROVE  BoxesAccounted'
<1>1. handles' = handles \ {a} /\ \A b \in handles' : refs'[b] = refs[b]
  BY DEF unregister_and_free, RegistryInv, OwnershipInv, TypeOK
<1>2. ASSUME NEW s \in SignerObjs, box'[s] # "freed", home'[s] # None
      PROVE  \E b \in handles' : refs'[b].kind = "signer" /\ refs'[b].obj = s
  <2>1. PICK b \in handles : refs[b].kind = "signer" /\ refs[b].obj = s
    BY <1>2 DEF RetentionInv, BoxesAccounted
  <2>2. b # a
    BY <1>2, <2>1
  <2> QED
    BY <1>1, <2>1, <2>2
<1> QED
  BY <1>2 DEF BoxesAccounted

(* Calls of a running program: a new wrapper comes with its callback.       *)
LEMMA RetentionAfterProgram ==
  ASSUME RegistryInv, RetentionInv, NEW e \in Envs, Program(e)
  PROVE  RetentionInv'
<1>0. /\ thread \in [Envs -> Frame] /\ \A a \in handles : a \in Addrs /\ refs[a] \in Ref
      /\ refs \in [Addrs -> Ref \cup {None}] /\ home \in [Objs -> Envs \cup {None}]
      /\ box \in [SignerObjs -> BoxStates] /\ failures \in SUBSET Envs
  BY DEF RegistryInv, OwnershipInv, TypeOK
<1>1. ASSUME NEW kind \in Kinds, NEW o \in Objs, NEW a \in Addrs, Runs(e), Wrap(e, kind, o, a),
             UNCHANGED <<envState, thread, failures>>,
             IF kind = "signer" THEN box' = [box EXCEPT ![o] = "held"] /\ o \in SignerObjs
                                ELSE box' = box /\ o \in NodeObjs
      PROVE  RetentionInv'
  <2>1. /\ a \notin handles /\ handles' = handles \cup {a}
        /\ refs'[a].env = e /\ refs'[a].kind = kind /\ refs'[a].obj = o /\ refs'[a].hook = TRUE
        /\ \A b \in handles : refs'[b] = refs[b]
        /\ home' = [home EXCEPT ![o] = e]
    BY <1>0, <1>1, NullAssumption DEF Wrap, register_handle, NewRef
  <2>2. HooksCover' /\ FramesRecorded'
    BY <1>1, <2>1 DEF RetentionInv, HooksCover, Covered, FramesRecorded, FrameRecorded
  <2>3. BoxesAccounted'
    <3>1. ASSUME NEW s \in SignerObjs, s # o, box'[s] # "freed", home'[s] # None
          PROVE  \E b \in handles' : refs'[b].kind = "signer" /\ refs'[b].obj = s
      BY <1>0, <1>1, <2>1, <3>1 DEF RetentionInv, BoxesAccounted
    <3>2. o \in SignerObjs => kind = "signer"
      BY <1>1, ConstantsAssumption
    <3> QED
      BY <2>1, <3>1, <3>2 DEF BoxesAccounted
  <2> QED
    BY <2>2, <2>3 DEF RetentionInv
<1>2. CASE \/ \E o \in NodeObjs : \E a \in Addrs : NewNode(e, o, a)
           \/ \E s \in SignerObjs : \E a \in Addrs : NewSigner(e, s, a)
  BY <1>1, <1>2 DEF NewNode, NewSigner
<1>3. CASE \/ \E o \in NodeObjs : NewNodeFails(e, o)
           \/ \E s \in SignerObjs : NewSignerFails(e, s)
  <2>1. /\ UNCHANGED <<envState, handles, refs, thread, home, failures>>
        /\ box' = box \/ \E s \in SignerObjs : box' = [box EXCEPT ![s] = "freed"]
    BY <1>3 DEF NewNodeFails, NewSignerFails
  <2> QED
    BY <1>0, <2>1, CoverKeeps, BoxesKeep DEF RetentionInv
<1>4. CASE \E x \in held : RevokeSigner(e, x) \/ \E y \in held : Attach(e, x, y)
  <2>1. /\ UNCHANGED <<envState, handles, refs, thread, home, failures>>
        /\ \A s \in SignerObjs : box'[s] # "freed" => box[s] # "freed"
    <3>1. ASSUME NEW x \in held, RevokeSigner(e, x) PROVE box' = box
      <4>1. refs[x.addr].obj \in SignerObjs /\ box[refs[x.addr].obj] = "held"
        BY <3>1 DEF RevokeSigner, RegistryInv, OwnershipInv, TypeOK, WrappersAgree, WrapperAgrees,
                    require_signer, owns_handle
      <4> QED
        BY <1>0, <3>1, <4>1 DEF RevokeSigner
    <3>2. ASSUME NEW x \in held, NEW y \in held, Attach(e, x, y) PROVE box' = box
      <4>1. refs[y.addr].obj \in SignerObjs /\ box[refs[y.addr].obj] = "held"
        BY <3>2 DEF Attach, RegistryInv, OwnershipInv, TypeOK, WrappersAgree, WrapperAgrees,
                    require_signer, owns_handle
      <4> QED
        BY <1>0, <3>2, <4>1 DEF Attach
    <3> QED
      BY <1>4, <3>1, <3>2 DEF RevokeSigner, Attach, registry
  <2> QED
    BY <2>1, CoverKeeps, BoxesKeep DEF RetentionInv
<1>5. ASSUME NEW x \in held, BeginShutdown(e, x) PROVE RetentionInv'
  <2>1. /\ UNCHANGED <<envState, handles, refs, box, home, failures>>
        /\ envState[e] = "running" /\ thread[e] = Idle
        /\ \E op \in {"destroy", "shutdown"} : thread' = [thread EXCEPT ![e] = In(op, x.addr)]
    BY <1>5 DEF BeginShutdown, Runs, registry, natives
  <2>2. FrameRecorded(e)' /\ (e \notin failures' => Covered(e)')
    BY <1>0, <2>1 DEF RetentionInv, HooksCover, Covered, FrameRecorded, In
  <2>3. HooksCover' /\ FramesRecorded'
    BY <1>0, <2>1, <2>2, CoverByEnvironment
  <2> QED
    BY <2>1, <2>3, BoxesKeep DEF RetentionInv
<1>6. ASSUME NEW y \in held, DestroySigner(e, y) PROVE RetentionInv'
  <2>1. /\ y.addr \in handles /\ refs[y.addr].obj \in SignerObjs
        /\ box[refs[y.addr].obj] = IF refs[y.addr].freed THEN "freed" ELSE "held"
    BY <1>6
       DEF DestroySigner, owns_handle, RegistryInv, OwnershipInv, WrappersAgree,
           WrapperAgrees
  <2>2. /\ UNCHANGED <<envState, handles, thread, home, failures>>
        /\ \/ UNCHANGED <<refs, box>>
           \/ /\ refs' = [refs EXCEPT ![y.addr].freed = TRUE]
              /\ box' = [box EXCEPT ![refs[y.addr].obj] = "freed"]
    BY <1>0, <1>6, <2>1 DEF DestroySigner, FreeBox
  <2>3. \A a \in handles : /\ refs'[a].env = refs[a].env /\ refs'[a].kind = refs[a].kind
                           /\ refs'[a].obj = refs[a].obj /\ refs'[a].hook = refs[a].hook
    BY <1>0, <2>1, <2>2 DEF Ref
  <2>4. \A s \in SignerObjs : box'[s] # "freed" => box[s] # "freed"
    BY <1>0, <2>1, <2>2
  <2> QED
    BY <2>2, <2>3, <2>4, CoverKeeps, BoxesKeep DEF RetentionInv
<1> QED
  BY <1>2, <1>3, <1>4, <1>5, <1>6 DEF Program

(* Finalizers: a wrapper they free takes its callback with it, one they     *)
(* cannot free keeps its callback for the teardown.                         *)
LEMMA RetentionAfterCollector ==
  ASSUME RegistryInv, RetentionInv, NEW e \in Envs, Collector(e)
  PROVE  RetentionInv'
<1>0. /\ thread \in [Envs -> Frame] /\ \A a \in handles : a \in Addrs /\ refs[a] \in Ref
      /\ refs \in [Addrs -> Ref \cup {None}] /\ box \in [SignerObjs -> BoxStates]
      /\ failures \in SUBSET Envs
  BY DEF RegistryInv, OwnershipInv, TypeOK
<1>1. ASSUME NEW x \in held \cup garbage, CollectNode(e, x) PROVE RetentionInv'
  <2>1. /\ UNCHANGED <<envState, handles, refs, box, home, failures>>
        /\ envState[e] # "tearing" /\ thread[e] = Idle
        /\ thread' = thread \/ thread' = [thread EXCEPT ![e] = In("collect", x.addr)]
    BY <1>1 DEF CollectNode, Finalizes, registry, natives
  <2>2. FrameRecorded(e)' /\ (e \notin failures' => Covered(e)')
    BY <1>0, <2>1 DEF RetentionInv, HooksCover, Covered, FramesRecorded, FrameRecorded, In
  <2>3. HooksCover' /\ FramesRecorded'
    BY <1>0, <2>1, <2>2, CoverByEnvironment
  <2> QED
    BY <2>1, <2>3, BoxesKeep DEF RetentionInv
<1>2. ASSUME NEW x \in held \cup garbage, CollectSigner(e, x) PROVE RetentionInv'
  <2>1. UNCHANGED <<envState, thread, home, failures>> /\ x.kind = "signer"
    BY <1>2 DEF CollectSigner
  <2>2. CASE FinalizerMatch(e, x)
    <3>1. /\ x.addr \in handles /\ refs[x.addr].obj \in SignerObjs
          /\ box[refs[x.addr].obj] = IF refs[x.addr].freed THEN "freed" ELSE "held"
      BY <2>1, <2>2 DEF FinalizerMatch, RegistryInv, OwnershipInv, WrappersAgree, WrapperAgrees
    <3>2. /\ unregister_and_free(x.addr)
          /\ IF refs[x.addr].freed THEN box' = box ELSE box' = [box EXCEPT ![refs[x.addr].obj] = "freed"]
      BY <1>0, <1>2, <2>2, <3>1 DEF CollectSigner, FreeBox
    <3>3. BoxesAccounted'
      <4>1. /\ \A s \in SignerObjs : box'[s] # "freed" => box[s] # "freed"
            /\ box'[refs[x.addr].obj] = "freed"
        BY <1>0, <3>1, <3>2
      <4> QED
        BY <2>1, <3>1, <3>2, <4>1, BoxesAfterUnlink
    <3>4. handles' \subseteq handles /\ \A a \in handles' : refs'[a] = refs[a]
      BY <1>0, <3>2 DEF unregister_and_free
    <3> QED
      BY <2>1, <3>3, <3>4, CoverKeeps DEF RetentionInv
  <2>3. CASE ~FinalizerMatch(e, x)
    <3>1. UNCHANGED <<handles, refs, box>>
      BY <1>2, <2>3 DEF CollectSigner
    <3> QED
      BY <2>1, <3>1, CoverKeeps, BoxesKeep DEF RetentionInv
  <2> QED
    BY <2>2, <2>3
<1> QED
  BY <1>1, <1>2 DEF Collector

(* A node's wrapper that the thread of its environment has finished with.   *)
(* Without a failure it is unlinked.                                        *)
LEMMA RetentionAfterNode ==
  ASSUME RegistryInv, RetentionInv, NEW e \in Envs, NEW a \in handles, refs[a].env = e,
         refs[a].kind = "node", a = thread[e].ref,
         NEW f \in Frame, thread' = [thread EXCEPT ![e] = f], f.self = thread[e].self,
         UNCHANGED <<envState, box, home>>,
         failures \subseteq failures', failures' \subseteq failures \cup {e},
         UNCHANGED <<handles, refs>> \/ unregister_and_free(a),
         UNCHANGED <<handles, refs>> => refs[a].hook \/ e \in failures',
         FrameRecorded(e)'
  PROVE  RetentionInv'
<1>0. /\ thread \in [Envs -> Frame] /\ \A b \in handles : b \in Addrs /\ refs[b] \in Ref
      /\ refs \in [Addrs -> Ref \cup {None}]
  BY DEF RegistryInv, OwnershipInv, TypeOK
<1>1. /\ handles' \subseteq handles /\ \A b \in handles' : refs'[b] = refs[b]
      /\ a \in handles' => refs[a].hook \/ e \in failures'
  BY <1>0 DEF unregister_and_free
<1>2. e \notin failures' => Covered(e)'
  BY <1>0, <1>1 DEF RetentionInv, HooksCover, Covered
<1>3. HooksCover' /\ FramesRecorded'
  BY <1>0, <1>1, <1>2, CoverByEnvironment
<1>4. BoxesAccounted'
  BY BoxesKeep, BoxesAfterUnlink
<1> QED
  BY <1>3, <1>4 DEF RetentionInv

(* Returns of native calls and teardown callbacks: a wrapper is unlinked,   *)
(* still covered, or a failure is recorded for its environment.             *)
LEMMA RetentionAfterContinue ==
  ASSUME RegistryInv, RetentionInv, NEW e \in Envs, Continue(e)
  PROVE  RetentionInv'
<1>0. /\ thread \in [Envs -> Frame] /\ \A a \in handles : a \in Addrs /\ refs[a] \in Ref
      /\ refs \in [Addrs -> Ref \cup {None}] /\ box \in [SignerObjs -> BoxStates]
      /\ failures \in SUBSET Envs /\ Idle \in Frame /\ None \notin handles
  BY FrameType, ConstantsAssumption DEF RegistryInv, OwnershipInv, TypeOK
<1>f. thread'[e] = Idle => FrameRecorded(e)'
  BY DEF FrameRecorded, Idle, In
<1>1. ASSUME NEW ok \in BOOLEAN, ShutdownReturns(e, ok) PROVE RetentionInv'
  <2>1. /\ UNCHANGED <<envState, handles, box, home, failures>> /\ envState[e] = "running"
        /\ UNCHANGED refs \/ refs' = [refs EXCEPT ![thread[e].ref].stopped = TRUE]
        /\ thread' = [thread EXCEPT ![e] = Idle] \/ thread' = [thread EXCEPT ![e].op = "destroy"]
    BY <1>1 DEF ShutdownReturns, Return, RetentionInv, FramesRecorded, FrameRecorded
  <2>2. \A a \in handles : /\ refs'[a].env = refs[a].env /\ refs'[a].kind = refs[a].kind
                           /\ refs'[a].obj = refs[a].obj /\ refs'[a].hook = refs[a].hook
    BY <1>0, <2>1 DEF Ref
  <2>3. FrameRecorded(e)'
    BY <1>0, <1>f, <2>1 DEF FrameRecorded, Frame
  <2>4. e \notin failures' => Covered(e)'
    BY <2>1, <2>2 DEF RetentionInv, HooksCover, Covered
  <2>5. HooksCover' /\ FramesRecorded'
    BY <1>0, <2>1, <2>2, <2>3, <2>4, CoverByEnvironment
  <2> QED
    BY <2>1, <2>2, <2>5, BoxesKeep DEF RetentionInv
<1>2. ASSUME NEW ok \in BOOLEAN, DestroyReturns(e, ok) PROVE RetentionInv'
  <2>1. PICK a \in handles : a = thread[e].ref /\ refs[a] \in Ref /\ a \in Addrs
    BY <1>2 DEF DestroyReturns, RegistryInv, OwnershipInv, TypeOK, FramesAgree, FrameAgrees
  <2>2. /\ refs' = [refs EXCEPT ![a] = shutdown_and_free_sdk_node(refs[a], ok)]
        /\ UNCHANGED <<envState, handles, box, home, failures>> /\ envState[e] = "running"
        /\ thread' = [thread EXCEPT ![e] = Idle]
    BY <1>2, <2>1 DEF DestroyReturns, Return, RetentionInv, FramesRecorded, FrameRecorded
  <2>3. \A b \in handles : /\ refs'[b].env = refs[b].env /\ refs'[b].kind = refs[b].kind
                           /\ refs'[b].obj = refs[b].obj /\ refs'[b].hook = refs[b].hook
    BY <1>0, <2>1, <2>2, ShutdownKeepsWrapper
  <2>4. e \notin failures' => Covered(e)'
    BY <2>2, <2>3 DEF RetentionInv, HooksCover, Covered
  <2>5. HooksCover' /\ FramesRecorded'
    BY <1>0, <1>f, <2>2, <2>3, <2>4, CoverByEnvironment
  <2> QED
    BY <2>2, <2>3, <2>5, BoxesKeep DEF RetentionInv
<1>3. ASSUME NEW ok \in BOOLEAN, CollectReturns(e, ok) PROVE RetentionInv'
  <2>1. PICK a \in handles : /\ a = thread[e].ref /\ refs[a].env = e /\ refs[a].kind = "node"
                             /\ thread[e].self = None /\ envState[e] # "tearing"
    BY <1>3 DEF CollectReturns, RegistryInv, OwnershipInv, FramesAgree, FrameAgrees, RetentionInv,
                FramesRecorded, FrameRecorded
  <2>2. /\ UNCHANGED <<envState, box, home, failures>> /\ thread' = [thread EXCEPT ![e] = Idle]
        /\ UNCHANGED <<handles, refs>> \/ unregister_and_free(a)
    BY <1>3, <2>1 DEF CollectReturns, Return
  <2>3. refs[a].hook \/ e \in failures'
    BY <2>1, <2>2 DEF RetentionInv, HooksCover, Covered
  <2> QED
    BY <1>0, <1>f, <2>1, <2>2, <2>3, RetentionAfterNode DEF Idle, In
<1>4. ASSUME NEW ok \in BOOLEAN, NEW a \in handles, refs[a].kind = "node"
      PROVE  /\ failures \subseteq FailuresAfter(e, refs[a], ok)
             /\ FailuresAfter(e, refs[a], ok) \subseteq failures \cup {e}
             /\ ~shutdown_and_free_sdk_node(refs[a], ok).freed => e \in FailuresAfter(e, refs[a], ok)
  <2>1. shutdown_and_free_sdk_node(refs[a], ok).freed <=> refs[a].freed \/ Releases(refs[a], ok)
    BY <1>0, ShutdownKeepsWrapper
  <2> QED
    BY <2>1 DEF FailuresAfter, CallsShutdown, Releases
<1>5. ASSUME NEW ok \in BOOLEAN, NodeHookReturns(e, ok) PROVE RetentionInv'
  <2>1. PICK a \in handles : /\ a = thread[e].ref /\ refs[a].env = e /\ refs[a].kind = "node"
                             /\ thread[e].self = None
    BY <1>5 DEF NodeHookReturns, RegistryInv, OwnershipInv, FramesAgree, FrameAgrees
  <2>2. /\ UNCHANGED <<envState, box, home>> /\ thread' = [thread EXCEPT ![e] = Idle]
        /\ failures' = FailuresAfter(e, refs[a], ok)
        /\ IF shutdown_and_free_sdk_node(refs[a], ok).freed THEN unregister_and_free(a)
                                                            ELSE UNCHANGED <<handles, refs>>
    BY <1>5, <2>1 DEF NodeHookReturns, Return
  <2>3. /\ failures \subseteq failures' /\ failures' \subseteq failures \cup {e}
        /\ UNCHANGED <<handles, refs>> \/ unregister_and_free(a)
        /\ UNCHANGED <<handles, refs>> => e \in failures'
    BY <1>4, <2>1, <2>2 DEF unregister_and_free
  <2>4. Idle.self = thread[e].self /\ FrameRecorded(e)'
    BY <1>0, <1>f, <2>1, <2>2 DEF Idle, In
  <2> QED
    BY <1>0, <2>1, <2>2, <2>3, <2>4, RetentionAfterNode
<1>6. ASSUME NEW ok \in BOOLEAN, DrainReturns(e, ok) PROVE RetentionInv'
  <2> DEFINE f == thread[e]
  <2>1. PICK a \in handles : /\ a = f.ref /\ refs[a].env = e /\ refs[a].kind = "node"
                             /\ f.op = "drainStop" /\ f \in Frame
    BY <1>0, <1>6 DEF DrainReturns, RegistryInv, OwnershipInv, FramesAgree, FrameAgrees
  <2>2. PICK done \in BOOLEAN : done = shutdown_and_free_sdk_node(refs[a], ok).freed
    BY <1>0, ShutdownKeepsWrapper DEF Ref
  <2> DEFINE g == [f EXCEPT !.op = "drain", !.ref = None, !.ok = f.ok /\ done]
  <2>3. g \in Frame /\ g.op = "drain" /\ g.self = f.self /\ (g.ok <=> f.ok /\ done)
    BY <2>1, <2>2 DEF Frame
  <2>4. /\ UNCHANGED <<envState, box, home>> /\ thread' = [thread EXCEPT ![e] = g]
        /\ failures' = FailuresAfter(e, refs[a], ok)
        /\ IF done THEN unregister_and_free(a) ELSE UNCHANGED <<handles, refs>>
    BY <1>6, <2>1, <2>2, <2>3 DEF DrainReturns
  <2> HIDE DEF g
  <2>5. /\ failures \subseteq failures' /\ failures' \subseteq failures \cup {e}
        /\ ~done => e \in failures'
    BY <1>4, <2>1, <2>2, <2>4
  <2>6. FrameRecorded(e)'
    BY <1>0, <2>1, <2>3, <2>4, <2>5 DEF RetentionInv, FramesRecorded, FrameRecorded
  <2>7. /\ UNCHANGED <<handles, refs>> \/ unregister_and_free(a)
        /\ UNCHANGED <<handles, refs>> => e \in failures'
    BY <2>4, <2>5 DEF unregister_and_free
  <2> QED
    BY <2>1, <2>3, <2>4, <2>5, <2>6, <2>7, RetentionAfterNode
<1>7. ASSUME NEW ok \in BOOLEAN, DrainDone(e, ok) PROVE RetentionInv'
  <2>1. PICK a \in handles : /\ a = thread[e].self /\ refs[a].env = e /\ refs[a].kind = "signer"
                             /\ refs[a].obj \in SignerObjs /\ thread[e].ref = None
                             /\ box[refs[a].obj] = IF refs[a].freed THEN "freed" ELSE "held"
                             /\ ~thread[e].ok => e \in failures
    <3>1. FrameRecorded(e) /\ thread[e].op = "drain"
      BY <1>7 DEF RetentionInv, FramesRecorded, DrainDone
    <3> QED
      BY <1>7, <3>1, DrainIsASigners DEF RegistryInv, FrameRecorded
  <2>2. /\ UNCHANGED <<envState, home>> /\ thread' = [thread EXCEPT ![e] = Idle]
        /\ failures' = failures \/ failures' = failures \cup {e}
        /\ \/ UNCHANGED <<handles, refs, box>> /\ e \in failures'
           \/ /\ unregister_and_free(a)
              /\ IF refs[a].freed THEN box' = box ELSE box' = [box EXCEPT ![refs[a].obj] = "freed"]
    BY <1>0, <1>7, <2>1 DEF DrainDone, Return, FreeBox
  <2>3. /\ handles' \subseteq handles /\ \A b \in handles' : refs'[b] = refs[b]
        /\ a \in handles' => e \in failures'
    BY <1>0, <2>2 DEF unregister_and_free
  <2>4. e \notin failures' => Covered(e)'
    BY <1>0, <2>1, <2>2, <2>3 DEF RetentionInv, HooksCover, Covered
  <2>5. HooksCover' /\ FramesRecorded'
    BY <1>0, <1>f, <2>2, <2>3, <2>4, CoverByEnvironment
  <2>6. BoxesAccounted'
    <3>1. CASE UNCHANGED <<handles, refs, box>>
      BY <2>2, <3>1, BoxesKeep
    <3>2. CASE /\ unregister_and_free(a)
               /\ IF refs[a].freed THEN box' = box ELSE box' = [box EXCEPT ![refs[a].obj] = "freed"]
      <4>1. /\ \A s \in SignerObjs : box'[s] # "freed" => box[s] # "freed"
            /\ box'[refs[a].obj] = "freed"
        BY <1>0, <2>1, <3>2
      <4> QED
        BY <2>1, <2>2, <3>2, <4>1, BoxesAfterUnlink
    <3> QED
      BY <2>2, <3>1, <3>2
  <2> QED
    BY <2>5, <2>6 DEF RetentionInv
<1>8. ASSUME NEW kind \in Kinds, NEW id \in 0 .. MaxId, NEW g \in [Addrs -> Frame], Hook(e, kind, id, g),
             \A a \in Addrs : /\ a \in {g[a].ref, g[a].self} /\ g[a].op \in {"teardown", "drain"}
                              /\ g[a].ok
      PROVE  RetentionInv'
  <2>1. /\ UNCHANGED <<envState, handles, box, home, failures>>
        /\ envState[e] = "tearing" /\ thread[e] = Idle /\ <<kind, id>> \in hooks[e]
    BY <1>8 DEF Hook, natives
  <2>2. CASE UNCHANGED <<refs, thread>>
    BY <2>1, <2>2, CoverKeeps, BoxesKeep DEF RetentionInv
  <2>3. ASSUME NEW a \in Addrs, TeardownMatch(a, kind, id),
               refs' = [refs EXCEPT ![a] = ClearFlag(@)], thread' = [thread EXCEPT ![e] = g[a]]
        PROVE  RetentionInv'
    <3>1. a \in handles /\ refs[a] \in Ref /\ refs[a].env = e
      BY <1>8, <2>1, <2>3, FoundByHook
    <3>2. \A b \in handles : /\ refs'[b].env = refs[b].env /\ refs'[b].kind = refs[b].kind
                             /\ refs'[b].obj = refs[b].obj
                             /\ b # a => refs'[b] = refs[b]
      BY <1>0, <2>3, <3>1 DEF ClearFlag, Ref
    <3>3. FrameRecorded(e)' /\ (e \notin failures' => Covered(e)')
      BY <1>0, <1>8, <2>1, <2>3, <3>1, <3>2
         DEF RetentionInv, HooksCover, Covered, FrameRecorded, Idle, In
    <3>4. HooksCover' /\ FramesRecorded'
      BY <1>0, <2>1, <2>3, <3>1, <3>2, <3>3, CoverByEnvironment
    <3> QED
      BY <2>1, <3>2, <3>4, BoxesKeep DEF RetentionInv
  <2> QED
    BY <1>8, <2>2, <2>3 DEF Hook
<1>9. ASSUME NEW id \in 0 .. MaxId, NodeHook(e, id) \/ SignerHook(e, id) PROVE RetentionInv'
  <2> DEFINE g == [a \in Addrs |-> In("teardown", a)]
             h == [a \in Addrs |-> [In("drain", None) EXCEPT !.self = a]]
  <2>1. /\ g \in [Addrs -> Frame] /\ h \in [Addrs -> Frame]
        /\ \A a \in Addrs : /\ g[a].ref = a /\ g[a].op = "teardown" /\ g[a].ok
                            /\ h[a].self = a /\ h[a].op = "drain" /\ h[a].ok
    BY FrameType DEF In, Frame
  <2>2. CASE NodeHook(e, id)
    <3>1. Hook(e, "node", id, g)
      BY <2>2 DEF NodeHook
    <3> HIDE DEF g
    <3> QED
      BY <1>8, <2>1, <3>1
  <2>3. CASE SignerHook(e, id)
    <3>1. Hook(e, "signer", id, h)
      BY <2>3 DEF SignerHook
    <3> HIDE DEF h
    <3> QED
      BY <1>8, <2>1, <3>1
  <2> QED
    BY <1>9, <2>2, <2>3
<1>10. CASE DrainNext(e)
  <2>1. PICK a \in Ahead(thread[e]) : thread' = [thread EXCEPT ![e] =
                     [thread[e] EXCEPT !.op = "drainStop", !.ref = a, !.cursor = refs[a].id]]
    BY <1>10 DEF DrainNext
  <2>2. /\ UNCHANGED <<envState, handles, refs, box, home, failures>>
        /\ thread[e].op = "drain" /\ thread[e].ref = None
    BY <1>10 DEF DrainNext, registry, natives, RegistryInv, OwnershipInv, FramesAgree, FrameAgrees
  <2>3. /\ thread'[e].op = "drainStop" /\ thread'[e].self = thread[e].self /\ thread'[e].ok = thread[e].ok
        /\ \A d \in Envs : d # e => thread'[d] = thread[d]
    BY <1>0, <2>1 DEF Frame
  <2>4. FrameRecorded(e)' /\ (e \notin failures' => Covered(e)')
    BY <1>0, <2>2, <2>3 DEF RetentionInv, HooksCover, Covered, FramesRecorded, FrameRecorded
  <2>5. HooksCover' /\ FramesRecorded'
    BY <1>0, <2>2, <2>3, <2>4, CoverByEnvironment
  <2> QED
    BY <2>2, <2>5, BoxesKeep DEF RetentionInv
<1>11. CASE TeardownDone(e)
  <2>1. /\ UNCHANGED <<handles, refs, box, home, failures, thread>> /\ thread[e] = Idle
        /\ envState' = [envState EXCEPT ![e] = "dead"] /\ envState \in [Envs -> {"running", "tearing", "dead"}]
    BY <1>11 DEF TeardownDone, registry, natives, RegistryInv, OwnershipInv, TypeOK
  <2>2. FrameRecorded(e)' /\ (e \notin failures' => Covered(e)')
    BY <1>0, <1>f, <2>1 DEF RetentionInv, HooksCover, Covered, Idle, In
  <2>3. HooksCover' /\ FramesRecorded'
    BY <1>0, <2>1, <2>2, CoverByEnvironment
  <2> QED
    BY <2>1, <2>3, BoxesKeep DEF RetentionInv
<1> QED
  BY <1>1, <1>2, <1>3, <1>5, <1>6, <1>7, <1>9, <1>10, <1>11 DEF Continue

(* The retention invariant is inductive together with RegistryInv.          *)
LEMMA RetentionStep == RegistryInv /\ RetentionInv /\ [Next]_vars => RetentionInv'
<1> SUFFICES ASSUME RegistryInv, RetentionInv, [Next]_vars PROVE RetentionInv'
  OBVIOUS
<1>1. CASE UNCHANGED vars
  BY <1>1, CoverKeeps, BoxesKeep DEF vars, RetentionInv
<1>2. CASE Next
  <2>1. PICK e \in Envs : Program(e) \/ Collector(e) \/ BeginTeardown(e) \/ Reopen(e) \/ Continue(e)
    BY <1>2 DEF Next
  <2>2. CASE BeginTeardown(e) \/ Reopen(e)
    <3>1. /\ UNCHANGED <<handles, refs, box, home, failures, thread>> /\ thread[e] = Idle
          /\ \E new \in {"tearing", "running"} : envState' = [envState EXCEPT ![e] = new]
          /\ envState \in [Envs -> {"running", "tearing", "dead"}]
          /\ failures \in SUBSET Envs /\ None \notin handles
      BY <2>2, ConstantsAssumption
         DEF BeginTeardown, Reopen, Runs, registry, natives, RegistryInv,
                                       OwnershipInv, TypeOK
    <3>2. FrameRecorded(e)' /\ (e \notin failures' => Covered(e)')
      BY <3>1 DEF RetentionInv, HooksCover, Covered, FrameRecorded, Idle, In
    <3>3. HooksCover' /\ FramesRecorded'
      BY <3>1, <3>2, CoverByEnvironment
    <3> QED
      BY <3>1, <3>3, BoxesKeep DEF RetentionInv
  <2> QED
    BY <2>1, <2>2, RetentionAfterProgram, RetentionAfterCollector, RetentionAfterContinue
<1> QED
  BY <1>1, <1>2

(* When an environment is gone and none of its shutdowns failed, nothing of *)
(* it is left: the teardown callbacks came to every wrapper, and a drain    *)
(* that met no failure freed the nodes whose callbacks then found nothing.  *)
THEOREM RetainedForAReason == Spec => []RetainedOnlyAfterFailure
<1>1. Init => RetentionInv
  BY DEF Init, RetentionInv, HooksCover, Covered, FramesRecorded, FrameRecorded, BoxesAccounted,
         Idle, In
<1>2. RegistryInv /\ RetentionInv /\ [Next]_vars => RetentionInv'
  BY RetentionStep
<1>3. RegistryInv /\ RetentionInv => RetainedOnlyAfterFailure
  <2> SUFFICES ASSUME RegistryInv, RetentionInv, NEW e \in Envs, envState[e] = "dead", e \notin failures
               PROVE  /\ \A a \in handles : refs[a].env # e
                      /\ \A o \in NodeObjs : home[o] = e => node[o] = "freed"
                      /\ \A s \in SignerObjs : home[s] = e => box[s] = "freed"
    BY DEF RetainedOnlyAfterFailure
  <2>1. ASSUME NEW a \in handles, refs[a].env = e PROVE FALSE
    <3>1. refs[a].hook
      BY <2>1 DEF RetentionInv, HooksCover, Covered
    <3>2. <<refs[a].kind, refs[a].id>> \in hooks[e]
      BY <2>1, <3>1 DEF RegistryInv, HookAgreement
    <3> QED
      BY <3>2 DEF RegistryInv, HooksAgree
  <2>2. e # None
    BY ConstantsAssumption
  <2>3. ASSUME NEW o \in NodeObjs, home[o] = e, node[o] # "freed" PROVE FALSE
    <3>1. PICK a \in handles : refs[a].kind = "node" /\ refs[a].obj = o
      BY <2>2, <2>3 DEF RegistryInv, OwnershipInv, ObjectsAccounted
    <3> QED
      BY <2>1, <2>3, <3>1 DEF RegistryInv, OwnershipInv, WrappersAgree, WrapperAgrees
  <2>4. ASSUME NEW s \in SignerObjs, home[s] = e, box[s] # "freed" PROVE FALSE
    <3>1. PICK a \in handles : refs[a].kind = "signer" /\ refs[a].obj = s
      BY <2>2, <2>4 DEF RetentionInv, BoxesAccounted
    <3> QED
      BY <2>1, <2>4, <3>1 DEF RegistryInv, OwnershipInv, WrappersAgree, WrapperAgrees
  <2> QED
    BY <2>1, <2>3, <2>4
<1> QED
  BY <1>1, <1>2, <1>3, RegistryInvariant, PTL DEF Spec

-----------------------------------------------------------------------------
(* Why a teardown completes *)

(* An environment under teardown is never stuck: a callback is left to run  *)
(* or the teardown can end, a native shutdown is to return, or the drain    *)
(* is done or has a next node (shutdown_environment_nodes).                 *)
TeardownCanStep ==
  \A e \in Envs : envState[e] = "tearing" =>
    LET f == thread[e] IN
    \/ f = Idle
    \/ f.op \in {"teardown", "drainStop"}
    \/ f.op = "drain" /\ Ahead(f) = {}
    \/ f.op = "drain" /\ \E a \in Ahead(f) : \A b \in Ahead(f) : refs[a].id <= refs[b].id

(* How far a frame is from its end: a drain takes two steps per identity    *)
(* that its cursor has not passed.                                          *)
Distance(f) ==
  IF f.op = "drainStop" THEN 2 * (MaxId - f.cursor) + 2
  ELSE IF f.op = "drain" THEN 2 * (MaxId - f.cursor) + 1
  ELSE IF f.op = "idle" THEN 0 ELSE 1

(* Whatever other environments do meanwhile and whether native shutdowns    *)
(* succeed, a teardown only moves on: it ends with no callback left, or     *)
(* takes a callback from libjs's list, which never grows, or comes closer   *)
(* to the end of the callback it is in.                                     *)
TeardownAdvances ==
  [][\A e \in Envs : envState[e] = "tearing" =>
       \/ envState'[e] = "tearing" /\ hooks'[e] = hooks[e] /\ thread'[e] = thread[e]
       \/ envState'[e] = "dead" /\ hooks[e] = {}
       \/ hooks'[e] \subseteq hooks[e] /\ hooks'[e] # hooks[e]
       \/ hooks'[e] = hooks[e] /\ Distance(thread'[e]) < Distance(thread[e])]_vars

(* A thread at rest is in the one idle frame, and a thread of an            *)
(* environment under teardown is in no handler its program or the collector *)
(* began: callbacks start only on an idle thread.                           *)
RestingThreads ==
  \A e \in Envs :
    /\ thread[e].op = "idle" => thread[e] = Idle
    /\ envState[e] = "tearing" => thread[e].op \in {"idle", "teardown", "drain", "drainStop"}

LEMMA RestingStep == RegistryInv /\ RestingThreads /\ [Next]_vars => RestingThreads'
<1> SUFFICES ASSUME RegistryInv, RestingThreads, [Next]_vars PROVE RestingThreads'
  OBVIOUS
<1>1. CASE UNCHANGED vars
  BY <1>1 DEF vars, RestingThreads
<1>2. CASE Next
  <2>1. PICK e \in Envs : Program(e) \/ Collector(e) \/ BeginTeardown(e) \/ Reopen(e) \/ Continue(e)
    BY <1>2 DEF Next
  <2>2. thread \in [Envs -> Frame] /\ envState \in [Envs -> {"running", "tearing", "dead"}]
    BY DEF RegistryInv, OwnershipInv, TypeOK
  <2>3. CASE Program(e)
    <3>1. envState' = envState
      BY <2>3 DEF Program, NewNodeFails, NewNode, NewSignerFails, NewSigner, BeginShutdown,
                  RevokeSigner, DestroySigner, Attach
    <3>2. \/ thread' = thread
          \/ /\ envState[e] = "running"
             /\ \E a : \E op \in {"shutdown", "destroy"} : thread' = [thread EXCEPT ![e] = In(op, a)]
      BY <2>3 DEF Program, NewNodeFails, NewNode, NewSignerFails, NewSigner, BeginShutdown,
                  RevokeSigner, DestroySigner, Attach, Runs
    <3>3. CASE thread' = thread
      BY <3>1, <3>3 DEF RestingThreads
    <3>4. ASSUME NEW a, NEW op \in {"shutdown", "destroy"}, envState[e] = "running",
                 thread' = [thread EXCEPT ![e] = In(op, a)]
          PROVE  RestingThreads'
      BY <2>2, <3>1, <3>4 DEF In, RestingThreads
    <3> QED
      BY <3>2, <3>3, <3>4
  <2>4. CASE Collector(e)
    BY <2>2, <2>4 DEF Collector, CollectNode, CollectSigner, Finalizes, In, RestingThreads
  <2>5. CASE BeginTeardown(e) \/ Reopen(e)
    <3>1. /\ thread' = thread /\ thread[e] = Idle
          /\ \E s \in {"tearing", "running"} : envState' = [envState EXCEPT ![e] = s]
      BY <2>5 DEF BeginTeardown, Reopen, Runs
    <3>2. Idle.op = "idle"
      BY DEF Idle, In
    <3> QED
      BY <2>2, <3>1, <3>2 DEF RestingThreads
  <2>6. CASE Continue(e)
    <3>1. ASSUME NEW ok \in BOOLEAN,
                 \/ ShutdownReturns(e, ok) \/ DestroyReturns(e, ok) \/ CollectReturns(e, ok)
                 \/ NodeHookReturns(e, ok) \/ DrainDone(e, ok)
          PROVE  RestingThreads'
      <4>1. CASE ShutdownReturns(e, TRUE) /\ ok
        <5>1. envState' = envState /\ thread[e].op = "shutdown"
          BY <4>1 DEF ShutdownReturns
        <5>2. thread' = [thread EXCEPT ![e].op = "destroy"]
          BY <4>1 DEF ShutdownReturns
        <5>3. thread'[e].op = "destroy" /\ \A d \in Envs \ {e} : thread'[d] = thread[d]
          BY <2>2, <5>2 DEF Frame
        <5> QED
          BY <5>1, <5>3 DEF RestingThreads
      <4>2. CASE ~(ShutdownReturns(e, TRUE) /\ ok)
        <5>1. envState' = envState /\ Return(e)
          BY <3>1, <4>2 DEF ShutdownReturns, DestroyReturns, CollectReturns, NodeHookReturns, DrainDone
        <5>2. thread' = [thread EXCEPT ![e] = Idle] /\ Idle.op = "idle"
          BY <5>1 DEF Return, Idle, In
        <5> QED
          BY <2>2, <5>1, <5>2 DEF RestingThreads
      <4> QED
        BY <4>1, <4>2
    <3>2. ASSUME NEW ok \in BOOLEAN, DrainReturns(e, ok) PROVE RestingThreads'
      BY <2>2, <3>2 DEF DrainReturns, Frame, RestingThreads
    <3>3. ASSUME NEW id \in 0 .. MaxId, NodeHook(e, id) \/ SignerHook(e, id)
          PROVE  RestingThreads'
      BY <2>2, <3>3 DEF NodeHook, SignerHook, Hook, In, RestingThreads
    <3>4. CASE DrainNext(e)
      BY <2>2, <3>4 DEF DrainNext, Frame, RestingThreads
    <3>5. CASE TeardownDone(e)
      BY <2>2, <3>5 DEF TeardownDone, RestingThreads
    <3> QED
      BY <2>6, <3>1, <3>2, <3>3, <3>4, <3>5 DEF Continue
  <2> QED
    BY <2>1, <2>3, <2>4, <2>5, <2>6
<1> QED
  BY <1>1, <1>2

(* Handlers begin and end in the idle frame (binding.cc's functions return  *)
(* to the environment's loop).                                              *)
LEMMA RestingInvariant == Spec => []RestingThreads
<1>1. Init => RestingThreads
  BY DEF Init, RestingThreads, Idle, In
<1>2. RegistryInv /\ RestingThreads /\ [Next]_vars => RestingThreads'
  BY RestingStep
<1> QED
  BY <1>1, <1>2, RegistryInvariant, PTL DEF Spec

(* Among registered wrappers one has the smallest identity: the scan of     *)
(* shutdown_environment_nodes finds its next node.                          *)
LEMMA SmallestIdentity ==
  ASSUME NEW S, S # {}, \A a \in S : refs[a].id \in Nat
  PROVE  \E a \in S : \A b \in S : refs[a].id <= refs[b].id
<1> DEFINE I == {refs[a].id : a \in S}
           R == {ss \in Nat \X Nat : ss[1] < ss[2]}
<1>1. I \subseteq Nat /\ I # {}
  OBVIOUS
<1>2. IsWellFoundedOn(R, Nat)
  BY NatLessThanWellFounded DEF OpToRel
<1>3. PICK n \in I : \A m \in I : <<m, n>> \notin R
  <2> HIDE DEF I, R
  <2> QED
    BY <1>1, <1>2, WFMin
<1>4. ASSUME NEW m \in I, ~(n <= m) PROVE FALSE
  <2>1. m \in Nat /\ n \in Nat /\ m < n
    BY <1>1, <1>4
  <2>2. <<m, n>> \in R
    BY <2>1
  <2> QED
    BY <1>3, <2>2
<1> QED
  BY <1>3, <1>4

(* A teardown is never stuck, however many of its native shutdowns failed   *)
(* and whatever wrappers earlier environments left behind.                  *)
THEOREM TeardownNeverStuck == Spec => []TeardownCanStep
<1>1. RegistryInv /\ RestingThreads => TeardownCanStep
  <2> SUFFICES ASSUME RegistryInv, RestingThreads, NEW e \in Envs, envState[e] = "tearing",
                      thread[e].op = "drain", Ahead(thread[e]) # {}
               PROVE  \E a \in Ahead(thread[e]) : \A b \in Ahead(thread[e]) : refs[a].id <= refs[b].id
    BY DEF TeardownCanStep, RestingThreads
  <2>1. \A a \in Ahead(thread[e]) : refs[a].id \in Nat
    BY DEF Ahead, EnvNodes, RegistryInv, OwnershipInv, WrappersAgree, WrapperAgrees
  <2> QED
    BY <2>1, SmallestIdentity
<1> QED
  BY <1>1, RegistryInvariant, RestingInvariant, PTL

(* No step of another environment touches the callbacks, the frame or the   *)
(* state of this one.                                                       *)
LEMMA OthersLeaveIt ==
  ASSUME RegistryInv, NEW e \in Envs, NEW d \in Envs, d # e,
         Program(d) \/ Collector(d) \/ BeginTeardown(d) \/ Reopen(d) \/ Continue(d)
  PROVE  envState'[e] = envState[e] /\ hooks'[e] = hooks[e] /\ thread'[e] = thread[e]
<1>1. /\ thread \in [Envs -> Frame] /\ envState \in [Envs -> {"running", "tearing", "dead"}]
      /\ hooks \in [Envs -> SUBSET (Kinds \X (0 .. MaxId))]
  BY DEF RegistryInv, OwnershipInv, TypeOK
<1>2. CASE Program(d)
  BY <1>1, <1>2 DEF Program, NewNodeFails, NewNode, NewSignerFails, NewSigner, Wrap, BeginShutdown,
                    RevokeSigner, DestroySigner, Attach, registry
<1>3. CASE Collector(d)
  BY <1>1, <1>3 DEF Collector, CollectNode, CollectSigner, registry
<1>4. CASE BeginTeardown(d) \/ Reopen(d)
  BY <1>1, <1>4 DEF BeginTeardown, Reopen, registry
<1>5. CASE Continue(d)
  <2>1. ASSUME NEW ok \in BOOLEAN,
               \/ ShutdownReturns(d, ok) \/ DestroyReturns(d, ok) \/ CollectReturns(d, ok)
               \/ NodeHookReturns(d, ok) \/ DrainDone(d, ok) \/ DrainReturns(d, ok)
        PROVE  envState'[e] = envState[e] /\ hooks'[e] = hooks[e] /\ thread'[e] = thread[e]
    BY <1>1, <2>1 DEF ShutdownReturns, DestroyReturns, CollectReturns, NodeHookReturns,
                      DrainDone, DrainReturns, Return
  <2>2. ASSUME NEW id \in 0 .. MaxId, NodeHook(d, id) \/ SignerHook(d, id)
        PROVE  envState'[e] = envState[e] /\ hooks'[e] = hooks[e] /\ thread'[e] = thread[e]
    BY <1>1, <2>2 DEF NodeHook, SignerHook, Hook
  <2>3. CASE DrainNext(d) \/ TeardownDone(d)
    BY <1>1, <2>3 DEF DrainNext, TeardownDone, registry
  <2> QED
    BY <1>5, <2>1, <2>2, <2>3 DEF Continue
<1> QED
  BY <1>2, <1>3, <1>4, <1>5

(* What the environment's own teardown does next.                           *)
LEMMA TeardownStep ==
  ASSUME RegistryInv, RestingThreads, NEW e \in Envs, envState[e] = "tearing",
         Program(e) \/ Collector(e) \/ BeginTeardown(e) \/ Reopen(e) \/ Continue(e)
  PROVE  \/ envState'[e] = "dead" /\ hooks[e] = {}
         \/ hooks'[e] \subseteq hooks[e] /\ hooks'[e] # hooks[e]
         \/ hooks'[e] = hooks[e] /\ Distance(thread'[e]) < Distance(thread[e])
<1>1. /\ thread \in [Envs -> Frame] /\ envState \in [Envs -> {"running", "tearing", "dead"}]
      /\ hooks \in [Envs -> SUBSET (Kinds \X (0 .. MaxId))]
      /\ MaxId \in Nat
  BY ConstantsAssumption DEF RegistryInv, OwnershipInv, TypeOK
<1>2. Continue(e)
  BY DEF Program, NewNodeFails, NewNode, NewSignerFails, NewSigner, BeginShutdown, RevokeSigner,
         DestroySigner, Attach, Runs, Collector, CollectNode, CollectSigner, Finalizes,
         BeginTeardown, Reopen
<1>3. ASSUME NEW ok \in BOOLEAN, ShutdownReturns(e, ok) \/ DestroyReturns(e, ok) \/ CollectReturns(e, ok)
      PROVE  FALSE
  BY <1>3 DEF ShutdownReturns, DestroyReturns, CollectReturns, RestingThreads
<1>4. ASSUME NEW ok \in BOOLEAN, NodeHookReturns(e, ok) \/ DrainDone(e, ok)
      PROVE  hooks'[e] = hooks[e] /\ Distance(thread'[e]) < Distance(thread[e])
  <2>1. hooks' = hooks /\ thread'[e] = Idle /\ thread[e].op \in {"teardown", "drain"}
    BY <1>1, <1>4 DEF NodeHookReturns, DrainDone, Return
  <2>2. thread[e].cursor \in 0 .. MaxId
    BY <1>1 DEF Frame
  <2> QED
    BY <1>1, <2>1, <2>2 DEF Distance, Idle, In
<1>5. ASSUME NEW ok \in BOOLEAN, DrainReturns(e, ok)
      PROVE  hooks'[e] = hooks[e] /\ Distance(thread'[e]) < Distance(thread[e])
  <2>1. /\ hooks' = hooks /\ thread[e].op = "drainStop"
        /\ thread'[e].op = "drain" /\ thread'[e].cursor = thread[e].cursor
    BY <1>1, <1>5 DEF DrainReturns, Frame
  <2>2. thread[e].cursor \in 0 .. MaxId
    BY <1>1 DEF Frame
  <2> QED
    BY <1>1, <2>1, <2>2 DEF Distance
<1>6. CASE DrainNext(e)
  <2>1. PICK a \in Ahead(thread[e]) :
          thread' = [thread EXCEPT ![e] =
                       [thread[e] EXCEPT !.op = "drainStop", !.ref = a, !.cursor = refs[a].id]]
    BY <1>6 DEF DrainNext
  <2>2. /\ hooks' = hooks /\ thread[e].op = "drain"
        /\ thread'[e].op = "drainStop" /\ thread'[e].cursor = refs[a].id
    BY <1>1, <1>6, <2>1 DEF DrainNext, registry, Frame
  <2>3. thread[e].cursor \in 0 .. MaxId /\ refs[a].id \in 1 .. MaxId /\ refs[a].id > thread[e].cursor
    BY <1>1 DEF Frame, Ahead, EnvNodes, RegistryInv, OwnershipInv, WrappersAgree, WrapperAgrees
  <2> QED
    BY <1>1, <2>2, <2>3 DEF Distance
<1>7. ASSUME NEW id \in 0 .. MaxId, NodeHook(e, id) \/ SignerHook(e, id)
      PROVE  hooks'[e] \subseteq hooks[e] /\ hooks'[e] # hooks[e]
  BY <1>1, <1>7 DEF NodeHook, SignerHook, Hook
<1>8. CASE TeardownDone(e)
  BY <1>1, <1>8 DEF TeardownDone
<1> QED
  BY <1>2, <1>3, <1>4, <1>5, <1>6, <1>7, <1>8 DEF Continue

(* A teardown only moves on: with finitely many callbacks and at most       *)
(* 2 * MaxId + 2 steps in each, nothing but an unscheduled thread can keep  *)
(* it from its end (shutdown_environment_nodes passes an identity once).    *)
THEOREM TeardownMovesOn == Spec => TeardownAdvances
<1> DEFINE Onward(e) ==
      envState[e] = "tearing" =>
       \/ envState'[e] = "tearing" /\ hooks'[e] = hooks[e] /\ thread'[e] = thread[e]
       \/ envState'[e] = "dead" /\ hooks[e] = {}
       \/ hooks'[e] \subseteq hooks[e] /\ hooks'[e] # hooks[e]
       \/ hooks'[e] = hooks[e] /\ Distance(thread'[e]) < Distance(thread[e])
<1>1. RegistryInv /\ RestingThreads /\ [Next]_vars => [\A e \in Envs : Onward(e)]_vars
  <2> SUFFICES ASSUME RegistryInv, RestingThreads, Next, NEW e \in Envs PROVE Onward(e)
    OBVIOUS
  <2>1. PICK d \in Envs : Program(d) \/ Collector(d) \/ BeginTeardown(d) \/ Reopen(d) \/ Continue(d)
    BY DEF Next
  <2> QED
    BY <2>1, OthersLeaveIt, TeardownStep
<1> QED
  BY <1>1, RegistryInvariant, RestingInvariant, PTL DEF Spec, TeardownAdvances

-----------------------------------------------------------------------------
(***************************************************************************)
(* HandleRegistry implements NativeOwnership: the initial states map to    *)
(* initial states and every step maps to a step or a stutter.  The         *)
(* invariant proved above supplies the abstract guards.                    *)
(***************************************************************************)

USE DEF Ownership!vars

(* Nothing is handed out at the start.                                      *)
LEMMA OwnershipInit == Init => Ownership!Init
  BY DEF Init, Objs, Ownership!Init, Ownership!Objs

(* Every way binding.cc frees a node is a Stop, a Free or no step of        *)
(* NativeOwnership.                                                         *)
LEMMA FreeingIsOwned ==
  ASSUME RegistryInv, NEW a \in handles, refs[a].kind = "node",
         node' = [node EXCEPT ![refs[a].obj] = "freed"],
         UNCHANGED <<envState, box, revoked, uses, home, hostRevoked>>
  PROVE  Ownership!Next \/ UNCHANGED Ownership!vars
<1> DEFINE w == refs[a]
<1>1. /\ w.obj \in NodeObjs /\ node \in [NodeObjs -> NodeStates]
      /\ home[w.obj] \in Envs /\ node[w.obj] \in {"live", "stopped", "freed"}
  BY DEF RegistryInv, OwnershipInv, TypeOK, WrappersAgree, WrapperAgrees, Ref
<1>2. CASE node[w.obj] = "freed"
  BY <1>1, <1>2
<1>3. CASE node[w.obj] = "stopped"
  BY <1>1, <1>3 DEF Ownership!Next, Ownership!Free
<1>4. CASE node[w.obj] = "live"
  <2>1. Ownership!Stop(w.obj)
    BY <1>1, <1>4, ConstantsAssumption DEF Ownership!Stop
  <2> QED
    BY <1>1, <2>1 DEF Ownership!Next
<1> QED
  BY <1>1, <1>2, <1>3, <1>4

(* Freeing the host's clone of a signer is a Release.                       *)
LEMMA ReleasingIsOwned ==
  ASSUME RegistryInv, NEW a \in handles, refs[a].kind = "signer", ~refs[a].freed,
         box' = [box EXCEPT ![refs[a].obj] = "freed"],
         UNCHANGED <<envState, node, revoked, uses, home, hostRevoked>>
  PROVE  Ownership!Next
<1>1. refs[a].obj \in SignerObjs /\ box[refs[a].obj] = "held"
  BY DEF RegistryInv, OwnershipInv, WrappersAgree, WrapperAgrees
<1> QED
  BY <1>1 DEF Ownership!Next, Ownership!Release

(* Every call of a running program is a step NativeOwnership allows.        *)
LEMMA ProgramIsOwned ==
  ASSUME RegistryInv, NEW e \in Envs, Program(e)
  PROVE  Ownership!Next \/ UNCHANGED Ownership!vars
<1>1. ASSUME NEW o \in NodeObjs, NEW a \in Addrs, NewNode(e, o, a) PROVE Ownership!Next
  <2>1. Ownership!HandOut(e, o)
    BY <1>1 DEF NewNode, Wrap, Runs, Ownership!HandOut
  <2> QED
    BY <2>1 DEF Ownership!Next, Ownership!Objs
<1>2. ASSUME NEW s \in SignerObjs, NEW a \in Addrs, NewSigner(e, s, a) PROVE Ownership!Next
  <2>1. Ownership!HandOut(e, s)
    BY <1>2 DEF NewSigner, Wrap, Runs, Ownership!HandOut
  <2> QED
    BY <2>1 DEF Ownership!Next, Ownership!Objs
<1>3. ASSUME NEW o \in NodeObjs, NewNodeFails(e, o) PROVE Ownership!Next
  <2>1. Ownership!Abandon(o)
    BY <1>3 DEF NewNodeFails, Ownership!Abandon
  <2> QED
    BY <2>1 DEF Ownership!Next, Ownership!Objs
<1>4. ASSUME NEW s \in SignerObjs, NewSignerFails(e, s) PROVE Ownership!Next
  <2>1. Ownership!Abandon(s)
    BY <1>4 DEF NewSignerFails, Ownership!Abandon
  <2> QED
    BY <2>1 DEF Ownership!Next, Ownership!Objs
<1>5. ASSUME NEW x \in held, BeginShutdown(e, x) PROVE UNCHANGED Ownership!vars
  BY <1>5 DEF BeginShutdown, natives
<1>6. ASSUME NEW y \in held, RevokeSigner(e, y) PROVE Ownership!Next
  <2> DEFINE s == refs[y.addr].obj
  <2>1. s \in SignerObjs /\ box[s] = "held" /\ home[s] = e /\ box' = box
    <3>1. s \in SignerObjs /\ box[s] = "held" /\ home[s] = e
      BY <1>6 DEF RevokeSigner, require_signer, owns_handle, RegistryInv, OwnershipInv,
                  WrappersAgree, WrapperAgrees
    <3> QED
      BY <1>6, <3>1 DEF RevokeSigner, RegistryInv, OwnershipInv, TypeOK
  <2>2. Ownership!HostRevoke(s)
    BY <1>6, <2>1 DEF RevokeSigner, Runs, Ownership!HostRevoke
  <2> QED
    BY <2>1, <2>2 DEF Ownership!Next
<1>7. ASSUME NEW y \in held, DestroySigner(e, y)
      PROVE Ownership!Next \/ UNCHANGED Ownership!vars
  <2>1. y.addr \in handles /\ refs[y.addr].kind = "signer"
    BY <1>7 DEF DestroySigner, owns_handle
  <2>2. CASE refs[y.addr].freed
    BY <1>7, <2>2 DEF DestroySigner
  <2>3. CASE ~refs[y.addr].freed
    <3>1. box' = [box EXCEPT ![refs[y.addr].obj] = "freed"]
      BY <1>7, <2>1, <2>3 DEF DestroySigner, FreeBox, RegistryInv, OwnershipInv, TypeOK,
                              WrappersAgree, WrapperAgrees
    <3> QED
      BY <1>7, <2>1, <2>3, <3>1, ReleasingIsOwned DEF DestroySigner
  <2> QED
    BY <2>2, <2>3
<1>8. ASSUME NEW x \in held, NEW y \in held, Attach(e, x, y)
      PROVE Ownership!Next \/ UNCHANGED Ownership!vars
  <2> DEFINE o == refs[x.addr].obj
             s == refs[y.addr].obj
  <2>1. /\ o \in NodeObjs /\ s \in SignerObjs /\ home[o] = e /\ home[s] = e
        /\ node[o] = "live" /\ box[s] = "held"
    BY <1>8 DEF Attach, RegistryInv, OwnershipInv, WrappersAgree, WrapperAgrees,
                require_sdk_node, require_signer, owns_handle
  <2>2. node' = node /\ box' = box
    BY <1>8, <2>1 DEF Attach, RegistryInv, OwnershipInv, TypeOK
  <2>3. CASE UNCHANGED uses
    BY <1>8, <2>2, <2>3 DEF Attach
  <2>4. CASE s \notin revoked /\ uses' = [uses EXCEPT ![o] = @ \cup {s}]
    <3>1. Ownership!Attach(o, s)
      BY <1>8, <2>1, <2>2, <2>4, ConstantsAssumption DEF Attach, Runs, Ownership!Attach
    <3> QED
      BY <2>1, <3>1 DEF Ownership!Next
  <2> QED
    BY <1>8, <2>3, <2>4 DEF Attach
<1> QED
  BY <1>1, <1>2, <1>3, <1>4, <1>5, <1>6, <1>7, <1>8 DEF Program

(* A finalizer releases a signer or does nothing NativeOwnership sees; the  *)
(* node's shutdown comes with the return.                                   *)
LEMMA CollectorIsOwned ==
  ASSUME RegistryInv, NEW e \in Envs, Collector(e)
  PROVE  Ownership!Next \/ UNCHANGED Ownership!vars
<1>1. ASSUME NEW x \in held \cup garbage, CollectNode(e, x) PROVE UNCHANGED Ownership!vars
  BY <1>1 DEF CollectNode, natives
<1>2. ASSUME NEW x \in held \cup garbage, CollectSigner(e, x)
      PROVE Ownership!Next \/ UNCHANGED Ownership!vars
  <2>1. CASE FinalizerMatch(e, x) /\ ~refs[x.addr].freed
    <3>1. x.addr \in handles /\ refs[x.addr].kind = "signer"
      BY <1>2, <2>1 DEF CollectSigner, FinalizerMatch
    <3>2. box' = [box EXCEPT ![refs[x.addr].obj] = "freed"]
      BY <1>2, <2>1, <3>1 DEF CollectSigner, FreeBox, RegistryInv, OwnershipInv, TypeOK,
                              WrappersAgree, WrapperAgrees
    <3> QED
      BY <1>2, <2>1, <3>1, <3>2, ReleasingIsOwned DEF CollectSigner
  <2>2. CASE ~(FinalizerMatch(e, x) /\ ~refs[x.addr].freed)
    BY <1>2, <2>2 DEF CollectSigner
  <2> QED
    BY <2>1, <2>2
<1> QED
  BY <1>1, <1>2 DEF Collector

(* Returns of native shutdowns are Stop or Free steps; the signer callback  *)
(* that revokes is a TerminalRevoke, because the drain has freed every      *)
(* node.                                                                    *)
LEMMA ContinueIsOwned ==
  ASSUME RegistryInv, NEW e \in Envs, Continue(e)
  PROVE  Ownership!Next \/ UNCHANGED Ownership!vars
<1>1. ASSUME NEW ok \in BOOLEAN, ShutdownReturns(e, ok)
      PROVE Ownership!Next \/ UNCHANGED Ownership!vars
  <2> DEFINE o == refs[thread[e].ref].obj
  <2>1. o \in NodeObjs /\ node[o] = "live" /\ home[o] \in Envs
    BY <1>1 DEF ShutdownReturns, RegistryInv, OwnershipInv, TypeOK, FramesAgree, FrameAgrees,
                WrappersAgree, WrapperAgrees, Ref
  <2>2. CASE ok
    <3>1. node' = [node EXCEPT ![o] = "stopped"]
      BY <1>1, <2>1, <2>2 DEF ShutdownReturns, StopNode, RegistryInv, OwnershipInv, TypeOK
    <3>2. Ownership!Stop(o)
      BY <1>1, <2>1, <3>1, ConstantsAssumption DEF ShutdownReturns, Ownership!Stop
    <3> QED
      BY <2>1, <3>2 DEF Ownership!Next
  <2>3. CASE ~ok
    BY <1>1, <2>3 DEF ShutdownReturns
  <2> QED
    BY <2>2, <2>3
<1>2. ASSUME NEW ok \in BOOLEAN,
             \/ DestroyReturns(e, ok) \/ CollectReturns(e, ok)
             \/ NodeHookReturns(e, ok) \/ DrainReturns(e, ok)
      PROVE  Ownership!Next \/ UNCHANGED Ownership!vars
  <2>1. PICK a \in handles : a = thread[e].ref /\ refs[a].kind = "node"
    <3>1. thread[e].op \in {"destroy", "collect", "teardown", "drainStop"}
      BY <1>2 DEF DestroyReturns, CollectReturns, NodeHookReturns, DrainReturns
    <3>2. FrameAgrees(e)
      BY DEF RegistryInv, OwnershipInv, FramesAgree
    <3> QED
      BY <3>1, <3>2 DEF FrameAgrees
  <2>2. UNCHANGED <<envState, box, revoked, uses, home, hostRevoked>> /\ node' = NodeAfter(refs[a], ok)
    BY <1>2, <2>1 DEF DestroyReturns, CollectReturns, NodeHookReturns, DrainReturns
  <2>3. node' = node \/ node' = [node EXCEPT ![refs[a].obj] = "freed"]
    BY <2>1, <2>2, NodeAfterShutdown DEF RegistryInv
  <2> QED
    BY <2>1, <2>2, <2>3, FreeingIsOwned
<1>3. ASSUME NEW ok \in BOOLEAN, DrainDone(e, ok)
      PROVE Ownership!Next \/ UNCHANGED Ownership!vars
  <2>1. PICK a \in handles : /\ a = thread[e].self /\ refs[a].env = e /\ refs[a].kind = "signer"
                             /\ thread[e].op = "drain" /\ envState[e] = "tearing"
                             /\ refs[a].obj \in SignerObjs /\ home[refs[a].obj] = e
                             /\ ~refs[a].freed => box[refs[a].obj] = "held"
    BY <1>3, DrainIsASigners DEF RegistryInv
  <2> DEFINE s == refs[a].obj
  <2>2. CASE thread[e].ok /\ ~refs[a].freed /\ ok
    <3>1. box' = [box EXCEPT ![s] = "freed"] /\ revoked' = revoked \cup {s}
      BY <1>3, <2>1, <2>2 DEF DrainDone, FreeBox, RegistryInv, OwnershipInv, TypeOK
    <3>2. \A o \in NodeObjs : home[o] = e => node[o] = "freed"
      BY <1>3, <2>1, <2>2, DrainedMeansFreed DEF DrainDone, RegistryInv
    <3>3. Ownership!TerminalRevoke(s)
      BY <1>3, <2>1, <2>2, <3>1, <3>2 DEF DrainDone, Ownership!TerminalRevoke
    <3> QED
      BY <2>1, <3>3 DEF Ownership!Next
  <2>3. CASE ~(thread[e].ok /\ ~refs[a].freed /\ ok)
    BY <1>3, <2>1, <2>3 DEF DrainDone
  <2> QED
    BY <2>2, <2>3
<1>4. ASSUME NEW id \in 0 .. MaxId, NodeHook(e, id) \/ SignerHook(e, id)
      PROVE UNCHANGED Ownership!vars
  BY <1>4 DEF NodeHook, SignerHook, Hook, natives
<1>5. CASE DrainNext(e)
  BY <1>5 DEF DrainNext, natives
<1>6. CASE TeardownDone(e)
  <2>1. \A d \in Envs : envState'[d] # "running" <=> envState[d] # "running"
    BY <1>6 DEF TeardownDone, RegistryInv, OwnershipInv, TypeOK
  <2> QED
    BY <1>6, <2>1 DEF TeardownDone, natives
<1> QED
  BY <1>1, <1>2, <1>3, <1>4, <1>5, <1>6 DEF Continue

(* Every step of the registry is a step of NativeOwnership or a stutter.    *)
LEMMA OwnershipRefinedStep == RegistryInv /\ [Next]_vars => [Ownership!Next]_(Ownership!vars)
<1> SUFFICES ASSUME RegistryInv, [Next]_vars PROVE Ownership!Next \/ UNCHANGED Ownership!vars
  OBVIOUS
<1>1. CASE UNCHANGED vars
  BY <1>1 DEF vars
<1>2. CASE Next
  <2>1. PICK e \in Envs : Program(e) \/ Collector(e) \/ BeginTeardown(e) \/ Reopen(e) \/ Continue(e)
    BY <1>2 DEF Next
  <2>2. CASE BeginTeardown(e) \/ Reopen(e)
    <3>1. Ownership!OpenOrClose(e)
      BY <2>2 DEF BeginTeardown, Reopen, Runs, natives, Ownership!OpenOrClose, RegistryInv,
                  OwnershipInv, TypeOK
    <3> QED
      BY <3>1 DEF Ownership!Next
  <2> QED
    BY <2>1, <2>2, ProgramIsOwned, CollectorIsOwned, ContinueIsOwned
<1> QED
  BY <1>1, <1>2

(* binding.cc's registry, with its wrappers, identities, finalizers and     *)
(* callbacks, implements the ownership promises of NativeOwnership, for     *)
(* all values of the constants.                                             *)
THEOREM RegistryImplementsOwnership == Spec => ImplementsOwnership
<1>1. Init => Ownership!Init
  BY OwnershipInit
<1>2. RegistryInv /\ [Next]_vars => [Ownership!Next]_(Ownership!vars)
  BY OwnershipRefinedStep
<1> QED
  BY <1>1, <1>2, RegistryInvariant, PTL DEF Spec, ImplementsOwnership, Ownership!Spec
=============================================================================
