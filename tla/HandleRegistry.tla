--------------------------- MODULE HandleRegistry ---------------------------
(***************************************************************************)
(* The native handle registry of binding.cc: how the addon owns the nodes  *)
(* and signers it hands to JavaScript, from creation through explicit      *)
(* shutdown, garbage collection and the teardown of a Bare environment.    *)
(*                                                                         *)
(* Every environment is one thread.  A handler runs to completion on its   *)
(* environment's thread, but handlers of different environments            *)
(* interleave: the registry mutex is held only for a lookup, an insertion  *)
(* or a removal, never across a native shutdown.  A handler that calls     *)
(* rln_sdk_node_shutdown is therefore split there: its first action finds  *)
(* the wrapper and keeps the raw pointer in the thread's frame, its second *)
(* is the return of the native call and the rest of the handler.           *)
(*                                                                         *)
(* Abstractions.  A wrapper address is a member of Addrs, and free makes   *)
(* it available to the next malloc.  The native objects behind COpaque-    *)
(* Struct are NodeObjs and SignerObjs; a call made outside the C-FFI       *)
(* contract (freed twice, used after free, stopped twice, freed while its  *)
(* tasks may run) turns the object "corrupt".  JSON arguments and results  *)
(* are left out.                                                           *)
(***************************************************************************)
EXTENDS Naturals, FiniteSets

CONSTANTS
  Envs,        \* the js_env_t* of the process (the main program, its workers)
  Addrs,       \* addresses malloc may return for an SdkNodeRef or SignerRef
  NodeObjs,    \* native SdkNode objects
  SignerObjs,  \* native signer objects
  MaxId,       \* UINTPTR_MAX: the last identity before next_handle_id wraps
  None         \* NULL

ASSUME ConstantsAssumption ==
  /\ MaxId \in Nat \ {0}
  /\ NodeObjs \cap SignerObjs = {}
  /\ None \notin Addrs \cup Envs

VARIABLES
  envState,  \* "running", "tearing" (teardown callbacks run) or "dead"
  handles,   \* addresses linked into the registry list
  refs,      \* what the wrapper at an address holds, None when not allocated
  nextId,    \* next_handle_id, 0 once the identities are exhausted
  hooks,     \* libjs's teardown callbacks of an environment, not yet run
  held,      \* externals a JavaScript SdkNode / NativeExternalSigner refers to
  garbage,   \* externals nothing refers to, whose finalizer has not run
  thread,    \* the native handler an environment's thread is in
  node,      \* native node objects
  box,       \* the host's Box<Arc<NativeExternalSigner>> of a signer object
  revoked,   \* signer objects shut down: every native clone is unusable
  uses,      \* native signer clones a node obtained by attach or unlock
  home,      \* history: the environment an object was created in
  hostRevoked, \* history: signers the program itself shut down
  failures   \* history: environments in whose teardown a shutdown failed

vars == <<envState, handles, refs, nextId, hooks, held, garbage, thread,
          node, box, revoked, uses, home, hostRevoked, failures>>

natives == <<node, box, revoked, uses, home, hostRevoked>>
registry == <<handles, refs, nextId, hooks>>

-----------------------------------------------------------------------------
(* Types *)

Kinds == {"node", "signer"}
Objs == NodeObjs \cup SignerObjs
Ids == 1 .. MaxId
NodeStates == {"unborn", "live", "stopped", "freed", "corrupt"}
BoxStates == {"unborn", "held", "freed", "corrupt"}

(* SdkNodeRef and SignerRef with their HandleEntry; stopped is the node's    *)
(* shutdown_attempted and hook is teardown_registered.                      *)
Ref == [env : Envs, kind : Kinds, id : 0 .. MaxId, obj : Objs,
        freed : BOOLEAN, stopped : BOOLEAN, hook : BOOLEAN]

ASSUME NullAssumption == None \notin Ref

(* An external value: its data pointer and its finalizer hint.  obj is the  *)
(* object it was made for, which no code reads.                             *)
External == [env : Envs, kind : Kinds, addr : Addrs, id : 0 .. MaxId, obj : Objs]

Ops == {"idle", "shutdown", "destroy", "collect", "teardown", "drain", "drainStop"}

(* ref is the raw SdkNodeRef* the handler holds, self the SignerRef* of     *)
(* signer_teardown, cursor and ok the locals of shutdown_environment_nodes. *)
Frame == [op : Ops, ref : Addrs \cup {None}, self : Addrs \cup {None},
          cursor : 0 .. MaxId, ok : BOOLEAN]

In(op, a) == [op |-> op, ref |-> a, self |-> None, cursor |-> 0, ok |-> TRUE]
Idle == In("idle", None)

TypeOK ==
  /\ envState \in [Envs -> {"running", "tearing", "dead"}]
  /\ handles \in SUBSET Addrs
  /\ refs \in [Addrs -> Ref \cup {None}]
  /\ \A a \in Addrs : a \in handles => refs[a] \in Ref
  /\ nextId \in 0 .. MaxId
  /\ hooks \in [Envs -> SUBSET (Kinds \X (0 .. MaxId))]
  /\ held \in SUBSET External
  /\ garbage \in SUBSET External
  /\ thread \in [Envs -> Frame]
  /\ node \in [NodeObjs -> NodeStates]
  /\ box \in [SignerObjs -> BoxStates]
  /\ revoked \in SUBSET SignerObjs
  /\ uses \in [NodeObjs -> SUBSET SignerObjs]
  /\ home \in [Objs -> Envs \cup {None}]
  /\ hostRevoked \in SUBSET SignerObjs
  /\ failures \in SUBSET Envs

Init ==
  /\ envState = [e \in Envs |-> "running"]
  /\ handles = {}
  /\ refs = [a \in Addrs |-> None]
  /\ nextId = 1
  /\ hooks = [e \in Envs |-> {}]
  /\ held = {}
  /\ garbage = {}
  /\ thread = [e \in Envs |-> Idle]
  /\ node = [o \in NodeObjs |-> "unborn"]
  /\ box = [s \in SignerObjs |-> "unborn"]
  /\ revoked = {}
  /\ uses = [o \in NodeObjs |-> {}]
  /\ home = [o \in Objs |-> None]
  /\ hostRevoked = {}
  /\ failures = {}

-----------------------------------------------------------------------------
(* The registry *)

(* next_handle_id++ on an unsigned integer of UINTPTR_MAX = MaxId.          *)
Bump(i) == IF i = MaxId THEN 0 ELSE i + 1

CanRegister == nextId # 0

register_handle(a, r) ==
  /\ CanRegister
  /\ handles' = handles \cup {a}
  /\ refs' = [refs EXCEPT ![a] = r]
  /\ nextId' = Bump(nextId)

unregister_and_free(a) ==
  /\ handles' = handles \ {a}
  /\ refs' = [refs EXCEPT ![a] = None]

\* mutant: the address alone identifies the wrapper
FinalizerMatchAddress(e, x) == x.addr \in handles /\ refs[x.addr].kind = x.kind

FinalizerMatch(e, x) ==
  /\ x.addr \in handles
  /\ refs[x.addr].id = x.id
  /\ refs[x.addr].env = e
  /\ refs[x.addr].kind = x.kind

TeardownMatch(a, kind, id) ==
  /\ a \in handles
  /\ refs[a].id = id
  /\ refs[a].kind = kind

owns_handle(e, a, kind) ==
  /\ a \in handles
  /\ refs[a].env = e
  /\ refs[a].kind = kind

(* require_sdk_node and require_signer: what every other binding function   *)
(* checks before it passes the opaque pointer to the native library.        *)
require_sdk_node(e, x) ==
  /\ owns_handle(e, x.addr, "node")
  /\ ~refs[x.addr].freed
  /\ ~refs[x.addr].stopped

require_signer(e, x) ==
  /\ owns_handle(e, x.addr, "signer")
  /\ ~refs[x.addr].freed

\* mutants: nodes of every environment; only nodes whose own callback is pending
EnvNodesOfAll(e) == {a \in handles : refs[a].kind = "node"}
EnvNodesHooked(e) == {a \in handles : refs[a].env = e /\ refs[a].kind = "node" /\ refs[a].hook}
EnvNodes(e) == {a \in handles : refs[a].env = e /\ refs[a].kind = "node"}

-----------------------------------------------------------------------------
(* Native calls *)

StopNode(s) == IF s = "live" THEN "stopped" ELSE "corrupt"
FreeNode(s) == IF s = "stopped" THEN "freed" ELSE "corrupt"
FreeBox(s) == IF s = "held" THEN "freed" ELSE "corrupt"

(* shutdown_and_free_sdk_node on wrapper w when the native shutdown, if it  *)
(* is called at all, returns Ok (ok) or Err.                                *)
CallsShutdown(w) == ~w.freed /\ ~w.stopped
\* mutants: freed although the shutdown failed; a stopped node is not freed
ReleasesAlways(w, ok) == ~w.freed
ReleasesUnstopped(w, ok) == ~w.freed /\ ~w.stopped /\ ok
Releases(w, ok) == ~w.freed /\ (w.stopped \/ ok)

shutdown_and_free_sdk_node(w, ok) ==
  IF Releases(w, ok) THEN [w EXCEPT !.freed = TRUE, !.stopped = TRUE] ELSE w

NodeAfter(w, ok) ==
  IF Releases(w, ok)
  THEN [node EXCEPT ![w.obj] = FreeNode(IF CallsShutdown(w) /\ ok THEN StopNode(@) ELSE @)]
  ELSE node

FailuresAfter(e, w, ok) ==
  IF CallsShutdown(w) /\ ~ok THEN failures \cup {e} ELSE failures

Return(e) == thread' = [thread EXCEPT ![e] = Idle]

(* JavaScript of environment e can run. *)
Runs(e) == envState[e] = "running" /\ thread[e] = Idle

-----------------------------------------------------------------------------
(* Creation: sdkNodeNew and nativeExternalSignerNew[WithStorage] *)

NewRef(e, kind, o) ==
  [env |-> e, kind |-> kind, id |-> nextId, obj |-> o,
   freed |-> FALSE, stopped |-> FALSE, hook |-> TRUE]

(* The wrapper is registered, its terminal hook added and an external       *)
(* created for it.                                                          *)
Wrap(e, kind, o, a) ==
  /\ refs[a] = None
  /\ register_handle(a, NewRef(e, kind, o))
  /\ hooks' = [hooks EXCEPT ![e] = @ \cup {<<kind, nextId>>}]
  /\ held' = held \cup {[env |-> e, kind |-> kind, addr |-> a, id |-> nextId, obj |-> o]}
  /\ home' = [home EXCEPT ![o] = e]

NewNode(e, o, a) ==
  /\ Runs(e)
  /\ node[o] = "unborn"
  /\ Wrap(e, "node", o, a)
  /\ node' = [node EXCEPT ![o] = "live"]
  /\ UNCHANGED <<envState, garbage, thread, box, revoked, uses, hostRevoked, failures>>

NewSigner(e, s, a) ==
  /\ Runs(e)
  /\ box[s] = "unborn"
  /\ Wrap(e, "signer", s, a)
  /\ box' = [box EXCEPT ![s] = "held"]
  /\ UNCHANGED <<envState, garbage, thread, node, revoked, uses, hostRevoked, failures>>

(* malloc fails or no identity is left, or the hook or the external cannot  *)
(* be created, which has consumed an identity and undoes the registration.  *)
WrapFails == nextId' = nextId \/ (CanRegister /\ nextId' = Bump(nextId))

(* Out of memory frees a node without a shutdown: it has no tasks yet.  The *)
(* other failures stop it first; if that fails the wrapper is freed all the *)
(* same and the native node stays behind, reachable by nothing.             *)
NewNodeFails(e, o) ==
  /\ Runs(e)
  /\ node[o] = "unborn"
  /\ WrapFails
  /\ \E s \in {"freed", "live"} : node' = [node EXCEPT ![o] = s]
  /\ UNCHANGED <<envState, handles, refs, hooks, held, garbage, thread, box, revoked,
                 uses, home, hostRevoked, failures>>

NewSignerFails(e, s) ==
  /\ Runs(e)
  /\ box[s] = "unborn"
  /\ WrapFails
  /\ box' = [box EXCEPT ![s] = "freed"]
  /\ UNCHANGED <<envState, handles, refs, hooks, held, garbage, thread, node, revoked,
                 uses, home, hostRevoked, failures>>

-----------------------------------------------------------------------------
(* Calls of a running program *)

(* init, attach and unlock with a native signer: the node takes a clone of  *)
(* the signer's Arc, unless the signer is revoked and its bootstrap fails.  *)
Attach(e, x, y) ==
  /\ Runs(e)
  /\ x \in held /\ y \in held
  /\ x.env = e /\ y.env = e
  /\ x.kind = "node" /\ y.kind = "signer"
  /\ require_sdk_node(e, x)
  /\ require_signer(e, y)
  /\ LET o == refs[x.addr].obj
         s == refs[y.addr].obj
     IN /\ node' = [node EXCEPT ![o] = IF @ = "live" THEN @ ELSE "corrupt"]
        /\ box' = [box EXCEPT ![s] = IF @ = "held" THEN @ ELSE "corrupt"]
        /\ \/ s \notin revoked /\ uses' = [uses EXCEPT ![o] = @ \cup {s}]
           \/ UNCHANGED uses
  /\ UNCHANGED <<registry, envState, held, garbage, thread, revoked, home, hostRevoked, failures>>

(* SdkNode.shutdown(): fn_sdk_node_shutdown, then fn_sdk_node_destroy.      *)
BeginShutdown(e, x) ==
  /\ Runs(e)
  /\ x \in held /\ x.env = e /\ x.kind = "node"
  /\ owns_handle(e, x.addr, "node")
  /\ ~refs[x.addr].freed
  /\ thread' = [thread EXCEPT ![e] =
                  In(IF refs[x.addr].stopped THEN "destroy" ELSE "shutdown", x.addr)]
  /\ UNCHANGED <<registry, natives, envState, held, garbage, failures>>

(* The native shutdown returned: on Err the JavaScript call throws and the  *)
(* SdkNode keeps its handle for another try.                                *)
ShutdownReturns(e, ok) ==
  /\ thread[e].op = "shutdown"
  /\ LET a == thread[e].ref IN
     IF ok
     THEN /\ refs' = [refs EXCEPT ![a].stopped = TRUE]
          /\ node' = [node EXCEPT ![refs[a].obj] = StopNode(@)]
          /\ thread' = [thread EXCEPT ![e].op = "destroy"]
     ELSE /\ Return(e)
          /\ UNCHANGED <<refs, node>>
  /\ UNCHANGED <<envState, handles, nextId, hooks, held, garbage, box, revoked, uses,
                 home, hostRevoked, failures>>

(* fn_sdk_node_destroy frees the native node and keeps the wrapper and its  *)
(* hook; the SdkNode then drops its handle.                                 *)
DestroyReturns(e, ok) ==
  /\ thread[e].op = "destroy"
  /\ LET a == thread[e].ref
         w == refs[a]
         mine == {x \in held : x.addr = a /\ x.id = w.id}
     IN /\ refs' = [refs EXCEPT ![a] = shutdown_and_free_sdk_node(w, ok)]
        /\ node' = NodeAfter(w, ok)
        /\ IF refs'[a].freed
           THEN held' = held \ mine /\ garbage' = garbage \cup mine
           ELSE UNCHANGED <<held, garbage>>
  /\ Return(e)
  /\ UNCHANGED <<envState, handles, nextId, hooks, box, revoked, uses, home,
                 hostRevoked, failures>>

(* NativeExternalSigner.shutdown() revokes the signer for every clone.      *)
RevokeSigner(e, y) ==
  /\ Runs(e)
  /\ y \in held /\ y.env = e /\ y.kind = "signer"
  /\ require_signer(e, y)
  /\ LET s == refs[y.addr].obj IN
     /\ box' = [box EXCEPT ![s] = IF @ = "held" THEN @ ELSE "corrupt"]
     /\ revoked' = revoked \cup {s}
     /\ hostRevoked' = hostRevoked \cup {s}
  /\ UNCHANGED <<registry, envState, held, garbage, thread, node, uses, home, failures>>

(* NativeExternalSigner.destroy() releases the host's clone only.           *)
DestroySigner(e, y) ==
  /\ Runs(e)
  /\ y \in held /\ y.env = e /\ y.kind = "signer"
  /\ owns_handle(e, y.addr, "signer")
  /\ LET w == refs[y.addr] IN
     IF w.freed
     THEN UNCHANGED <<refs, box>>
     ELSE /\ refs' = [refs EXCEPT ![y.addr].freed = TRUE]
          /\ box' = [box EXCEPT ![w.obj] = FreeBox(@)]
  /\ held' = held \ {y}
  /\ garbage' = garbage \cup {y}
  /\ UNCHANGED <<envState, handles, nextId, hooks, thread, node, revoked, uses, home,
                 hostRevoked, failures>>

-----------------------------------------------------------------------------
(* Garbage collection.  A finalizer runs on its environment's thread while  *)
(* the program runs, or late, after the environment is gone.                *)

Finalizes(e, x) ==
  /\ thread[e] = Idle
  /\ envState[e] # "tearing"
  /\ x \in held \cup garbage
  /\ x.env = e
  /\ held' = held \ {x}
  /\ garbage' = garbage \ {x}

CollectNode(e, x) ==
  /\ x.kind = "node"
  /\ Finalizes(e, x)
  /\ thread' = IF FinalizerMatch(e, x)
               THEN [thread EXCEPT ![e] = In("collect", x.addr)] ELSE thread
  /\ UNCHANGED <<registry, natives, envState, failures>>

(* A failed collection keeps wrapper and hook for the teardown to retry.    *)
CollectReturns(e, ok) ==
  /\ thread[e].op = "collect"
  /\ LET a == thread[e].ref
         w == refs[a]
     IN /\ node' = NodeAfter(w, ok)
        /\ IF shutdown_and_free_sdk_node(w, ok).freed
           THEN /\ hooks' = IF w.hook THEN [hooks EXCEPT ![e] = @ \ {<<"node", w.id>>}]
                                      ELSE hooks
                /\ unregister_and_free(a)
           ELSE UNCHANGED <<handles, refs, hooks>>
  /\ Return(e)
  /\ UNCHANGED <<envState, nextId, held, garbage, box, revoked, uses, home, hostRevoked,
                 failures>>

(* Collecting a signer only drops the host's clone; it revokes nothing.     *)
CollectSigner(e, x) ==
  /\ x.kind = "signer"
  /\ Finalizes(e, x)
  /\ LET w == refs[x.addr] IN
     IF FinalizerMatch(e, x)
     THEN /\ hooks' = IF w.hook THEN [hooks EXCEPT ![e] = @ \ {<<"signer", w.id>>}]
                                ELSE hooks
          /\ box' = IF w.freed THEN box ELSE [box EXCEPT ![w.obj] = FreeBox(@)]
          /\ unregister_and_free(x.addr)
     ELSE UNCHANGED <<handles, refs, hooks, box>>
  /\ UNCHANGED <<envState, nextId, thread, node, revoked, uses, home, hostRevoked, failures>>

-----------------------------------------------------------------------------
(* Environment teardown: libjs runs the callbacks one by one, in an order   *)
(* the addon must not rely on, removing each from its list first.           *)

BeginTeardown(e) ==
  /\ Runs(e)
  /\ envState' = [envState EXCEPT ![e] = "tearing"]
  /\ LET mine == {x \in held : x.env = e} IN
     held' = held \ mine /\ garbage' = garbage \cup mine
  /\ UNCHANGED <<registry, natives, thread, failures>>

ClearFlag(w) == [w EXCEPT !.hook = FALSE]

(* The callback <<kind, id>> is taken from the list; the handler enters     *)
(* frame[a] when it finds its wrapper at a.                                 *)
Hook(e, kind, id, frame) ==
  /\ envState[e] = "tearing" /\ thread[e] = Idle
  /\ <<kind, id>> \in hooks[e]
  /\ hooks' = [hooks EXCEPT ![e] = @ \ {<<kind, id>>}]
  /\ \/ \E a \in Addrs :
          /\ TeardownMatch(a, kind, id)
          /\ refs' = [refs EXCEPT ![a] = ClearFlag(@)]
          /\ thread' = [thread EXCEPT ![e] = frame[a]]
     \/ /\ \A a \in Addrs : ~TeardownMatch(a, kind, id)
        /\ UNCHANGED <<refs, thread>>
  /\ UNCHANGED <<natives, envState, handles, nextId, held, garbage, failures>>

NodeHook(e, id) == Hook(e, "node", id, [a \in Addrs |-> In("teardown", a)])

(* sdk_node_teardown: a node that does not stop is retained, hook and all   *)
(* callbacks gone.                                                          *)
NodeHookReturns(e, ok) ==
  /\ thread[e].op = "teardown"
  /\ LET a == thread[e].ref
         w == refs[a]
     IN /\ node' = NodeAfter(w, ok)
        /\ failures' = FailuresAfter(e, w, ok)
        /\ IF shutdown_and_free_sdk_node(w, ok).freed
           THEN unregister_and_free(a)
           ELSE UNCHANGED <<handles, refs>>
  /\ Return(e)
  /\ UNCHANGED <<envState, nextId, hooks, held, garbage, box, revoked, uses, home, hostRevoked>>

\* mutant: the signer is revoked without draining the nodes
SignerHookUndrained(e, id) ==
  Hook(e, "signer", id, [a \in Addrs |-> [In("drain", None) EXCEPT !.self = a, !.cursor = MaxId]])

(* signer_teardown first drains the environment's nodes.                    *)
SignerHook(e, id) ==
  Hook(e, "signer", id, [a \in Addrs |-> [In("drain", None) EXCEPT !.self = a]])

(* shutdown_environment_nodes takes the nodes in ascending identity order.  *)
AheadAgain(f) == EnvNodes(refs[f.self].env)  \* mutant: no cursor
Ahead(f) == {a \in EnvNodes(refs[f.self].env) : refs[a].id > f.cursor}

DrainNext(e) ==
  LET f == thread[e] IN
  /\ f.op = "drain"
  /\ \E a \in Ahead(f) :
       /\ \A b \in Ahead(f) : refs[a].id <= refs[b].id
       /\ thread' = [thread EXCEPT ![e] =
                       [f EXCEPT !.op = "drainStop", !.ref = a, !.cursor = refs[a].id]]
  /\ UNCHANGED <<registry, natives, envState, held, garbage, failures>>

(* A drained node's own callback stays in libjs's list and will find no     *)
(* wrapper.                                                                 *)
DrainReturns(e, ok) ==
  LET f == thread[e]
      w == refs[f.ref]
      done == shutdown_and_free_sdk_node(w, ok).freed
  IN
  /\ f.op = "drainStop"
  /\ node' = NodeAfter(w, ok)
  /\ failures' = FailuresAfter(e, w, ok)
  /\ IF done THEN unregister_and_free(f.ref) ELSE UNCHANGED <<handles, refs>>
  /\ thread' = [thread EXCEPT ![e] =
                  [f EXCEPT !.op = "drain", !.ref = None, !.ok = f.ok /\ done]]
  /\ UNCHANGED <<envState, nextId, hooks, held, garbage, box, revoked, uses, home, hostRevoked>>

(* After the last node the signer is revoked and freed, unless some node    *)
(* was retained or its own shutdown fails: then the signer is retained.     *)
DrainDone(e, ok) ==
  LET f == thread[e]
      w == refs[f.self]
  IN
  /\ f.op = "drain"
  /\ Ahead(f) = {}
  /\ \/ /\ ~f.ok
        /\ UNCHANGED <<handles, refs, box, revoked, failures>>
     \/ /\ f.ok /\ w.freed
        /\ unregister_and_free(f.self)
        /\ UNCHANGED <<box, revoked, failures>>
     \/ /\ f.ok /\ ~w.freed /\ ok
        /\ unregister_and_free(f.self)
        /\ box' = [box EXCEPT ![w.obj] = FreeBox(@)]
        /\ revoked' = revoked \cup {w.obj}
        /\ UNCHANGED failures
     \/ /\ f.ok /\ ~w.freed /\ ~ok
        /\ failures' = failures \cup {e}
        /\ UNCHANGED <<handles, refs, box, revoked>>
  /\ Return(e)
  /\ UNCHANGED <<envState, nextId, hooks, held, garbage, node, uses, home, hostRevoked>>

TeardownDone(e) ==
  /\ envState[e] = "tearing" /\ thread[e] = Idle
  /\ hooks[e] = {}
  /\ envState' = [envState EXCEPT ![e] = "dead"]
  /\ UNCHANGED <<registry, natives, held, garbage, thread, failures>>

(* A later worker may be given the address of an environment that is gone,  *)
(* while wrappers retained for the old one still name that address.         *)
Reopen(e) ==
  /\ envState[e] = "dead" /\ thread[e] = Idle
  /\ envState' = [envState EXCEPT ![e] = "running"]
  /\ UNCHANGED <<registry, natives, held, garbage, thread, failures>>

-----------------------------------------------------------------------------
(* The specification *)

Program(e) ==
  \/ \E o \in NodeObjs : NewNodeFails(e, o) \/ \E a \in Addrs : NewNode(e, o, a)
  \/ \E s \in SignerObjs : NewSignerFails(e, s) \/ \E a \in Addrs : NewSigner(e, s, a)
  \/ \E x \in held : \/ BeginShutdown(e, x) \/ RevokeSigner(e, x) \/ DestroySigner(e, x)
                     \/ \E y \in held : Attach(e, x, y)

Collector(e) ==
  \E x \in held \cup garbage : CollectNode(e, x) \/ CollectSigner(e, x)

(* What a thread does once it has begun: a native call returns, a callback  *)
(* of a teardown under way is run.                                          *)
Continue(e) ==
  \/ \E ok \in BOOLEAN : \/ ShutdownReturns(e, ok) \/ DestroyReturns(e, ok)
                         \/ CollectReturns(e, ok) \/ NodeHookReturns(e, ok)
                         \/ DrainReturns(e, ok) \/ DrainDone(e, ok)
  \/ \E id \in 0 .. MaxId : NodeHook(e, id) \/ SignerHook(e, id)
  \/ DrainNext(e)
  \/ TeardownDone(e)

Next == \E e \in Envs : Program(e) \/ Collector(e) \/ BeginTeardown(e) \/ Reopen(e) \/ Continue(e)

(* Native shutdowns return (their waits are bounded) and libjs runs every   *)
(* callback of an environment it tears down; nothing else is promised.      *)
Fairness == \A e \in Envs : WF_vars(Continue(e))

Spec == Init /\ [][Next]_vars /\ Fairness

-----------------------------------------------------------------------------
(* Properties *)

(* The C-FFI contract is kept: no native object is freed twice, used after  *)
(* it was freed, shut down twice, or freed while its tasks may still run,   *)
(* whatever handlers of several environments, finalizers and teardown       *)
(* callbacks do to the wrapper that owns it.                                *)
NativeContract ==
  /\ \A o \in NodeObjs : node[o] # "corrupt"
  /\ \A s \in SignerObjs : box[s] # "corrupt"

(* A running node is never deprived of a signer it holds by the addon: only *)
(* the program's own signer.shutdown() revokes under a live node; teardown  *)
(* drains the environment's nodes first (signer_teardown).                  *)
LiveNodeCanSign ==
  \A o \in NodeObjs : node[o] = "live" => uses[o] \cap revoked \subseteq hostRevoked

(* While an environment runs, an external its program can still reach names *)
(* the wrapper it was made for: owns_handle compares the address only, so a *)
(* wrapper freed early and its address reused would be taken for it.        *)
ReachableStaysRegistered ==
  \A x \in held :
    /\ envState[x.env] = "running"
    /\ FinalizerMatch(x.env, x)
    /\ refs[x.addr].obj = x.obj

(* The raw wrapper pointer a handler keeps across an unlocked native call   *)
(* stays valid until the call returns: only its own environment's thread    *)
(* frees a wrapper.                                                         *)
FramePointersValid ==
  \A e \in Envs : \A a \in {thread[e].ref, thread[e].self} \ {None} :
    a \in handles /\ refs[a].env = e

(* teardown_registered agrees with libjs: a set flag names a callback that  *)
(* is in the list, so js_remove_teardown_callback never removes a missing   *)
(* one; and a running environment's list holds no callback of a wrapper     *)
(* that is gone.                                                            *)
HookAgreement ==
  /\ \A a \in handles :
       refs[a].hook <=> <<refs[a].kind, refs[a].id>> \in hooks[refs[a].env]
  /\ \A e \in Envs : envState[e] = "running" =>
       \A kind \in Kinds, id \in 0 .. MaxId : <<kind, id>> \in hooks[e] =>
         \E a \in handles : refs[a].kind = kind /\ refs[a].id = id

(* Identities are never reused, not even after next_handle_id wraps: a late *)
(* finalizer that finds a wrapper at its address with its identity has      *)
(* found the wrapper it was made for.                                       *)
GenerationsNeverReused ==
  \A x \in held \cup garbage :
    (x.addr \in handles /\ refs[x.addr].id = x.id) => refs[x.addr].obj = x.obj

(* No external is taken for another wrapper, neither by a call of the       *)
(* program nor by a late finalizer (owns_handle, finalize_handle).          *)
ExternalsNameTheirWrapper == ReachableStaysRegistered /\ GenerationsNeverReused

(* Nothing is retained without a reason: when an environment is gone and no *)
(* native shutdown of its teardown failed, all its wrappers are freed,      *)
(* every node it was given is freed and every signer box is.                *)
RetainedOnlyAfterFailure ==
  \A e \in Envs : envState[e] = "dead" /\ e \notin failures =>
    /\ \A a \in handles : refs[a].env # e
    /\ \A o \in NodeObjs : home[o] = e => node[o] = "freed"
    /\ \A s \in SignerObjs : home[s] = e => box[s] = "freed"

(* A teardown ends even if every native shutdown fails: the scan for nodes  *)
(* (shutdown_environment_nodes) passes each identity once.                  *)
TeardownCompletes ==
  \A e \in Envs : envState[e] = "tearing" ~> envState[e] = "dead"

(* The inductive invariant behind the properties above.                     *)

\* A registered wrapper owns one object, which is in the state the wrapper says.
WrapperAgrees(a) ==
  LET w == refs[a] IN
  /\ home[w.obj] = w.env
  /\ w.id \in 1 .. MaxId
  /\ nextId # 0 => w.id < nextId
  /\ w.kind = "node" =>
       /\ w.obj \in NodeObjs
       /\ node[w.obj] = IF w.freed THEN "freed" ELSE IF w.stopped THEN "stopped" ELSE "live"
  /\ w.kind = "signer" =>
       /\ w.obj \in SignerObjs
       /\ box[w.obj] = IF w.freed THEN "freed" ELSE "held"

\* A handler's pointers name wrappers of its own environment.
FrameAgrees(e) ==
  LET f == thread[e] IN
  /\ f.op \in {"teardown", "drain", "drainStop"} => envState[e] = "tearing"
  /\ f.op \in {"shutdown", "destroy", "collect", "teardown", "drainStop"} <=> f.ref # None
  /\ f.op \in {"drain", "drainStop"} <=> f.self # None
  /\ f.ref # None => f.ref \in handles /\ refs[f.ref].env = e /\ refs[f.ref].kind = "node"
  /\ f.self # None => f.self \in handles /\ refs[f.self].env = e /\ refs[f.self].kind = "signer"
  /\ f.op = "shutdown" => ~refs[f.ref].freed /\ ~refs[f.ref].stopped

\* A drain that has met no failure has left no node of its environment behind.
DrainLeavesNone(e) ==
  LET f == thread[e] IN
  f.op \in {"drain", "drainStop"} /\ f.ok =>
    \A a \in EnvNodes(e) : refs[a].id > f.cursor \/ a = f.ref

ObjectsAccounted ==
  /\ \A o \in NodeObjs :
       /\ node[o] # "corrupt"
       /\ node[o] = "unborn" => home[o] = None
       /\ node[o] # "freed" /\ home[o] # None =>
            \E a \in handles : refs[a].kind = "node" /\ refs[a].obj = o
       /\ \A s \in uses[o] : home[s] = home[o] /\ home[s] # None
  /\ \A s \in SignerObjs :
       /\ box[s] # "corrupt"
       /\ box[s] = "unborn" => home[s] = None

WrappersAgree == \A a \in handles : WrapperAgrees(a)

WrappersDistinct ==
  \A a, b \in handles : a # b => refs[a].obj # refs[b].obj /\ refs[a].id # refs[b].id

FramesAgree == \A e \in Envs : FrameAgrees(e)

DrainsComplete == \A e \in Envs : DrainLeavesNone(e)

OwnershipInv ==
  /\ TypeOK
  /\ WrappersAgree
  /\ WrappersDistinct
  /\ FramesAgree
  /\ DrainsComplete
  /\ ObjectsAccounted
  /\ LiveNodeCanSign

\* find_teardown_handle compares no environment: identities make up for it.
HooksAgree ==
  \A e \in Envs :
    /\ envState[e] = "dead" => hooks[e] = {}
    /\ \A kind \in Kinds, id \in 0 .. MaxId : <<kind, id>> \in hooks[e] =>
         /\ nextId # 0 => id < nextId
         /\ \A a \in handles : refs[a].kind = kind /\ refs[a].id = id => refs[a].env = e

RegistryInv == OwnershipInv /\ HooksAgree /\ HookAgreement

(* The registry implements the ownership promises: its native calls are     *)
(* steps of NativeOwnership, every other step is a stutter there.           *)
Ownership == INSTANCE NativeOwnership WITH closed <- {e \in Envs : envState[e] # "running"}

ImplementsOwnership == Ownership!Spec

=============================================================================
