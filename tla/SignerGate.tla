----------------------------- MODULE SignerGate -----------------------------
(***************************************************************************)
(* The revocation gate of NativeExternalSigner (src/uniffi_api/native_-    *)
(* signer.rs in the runtime patch): an atomic flag in front of an          *)
(* RwLock<Option<State>>.  Any thread that holds a clone may call the      *)
(* signer (bootstrap, an envelope of the node, a BIP-322 proof) or shut it *)
(* down, at any moment and any number of times.                            *)
(*                                                                         *)
(* Abstractions.  The backend call is one step between entering and        *)
(* leaving with_state; its request and answer are left out.  The lock may  *)
(* hand itself to any waiting reader or writer, as std's RwLock documents. *)
(***************************************************************************)
EXTENDS FiniteSets

CONSTANTS
  Threads,  \* threads that hold a clone of the signer's Arc
  None      \* no thread

ASSUME NoneAssumption == None \notin Threads

VARIABLES
  shutting_down,  \* the terminal flag
  state,          \* "some" while backend, transport and key exist, else "none"
  poisoned,       \* the lock's poison flag
  readers,        \* holders of a read guard
  writer,         \* the holder of the write guard
  pc,             \* where a thread is in with_state or shutdown
  returned        \* history: some shutdown has returned Ok

vars == <<shutting_down, state, poisoned, readers, writer, pc, returned>>

Points == {"idle", "wantRead", "recheck", "running", "wantWrite", "dropping", "clearing"}

TypeOK ==
  /\ shutting_down \in BOOLEAN
  /\ state \in {"some", "none"}
  /\ poisoned \in BOOLEAN
  /\ readers \in SUBSET Threads
  /\ writer \in Threads \cup {None}
  /\ pc \in [Threads -> Points]
  /\ returned \in BOOLEAN

Init ==
  /\ shutting_down = FALSE
  /\ state = "some"
  /\ poisoned = FALSE
  /\ readers = {}
  /\ writer = None
  /\ pc = [t \in Threads |-> "idle"]
  /\ returned = FALSE

Goto(t, from, to) == pc[t] = from /\ pc' = [pc EXCEPT ![t] = to]

-----------------------------------------------------------------------------
(* with_state *)

\* mutant: a caller waits for the lock whatever the flag says
BeginCallUngated(t) ==
  /\ Goto(t, "idle", "wantRead")
  /\ UNCHANGED <<shutting_down, state, poisoned, readers, writer, returned>>

(* The first look at the flag; a closed signer answers "unavailable".       *)
BeginCall(t) ==
  /\ ~shutting_down
  /\ Goto(t, "idle", "wantRead")
  /\ UNCHANGED <<shutting_down, state, poisoned, readers, writer, returned>>

(* A poisoned lock is released again at once and the call fails.            *)
AcquireRead(t) ==
  /\ writer = None
  /\ IF poisoned
     THEN Goto(t, "wantRead", "idle") /\ UNCHANGED readers
     ELSE Goto(t, "wantRead", "recheck") /\ readers' = readers \cup {t}
  /\ UNCHANGED <<shutting_down, state, poisoned, writer, returned>>

MayRunUnchecked == state = "some"  \* mutant: no second look at the flag

(* The second look under the guard.                                         *)
MayRun == ~shutting_down /\ state = "some"

\* mutant: the guard does not outlive the check
RecheckUnguarded(t) ==
  /\ readers' = readers \ {t}
  /\ IF MayRun THEN Goto(t, "recheck", "running") ELSE Goto(t, "recheck", "idle")
  /\ UNCHANGED <<shutting_down, state, poisoned, writer, returned>>

Recheck(t) ==
  /\ IF MayRun
     THEN Goto(t, "recheck", "running") /\ UNCHANGED readers
     ELSE Goto(t, "recheck", "idle") /\ readers' = readers \ {t}
  /\ UNCHANGED <<shutting_down, state, poisoned, writer, returned>>

(* The operation returns, fails or panics: the read guard is dropped and a  *)
(* reader never poisons the lock.                                           *)
FinishCall(t) ==
  /\ Goto(t, "running", "idle")
  /\ readers' = readers \ {t}
  /\ UNCHANGED <<shutting_down, state, poisoned, writer, returned>>

-----------------------------------------------------------------------------
(* shutdown *)

(* The flag is raised before the lock is asked for.                         *)
BeginShutdown(t) ==
  /\ shutting_down' = TRUE
  /\ Goto(t, "idle", "wantWrite")
  /\ UNCHANGED <<state, poisoned, readers, writer, returned>>

(* Taken whether or not the lock is poisoned.                               *)
AcquireWrite(t) ==
  /\ readers = {} /\ writer = None
  /\ Goto(t, "wantWrite", "dropping")
  /\ writer' = t
  /\ UNCHANGED <<shutting_down, state, poisoned, readers, returned>>

(* drop(state.take()).  A destructor that panics unwinds through the guard: *)
(* the rest of the state is still dropped, the lock is poisoned and this    *)
(* shutdown reports no success.                                             *)
DropState(t) ==
  /\ \/ /\ Goto(t, "dropping", "clearing")
        /\ UNCHANGED <<poisoned, writer>>
     \/ /\ state = "some"
        /\ Goto(t, "dropping", "idle")
        /\ poisoned' = TRUE
        /\ writer' = None
  /\ state' = "none"
  /\ UNCHANGED <<shutting_down, readers, returned>>

ClearPoison(t) ==
  /\ Goto(t, "clearing", "idle")
  /\ poisoned' = FALSE
  /\ writer' = None
  /\ returned' = TRUE
  /\ UNCHANGED <<shutting_down, state, readers>>

-----------------------------------------------------------------------------
(* What a thread that has begun does next: threads are scheduled, backend   *)
(* calls return, and a free lock is eventually taken by someone waiting.    *)
Continue(t) ==
  \/ AcquireRead(t) \/ Recheck(t) \/ FinishCall(t)
  \/ AcquireWrite(t) \/ DropState(t) \/ ClearPoison(t)

Next == \E t \in Threads : BeginCall(t) \/ BeginShutdown(t) \/ Continue(t)

Fairness == \A t \in Threads : WF_vars(Continue(t))

Spec == Init /\ [][Next]_vars /\ Fairness

-----------------------------------------------------------------------------
(* Properties *)

(* Guards and program points agree, and the flag is up as soon as anyone    *)
(* has begun to revoke; the inductive invariant of the gate.                *)
GateInv ==
  /\ TypeOK
  /\ readers = {t \in Threads : pc[t] \in {"recheck", "running"}}
  /\ \A t \in Threads : writer = t <=> pc[t] \in {"dropping", "clearing"}
  /\ writer # None => readers = {}
  /\ \A t \in Threads : pc[t] \in {"wantWrite", "dropping", "clearing"} => shutting_down
  /\ \A t \in Threads : pc[t] = "running" => state = "some"
  /\ \A t \in Threads : pc[t] = "clearing" => state = "none"
  /\ state = "none" => shutting_down
  /\ returned => state = "none"

(* Once any shutdown has returned, no call is inside the signer and its     *)
(* state, with the store's exclusive lock, is gone: a caller that waited    *)
(* for shutdown can reopen the same store.                                  *)
ReturnedMeansReleased ==
  returned => state = "none" /\ \A t \in Threads : pc[t] # "running"

(* Calls queued on the lock when revocation begins are not served: the flag *)
(* set, no thread enters the signer any more, only those inside leave it.   *)
NoAdmissionAfterGate ==
  [][shutting_down => \A t \in Threads : pc'[t] = "running" => pc[t] = "running"]_vars

(* Revocation is not starved by callers that keep coming: once a shutdown   *)
(* has begun, the state and its store lock are eventually released, with    *)
(* nothing but weak fairness of each thread.  (Among several shutdowns that *)
(* wait for the lock any one may get it first, again and again.)            *)
RevocationCompletes == shutting_down ~> state = "none"

(* The gate implements the abstract promise, liveness included.             *)
Promise == INSTANCE RevocableStore WITH
  status <- IF state = "none" THEN "released" ELSE IF shutting_down THEN "closing" ELSE "open",
  inside <- {t \in Threads : pc[t] = "running"}

ImplementsPromise == Promise!Spec

=============================================================================
