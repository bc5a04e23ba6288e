-------------------------- MODULE NativeOwnership ---------------------------
(***************************************************************************)
(* What the addon promises the native library about the objects it owns,   *)
(* without wrappers, identities, finalizers or teardown callbacks: which   *)
(* native calls happen to a node and to a signer, and in which order.      *)
(* HandleRegistry is shown to implement this specification.                *)
(***************************************************************************)
EXTENDS Naturals

CONSTANTS Envs, NodeObjs, SignerObjs, None

VARIABLES
  closed,   \* environments whose program has ended
  node,     \* "unborn", "live", "stopped" or "freed"
  box,      \* the host's clone of a signer: "unborn", "held" or "freed"
  revoked,  \* signers shut down
  uses,     \* clones of signers the native node holds
  home,     \* the environment an object was handed out in
  hostRevoked \* signers the program shut down itself

vars == <<closed, node, box, revoked, uses, home, hostRevoked>>

Objs == NodeObjs \cup SignerObjs

Init ==
  /\ closed = {}
  /\ node = [o \in NodeObjs |-> "unborn"]
  /\ box = [s \in SignerObjs |-> "unborn"]
  /\ revoked = {}
  /\ uses = [o \in NodeObjs |-> {}]
  /\ home = [o \in Objs |-> None]
  /\ hostRevoked = {}

(* A node or a signer is handed out to a running program.                   *)
HandOut(e, o) ==
  /\ e \notin closed
  /\ \/ /\ o \in NodeObjs /\ node[o] = "unborn"
        /\ node' = [node EXCEPT ![o] = "live"]
        /\ UNCHANGED box
     \/ /\ o \in SignerObjs /\ box[o] = "unborn"
        /\ box' = [box EXCEPT ![o] = "held"]
        /\ UNCHANGED node
  /\ home' = [home EXCEPT ![o] = e]
  /\ UNCHANGED <<closed, revoked, uses, hostRevoked>>

(* An object that could not be handed out never serves anyone.              *)
Abandon(o) ==
  /\ \/ /\ o \in NodeObjs /\ node[o] = "unborn"
        /\ \E s \in {"freed", "live"} : node' = [node EXCEPT ![o] = s]
        /\ UNCHANGED box
     \/ /\ o \in SignerObjs /\ box[o] = "unborn"
        /\ box' = [box EXCEPT ![o] = "freed"]
        /\ UNCHANGED node
  /\ UNCHANGED <<closed, revoked, uses, home, hostRevoked>>

(* Only objects of one environment meet, and only usable ones.              *)
Attach(o, s) ==
  /\ node[o] = "live" /\ box[s] = "held" /\ s \notin revoked
  /\ home[o] = home[s] /\ home[o] \notin closed \cup {None}
  /\ uses' = [uses EXCEPT ![o] = @ \cup {s}]
  /\ UNCHANGED <<closed, node, box, revoked, home, hostRevoked>>

(* A node is shut down once, and freed after its shutdown succeeded.        *)
Stop(o) ==
  /\ node[o] = "live" /\ home[o] # None
  /\ \E s \in {"stopped", "freed"} : node' = [node EXCEPT ![o] = s]
  /\ UNCHANGED <<closed, box, revoked, uses, home, hostRevoked>>

Free(o) ==
  /\ node[o] = "stopped"
  /\ node' = [node EXCEPT ![o] = "freed"]
  /\ UNCHANGED <<closed, box, revoked, uses, home, hostRevoked>>

(* Releasing the host's clone revokes nothing.                              *)
Release(s) ==
  /\ box[s] = "held"
  /\ box' = [box EXCEPT ![s] = "freed"]
  /\ UNCHANGED <<closed, node, revoked, uses, home, hostRevoked>>

HostRevoke(s) ==
  /\ box[s] = "held" /\ home[s] \notin closed
  /\ revoked' = revoked \cup {s}
  /\ hostRevoked' = hostRevoked \cup {s}
  /\ UNCHANGED <<closed, node, box, uses, home>>

(* The addon itself revokes a signer only after its environment's program   *)
(* has ended and every node of that environment is freed.                   *)
TerminalRevoke(s) ==
  /\ box[s] = "held" /\ home[s] \in closed
  /\ \A o \in NodeObjs : home[o] = home[s] => node[o] = "freed"
  /\ revoked' = revoked \cup {s}
  /\ box' = [box EXCEPT ![s] = "freed"]
  /\ UNCHANGED <<closed, node, uses, home, hostRevoked>>

OpenOrClose(e) ==
  /\ closed' = IF e \in closed THEN closed \ {e} ELSE closed \cup {e}
  /\ UNCHANGED <<node, box, revoked, uses, home, hostRevoked>>

Next ==
  \/ \E e \in Envs : OpenOrClose(e) \/ \E o \in Objs : HandOut(e, o)
  \/ \E o \in Objs : Abandon(o)
  \/ \E o \in NodeObjs : Stop(o) \/ Free(o) \/ \E s \in SignerObjs : Attach(o, s)
  \/ \E s \in SignerObjs : Release(s) \/ HostRevoke(s) \/ TerminalRevoke(s)

Spec == Init /\ [][Next]_vars

=============================================================================
