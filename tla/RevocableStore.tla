--------------------------- MODULE RevocableStore ---------------------------
(***************************************************************************)
(* What NativeExternalSigner promises its callers, without locks: a call   *)
(* is admitted while the signer is open, revocation closes admission for   *)
(* good, and the private state with its persistent-store lock is released  *)
(* once the admitted calls have left.                                      *)
(***************************************************************************)
CONSTANT Threads

VARIABLES
  status,  \* "open", "closing" (no more admission) or "released"
  inside   \* the threads using the signer's state

vars == <<status, inside>>

Init == status = "open" /\ inside = {}

Enter(t) == status = "open" /\ inside' = inside \cup {t} /\ UNCHANGED status

Leave(t) == t \in inside /\ inside' = inside \ {t} /\ UNCHANGED status

Close == status = "open" /\ status' = "closing" /\ UNCHANGED inside

Release == status = "closing" /\ inside = {} /\ status' = "released" /\ UNCHANGED inside

Next == Close \/ Release \/ \E t \in Threads : Enter(t) \/ Leave(t)

Safety == Init /\ [][Next]_vars

Spec == Safety /\ WF_vars(Release) /\ \A t \in Threads : WF_vars(Leave(t))

=============================================================================
