---------------------------- MODULE ManagedOutput ----------------------------
(* What staging promises to the consumer of a managed output: there is one  *)
(* current set of files.  It is replaced as a whole, by a set whose files   *)
(* were all present at one moment, and it is never lost.                    *)
EXTENDS Functions

CONSTANTS Snapshots, NoSet

VARIABLES seen, current

Init == seen \subseteq Snapshots /\ current = NoSet

Observe ==
  /\ \E s \in Snapshots : seen' = seen \cup {s}
  /\ UNCHANGED current

Publish ==
  /\ \E s \in seen : \E paths \in (SUBSET DOMAIN s) \ {{}} : current' = Restrict(s, paths)
  /\ UNCHANGED seen

Spec == Init /\ [][Observe \/ Publish]_<<seen, current>>
=============================================================================
