-------------------------- MODULE MCSnapshotPolicy --------------------------
(* SnapshotPolicy with at most MaxVersion manifest versions. *)
EXTENDS SnapshotPolicy
=============================================================================
