---------------------------- MODULE MCSnapshots ----------------------------
(***************************************************************************)
(* Small instances of Snapshots.                                            *)
(***************************************************************************)
EXTENDS Snapshots

=============================================================================
