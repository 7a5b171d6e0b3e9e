---------------------------- MODULE MCEventSync -----------------------------
(***************************************************************************)
(* Small instances of EventSync.                                           *)
(***************************************************************************)
EXTENDS EventSync

\* The three feeds of GteFeeds take the same steps.
OneOfEach == {"v2Swaps"} \cup GtFeeds

=============================================================================
