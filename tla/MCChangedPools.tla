--------------------------- MODULE MCChangedPools ---------------------------
(***************************************************************************)
(* Small instances of ChangedPools: one pool that the database starts with *)
(* and one that is added (in the run of V2, an LBP).                       *)
(***************************************************************************)
EXTENDS ChangedPools

AllPools == {"old", "new"}
OldPool == {"old"}
NewPool == {"new"}

\* What a state is without the history variable window, which no guard and no property
\* but MissedOnlyWhileWriting reads: the view of the run that does not check that one.
WithoutWindow == <<chainVars, known, db, cursor, failed, pc, run>>

=============================================================================
