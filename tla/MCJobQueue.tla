---------------------------- MODULE MCJobQueue ----------------------------
(***************************************************************************)
(* Two chains, the first with a job listed twice (as arbitrum.ts lists     *)
(* sync-erc4626-unwrap-rate), the second with a job this worker build does *)
(* not know; one worker process; two crashes.                              *)
(***************************************************************************)
EXTENDS JobQueue

MCChainIds == <<"c1", "c2">>
MCWorkerJobs == [c \in Chains |-> IF c = "c1" THEN <<"a", "a">> ELSE <<"u">>]
=============================================================================
