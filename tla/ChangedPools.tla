---------------------------- MODULE ChangedPools ----------------------------
(***************************************************************************)
(* The stored state of the pools (balances, fees, rates, weights) and the  *)
(* job that reads it again from the chain for the pools that changed since *)
(* the block saved in PrismaLastBlockSynced:                               *)
(*                                                                         *)
(*   "v2"   modules/actions/pool/v2/sync-changed-pools.ts, from the logs   *)
(*   "cow"  CowAmmController.syncPools, from the logs                      *)
(*   "v3"   PoolController.syncChangedPoolsV3, from the subgraph           *)
(*                                                                         *)
(* Other jobs and mutations write the same rows and ignore that block:     *)
(* the job that adds pools, and the ones that load or reload all of them.  *)
(* The jobs are different ones, so one process runs them at the same time. *)
(* The chain is read as it will stay: reorganisations are left out.        *)
(***************************************************************************)
EXTENDS LogBatches

CONSTANTS
    Kind,      \* "v2", "cow" or "v3"
    Jobs,      \* the jobs that run, of "sync", "add", "load" and "reload"
    Pools,     \* pools
    OldPools,  \* the pools the database starts with
    Lbps,      \* liquidity bootstrapping pools: "always sync LBP pools"
    Margin,    \* `toBlock - 10`
    Range,     \* rpcMaxBlockRange
    Delay,     \* timing assumption: no run sees more than Delay new blocks
    MaxBlock   \* bound: the last block of a behaviour

ASSUME PoolsAssumption ==
    /\ Kind \in {"v2", "cow", "v3"}
    /\ Jobs \subseteq {"sync", "add", "load", "reload"}
    /\ OldPools \subseteq Pools
    /\ Lbps \subseteq Pools
    /\ Kind = "v2" => "reload" \notin Jobs

ASSUME NumbersAssumption ==
    /\ Margin \in Nat
    /\ Range \in Nat \ {0}
    /\ Delay \in Nat
    /\ MaxBlock \in Nat

VARIABLES
    head,      \* the last block of the chain, as the RPC node has it
    subgraph,  \* the last block the subgraph has indexed
    changes,   \* changes[q]: the blocks that changed the state of pool q
    known,     \* the pools in the database
    db,        \* db[q]: the block the stored state of q was read at
    cursor,    \* the saved block
    failed,    \* pools whose last write before a block was saved failed (history variable)
    window,    \* window[q]: the blocks that changed q between the read and the write of
               \* its stored state (history variable)
    pc,        \* pc[j]: how far job j is
    run        \* run[j]: its locals

chainVars == <<head, subgraph, changes>>
dbVars == <<known, db, cursor, failed, window>>
vars == <<chainVars, dbVars, pc, run>>

\* When a behaviour begins, the old pools have been loaded up to First.
First == Margin + 1

\* The head at the start of a run, the blocks it looks for changes in, the pools it will
\* write, and the block their state is read at.
NoRun == [begun |-> First, from |-> First, end |-> First, pools |-> {}, at |-> First]

\* The awaits of the sync, in the order of the code.
SyncSteps ==
    IF Kind = "v2" THEN <<"block", "cursor", "scan", "pools", "write">>
                   ELSE <<"cursor", "block", "pools", "scan", "write">>

Steps == {"idle", "block", "cursor", "scan", "pools", "listed", "write"}

Locals == [begun : First .. head, from : 1 .. head + 1, end : First .. head,
           pools : SUBSET Pools, at : First .. head]

TypeOK ==
    /\ head \in Nat /\ First <= head
    /\ subgraph \in First .. head
    /\ changes \in [Pools -> SUBSET (First + 1 .. head)]
    /\ known \in SUBSET Pools
    /\ db \in [Pools -> First .. head]
    /\ cursor \in 1 .. head
    /\ failed \in SUBSET known
    /\ window \in [Pools -> SUBSET (First + 1 .. head)]
    /\ pc \in [Jobs -> Steps]
    /\ run \in [Jobs -> Locals]

Init ==
    /\ head = First
    /\ subgraph = First
    /\ changes = [q \in Pools |-> {}]
    /\ known = OldPools
    /\ db = [q \in Pools |-> First]
    /\ cursor = First
    /\ failed = {}
    /\ window = [q \in Pools |-> {}]
    /\ pc = [j \in Jobs |-> "idle"]
    /\ run = [j \in Jobs |-> NoRun]

-----------------------------------------------------------------------------
(***************************************************************************)
(* The chain and the subgraph.                                             *)
(***************************************************************************)

InTime == \A j \in Jobs : pc[j] # "idle" => head < run[j].begun + Delay

\* A block, with swaps, joins or exits in some of the pools.
NewBlock ==
    /\ head < MaxBlock
    /\ InTime
    /\ head' = head + 1
    /\ \E touched \in SUBSET Pools :
        changes' = [q \in Pools |-> IF q \in touched THEN changes[q] \cup {head + 1}
                                                     ELSE changes[q]]
    /\ UNCHANGED <<subgraph, dbVars, pc, run>>

\* (No job of the CoW AMM pools asks the subgraph for its block.)
SubgraphIndexes ==
    /\ Kind # "cow"
    /\ subgraph < head
    /\ subgraph' = subgraph + 1
    /\ UNCHANGED <<head, changes, dbVars, pc, run>>

ChangedIn(blocks) == {q \in Pools : changes[q] \cap blocks # {}}

Return(j) ==
    /\ pc' = [pc EXCEPT ![j] = "idle"]
    /\ run' = [run EXCEPT ![j] = NoRun]

\* The sync is at a step, and goes on to the next one.
SyncStep(step) ==
    /\ "sync" \in Jobs
    /\ \E i \in 1 .. 4 :
        /\ SyncSteps[i] = step
        /\ pc["sync"] = step
        /\ pc' = [pc EXCEPT !["sync"] = SyncSteps[i + 1]]

-----------------------------------------------------------------------------
(***************************************************************************)
(* The sync.                                                               *)
(***************************************************************************)

BeginSync ==
    /\ "sync" \in Jobs
    /\ pc["sync"] = "idle"
    /\ pc' = [pc EXCEPT !["sync"] = SyncSteps[1]]
    /\ run' = [run EXCEPT !["sync"] = [NoRun EXCEPT !.begun = head]]
    /\ UNCHANGED <<chainVars, dbVars>>

StartBlock == IF Kind = "v3" THEN cursor ELSE cursor + 1

ReadCursor ==
    /\ SyncStep("cursor")
    /\ run' = [run EXCEPT !["sync"].from = StartBlock]
    /\ UNCHANGED <<chainVars, dbVars>>

ReadBlock ==
    /\ SyncStep("block")
    /\ LET latest == IF Kind = "v3" THEN subgraph ELSE head
       IN  run' = [run EXCEPT !["sync"].end = latest, !["sync"].at = latest]
    /\ UNCHANGED <<chainVars, dbVars>>

\* "no new blocks have been minted, needed for slow networks"
UpToDate ==
    /\ "sync" \in Jobs
    /\ Kind # "v3"
    /\ pc["sync"] = SyncSteps[3]
    /\ run["sync"].from > run["sync"].end
    /\ Return("sync")
    /\ UNCHANGED <<chainVars, dbVars>>

HasBlocks == Kind = "v3" \/ run["sync"].from <= run["sync"].end

\* The pools in the database. V2 reads them, and then their state, last: at the head.
ReadPools ==
    /\ HasBlocks
    /\ SyncStep("pools")
    /\ run' = [run EXCEPT !["sync"].pools = IF Kind = "v2" THEN @ \cap known ELSE known,
                          !["sync"].at = IF Kind = "v2" THEN head ELSE @]
    /\ UNCHANGED <<chainVars, dbVars>>

\* The blocks in which changes are looked for.
ScannedBlocks ==
    IF Kind = "v3" THEN run["sync"].from .. subgraph
                   ELSE Scanned(run["sync"].from, run["sync"].end, Range)

\* V2 looks at the log of the vault, the others at the pools they know.
Scan ==
    /\ "sync" \in Jobs
    /\ HasBlocks
    /\ LET changed == ChangedIn(ScannedBlocks)
           pools == IF Kind = "v2" THEN changed \cup Lbps ELSE changed \cap run["sync"].pools
       IN  IF pools = {} /\ Kind # "v2"
           THEN pc["sync"] = "scan" /\ Return("sync")
           ELSE /\ SyncStep("scan")
                /\ run' = [run EXCEPT !["sync"].pools = pools]
    /\ UNCHANGED <<chainVars, dbVars>>

-----------------------------------------------------------------------------
(***************************************************************************)
(* Adding, loading and reloading pools.                                    *)
(***************************************************************************)

\* A pool that the subgraph has and the database has not.
BeginAdd ==
    /\ "add" \in Jobs
    /\ pc["add"] = "idle"
    /\ \E q \in Pools \ known :
        run' = [run EXCEPT !["add"] = [NoRun EXCEPT !.begun = head, !.pools = {q}]]
    /\ pc' = [pc EXCEPT !["add"] = "listed"]
    /\ UNCHANGED <<chainVars, dbVars>>

\* The pools in the database, or (a reload) the ones in the subgraph, new ones among them.
BeginLoad(j) ==
    /\ j \in Jobs
    /\ pc[j] = "idle"
    /\ pc' = [pc EXCEPT ![j] = "listed"]
    /\ \E new \in SUBSET (Pools \ known) :
        /\ j = "load" => new = {}
        /\ run' = [run EXCEPT ![j] = [NoRun EXCEPT !.begun = head, !.pools = known \cup new]]
    /\ UNCHANGED <<chainVars, dbVars>>

\* Then their state is read at the head, or, by the add job of V2, from the subgraph.
ReadState(j) ==
    /\ pc[j] = "listed"
    /\ pc' = [pc EXCEPT ![j] = "write"]
    /\ run' = [run EXCEPT ![j].at = IF Kind = "v2" /\ j = "add" THEN subgraph ELSE head]
    /\ UNCHANGED <<chainVars, dbVars>>

-----------------------------------------------------------------------------
(***************************************************************************)
(* Writing.                                                                *)
(***************************************************************************)

\* Who saves a block in the end: the sync, and the reload of V3.
SavesBlock(j) == j = "sync" \/ (j = "reload" /\ Kind = "v3")

Write(j) ==
    /\ pc[j] = "write"
    /\ \E q \in run[j].pools :
        /\ known' = known \cup {q}
        /\ db' = [db EXCEPT ![q] = run[j].at]
        /\ window' = [window EXCEPT ![q] = {b \in changes[q] : run[j].at < b}]
        /\ failed' = failed \ {q}
        /\ run' = [run EXCEPT ![j].pools = @ \ {q}]
    /\ UNCHANGED <<chainVars, cursor, pc>>

\* An error in one pool is logged, and the next one is written.
WriteFails(j) ==
    /\ pc[j] = "write"
    /\ \E q \in run[j].pools :
        /\ failed' = IF SavesBlock(j) THEN failed \cup ({q} \cap known) ELSE failed
        /\ run' = [run EXCEPT ![j].pools = @ \ {q}]
    /\ UNCHANGED <<chainVars, known, db, cursor, window, pc>>

\* Mutant of CursorAfter: the next block to read is saved, not the last one read.
CursorAfterNext(j) ==
    IF SavesBlock(j) THEN run[j].end + 1 ELSE cursor

\* Mutant of CursorAfter: without "Leaving safety margin for reorgs".
CursorAfterNoMargin(j) ==
    IF SavesBlock(j) THEN run[j].end ELSE cursor

\* The block that is saved: V3 leaves a margin, and its reload saves the head.
CursorAfter(j) ==
    CASE j = "sync" /\ Kind = "v3" -> run[j].end - Margin
      [] j = "sync" /\ Kind # "v3" -> run[j].end
      [] j = "reload" /\ Kind = "v3" -> run[j].at
      [] OTHER -> cursor

SaveCursor(j) ==
    /\ pc[j] = "write"
    /\ run[j].pools = {}
    /\ cursor' = CursorAfter(j)
    /\ Return(j)
    /\ UNCHANGED <<chainVars, known, db, failed, window>>

\* A call throws, or the process dies.
Abort(j) ==
    /\ pc[j] # "idle"
    /\ Return(j)
    /\ UNCHANGED <<chainVars, dbVars>>

-----------------------------------------------------------------------------
Next ==
    \/ NewBlock
    \/ SubgraphIndexes
    \/ BeginSync
    \/ ReadCursor
    \/ ReadBlock
    \/ UpToDate
    \/ ReadPools
    \/ Scan
    \/ BeginAdd
    \/ \E j \in {"load", "reload"} : BeginLoad(j)
    \/ \E j \in Jobs \ {"sync"} : ReadState(j)
    \/ \E j \in Jobs :
        \/ Write(j)
        \/ WriteFails(j)
        \/ SaveCursor(j)
        \/ Abort(j)

Spec == Init /\ [][Next]_vars

-----------------------------------------------------------------------------
(***************************************************************************)
(* Properties.                                                             *)
(***************************************************************************)

\* Changes that the stored state lacks and that the next sync will not look for: they
\* stay missing until the pool changes once more.
Missed(q) == {b \in changes[q] : db[q] < b /\ b < StartBlock}

\* What V3 stores has no gaps, as long as no run takes longer than the margin of ten
\* blocks (Delay), and unless a write failed: whatever add and load jobs overlap with
\* the sync, and wherever they stop.
NothingMissed == \A q \in known \ failed : Missed(q) = {}

\* Without that assumption, without a margin (CoW AMM), and with reloads that save the
\* head: the stored state of a pool lacks at most changes of blocks that came between the
\* read and the write of that very state, when another job was faster.
MissedOnlyWhileWriting == \A q \in known \ failed : Missed(q) \subseteq window[q]

=============================================================================
