----------------------------- MODULE BptBalances ----------------------------
(***************************************************************************)
(* The copy of the pool token balances of all users                        *)
(* (PrismaUserWalletBalance): modules/actions/user/bpt-balances keeps it   *)
(* up to date from the subgraph and, when the subgraph is down or behind,  *)
(* from the logs of an RPC node. PrismaLastBlockSynced says up to which    *)
(* block. Two more writers do not look at that block: the balances of a    *)
(* new pool (modules/actions/pool/v2/add-pools.ts) and the mutation that   *)
(* re-reads one user's balance (user-sync-wallet-balance.service.ts).      *)
(*                                                                         *)
(* A row is one user's balance of one pool token; no row is balance 0.     *)
(* The chain is read as it will stay: reorganisations are left out.        *)
(***************************************************************************)
EXTENDS Integers

CONSTANTS
    Rows,       \* pairs of a pool token and a user
    Amounts,    \* balances
    Pools,      \* pools
    PoolOf,     \* PoolOf[r]: the pool of row r
    OldPools,   \* the pools the database starts with
    Processes,  \* runs that may be in progress at the same time
    Syncers,    \* those of them that may be a sync: its job excludes itself in a process
                \* of the worker (JobQueue), so one for each process
    Margin,     \* BALANCES_SYNC_BLOCKS_MARGIN
    RpcMargin,  \* `startBlock - 5`
    Chunks,     \* `5 * range`, in blocks
    MaxLag,     \* blocks the subgraph may be behind before the RPC node is used
    Delay,      \* timing assumption: no run sees more than Delay new blocks
    MaxBlock    \* bound: blocks in a behaviour

ASSUME RowsAssumption ==
    /\ 0 \in Amounts
    /\ OldPools \subseteq Pools
    /\ PoolOf \in [Rows -> Pools]
    /\ Syncers \subseteq Processes

ASSUME NumbersAssumption ==
    /\ Margin \in Nat
    /\ RpcMargin \in Nat
    /\ Chunks \in Nat
    /\ MaxLag \in Nat
    /\ Delay \in Nat
    /\ MaxBlock \in Nat

VARIABLES
    head,      \* the last block of the chain, as the RPC node has it
    subgraph,  \* the last block the subgraph has indexed
    balance,   \* balance[r][b]: the balance of r after block b
    db,        \* db[r]: the stored balance
    cursor,    \* the row of PrismaLastBlockSynced, 0 when there is none
    known,     \* the pools in the database
    loaded,    \* loaded[q]: the block addPools loaded the balances of q at, or -1
               \* (history variable)
    pc,        \* pc[p]: how far run p is
    run        \* run[p]: the locals of run p

chainVars == <<head, subgraph, balance>>
dbVars == <<db, cursor, known, loaded>>
vars == <<chainVars, dbVars, pc, run>>

\* The locals of a run: what it does, for which pools, when it began, the block it
\* will save as synced, the first block it asks for, and the balances it has read.
NoRun == [kind |-> "none", pools |-> {}, begun |-> 0, end |-> 0, from |-> 0,
          read |-> [r \in {} |-> 0]]

TypeOK ==
    /\ head \in Nat
    /\ subgraph \in 0 .. head
    /\ balance \in [Rows -> [0 .. head -> Amounts]]
    /\ db \in [Rows -> Amounts]
    /\ cursor \in 0 .. head
    /\ known \in SUBSET Pools
    /\ loaded \in [Pools -> Int]
    /\ pc \in [Processes -> {"idle", "metadata", "cursor", "shares",
                             "rpc", "rpcCursor", "logs", "commit"}]
    /\ \A p \in Processes :
        /\ run[p].kind \in {"none", "sync", "init", "user"}
        /\ run[p].pools \subseteq known
        /\ run[p].begun \in 0 .. head
        /\ run[p].end \in 0 .. head
        /\ run[p].from \in Int
        /\ DOMAIN run[p].read \subseteq Rows
        /\ \A r \in DOMAIN run[p].read : run[p].read[r] \in Amounts

Init ==
    /\ head = 0
    /\ subgraph = 0
    /\ balance = [r \in Rows |-> [b \in {0} |-> 0]]
    /\ db = [r \in Rows |-> 0]
    /\ cursor = 0
    /\ known = OldPools
    /\ loaded = [q \in Pools |-> -1]
    /\ pc = [p \in Processes |-> "idle"]
    /\ run = [p \in Processes |-> NoRun]

-----------------------------------------------------------------------------
(***************************************************************************)
(* The chain and the subgraph.                                             *)
(***************************************************************************)

InTime == \A p \in Processes : pc[p] # "idle" => head < run[p].begun + Delay

\* A block, with transfers of any of the tokens.
NewBlock ==
    /\ head < MaxBlock
    /\ InTime
    /\ head' = head + 1
    /\ \E new \in [Rows -> Amounts] :
        balance' = [r \in Rows |-> [b \in 0 .. head + 1 |->
                        IF b <= head THEN balance[r][b] ELSE new[r]]]
    /\ UNCHANGED <<subgraph, dbVars, pc, run>>

SubgraphIndexes ==
    /\ subgraph < head
    /\ subgraph' = subgraph + 1
    /\ UNCHANGED <<head, balance, dbVars, pc, run>>

\* Rows of the pools with a transfer in the blocks first .. last.
Changed(pools, first, last) ==
    {r \in Rows : /\ PoolOf[r] \in pools
                  /\ \E b \in first .. last : b > 0 /\ balance[r][b] # balance[r][b - 1]}

\* Run p goes on, or is over.
Goto(p, from, to) == pc[p] = from /\ pc' = [pc EXCEPT ![p] = to]

Return(p) ==
    /\ pc' = [pc EXCEPT ![p] = "idle"]
    /\ run' = [run EXCEPT ![p] = NoRun]

-----------------------------------------------------------------------------
(***************************************************************************)
(* Reading the subgraph.                                                   *)
(***************************************************************************)

\* syncBptBalancesV2 and its siblings read the ids of their pools.
BeginSync(p) ==
    /\ Goto(p, "idle", "metadata")
    /\ run' = [run EXCEPT ![p] = [NoRun EXCEPT
                !.kind = "sync", !.pools = known, !.begun = head]]
    /\ UNCHANGED <<chainVars, dbVars>>

\* addPools creates a pool, and goes on to load its balances.
BeginInit(p) ==
    /\ Goto(p, "idle", "metadata")
    /\ \E q \in Pools \ known :
        /\ known' = known \cup {q}
        /\ run' = [run EXCEPT ![p] = [NoRun EXCEPT
                    !.kind = "init", !.pools = {q}, !.begun = head]]
    /\ UNCHANGED <<chainVars, db, cursor, loaded>>

\* The subgraph's block becomes the end block, unless it is too far behind.
Metadata(p) ==
    /\ head - subgraph <= MaxLag
    /\ Goto(p, "metadata", "cursor")
    /\ run' = [run EXCEPT ![p].end = subgraph]
    /\ UNCHANGED <<chainVars, dbVars>>

\* Mutant of SubgraphStart: a new pool is read from the common cursor as well.
SubgraphStartCommon(p) == IF cursor > Margin THEN cursor - Margin ELSE 0

\* Mutant of SubgraphStart: no margin.
SubgraphStartNoMargin(p) == IF run[p].kind = "sync" THEN cursor + 1 ELSE 0

\* Without a category, as for a new pool, everything is read.
SubgraphStart(p) ==
    IF run[p].kind = "sync" /\ cursor > Margin THEN cursor - Margin ELSE 0

ReadCursor(p) ==
    /\ Goto(p, "cursor", "shares")
    /\ run' = [run EXCEPT ![p].from = SubgraphStart(p)]
    /\ UNCHANGED <<chainVars, dbVars>>

\* getAllPoolSharesWithBalance, page by page: some rows may come from a later block
\* than the metadata.
ReadShares(p) ==
    /\ Goto(p, "shares", "commit")
    /\ \E late \in SUBSET Rows :
        LET changed(last) == Changed(run[p].pools, run[p].from, last)
            shares == (changed(run[p].end) \ late) \cup (changed(subgraph) \cap late)
        IN  run' = [run EXCEPT ![p].read = [r \in shares |->
                        balance[r][IF r \in late THEN subgraph ELSE run[p].end]]]
    /\ UNCHANGED <<chainVars, dbVars>>

\* The subgraph is behind, down or fails: a sync turns to the RPC node, addPools throws.
GiveUpSubgraph(p) ==
    /\ pc[p] \in {"metadata", "cursor", "shares"}
    /\ IF run[p].kind = "sync"
       THEN pc' = [pc EXCEPT ![p] = "rpc"] /\ UNCHANGED run
       ELSE Return(p)
    /\ UNCHANGED <<chainVars, dbVars>>

-----------------------------------------------------------------------------
(***************************************************************************)
(* Reading the RPC node.                                                   *)
(***************************************************************************)

RpcHead(p) ==
    /\ Goto(p, "rpc", "rpcCursor")
    /\ run' = [run EXCEPT ![p].end = head]
    /\ UNCHANGED <<chainVars, dbVars>>

\* Nothing is done before the subgraph has been read once, or ahead of the RPC node.
RpcCursor(p) ==
    /\ pc[p] = "rpcCursor"
    /\ IF cursor = 0 \/ cursor - RpcMargin > run[p].end
       THEN Return(p)
       ELSE /\ pc' = [pc EXCEPT ![p] = "logs"]
            /\ run' = [run EXCEPT ![p].from = cursor - RpcMargin]
    /\ UNCHANGED <<chainVars, dbVars>>

ToBlock(p) == IF run[p].from + Chunks < run[p].end THEN run[p].from + Chunks ELSE run[p].end

\* getEvents up to ToBlock (nothing when that is a single block), then balanceOf, now,
\* for the users the events name.
ReadLogs(p) ==
    /\ Goto(p, "logs", "commit")
    /\ LET named == IF run[p].from = ToBlock(p) THEN {}
                    ELSE Changed(run[p].pools, run[p].from, ToBlock(p))
       IN  run' = [run EXCEPT ![p].read = [r \in named |-> balance[r][head]]]
    /\ UNCHANGED <<chainVars, dbVars>>

\* The mutation of a user: syncUserBalance reads one balance at the RPC node.
ReadUser(p) ==
    /\ Goto(p, "idle", "commit")
    /\ \E r \in {x \in Rows : PoolOf[x] \in known} :
        run' = [run EXCEPT ![p] = [NoRun EXCEPT
                    !.kind = "user", !.begun = head, !.read = [x \in {r} |-> balance[r][head]]]]
    /\ UNCHANGED <<chainVars, dbVars>>

-----------------------------------------------------------------------------
(***************************************************************************)
(* Writing what was read.                                                  *)
(***************************************************************************)

\* Mutant of CursorAfter: the next block to read is saved, not the last one read.
CursorAfterNext(p) ==
    IF run[p].kind = "sync" /\ DOMAIN run[p].read # {} THEN run[p].end + 1 ELSE cursor

\* The cursor row is saved by a sync that has read any balance.
CursorAfter(p) ==
    IF run[p].kind = "sync" /\ DOMAIN run[p].read # {} THEN run[p].end ELSE cursor

\* Mutant of Commit: the rows of users who have nothing left are not deleted.
CommitNoDeletes(p) ==
    /\ pc[p] = "commit"
    /\ db' = [r \in Rows |-> IF r \in DOMAIN run[p].read /\ run[p].read[r] > 0
                             THEN run[p].read[r] ELSE db[r]]
    /\ cursor' = CursorAfter(p)
    /\ loaded' = [q \in Pools |->
                    IF run[p].kind = "init" /\ q \in run[p].pools THEN run[p].end ELSE loaded[q]]
    /\ Return(p)
    /\ UNCHANGED <<chainVars, known>>

\* One transaction with the upserts, the deletes and the cursor row.
Commit(p) ==
    /\ pc[p] = "commit"
    /\ db' = [r \in Rows |-> IF r \in DOMAIN run[p].read THEN run[p].read[r] ELSE db[r]]
    /\ cursor' = CursorAfter(p)
    /\ loaded' = [q \in Pools |->
                    IF run[p].kind = "init" /\ q \in run[p].pools THEN run[p].end ELSE loaded[q]]
    /\ Return(p)
    /\ UNCHANGED <<chainVars, known>>

\* The transaction fails, which is only logged; or a call throws, or the process dies.
Abort(p) ==
    /\ pc[p] # "idle"
    /\ Return(p)
    /\ UNCHANGED <<chainVars, dbVars>>

-----------------------------------------------------------------------------
Next ==
    \/ NewBlock
    \/ SubgraphIndexes
    \/ \E p \in Syncers : BeginSync(p)
    \/ \E p \in Processes :
        \/ BeginInit(p)
        \/ Metadata(p)
        \/ ReadCursor(p)
        \/ ReadShares(p)
        \/ GiveUpSubgraph(p)
        \/ RpcHead(p)
        \/ RpcCursor(p)
        \/ ReadLogs(p)
        \/ ReadUser(p)
        \/ Commit(p)
        \/ Abort(p)

\* Every call returns or throws; the job is run again and again (JobQueue), the subgraph
\* catches up with a chain that stands still, and does not fail, or lag, for ever.
Fairness ==
    /\ WF_vars(SubgraphIndexes)
    /\ \A p \in Processes :
        /\ WF_vars(Commit(p) \/ Abort(p))
        /\ p \in Syncers => SF_vars(BeginSync(p))
        /\ SF_vars(Metadata(p))
        /\ SF_vars(ReadCursor(p))
        /\ SF_vars(ReadShares(p))
        /\ SF_vars(run[p].kind = "sync" /\ Commit(p))

Spec == Init /\ [][Next]_vars
FairSpec == Spec /\ Fairness

-----------------------------------------------------------------------------
(***************************************************************************)
(* Properties.                                                             *)
(***************************************************************************)

\* The stored balance of r is one that it had at block n, or later.
HadSince(r, n) == \E b \in 0 .. head : b >= n /\ db[r] = balance[r][b]

\* What the saved block means: no stored balance is older than the blocks the next sync
\* reads again, from the subgraph or from the RPC node. Otherwise a transfer would be
\* missed for good. Runs overlap, are delayed, fall back, fail, move the cursor back, and
\* users write in between. It takes Delay <= RpcMargin + 1 and, when two syncs overlap,
\* Delay + MaxLag <= RpcMargin + 1: a sync from a subgraph that is behind may put older
\* balances under the block of the other one, and only the RpcMargin repairs that.
NothingMissed ==
    \A r \in Rows : PoolOf[r] \in OldPools => HadSince(r, cursor - RpcMargin - 1)

\* A pool that has been added starts with all its balances as of the block they were
\* loaded at, also those that changed long before the cursor. (Nothing better holds: the
\* load may overwrite newer balances of the RPC fallback with those of a subgraph that
\* is behind, and leaves the cursor alone.)
NewPoolsLoaded ==
    \A r \in Rows :
        LET n == loaded[PoolOf[r]]
        IN  n >= 0 => HadSince(r, n) \/ HadSince(r, cursor - RpcMargin - 1)

\* When transfers stop, the balances of the pools are the chain's in the end.
Converges ==
    <>[](\A r \in Rows : PoolOf[r] \in OldPools => db[r] = balance[r][head])

=============================================================================
