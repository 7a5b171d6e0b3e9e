--------------------------- MODULE StakedBalances --------------------------
(***************************************************************************)
(* The copy of what users have staked (PrismaUserStakedBalance):           *)
(*   "gauge"       modules/user/lib/user-sync-gauge-balance.service.ts     *)
(*   "masterchef"  .../user-sync-masterchef-farm-balance.service.ts        *)
(*   "reliquary"   .../user-sync-reliquary-farm-balance.service.ts         *)
(* Each looks for events after its saved block (PrismaUserBalanceSync-     *)
(* Status), reads the balances of the users they name, and writes them in  *)
(* transactions of a hundred operations, the saved block last. Beside the  *)
(* sync there are two mutations: the reload of all balances from a         *)
(* subgraph, and the balance of one user. A behaviour is about one kind.   *)
(*                                                                         *)
(* Calls are answered by one of several RPC nodes, some of them behind.    *)
(* The chain itself is read as it will stay. Block 0 is where a behaviour  *)
(* begins, not the first block of the chain; nothing is staked in it. A    *)
(* row with the balance zero stands for no row. Reliquary's mutation for   *)
(* one user is left out: it writes a row with an id of its own, that the   *)
(* others neither read nor write. So are the two services that have no     *)
(* events to look for (Aura and veBAL rewrite all balances in every run),  *)
(* and the excluded farms.                                                 *)
(***************************************************************************)
EXTENDS Integers, FiniteSets, LogBatches

CONSTANTS
    Kinds,      \* the kinds considered
    Farms,      \* gauges, or farms
    Users,
    Amounts,    \* balances
    Processes,  \* runs that may be in progress at the same time
    Margin,     \* BALANCES_SYNC_BLOCKS_MARGIN
    RpcRange,   \* rpcMaxBlockRange
    Batches,    \* `5 * rpcMaxBlockRange`
    ChunkSize,  \* operations in a transaction
    Lag,        \* blocks an RPC node, or the subgraph, may be behind
    Delay,      \* timing assumption: no run sees more than Delay new blocks
    MaxBlock    \* bound: blocks in a behaviour

ASSUME SetsAssumption ==
    /\ Kinds \subseteq {"gauge", "masterchef", "reliquary"}
    /\ 0 \in Amounts /\ Amounts \subseteq Nat
    /\ IsFiniteSet(Farms) /\ IsFiniteSet(Users)

ASSUME NumbersAssumption ==
    /\ {Margin, Lag, Delay, MaxBlock} \subseteq Nat
    /\ {Batches, ChunkSize} \subseteq Nat \ {0}
    /\ RpcRange \in Nat /\ RpcRange > 1

VARIABLES
    kind,     \* the kind this behaviour is about
    head,     \* the last block of the chain
    balance,  \* balance[r][b]: what was staked in row r after block b
    silent,   \* <<b, u>>: block b changed what user u has staked, and no event names u
    farms,    \* the farms in the database
    since,    \* since[f]: the block from which on farm f is followed (history variable)
    db,       \* db[r]: the stored balance
    cursor,   \* the saved block, or NoStatus
    pc,       \* pc[p]: how far run p is
    run,      \* run[p]: the locals of run p
    lost      \* users that a sync passed over, or whose rows a Reliquary sync deleted before it
              \* failed while another run was in progress or had moved the cursor (history variable)

chainVars == <<head, balance, silent>>
dbVars == <<farms, since, db, cursor>>
vars == <<kind, chainVars, dbVars, pc, run, lost>>

NoStatus == -1
AtStart == -1
Rows == Farms \X Users
FarmOf(r) == r[1]
UserOf(r) == r[2]

\* The locals of a run: when it began, the blocks it asks for, the balances it has read
\* (of rows it has not written yet).
NoRun == [begun |-> 0, from |-> 0, to |-> 0, read |-> [r \in {} |-> 0]]

Min(a, b) == IF a < b THEN a ELSE b

TypeOK ==
    /\ kind \in Kinds
    /\ head \in Nat
    /\ balance \in [Rows -> [0 .. head -> Amounts]]
    /\ silent \in SUBSET ((1 .. head) \X Users)
    /\ farms \in SUBSET Farms
    /\ since \in [Farms -> -1 .. head]
    /\ db \in [Rows -> Amounts]
    /\ cursor \in NoStatus .. head
    /\ pc \in [Processes -> {"idle", "located", "named", "ready", "writing", "shares", "user"}]
    /\ lost \in SUBSET Users
    /\ \A p \in Processes :
        /\ run[p].begun \in 0 .. head
        /\ {run[p].from, run[p].to} \subseteq Int
        /\ DOMAIN run[p].read \subseteq Rows
        /\ \A r \in DOMAIN run[p].read : run[p].read[r] \in Amounts

Init ==
    /\ kind \in Kinds
    /\ head = 0
    /\ balance = [r \in Rows |-> [b \in {0} |-> 0]]
    /\ silent = {}
    /\ farms \in SUBSET Farms
    /\ since = [f \in Farms |-> IF f \in farms \/ kind # "gauge" THEN AtStart ELSE 0]
    /\ db = [r \in Rows |-> 0]
    /\ cursor = NoStatus
    /\ pc = [p \in Processes |-> "idle"]
    /\ run = [p \in Processes |-> NoRun]
    /\ lost = {}

-----------------------------------------------------------------------------
(***************************************************************************)
(* The chain, and the sync of the farms.                                   *)
(***************************************************************************)

InTime == \A p \in Processes : pc[p] # "idle" => head < run[p].begun + Delay

\* The users whose stakes may become `new` in a block of which the Reliquary sync sees no
\* event that names them. It compares the name of an event with the topic of Shift: a shift
\* between the relics of two users names neither, a Split for another user only the one who
\* gets the new relic, a Merge with the relic of another user only the one whose relic is
\* burned.
Unnamed(new) ==
    IF kind = "reliquary"
    THEN {u \in Users : \E f \in Farms : new[<<f, u>>] # balance[<<f, u>>][head]}
    ELSE {}

NewBlock ==
    /\ head < MaxBlock
    /\ InTime
    /\ head' = head + 1
    /\ \E new \in [Rows -> Amounts] :
        /\ balance' = [r \in Rows |-> [b \in 0 .. head + 1 |->
                            IF b <= head THEN balance[r][b] ELSE new[r]]]
        /\ \E users \in SUBSET Unnamed(new) : silent' = silent \cup ({head + 1} \X users)
    /\ UNCHANGED <<kind, dbVars, pc, run, lost>>

\* The staking sync stores a farm it has found. A gauge is asked for its logs from now on;
\* the others have one contract, and are never stored without the farm.
AddFarm ==
    /\ \E f \in Farms \ farms :
        /\ farms' = farms \cup {f}
        /\ since' = IF kind = "gauge" THEN [since EXCEPT ![f] = head] ELSE since
    /\ UNCHANGED <<kind, chainVars, db, cursor, pc, run, lost>>

\* The reload of the staking deletes all rows, and then the farms (the rows that were
\* written in between go with them) unless it fails before that. The saved block stays.
DeleteStaking ==
    /\ db' = [r \in Rows |-> 0]
    /\ farms' \in {farms, {}}
    /\ since' = [f \in Farms |-> head]
    /\ UNCHANGED <<kind, chainVars, cursor, pc, run, lost>>

Changed(r, b) == b > 0 /\ balance[r][b] # balance[r][b - 1]

\* An event in one of the blocks S names row r: a gauge and the masterchef name the user
\* and the farm, Reliquary only the user, of whom all relics are read.
Touched(r, S) ==
    \E b \in S \cap (0 .. head) :
        IF kind = "reliquary"
        THEN <<b, UserOf(r)>> \notin silent /\ \E f \in Farms : Changed(<<f, UserOf(r)>>, b)
        ELSE Changed(r, b)

\* The block of the node that answers.
Answers == {n \in 0 .. head : n >= head - Lag}

Goto(p, from, to) == pc[p] = from /\ pc' = [pc EXCEPT ![p] = to]

Return(p) ==
    /\ pc' = [pc EXCEPT ![p] = "idle"]
    /\ run' = [run EXCEPT ![p] = NoRun]

-----------------------------------------------------------------------------
(***************************************************************************)
(* syncChangedStakedBalances.                                              *)
(***************************************************************************)

\* A plausible bug: the margin before the saved block is dropped.
ReadStatusNoMargin(p) ==
    /\ cursor # NoStatus
    /\ Goto(p, "idle", "located")
    /\ run' = [run EXCEPT ![p] = [NoRun EXCEPT !.begun = head, !.from = cursor + 1]]
    /\ UNCHANGED <<kind, chainVars, dbVars, lost>>

\* Without a saved block the sync throws.
ReadStatus(p) ==
    /\ cursor # NoStatus
    /\ Goto(p, "idle", "located")
    /\ run' = [run EXCEPT ![p] = [NoRun EXCEPT
                !.begun = head, !.from = cursor - Margin]]
    /\ UNCHANGED <<kind, chainVars, dbVars, lost>>

MaxRange == IF kind = "gauge" THEN Batches * RpcRange ELSE RpcRange

\* The blocks of a gauge sync that retries may leave out. getEvents repeats a failed request
\* in pieces, of half the range or of one the node has proposed, and each piece that fails
\* likewise; but a range of a single block makes no request. The first piece of a batch has
\* two blocks or more, any other block may be a piece of its own.
Droppable(from, to) ==
    UNION {{b \in Batch(from, to, RpcRange, i) :
                \/ b >= BatchFrom(from, RpcRange, i) + 2
                \/ Batch(from, to, RpcRange, i) = {b}} :
           i \in 0 .. NumBatches(from, to, RpcRange) - 1}

\* The blocks whose logs are read. The other syncs make one request, that has an answer or has
\* none.
LogBlocks(from, to) ==
    IF kind = "gauge"
    THEN {Scanned(from, to, RpcRange) \ dropped : dropped \in SUBSET Droppable(from, to)}
    ELSE {from .. to}

\* A gauge is only asked for its logs when it is in the database.
Listened == IF kind = "gauge" THEN farms ELSE Farms

\* Reliquary asks for the owner of a relic that was deposited in or withdrawn from, and
\* takes every error of this call for a burned relic: the user is skipped.
Skippable == IF kind = "reliquary" THEN Users ELSE {}

\* The head, the gauges, and the logs of the blocks up to `to`.
ReadLogs(p) ==
    /\ pc[p] = "located"
    /\ \E latest \in Answers :
        LET to == Min(run[p].from + MaxRange, latest)
        IN  \/ /\ run[p].from > latest
               /\ Return(p)
               /\ UNCHANGED lost
            \/ /\ run[p].from <= latest
               /\ \E S \in LogBlocks(run[p].from, to), skipped \in SUBSET Skippable :
                    LET named == {r \in Rows : FarmOf(r) \in Listened /\ Touched(r, S)}
                        unread == {r \in Rows \ named : FarmOf(r) \in Listened
                                        /\ Touched(r, run[p].from .. to - Margin - 1)}
                    IN  /\ run' = [run EXCEPT
                                ![p].to = to,
                                ![p].read = [r \in {x \in named : UserOf(x) \notin skipped} |-> 0]]
                        /\ lost' = lost \cup {u \in skipped : \E r \in named : UserOf(r) = u}
                                        \cup {UserOf(r) : r \in unread}
               /\ pc' = [pc EXCEPT ![p] = "named"]
    /\ UNCHANGED <<kind, chainVars, dbVars>>

\* The multicalls: the balances of the named rows, now.
ReadBalances(p) ==
    /\ Goto(p, "named", "ready")
    /\ \E at \in [DOMAIN run[p].read -> Answers] :
        run' = [run EXCEPT ![p].read = [r \in DOMAIN at |-> balance[r][at[r]]]]
    /\ UNCHANGED <<kind, chainVars, dbVars, lost>>

\* Rows that Reliquary deletes before it writes any, the first time.
Deleted(p) ==
    IF kind = "reliquary" /\ pc[p] = "ready"
    THEN {r \in Rows : \E x \in DOMAIN run[p].read : UserOf(x) = UserOf(r)}
    ELSE {}

\* Operations before the rows in the first transaction: the users, the deletes.
Leading(p) ==
    IF pc[p] # "ready" THEN 0 ELSE IF kind = "reliquary" THEN 2 ELSE 1

\* The row operations left: Reliquary writes no zero.
Pending(p) ==
    {r \in DOMAIN run[p].read : kind = "reliquary" => run[p].read[r] > 0}

\* The masterchef sync compares an amount with "0" that is formatted as "0.0", and
\* upserts it.
Upserted(p, r) == run[p].read[r] > 0 \/ kind = "masterchef"

\* A transaction with the rows S; a row of a farm that is not in the database would
\* violate its foreign key.
Write(p, S) ==
    /\ \A r \in S : Upserted(p, r) => FarmOf(r) \in farms
    /\ db' = [r \in Rows |-> IF r \in S THEN run[p].read[r]
                             ELSE IF r \in Deleted(p) THEN 0 ELSE db[r]]

\* The gauge sync writes its upserts before its deletes.
InOrder(p, S) ==
    kind = "gauge" => \A r \in S, x \in Pending(p) \ S :
                            run[p].read[r] = 0 => run[p].read[x] = 0

\* A transaction that is not the last one.
WriteChunk(p) ==
    /\ pc[p] \in {"ready", "writing"}
    /\ DOMAIN run[p].read # {}
    /\ Leading(p) + Cardinality(Pending(p)) + 1 > ChunkSize
    /\ \E S \in SUBSET Pending(p) :
        /\ Leading(p) + Cardinality(S) = ChunkSize
        /\ InOrder(p, S)
        /\ Write(p, S)
        /\ run' = [run EXCEPT ![p].read = [r \in Pending(p) \ S |-> run[p].read[r]]]
    /\ pc' = [pc EXCEPT ![p] = "writing"]
    /\ UNCHANGED <<kind, chainVars, farms, since, cursor, lost>>

\* A plausible bug: the block after the last one that was read is saved.
WriteNextStatus(p) ==
    /\ pc[p] \in {"ready", "writing"}
    /\ \/ DOMAIN run[p].read = {}
       \/ Leading(p) + Cardinality(Pending(p)) + 1 <= ChunkSize
    /\ Write(p, Pending(p))
    /\ cursor' = run[p].to + 1
    /\ Return(p)
    /\ UNCHANGED <<kind, chainVars, farms, since, lost>>

\* The last transaction, with the saved block.
WriteStatus(p) ==
    /\ pc[p] \in {"ready", "writing"}
    /\ \/ DOMAIN run[p].read = {}
       \/ Leading(p) + Cardinality(Pending(p)) + 1 <= ChunkSize
    /\ Write(p, Pending(p))
    /\ cursor' = run[p].to
    /\ Return(p)
    /\ UNCHANGED <<kind, chainVars, farms, since, lost>>

-----------------------------------------------------------------------------
(***************************************************************************)
(* The mutations: initStakedBalances and syncUserBalance.                  *)
(***************************************************************************)

\* The subgraph's block, and all balances, page by page: of that block or of a later one.
InitRead(p) ==
    /\ Goto(p, "idle", "shares")
    /\ \E n \in Answers : \E at \in [Rows -> n .. head] :
        run' = [run EXCEPT ![p] = [NoRun EXCEPT
                    !.begun = head, !.to = n, !.read = [r \in Rows |-> balance[r][at[r]]]]]
    /\ UNCHANGED <<kind, chainVars, dbVars, lost>>

\* One transaction: all rows are deleted, those of the subgraph are created.
InitWrite(p) ==
    /\ pc[p] = "shares"
    /\ \A r \in Rows : run[p].read[r] > 0 => FarmOf(r) \in farms
    /\ db' = run[p].read
    /\ cursor' = run[p].to
    /\ Return(p)
    /\ lost' = {}
    /\ since' = [f \in Farms |-> IF f \in farms THEN AtStart ELSE since[f]]
    /\ UNCHANGED <<kind, chainVars, farms>>

ReadUser(p) ==
    /\ kind # "reliquary"
    /\ Goto(p, "idle", "user")
    /\ \E r \in Rows, n \in Answers :
        /\ FarmOf(r) \in farms
        /\ run' = [run EXCEPT ![p] = [NoRun EXCEPT
                    !.begun = head, !.read = [x \in {r} |-> balance[x][n]]]]
    /\ UNCHANGED <<kind, chainVars, dbVars, lost>>

\* The balance is upserted, with the zero too: "0" is compared with "0.0".
WriteUser(p) ==
    /\ pc[p] = "user"
    /\ \A r \in DOMAIN run[p].read : FarmOf(r) \in farms
    /\ db' = [r \in Rows |-> IF r \in DOMAIN run[p].read THEN run[p].read[r] ELSE db[r]]
    /\ Return(p)
    /\ UNCHANGED <<kind, chainVars, farms, since, cursor, lost>>

\* Rows that are missing because p deleted them and has not written them yet.
Missing(p) == IF kind = "reliquary" /\ pc[p] = "writing" THEN DOMAIN run[p].read ELSE {}

\* Any call throws, a transaction fails, or the process dies.
Abort(p) ==
    /\ pc[p] # "idle"
    /\ lost' = IF cursor = run[p].from + Margin /\ \A q \in Processes \ {p} : pc[q] = "idle"
               THEN lost
               ELSE lost \cup {UserOf(r) : r \in Missing(p)}
    /\ Return(p)
    /\ UNCHANGED <<kind, chainVars, dbVars>>

-----------------------------------------------------------------------------
Next ==
    \/ NewBlock
    \/ AddFarm
    \/ DeleteStaking
    \/ \E p \in Processes :
        \/ ReadStatus(p)
        \/ ReadLogs(p)
        \/ ReadBalances(p)
        \/ WriteChunk(p)
        \/ WriteStatus(p)
        \/ InitRead(p)
        \/ InitWrite(p)
        \/ ReadUser(p)
        \/ WriteUser(p)
        \/ Abort(p)

Spec == Init /\ [][Next]_vars

-----------------------------------------------------------------------------
(***************************************************************************)
(* Properties.                                                             *)
(***************************************************************************)

\* What is known of a row: all of it, or what has changed since its gauge was added or its
\* farm was deleted.
Followed(r) ==
    /\ kind = "gauge" => FarmOf(r) \in farms
    /\ since[FarmOf(r)] = AtStart \/ Touched(r, since[FarmOf(r)] + 1 .. head)

\* Its rows are not complete: they are just being written, or were lost.
Incomplete(r) ==
    \/ UserOf(r) \in lost
    \/ \E p \in Processes : \E x \in Missing(p) : UserOf(x) = UserOf(r)

\* A change of its user's stakes was not named by an event, nor has an event named the user
\* since.
Unseen(r) ==
    \E b \in 1 .. head : <<b, UserOf(r)>> \in silent /\ ~Touched(r, b + 1 .. head)

\* Its stored balance is not the chain's.
Behind(r) == cursor # NoStatus /\ Followed(r) /\ db[r] # balance[r][head]

\* The next sync asks for an event that names it.
Reread(r) == Touched(r, cursor - Margin .. head)

\* What the saved block means: a stored balance that is not the chain's belongs to a user
\* that an event after the saved block, or in the margin before it, names: the next sync
\* will read it. Runs overlap, are answered by different nodes, fail between their
\* transactions, and the mutations write and delete in between. Two losses of the code are
\* excluded, and it fails without either exception: changes that no event names (Unseen;
\* Reliquary), and users that a sync has passed over (Incomplete; Reliquary and gauges).
StaleIsReread ==
    \A r \in Rows : Behind(r) /\ ~Incomplete(r) /\ ~Unseen(r) => Reread(r)

=============================================================================
