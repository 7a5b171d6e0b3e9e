----------------------------- MODULE Snapshots -----------------------------
(***************************************************************************)
(* The daily snapshots of a V3 or CoW AMM pool (PrismaPoolSnapshot):       *)
(*   modules/actions/snapshots/sync-snapshots.ts and its lib/.             *)
(* The subgraph has a row with the totals of a pool for every day on which *)
(* something happened to it. A run asks for the rows that have changed     *)
(* since the saved block, puts them together with the two latest stored    *)
(* rows, fills the days in between, takes the differences of the totals as *)
(* the values of the days, and writes the rows in transactions of 500, the *)
(* saved block last. The sync of all snapshots asks for every row and does *)
(* not read the stored ones.                                               *)
(*                                                                         *)
(* The model has one pool; that other pools share the run, its             *)
(* transactions and the saved block is a free choice. Of the three totals  *)
(* (volumes, fees, surpluses) there is one, that grows by one in a block   *)
(* with a swap, and of the values in dollars the running sum over the days *)
(* (totalSwapVolume, totalSwapFee), at the price one; totalSurplus, which  *)
(* snapshotToDb does not set, so that the merge keeps a stored one, is     *)
(* left out. There is one run at a time, and one indexer: it never answers *)
(* for a block before one it has reported. The subgraph answers all pages  *)
(* of a request (1000 rows each) at one block. The option poolIds, that no *)
(* caller gives, is left out.                                              *)
(***************************************************************************)
EXTENDS Integers, Sequences, FiniteSets

CONSTANTS
    MaxDay,     \* bound: days in a behaviour
    MaxBlock    \* bound: blocks in a behaviour

ASSUME BoundsAssumption == MaxDay \in Nat /\ MaxBlock \in Nat

VARIABLES
    blocks,     \* the chain: the day of each block, and whether it has a swap in the pool
    listed,     \* the head when the pool was added, or NotListed
    db,         \* the stored rows: day |-> total, value of the day, sum of the values
    cursor,     \* the saved block, 0 when there is none
    step,       \* how far the run is
    run,        \* the locals of the run
    ragged      \* a run was cut off and left rows the next one cannot tell (history variable)

vars == <<blocks, listed, db, cursor, step, run, ragged>>

NotListed == -1
head == Len(blocks)
NoRows == [d \in {} |-> [total |-> 0, daily |-> 0, sum |-> 0]]

MaxOf(S) == CHOOSE x \in S : \A y \in S : y <= x
MinOf(S) == CHOOSE x \in S : \A y \in S : x <= y

\* The locals of a run: whether it syncs all snapshots, the block of the subgraph, the saved
\* block it starts from, whether it knows the pool, its rows.
NoRun == [all |-> FALSE, current |-> 0, last |-> 0, knows |-> FALSE, rows |-> NoRows]

TypeOK ==
    /\ blocks \in Seq([day : 1 .. MaxDay, swap : BOOLEAN])
    /\ listed \in NotListed .. head
    /\ cursor \in 0 .. head
    /\ ragged \in BOOLEAN
    /\ step \in {"idle", "begun", "located", "fetched", "writing"}
    /\ {run.current, run.last} \subseteq 0 .. head
    /\ \A rows \in {db, run.rows} :
        /\ DOMAIN rows \subseteq 1 .. MaxDay
        /\ \A d \in DOMAIN rows :
            /\ rows[d].total \in 0 .. head
            /\ rows[d].daily \in -head .. head
            /\ rows[d].sum \in Int

Init ==
    /\ blocks = <<>>
    /\ listed \in {NotListed, 0}
    /\ db = NoRows
    /\ cursor = 0
    /\ step = "idle"
    /\ run = NoRun
    /\ ragged = FALSE

-----------------------------------------------------------------------------
(***************************************************************************)
(* The chain, its subgraph, and the sync of the pools.                     *)
(***************************************************************************)

DayOf(n) == IF n = 0 THEN 1 ELSE blocks[n].day

\* Timing assumption: less than a day lies between the block a run reads first and its end.
InTime(d) == step # "idle" => d <= DayOf(run.current) + 1

\* A block of the same day or of the next one.
NewBlock ==
    /\ head < MaxBlock
    /\ \E d \in {DayOf(head), DayOf(head) + 1}, swap \in BOOLEAN :
        /\ d <= MaxDay
        /\ InTime(d)
        /\ blocks' = Append(blocks, [day |-> d, swap |-> swap])
    /\ UNCHANGED <<listed, db, cursor, step, run, ragged>>

AddPool ==
    /\ listed = NotListed
    /\ listed' = head
    /\ UNCHANGED <<blocks, db, cursor, step, run, ragged>>

\* The blocks up to n with a swap on the days D.
Swaps(n, D) == {b \in 1 .. n : blocks[b].swap /\ blocks[b].day \in D}

\* The days the subgraph has a row for at block n, the total in that row, and the block that
\* changed it last.
RowDays(n) == {d \in 1 .. MaxDay : Swaps(n, {d}) # {}}
Total(n, d) == Cardinality(Swaps(n, 1 .. d))
ChangedAt(n, d) == MaxOf(Swaps(n, {d}))

ChangedSince(n, from) == {d \in RowDays(n) : ChangedAt(n, d) >= from}

-----------------------------------------------------------------------------
(***************************************************************************)
(* syncSnapshots.                                                          *)
(***************************************************************************)

Return == step' = "idle" /\ run' = NoRun

\* The block of the subgraph is read first.
ReadHead ==
    /\ step = "idle"
    /\ step' = "begun"
    /\ \E all \in BOOLEAN : run' = [NoRun EXCEPT !.all = all, !.current = head]
    /\ UNCHANGED <<blocks, listed, db, cursor, ragged>>

\* The saved block, and the pools in the database.
ReadCursor ==
    /\ step = "begun"
    /\ step' = "located"
    /\ run' = [run EXCEPT !.last = IF run.all THEN 0 ELSE cursor,
                          !.knows = listed # NotListed]
    /\ UNCHANGED <<blocks, listed, db, cursor, ragged>>

\* The days of the rows of the pool that are kept. Without a saved block all are asked for.
Wanted == IF run.knows THEN ChangedSince(head, run.last) ELSE {}

\* Without any snapshot, of this pool or another, the run returns and saves nothing.
Fetch ==
    /\ step = "located"
    /\ \/ /\ Wanted = {}
          /\ Return
       \/ /\ step' = "fetched"
          /\ run' = [run EXCEPT !.rows =
                [d \in Wanted |-> [total |-> Total(head, d), daily |-> 0, sum |-> 0]]]
    /\ UNCHANGED <<blocks, listed, db, cursor, ragged>>

\* A plausible bug: only the latest stored row is read.
LatestOnly == {d \in DOMAIN db : \A x \in DOMAIN db : x <= d}

\* The two latest stored rows.
Latest == {d \in DOMAIN db : Cardinality({x \in DOMAIN db : x > d}) < 2}

\* A row of the subgraph has no value of the day, and keeps a stored one; it has the sum zero.
MergeRows(rows, stored) ==
    [d \in DOMAIN rows \cup DOMAIN stored |->
        IF d \notin DOMAIN rows THEN stored[d]
        ELSE IF d \notin DOMAIN stored THEN rows[d]
        ELSE [rows[d] EXCEPT !.daily = stored[d].daily]]

\* A plausible bug: a day without a row is as the first one.
FillWithFirst(rows) ==
    IF rows = NoRows THEN rows
    ELSE [d \in MinOf(DOMAIN rows) .. MaxOf(DOMAIN rows) |->
            IF d \in DOMAIN rows THEN rows[d] ELSE rows[MinOf(DOMAIN rows)]]

\* A day without a row is as the day before.
FillMissingTimestamps(rows) ==
    IF rows = NoRows THEN rows
    ELSE [d \in MinOf(DOMAIN rows) .. MaxOf(DOMAIN rows) |->
            rows[MaxOf({x \in DOMAIN rows : x <= d})]]

\* The value of a day is what the total has grown. The first row keeps its value, unless it
\* is the only one.
ComputeDailyValues(rows) ==
    [d \in DOMAIN rows |->
        IF d - 1 \in DOMAIN rows
        THEN [rows[d] EXCEPT !.daily = rows[d].total - rows[d - 1].total]
        ELSE IF Cardinality(DOMAIN rows) = 1 THEN [rows[d] EXCEPT !.daily = rows[d].total]
        ELSE rows[d]]

\* A plausible bug: the value of the first row is added to its sum.
AddUSDValues(rows) ==
    LET sum[d \in DOMAIN rows] ==
            IF d - 1 \in DOMAIN rows THEN sum[d - 1] + rows[d].daily
            ELSE rows[d].sum + rows[d].daily
    IN  [d \in DOMAIN rows |-> [rows[d] EXCEPT !.sum = sum[d]]]

\* The sum of a day is that of the day before and the value of the day. The first row keeps
\* its sum, unless that is zero.
ApplyUSDValues(rows) ==
    LET sum[d \in DOMAIN rows] ==
            IF d - 1 \in DOMAIN rows THEN sum[d - 1] + rows[d].daily
            ELSE IF rows[d].sum # 0 THEN rows[d].sum
            ELSE rows[d].daily
    IN  [d \in DOMAIN rows |-> [rows[d] EXCEPT !.sum = sum[d]]]

ProcessSnapshots(rows) == ApplyUSDValues(ComputeDailyValues(FillMissingTimestamps(rows)))

\* The stored rows are read for the pools that have new ones.
Stored == IF run.all \/ run.rows = NoRows THEN NoRows ELSE [d \in Latest |-> db[d]]

Process ==
    /\ step = "fetched"
    /\ step' = "writing"
    /\ run' = [run EXCEPT !.rows = ProcessSnapshots(MergeRows(@, Stored))]
    /\ UNCHANGED <<blocks, listed, db, cursor, ragged>>

\* A transaction, among the rows of other pools: those of this pool up to some day.
WriteBatch ==
    /\ step = "writing"
    /\ \E last \in DOMAIN run.rows :
        LET batch == {d \in DOMAIN run.rows : d <= last}
        IN  /\ db' = [d \in DOMAIN db \cup batch |-> IF d \in batch THEN run.rows[d] ELSE db[d]]
            /\ run' = [run EXCEPT !.rows = [d \in DOMAIN run.rows \ batch |-> run.rows[d]]]
    /\ UNCHANGED <<blocks, listed, cursor, step, ragged>>

\* A plausible bug: the block that is saved is the one at the end of the run.
SaveHead ==
    /\ step = "writing"
    /\ run.rows = NoRows
    /\ cursor' = head
    /\ Return
    /\ ragged' = (ragged /\ ~run.all)
    /\ UNCHANGED <<blocks, listed, db>>

\* A plausible bug: the next block is saved.
SaveNext ==
    /\ step = "writing"
    /\ run.rows = NoRows
    /\ cursor' = run.current + 1
    /\ Return
    /\ ragged' = (ragged /\ ~run.all)
    /\ UNCHANGED <<blocks, listed, db>>

Save ==
    /\ step = "writing"
    /\ run.rows = NoRows
    /\ cursor' = run.current
    /\ Return
    /\ ragged' = (ragged /\ ~run.all)
    /\ UNCHANGED <<blocks, listed, db>>

\* The next run will get a row that is older than the two stored rows it reads.
TooFarAhead == DOMAIN db # {} /\ \E d \in ChangedSince(head, cursor) : d < MinOf(Latest)

\* Any call throws, or the process dies.
Abort ==
    /\ step # "idle"
    /\ ragged' = (ragged \/ (step = "writing" /\ (run.all \/ TooFarAhead)))
    /\ Return
    /\ UNCHANGED <<blocks, listed, db, cursor>>

Next ==
    \/ NewBlock
    \/ AddPool
    \/ ReadHead
    \/ ReadCursor
    \/ Fetch
    \/ Process
    \/ WriteBatch
    \/ Save
    \/ Abort

Spec == Init /\ [][Next]_vars

-----------------------------------------------------------------------------
(***************************************************************************)
(* Properties.                                                             *)
(***************************************************************************)

\* No run is writing, and none was cut off in a way that the next one cannot repair: in the
\* middle of a sync of all snapshots, or of one that caught up on several days.
Settled == ~ragged /\ step # "writing"

\* There is no gap between the stored days of a pool, and the value of every day but the
\* first is what the total has grown since the day before, also when runs fail, midnight
\* passes between two steps of a run, the pool is added late or nothing runs for days.
DailyIsDifference ==
    Settled =>
        \A d \in DOMAIN db :
            \/ d = MinOf(DOMAIN db)
            \/ /\ d - 1 \in DOMAIN db
               /\ db[d].daily = db[d].total - db[d - 1].total

\* At any time, also after a run that was cut off: a row that is not stored as the subgraph has
\* it has changed in the saved block or later, so that the next run asks for it; unless it is
\* older than the pool is in the database.
StaleIsFetched ==
    \A d \in RowDays(head) :
        listed # NotListed /\ ChangedAt(head, d) > listed =>
            \/ ChangedAt(head, d) >= cursor
            \/ d \in DOMAIN db /\ db[d].total = Total(head, d)

\* The sum of a day counts no swap twice: it is never more than the total, however often the
\* same rows are returned again, merged with stored ones and filled up, and wherever a run ends.
NoSwapCountedTwice ==
    \A d \in DOMAIN db : db[d].sum <= db[d].total

\* No stored day is lost, and no total goes back: a run never writes a row that is older than the
\* stored one, nor fills a day up from a row that is.
TotalsGrow ==
    [][\A d \in DOMAIN db : d \in DOMAIN db' /\ db'[d].total >= db[d].total]_vars

\* The test of applyUSDValues expects that the sum of a day is that of the day before and the
\* value of the day, as comments in the code say.
SumsAddUp ==
    Settled =>
        \A d \in DOMAIN db :
            d - 1 \in DOMAIN db => db[d].sum = db[d - 1].sum + db[d].daily

=============================================================================
