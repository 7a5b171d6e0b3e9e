------------------------------ MODULE EventSync -----------------------------
(***************************************************************************)
(* Copying the swaps and the joins and exits of a subgraph into the table  *)
(* of pool events, one page a run:                                         *)
(*   v2JoinExits, v2Swaps    modules/actions/pool/v2                       *)
(*   v3JoinExits, v3Swaps    modules/actions/pool/v3                       *)
(*   cowJoinExits, cowSwaps  modules/actions/cow-amm                       *)
(* The feeds differ in where a run starts (the newest stored event or a    *)
(* cursor row), in whether that block is read again, and in what follows a *)
(* failed insert. A behaviour is about one of them.                        *)
(*                                                                         *)
(* An event is <<b, i>>: the i-th of block b in the order of the ids, by   *)
(* which the subgraph orders the events of a block. The timestamp of a     *)
(* block is its number; a block without events is time passing. Prices and *)
(* payloads are left out, and so are the few joins that the v2 transformer *)
(* gives up on because the RPC node has no log for them.                   *)
(***************************************************************************)
EXTENDS Integers, FiniteSets

CONSTANTS
    Feeds,        \* the feeds considered
    Processes,    \* processes that may run the same sync at the same time
    PageSize,     \* `first: 1000`
    History,      \* JOIN_EXIT_HISTORY_DAYS, in blocks
    MaxPerBlock,  \* bound: events in one block
    MaxBlock      \* bound: blocks in a behaviour

\* The feeds that start from the newest stored event, or from a cursor row ...
LatestFeeds == {"v2JoinExits", "v2Swaps", "v3JoinExits", "v3Swaps"}
CursorFeeds == {"cowJoinExits", "cowSwaps"}

\* ... and those that read the block they start from again, or go on after it.
GteFeeds == {"v2JoinExits", "v2Swaps", "v3Swaps"}
GtFeeds  == {"v3JoinExits", "cowJoinExits", "cowSwaps"}

ASSUME FeedsAssumption == Feeds \subseteq LatestFeeds \cup CursorFeeds

ASSUME NumbersAssumption ==
    /\ PageSize \in Nat \ {0}
    /\ History \in Nat
    /\ MaxPerBlock \in Nat
    /\ MaxBlock \in Nat

VARIABLES
    feed,     \* the feed this behaviour is about
    head,     \* the last block the subgraph has indexed
    indexed,  \* the events the subgraph has
    stored,   \* the rows of PrismaPoolEvent of this feed
    cursor,   \* the row of PrismaLastBlockSynced of this feed (0: none)
    pc,       \* pc[p]: how far the run of process p is
    from,     \* from[p]: the first block p is about to ask the subgraph for
    page      \* page[p]: the events p has fetched

subgraphVars == <<feed, head, indexed>>
vars == <<subgraphVars, stored, cursor, pc, from, page>>

Events == Nat \X Nat
Block(e) == e[1]
Blocks(S) == {Block(e) : e \in S}
Before(e, f) == e[1] < f[1] \/ (e[1] = f[1] /\ e[2] < f[2])
IsHighest(n, S) == n \in S /\ \A k \in S : k <= n

TypeOK ==
    /\ feed \in Feeds
    /\ head \in Nat
    /\ indexed \subseteq Events
    /\ stored \subseteq indexed
    /\ cursor \in Nat
    /\ pc \in [Processes -> {"idle", "located", "fetched", "inserted"}]
    /\ from \in [Processes -> Nat]
    /\ page \in [Processes -> SUBSET indexed]

Init ==
    /\ feed \in Feeds
    /\ head = 0
    /\ indexed = {}
    /\ stored = {}
    /\ cursor = 0
    /\ pc = [p \in Processes |-> "idle"]
    /\ from = [p \in Processes |-> 0]
    /\ page = [p \in Processes |-> {}]

-----------------------------------------------------------------------------
\* The subgraph indexes the next block, all of its events at once.
IndexBlock ==
    /\ head < MaxBlock
    /\ head' = head + 1
    /\ \E n \in 0 .. MaxPerBlock : indexed' = indexed \cup {<<head + 1, i>> : i \in 1 .. n}
    /\ UNCHANGED <<feed, stored, cursor, pc, from, page>>

\* n is the block of the newest stored event, or of the cursor row; 0 without one. The code
\* takes the event with the latest time, which is one of the latest block: time grows with blocks.
IsLatest(n) ==
    IF feed \in CursorFeeds THEN n = cursor
    ELSE IF stored = {} THEN n = 0
    ELSE IsHighest(n, Blocks(stored))

SyncSince == IF head > History THEN head - History ELSE 0

\* Mutant of StartBlock: `gt` for every feed.
StartBlockGt(latest) == IF latest = 0 THEN 0 ELSE latest + 1

\* Mutant of StartBlock: the stored position is not used.
StartBlockZero(latest) == 0

\* The `where` of the query: block_gte (timestamp_gte on FANTOM), blockNumber_gt, or
\* everything; v3JoinExits starts 90 days ago when its newest event is older.
StartBlock(latest) ==
    IF feed \in GteFeeds THEN latest
    ELSE IF feed = "v3JoinExits" /\ latest <= SyncSince THEN SyncSince
    ELSE IF latest = 0 THEN 0
    ELSE latest + 1

\* Reading the newest event or the cursor.
Locate(p) ==
    /\ pc[p] = "idle"
    /\ \E latest \in 0 .. head :
        /\ IsLatest(latest)
        /\ from' = [from EXCEPT ![p] = StartBlock(latest)]
    /\ pc' = [pc EXCEPT ![p] = "located"]
    /\ UNCHANGED <<subgraphVars, stored, cursor, page>>

\* The first PageSize events of S.
FirstPage(S) == {e \in S : Cardinality({f \in S : Before(f, e)}) < PageSize}

\* Mutant of Fetch: orderDirection desc.
FetchNewest(p) ==
    /\ pc[p] = "located"
    /\ page' = [page EXCEPT ![p] =
          LET S == {e \in indexed : Block(e) >= from[p]}
          IN  {e \in S : Cardinality({f \in S : Before(e, f)}) < PageSize}]
    /\ from' = [from EXCEPT ![p] = 0]
    /\ pc' = [pc EXCEPT ![p] = "fetched"]
    /\ UNCHANGED <<subgraphVars, stored, cursor>>

\* The subgraph answers with one page, in the order of the blocks.
Fetch(p) ==
    /\ pc[p] = "located"
    /\ page' = [page EXCEPT ![p] = FirstPage({e \in indexed : Block(e) >= from[p]})]
    /\ from' = [from EXCEPT ![p] = 0]
    /\ pc' = [pc EXCEPT ![p] = "fetched"]
    /\ UNCHANGED <<subgraphVars, stored, cursor>>

\* The run of p is over ...
Return(p) ==
    /\ pc' = [pc EXCEPT ![p] = "idle"]
    /\ from' = [from EXCEPT ![p] = 0]
    /\ page' = [page EXCEPT ![p] = {}]

\* ... or it goes on to save its cursor.
GoOnToCursor(p) ==
    /\ pc' = [pc EXCEPT ![p] = "inserted"]
    /\ UNCHANGED <<from, page>>

\* createMany with skipDuplicates, one statement for the page.
Insert(p) ==
    /\ pc[p] = "fetched"
    /\ stored' = stored \cup page[p]
    /\ IF feed \in CursorFeeds THEN GoOnToCursor(p) ELSE Return(p)
    /\ UNCHANGED <<subgraphVars, cursor>>

\* createMany fails: cowJoinExits logs the error and goes on to its cursor, as
\* v3JoinExits, which has none, goes on to its end; the other feeds throw.
InsertFails(p) ==
    /\ pc[p] = "fetched"
    /\ IF feed = "cowJoinExits" THEN GoOnToCursor(p) ELSE Return(p)
    /\ UNCHANGED <<subgraphVars, stored, cursor>>

\* Mutant of SaveCursor: the maximum of an empty page is saved as well.
SaveCursorUnchecked(p) ==
    /\ pc[p] = "inserted"
    /\ \/ page[p] = {} /\ cursor' = -1
       \/ \E b \in Blocks(page[p]) : IsHighest(b, Blocks(page[p])) /\ cursor' = b
    /\ Return(p)
    /\ UNCHANGED <<subgraphVars, stored>>

\* Mutant of SaveCursor: the subgraph's head is saved, not the end of the page.
SaveCursorHead(p) ==
    /\ pc[p] = "inserted"
    /\ cursor' = head
    /\ Return(p)
    /\ UNCHANGED <<subgraphVars, stored>>

\* The cursor row becomes the last block of the page, if the page has one.
SaveCursor(p) ==
    /\ pc[p] = "inserted"
    /\ \/ page[p] = {} /\ cursor' = cursor
       \/ \E b \in Blocks(page[p]) : IsHighest(b, Blocks(page[p])) /\ cursor' = b
    /\ Return(p)
    /\ UNCHANGED <<subgraphVars, stored>>

\* Any other call of the run throws, or its process dies.
Abort(p) ==
    /\ pc[p] # "idle"
    /\ Return(p)
    /\ UNCHANGED <<subgraphVars, stored, cursor>>

Next ==
    \/ IndexBlock
    \/ \E p \in Processes :
        \/ Locate(p)
        \/ Fetch(p)
        \/ Insert(p)
        \/ InsertFails(p)
        \/ SaveCursor(p)
        \/ Abort(p)

\* The scheduler runs the job again and again (JobQueue), and a call that is made for
\* ever does not fail for ever.
Fairness ==
    \A p \in Processes :
        /\ WF_vars(Locate(p))
        /\ SF_vars(Fetch(p))
        /\ SF_vars(Insert(p))
        /\ SF_vars(SaveCursor(p))

Spec == Init /\ [][Next]_vars /\ Fairness

-----------------------------------------------------------------------------
(***************************************************************************)
(* Properties.                                                             *)
(***************************************************************************)

\* A feed that reads its last block again never skips an event: all events before the
\* newest stored block are stored, whatever pages, failures and processes interleave.
NoGaps ==
    feed \in GteFeeds =>
        \A f \in stored : \A e \in indexed : Block(e) < Block(f) => e \in stored

\* The feed's position has reached block b.
Passed(b) == IF feed \in CursorFeeds THEN b <= cursor ELSE \E e \in stored : b <= Block(e)

\* What `gt` costs is bounded: a missing event that lies behind the feed's position,
\* and in the window of v3JoinExits, shares its block with a stored one. A block is
\* split by a page, it is never skipped. (cowJoinExits, which ignores a failed insert,
\* promises nothing.)
NoBlockSkipped ==
    feed \in GtFeeds \ {"cowJoinExits"} =>
        \A b \in Blocks(indexed) :
            Passed(b) /\ (feed = "v3JoinExits" => b >= SyncSince) => b \in Blocks(stored)

\* What readers of the table may rely on: the events of a `gte` feed, and the blocks
\* of cowSwaps, are copied in the order of their blocks and never removed. (The window
\* of v3JoinExits forgets blocks, and cowJoinExits loses them.)
Promised(S) ==
    IF feed \in GteFeeds THEN S
    ELSE IF feed = "cowSwaps" THEN {<<b, 0>> : b \in Blocks(S)}
    ELSE {}

Copy == INSTANCE BlockCopy WITH source <- Promised(indexed), copy <- Promised(stored)

\* The sync implements BlockCopy, whatever pages, failures and processes interleave.
CopiesInOrder == Copy!Spec

\* Every event of a `gte` feed is stored in the end, and the position of the other
\* feeds passes it. (A block with a page of events or more would stop a `gte` feed for
\* ever: the instances have MaxPerBlock < PageSize.)
AllProcessed ==
    \A b \in 1 .. MaxBlock :
        b \in Blocks(indexed) ~>
            IF feed \in GteFeeds THEN {e \in indexed : Block(e) = b} \subseteq stored
            ELSE Passed(b) \/ (feed = "v3JoinExits" /\ b < SyncSince)

\* Everything up to the position of a cursor feed is stored. The join and exit sync of
\* V2 says why a feed must read its last block again: "We don't have a guarantee that we
\* get all the events from a specific block in one request."
NothingBehindIsMissing ==
    feed \in CursorFeeds => \A e \in indexed : Passed(Block(e)) => e \in stored

=============================================================================
