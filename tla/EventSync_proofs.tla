-------------------------- MODULE EventSync_proofs -------------------------
(***************************************************************************)
(* For any page size, any number of processes, of blocks and of events in  *)
(* a block: a feed that reads its newest stored block again skips nothing, *)
(* one that goes on after it skips no whole block, and the copy is made in *)
(* the order of the blocks (BlockCopy).                                    *)
(***************************************************************************)
EXTENDS EventSync, FiniteSetTheorems, TLAPS

-----------------------------------------------------------------------------
(***************************************************************************)
(* Types.                                                                  *)
(***************************************************************************)

(* A page holds events of the set it is cut from. *)
LEMMA FirstPageType == \A S : FirstPage(S) \subseteq S
  BY DEF FirstPage

(* The start of the query is a block number. *)
LEMMA StartBlockType == \A n \in Nat : head \in Nat => StartBlock(n) \in Nat
  BY NumbersAssumption DEF StartBlock, SyncSince

(* Returning and going on to the cursor keep the types of the locals. *)
LEMMA ReturnType ==
  ASSUME TypeOK, NEW p \in Processes, Return(p), indexed' = indexed
  PROVE  /\ pc' \in [Processes -> {"idle", "located", "fetched", "inserted"}]
         /\ from' \in [Processes -> Nat]
         /\ page' \in [Processes -> SUBSET indexed']
  BY DEF TypeOK, Return

LEMMA GoOnType ==
  ASSUME TypeOK, NEW p \in Processes, GoOnToCursor(p), indexed' = indexed
  PROVE  /\ pc' \in [Processes -> {"idle", "located", "fetched", "inserted"}]
         /\ from' \in [Processes -> Nat]
         /\ page' \in [Processes -> SUBSET indexed']
  BY DEF TypeOK, GoOnToCursor

LEMMA TypeStep == TypeOK /\ [Next]_vars => TypeOK'
<1> SUFFICES ASSUME TypeOK, [Next]_vars PROVE TypeOK'
  OBVIOUS
<1>1. CASE IndexBlock
  <2>1. PICK n \in 0 .. MaxPerBlock :
          indexed' = indexed \cup {<<head + 1, i>> : i \in 1 .. n}
    BY <1>1 DEF IndexBlock
  <2>2. indexed' \subseteq Events /\ indexed \subseteq indexed'
    BY <2>1, NumbersAssumption DEF Events, TypeOK
  <2>3. QED
    BY <1>1, <2>2 DEF IndexBlock, TypeOK
<1>2. ASSUME NEW p \in Processes, Locate(p) PROVE TypeOK'
  <2>1. PICK latest \in 0 .. head : from' = [from EXCEPT ![p] = StartBlock(latest)]
    BY <1>2 DEF Locate
  <2>2. StartBlock(latest) \in Nat
    BY StartBlockType DEF TypeOK
  <2>3. QED
    BY <1>2, <2>1, <2>2 DEF Locate, TypeOK, subgraphVars
<1>3. ASSUME NEW p \in Processes, Fetch(p) PROVE TypeOK'
  <2>1. FirstPage({e \in indexed : Block(e) >= from[p]}) \subseteq indexed
    BY FirstPageType
  <2>2. QED
    BY <1>3, <2>1 DEF Fetch, TypeOK, subgraphVars
<1>4. ASSUME NEW p \in Processes, Insert(p) PROVE TypeOK'
  BY <1>4, ReturnType, GoOnType DEF Insert, TypeOK, subgraphVars
<1>5. ASSUME NEW p \in Processes, InsertFails(p) PROVE TypeOK'
  BY <1>5, ReturnType, GoOnType DEF InsertFails, TypeOK, subgraphVars
<1>6. ASSUME NEW p \in Processes, SaveCursor(p) PROVE TypeOK'
  <2>1. Blocks(page[p]) \subseteq Nat
    BY DEF Blocks, Block, TypeOK, Events
  <2>2. cursor' \in Nat
    BY <1>6, <2>1 DEF SaveCursor, TypeOK
  <2>3. QED
    BY <1>6, <2>2, ReturnType DEF SaveCursor, TypeOK, subgraphVars
<1>7. ASSUME NEW p \in Processes, Abort(p) PROVE TypeOK'
  BY <1>7, ReturnType DEF Abort, TypeOK, subgraphVars
<1>8. CASE UNCHANGED vars
  BY <1>8 DEF vars, subgraphVars, TypeOK
<1>9. QED
  BY <1>1, <1>2, <1>3, <1>4, <1>5, <1>6, <1>7, <1>8 DEF Next

(* Every variable keeps its type; in particular only events of the subgraph *)
(* are stored.                                                              *)
THEOREM TypeCorrect == Spec => []TypeOK
<1>1. Init => TypeOK
  BY DEF Init, TypeOK
<1>2. QED
  BY <1>1, TypeStep, PTL DEF Spec

-----------------------------------------------------------------------------
(***************************************************************************)
(* Pages. The events of a set that come before an event of its page are in *)
(* the page: they have fewer predecessors.                                 *)
(***************************************************************************)

LEMMA FirstPageClosed ==
  ASSUME NEW S \in SUBSET Events, IsFiniteSet(S),
         NEW f \in FirstPage(S), NEW e \in S, Before(e, f)
  PROVE  e \in FirstPage(S)
<1> DEFINE Pred(x) == {g \in S : Before(g, x)}
<1>1. Pred(e) \subseteq Pred(f)
  <2>1. f \in S
    BY DEF FirstPage
  <2>2. \A g \in S : Before(g, e) => Before(g, f)
    BY <2>1 DEF Before, Events
  <2>3. QED
    BY <2>2
<1>2. Cardinality(Pred(f)) < PageSize
  BY DEF FirstPage
<1>3. IsFiniteSet(Pred(f)) /\ IsFiniteSet(Pred(e))
  BY FS_Subset
<1>4. Cardinality(Pred(e)) <= Cardinality(Pred(f))
  BY <1>1, <1>3, FS_Subset
<1>5. Cardinality(Pred(e)) \in Nat /\ Cardinality(Pred(f)) \in Nat
  BY <1>3, FS_CardinalityType
<1>6. Cardinality(Pred(e)) < PageSize
  BY <1>2, <1>4, <1>5, NumbersAssumption
<1>7. QED
  BY <1>6 DEF FirstPage

(* The events of one block are a finite set. *)
LEMMA BlockFinite ==
  ASSUME NEW b, NEW n \in Nat
  PROVE  IsFiniteSet({<<b, i>> : i \in 1 .. n})
<1> DEFINE T == {<<b, i>> : i \in 1 .. n}
           f == [i \in 1 .. n |-> <<b, i>>]
<1>1. IsFiniteSet(1 .. n)
  BY FS_Interval
<1>2. f \in Surjection(1 .. n, T)
  BY DEF Surjection
<1>3. QED
  BY <1>1, <1>2, FS_Surjection

-----------------------------------------------------------------------------
(***************************************************************************)
(* No gaps. A block is indexed after all the others; whatever is missing   *)
(* comes from the block a located run starts at, or later; and a fetched   *)
(* page misses nothing that comes before one of its events.                *)
(***************************************************************************)

Grown ==
    /\ IsFiniteSet(indexed)
    /\ \A e \in indexed : Block(e) <= head

StartsBehind ==
    \A p \in Processes : pc[p] = "located" =>
        /\ from[p] <= head
        /\ \A e \in indexed : Block(e) < from[p] => e \in stored

PageClosed ==
    \A p \in Processes : pc[p] = "fetched" =>
        \A f \in page[p] : \A e \in indexed :
            Block(e) < Block(f) => e \in stored \cup page[p]

GapInv == Grown /\ (feed \in GteFeeds => NoGaps /\ StartsBehind /\ PageClosed)

(* A step that leaves the subgraph alone and stores nothing keeps NoGaps. *)
LEMMA NoGapsKept ==
  ASSUME NoGaps, UNCHANGED <<subgraphVars, stored>>
  PROVE  NoGaps'
  BY DEF NoGaps, subgraphVars

(* A run that is over, or saves its cursor, has neither a start nor a page. *)
LEMMA LocalsReset ==
  ASSUME TypeOK, NEW p \in Processes, Return(p) \/ GoOnToCursor(p)
  PROVE  \A q \in Processes :
            /\ pc'[q] = "located" => pc[q] = "located" /\ from'[q] = from[q]
            /\ pc'[q] = "fetched" => pc[q] = "fetched" /\ page'[q] = page[q]
  BY DEF TypeOK, Return, GoOnToCursor

LEMMA GapStep == TypeOK /\ GapInv /\ [Next]_vars => GapInv'
<1> SUFFICES ASSUME TypeOK, GapInv, [Next]_vars PROVE GapInv'
  OBVIOUS
<1>1. CASE IndexBlock
  <2>1. PICK n \in 0 .. MaxPerBlock :
          indexed' = indexed \cup {<<head + 1, i>> : i \in 1 .. n}
    BY <1>1 DEF IndexBlock
  <2>2. head' = head + 1 /\ UNCHANGED <<feed, stored, cursor, pc, from, page>>
    BY <1>1 DEF IndexBlock
  <2>3. \A e \in indexed' : e \in indexed \/ Block(e) = head + 1
    BY <2>1 DEF Block
  <2>4. \A e \in indexed : Block(e) \in Nat /\ Block(e) <= head
    BY DEF TypeOK, Events, Block, GapInv, Grown
  <2>5. IsFiniteSet(indexed')
    <3>n. n \in Nat
      BY NumbersAssumption
    <3>1. IsFiniteSet({<<head + 1, i>> : i \in 1 .. n})
      BY <3>n, BlockFinite, Zenon
    <3>2. IsFiniteSet(indexed)
      BY DEF GapInv, Grown
    <3>3. QED
      BY <2>1, <3>1, <3>2, FS_Union
  <2>6. Grown'
    BY <2>2, <2>3, <2>4, <2>5 DEF Grown, TypeOK
  <2>7. ASSUME feed \in GteFeeds PROVE NoGaps' /\ StartsBehind' /\ PageClosed'
    <3>1. NoGaps'
      BY <2>2, <2>3, <2>4, <2>7 DEF NoGaps, GapInv, TypeOK
    <3>2. StartsBehind'
      BY <2>2, <2>3, <2>4, <2>7 DEF StartsBehind, GapInv, TypeOK
    <3>3. PageClosed'
      BY <2>2, <2>3, <2>4, <2>7 DEF PageClosed, GapInv, TypeOK
    <3>4. QED
      BY <3>1, <3>2, <3>3
  <2>8. QED
    BY <2>2, <2>6, <2>7 DEF GapInv
<1>2. ASSUME NEW p \in Processes, Locate(p) PROVE GapInv'
  <2>1. PICK latest \in 0 .. head :
          IsLatest(latest) /\ from' = [from EXCEPT ![p] = StartBlock(latest)]
    BY <1>2 DEF Locate
  <2>2. UNCHANGED <<subgraphVars, stored, page>> /\ pc' = [pc EXCEPT ![p] = "located"]
    BY <1>2 DEF Locate
  <2>3. Grown'
    BY <2>2 DEF Grown, subgraphVars, GapInv
  <2>4. ASSUME feed \in GteFeeds PROVE NoGaps' /\ StartsBehind' /\ PageClosed'
    <3>1. from'[p] = latest /\ latest \in Nat /\ latest <= head
      BY <2>1, <2>4 DEF StartBlock, TypeOK
    <3>2. \A e \in indexed : Block(e) < latest => e \in stored
      <4>1. feed \notin CursorFeeds
        BY <2>4 DEF GteFeeds, CursorFeeds
      <4>2. CASE stored = {}
        BY <2>1, <4>1, <4>2 DEF IsLatest, TypeOK, Events, Block
      <4>3. CASE stored # {}
        <5>1. PICK f \in stored : Block(f) = latest
          BY <2>1, <4>1, <4>3 DEF IsLatest, IsHighest, Blocks
        <5>2. QED
          BY <2>4, <5>1 DEF GapInv, NoGaps
      <4>4. QED
        BY <4>2, <4>3
    <3>3. StartsBehind'
      <4> SUFFICES ASSUME NEW q \in Processes, pc'[q] = "located"
                   PROVE  /\ from'[q] <= head
                          /\ \A e \in indexed : Block(e) < from'[q] => e \in stored
        BY <2>2 DEF StartsBehind, subgraphVars
      <4>1. CASE q = p
        BY <3>1, <3>2, <4>1
      <4>2. CASE q # p
        <5>1. pc[q] = "located" /\ from'[q] = from[q]
          BY <2>1, <2>2, <4>2 DEF TypeOK
        <5>2. QED
          BY <2>4, <5>1 DEF GapInv, StartsBehind
      <4>3. QED
        BY <4>1, <4>2
    <3>4. \A q \in Processes : pc'[q] = "fetched" => pc[q] = "fetched"
      BY <2>2 DEF TypeOK
    <3>5. PageClosed'
      BY <2>2, <2>4, <3>4 DEF PageClosed, subgraphVars, GapInv
    <3>6. QED
      BY <2>2, <2>4, <3>3, <3>5, NoGapsKept DEF GapInv
  <2>5. QED
    BY <2>2, <2>3, <2>4 DEF GapInv, subgraphVars
<1>3. ASSUME NEW p \in Processes, Fetch(p) PROVE GapInv'
  <2> DEFINE S == {e \in indexed : Block(e) >= from[p]}
  <2>1. pc[p] = "located" /\ UNCHANGED <<subgraphVars, stored>>
    BY <1>3 DEF Fetch
  <2>2. page' = [page EXCEPT ![p] = FirstPage(S)] /\ pc' = [pc EXCEPT ![p] = "fetched"]
    BY <1>3 DEF Fetch
  <2>3. Grown'
    BY <2>1 DEF Grown, subgraphVars, GapInv
  <2>4. ASSUME feed \in GteFeeds PROVE NoGaps' /\ StartsBehind' /\ PageClosed'
    <3>1. \A q \in Processes : pc'[q] = "located" => pc[q] = "located" /\ from'[q] = from[q]
      BY <1>3, <2>2 DEF TypeOK, Fetch
    <3>2. StartsBehind'
      BY <2>1, <2>4, <3>1 DEF StartsBehind, subgraphVars, GapInv
    <3>3. S \in SUBSET Events /\ IsFiniteSet(S)
      <4>1. S \in SUBSET indexed
        OBVIOUS
      <4>2. IsFiniteSet(S)
        BY <4>1, FS_Subset DEF GapInv, Grown
      <4>3. QED
        BY <4>1, <4>2 DEF TypeOK
    <3>4. ASSUME NEW f \in FirstPage(S), NEW e \in indexed, Block(e) < Block(f)
          PROVE  e \in stored \cup FirstPage(S)
      <4>1. CASE e \in S
        <5>1. Before(e, f)
          BY <3>4 DEF Before, Block
        <5>2. QED
          BY <3>3, <4>1, <5>1, FirstPageClosed
      <4>2. CASE e \notin S
        <5>1. Block(e) \in Nat /\ from[p] \in Nat
          BY DEF TypeOK, Events, Block
        <5>2. Block(e) < from[p]
          BY <4>2, <5>1
        <5>3. QED
          BY <2>1, <2>4, <5>2 DEF GapInv, StartsBehind
      <4>3. QED
        BY <4>1, <4>2
    <3>5. PageClosed'
      <4> SUFFICES ASSUME NEW q \in Processes, pc'[q] = "fetched",
                          NEW f \in page'[q], NEW e \in indexed, Block(e) < Block(f)
                   PROVE  e \in stored \cup page'[q]
        BY <2>1 DEF PageClosed, subgraphVars
      <4>1. CASE q = p
        <5>1. page'[q] = FirstPage(S)
          BY <2>2, <4>1 DEF TypeOK
        <5>2. QED
          BY <3>4, <5>1
      <4>2. CASE q # p
        <5>1. pc[q] = "fetched" /\ page'[q] = page[q]
          BY <2>2, <4>2 DEF TypeOK
        <5>2. QED
          BY <2>4, <5>1 DEF GapInv, PageClosed
      <4>3. QED
        BY <4>1, <4>2
    <3>6. QED
      BY <2>1, <2>4, <3>2, <3>5, NoGapsKept DEF GapInv
  <2>5. QED
    BY <2>1, <2>3, <2>4 DEF GapInv, subgraphVars
<1>4. ASSUME NEW p \in Processes, Insert(p) PROVE GapInv'
  <2>1. /\ pc[p] = "fetched"
        /\ UNCHANGED subgraphVars
        /\ stored' = stored \cup page[p]
        /\ Return(p) \/ GoOnToCursor(p)
    BY <1>4 DEF Insert
  <2>2. Grown'
    BY <2>1 DEF Grown, subgraphVars, GapInv
  <2>3. ASSUME feed \in GteFeeds PROVE NoGaps' /\ StartsBehind' /\ PageClosed'
    <3>1. NoGaps'
      BY <2>1, <2>3 DEF NoGaps, GapInv, PageClosed, subgraphVars
    <3>2. StartsBehind'
      BY <2>1, <2>3, LocalsReset DEF StartsBehind, GapInv, subgraphVars
    <3>3. PageClosed'
      BY <2>1, <2>3, LocalsReset DEF PageClosed, GapInv, subgraphVars
    <3>4. QED
      BY <3>1, <3>2, <3>3
  <2>4. QED
    BY <2>1, <2>2, <2>3 DEF GapInv, subgraphVars
<1>5. ASSUME NEW p \in Processes, InsertFails(p) \/ SaveCursor(p) \/ Abort(p) PROVE GapInv'
  <2>1. UNCHANGED <<subgraphVars, stored>> /\ (Return(p) \/ GoOnToCursor(p))
    BY <1>5 DEF InsertFails, SaveCursor, Abort
  <2>2. Grown'
    BY <2>1 DEF Grown, subgraphVars, GapInv
  <2>3. ASSUME feed \in GteFeeds PROVE NoGaps' /\ StartsBehind' /\ PageClosed'
    <3>1. StartsBehind'
      BY <2>1, <2>3, LocalsReset DEF StartsBehind, GapInv, subgraphVars
    <3>2. PageClosed'
      BY <2>1, <2>3, LocalsReset DEF PageClosed, GapInv, subgraphVars
    <3>3. QED
      BY <2>1, <2>3, <3>1, <3>2, NoGapsKept DEF GapInv
  <2>4. QED
    BY <2>1, <2>2, <2>3 DEF GapInv, subgraphVars
<1>6. CASE UNCHANGED vars
  BY <1>6 DEF vars, subgraphVars, GapInv, Grown, NoGaps, StartsBehind, PageClosed
<1>7. QED
  BY <1>1, <1>2, <1>3, <1>4, <1>5, <1>6 DEF Next

(* A feed that reads its newest stored block again (v2JoinExits, v2Swaps,   *)
(* v3Swaps) never has an event of an earlier block missing, whatever runs   *)
(* overlap, fail or are cut short.                                          *)
THEOREM NoGapsCorrect == Spec => []NoGaps
<1>1. Init => GapInv
  BY FS_EmptySet DEF Init, GapInv, Grown, NoGaps, StartsBehind, PageClosed
<1>2. TypeOK /\ GapInv => NoGaps
  BY DEF GapInv, NoGaps
<1>3. QED
  BY <1>1, <1>2, GapStep, TypeCorrect, PTL DEF Spec

-----------------------------------------------------------------------------
(***************************************************************************)
(* No block skipped. The same argument for v3JoinExits and cowSwaps, with  *)
(* blocks in the place of events: a block is behind a position when one of *)
(* its events is stored, or in the page that is about to be.               *)
(***************************************************************************)

BlockFeeds == {"v3JoinExits", "cowSwaps"}
InWindow(b) == feed = "v3JoinExits" => b >= SyncSince

\* The blocks up to n, those outside of the window aside, are in S.
UpTo(n, S) == \A b \in Blocks(indexed) : b <= n /\ InWindow(b) => b \in S

StoredUpTo  == \A f \in stored : UpTo(Block(f), Blocks(stored))
CursorUpTo  == cursor <= head /\ (feed = "cowSwaps" => UpTo(cursor, Blocks(stored)))
LocatedUpTo ==
    \A p \in Processes : pc[p] = "located" =>
        from[p] <= head + 1 /\ UpTo(from[p] - 1, Blocks(stored))
FetchedUpTo ==
    \A p \in Processes : pc[p] = "fetched" =>
        \A f \in page[p] : UpTo(Block(f), Blocks(stored) \cup Blocks(page[p]))
InsertedUpTo ==
    \A p \in Processes : pc[p] = "inserted" =>
        /\ feed = "cowSwaps"
        /\ \A f \in page[p] : UpTo(Block(f), Blocks(stored))

BlockInv ==
    feed \in BlockFeeds =>
        StoredUpTo /\ CursorUpTo /\ LocatedUpTo /\ FetchedUpTo /\ InsertedUpTo

(* Blocks of a union, of a part, and of events. *)
LEMMA BlocksUnion == \A S, T : Blocks(S \cup T) = Blocks(S) \cup Blocks(T)
  BY DEF Blocks

LEMMA BlocksMember == \A S : \A e \in S : Block(e) \in Blocks(S)
  BY DEF Blocks

LEMMA BlocksType ==
  ASSUME TypeOK
  PROVE  /\ \A e \in indexed : Block(e) \in Nat
         /\ Blocks(indexed) \subseteq Nat
         /\ \A e \in stored : Block(e) \in Nat
         /\ \A p \in Processes : \A e \in page[p] : Block(e) \in Nat
  BY DEF TypeOK, Blocks, Block, Events

(* While the subgraph stands still, what was behind a position stays there. *)
LEMMA UpToKept ==
  ASSUME UNCHANGED subgraphVars
  PROVE  \A n, S, T : UpTo(n, S) /\ S \subseteq T => UpTo(n, T)'
  BY DEF UpTo, InWindow, SyncSince, subgraphVars

(* A new block is after every position; the window only moves on. *)
LEMMA UpToIndexed ==
  ASSUME TypeOK, Grown, IndexBlock
  PROVE  \A n \in Int : \A S : n <= head /\ UpTo(n, S) => UpTo(n, S)'
<1>1. PICK k \in 0 .. MaxPerBlock :
        indexed' = indexed \cup {<<head + 1, i>> : i \in 1 .. k}
  BY DEF IndexBlock
<1>2. head' = head + 1 /\ feed' = feed /\ head \in Nat
  BY DEF IndexBlock, TypeOK
<1>3. \A b \in Blocks(indexed') : b \in Blocks(indexed) \/ b = head + 1
  BY <1>1 DEF Blocks, Block
<1>4. \A b \in Nat : InWindow(b)' => InWindow(b)
  BY <1>2, NumbersAssumption DEF InWindow, SyncSince
<1>5. Blocks(indexed) \subseteq Nat
  BY BlocksType
<1>6. QED
  BY <1>2, <1>3, <1>4, <1>5 DEF UpTo

(* The blocks up to one in a page are in the page, or before its start. *)
LEMMA PageUpTo ==
  ASSUME TypeOK, Grown, NEW n \in Nat, NEW S, UpTo(n - 1, S),
         NEW f \in FirstPage({e \in indexed : Block(e) >= n})
  PROVE  UpTo(Block(f), S \cup Blocks(FirstPage({e \in indexed : Block(e) >= n})))
<1> DEFINE R == {e \in indexed : Block(e) >= n}
<1>1. R \in SUBSET Events /\ IsFiniteSet(R) /\ f \in R
  <2>1. IsFiniteSet(indexed) /\ indexed \in SUBSET Events
    BY DEF Grown, TypeOK
  <2>2. QED
    BY <2>1, FS_Subset DEF FirstPage
<1> SUFFICES ASSUME NEW b \in Blocks(indexed), b <= Block(f), InWindow(b),
                    b \notin S
             PROVE  b \in Blocks(FirstPage(R))
  BY DEF UpTo
<1>2. b \in Nat /\ ~(b <= n - 1)
  BY BlocksType DEF UpTo
<1>3. PICK e \in indexed : Block(e) = b
  BY DEF Blocks
<1>4. e \in R
  BY <1>2, <1>3
<1>5. CASE b = Block(f)
  BY <1>5, BlocksMember
<1>6. CASE b # Block(f)
  <2>1. Before(e, f)
    BY <1>1, <1>2, <1>3, <1>6, BlocksType DEF Before, Block
  <2>2. e \in FirstPage(R)
    BY <1>1, <1>4, <2>1, FirstPageClosed
  <2>3. QED
    BY <1>3, <2>2, BlocksMember
<1>7. QED
  BY <1>5, <1>6

(* What Return and GoOnToCursor do to the program counters. *)
LEMMA CountersReset ==
  ASSUME TypeOK, NEW p \in Processes, Return(p) \/ GoOnToCursor(p)
  PROVE  \A q \in Processes :
            pc'[q] = "inserted" =>
                /\ page'[q] = page[q]
                /\ pc[q] = "inserted" \/ (q = p /\ GoOnToCursor(p))
  BY DEF TypeOK, Return, GoOnToCursor

LEMMA BlockStep == TypeOK /\ Grown /\ BlockInv /\ [Next]_vars => BlockInv'
<1> SUFFICES ASSUME TypeOK, Grown, BlockInv, [Next]_vars, feed \in BlockFeeds, feed' = feed
             PROVE  StoredUpTo' /\ CursorUpTo' /\ LocatedUpTo' /\ FetchedUpTo' /\ InsertedUpTo'
  <2>1. [Next]_vars => feed' = feed
    BY DEF Next, vars, subgraphVars, IndexBlock, Locate, Fetch, Insert, InsertFails,
           SaveCursor, Abort
  <2>2. QED
    BY <2>1 DEF BlockInv
<1>0. StoredUpTo /\ CursorUpTo /\ LocatedUpTo /\ FetchedUpTo /\ InsertedUpTo
  BY DEF BlockInv
<1>t. /\ \A e \in stored : Block(e) \in Nat /\ Block(e) <= head
      /\ \A q \in Processes : \A e \in page[q] : Block(e) \in Nat /\ Block(e) <= head
      /\ \A q \in Processes : from[q] \in Nat
      /\ cursor \in Nat /\ head \in Nat
  BY BlocksType DEF Grown, TypeOK
<1>1. CASE IndexBlock
  <2>1. UNCHANGED <<stored, cursor, pc, from, page>> /\ head' = head + 1
    BY <1>1 DEF IndexBlock
  <2>2. StoredUpTo'
    BY <1>0, <1>1, <1>t, <2>1, UpToIndexed DEF StoredUpTo
  <2>3. CursorUpTo'
    BY <1>0, <1>1, <1>t, <2>1, UpToIndexed DEF CursorUpTo
  <2>4. LocatedUpTo'
    <3> SUFFICES ASSUME NEW q \in Processes, pc[q] = "located"
                 PROVE  from[q] <= head + 2 /\ UpTo(from[q] - 1, Blocks(stored))'
      BY <1>t, <2>1 DEF LocatedUpTo
    <3>1. from[q] - 1 <= head /\ UpTo(from[q] - 1, Blocks(stored))
      BY <1>0, <1>t DEF LocatedUpTo
    <3>2. from[q] - 1 \in Int
      BY <1>t
    <3>3. QED
      BY <1>1, <1>t, <2>1, <3>1, <3>2, UpToIndexed
  <2>5. FetchedUpTo'
    BY <1>0, <1>1, <1>t, <2>1, UpToIndexed DEF FetchedUpTo
  <2>6. InsertedUpTo'
    BY <1>0, <1>1, <1>t, <2>1, UpToIndexed DEF InsertedUpTo
  <2>7. QED
    BY <2>2, <2>3, <2>4, <2>5, <2>6
<1>2. ASSUME NEW p \in Processes, Locate(p)
      PROVE  StoredUpTo' /\ CursorUpTo' /\ LocatedUpTo' /\ FetchedUpTo' /\ InsertedUpTo'
  <2>1. PICK latest \in 0 .. head :
          IsLatest(latest) /\ from' = [from EXCEPT ![p] = StartBlock(latest)]
    BY <1>2 DEF Locate
  <2>2. UNCHANGED <<subgraphVars, stored, cursor, page>> /\ pc' = [pc EXCEPT ![p] = "located"]
    BY <1>2 DEF Locate
  <2>h. head' = head
    BY <2>2 DEF subgraphVars
  <2>3. StoredUpTo'
    BY <1>0, <2>2, UpToKept DEF StoredUpTo
  <2>4. CursorUpTo'
    BY <1>0, <2>2, <2>h, UpToKept DEF CursorUpTo
  <2>5. \A q \in Processes : q # p => pc'[q] = pc[q] /\ from'[q] = from[q]
    BY <2>1, <2>2 DEF TypeOK
  <2>6. from'[p] = StartBlock(latest) /\ pc'[p] = "located"
    BY <2>1, <2>2 DEF TypeOK
  <2>7. StartBlock(latest) <= head + 1 /\ UpTo(StartBlock(latest) - 1, Blocks(stored))
    <3>1. latest \in Nat /\ latest <= head
      BY <1>t
    <3>2. (feed = "v3JoinExits" /\ latest <= SyncSince) \/ UpTo(latest, Blocks(stored))
      <4>1. CASE feed = "cowSwaps"
        BY <1>0, <2>1, <4>1 DEF CursorUpTo, IsLatest, CursorFeeds
      <4>2. CASE feed = "v3JoinExits" /\ stored = {}
        BY <1>t, <2>1, <4>2, NumbersAssumption DEF IsLatest, CursorFeeds, SyncSince
      <4>3. CASE feed = "v3JoinExits" /\ stored # {}
        <5>1. PICK f \in stored : Block(f) = latest
          BY <2>1, <4>3 DEF IsLatest, CursorFeeds, IsHighest, Blocks
        <5>2. QED
          BY <1>0, <5>1 DEF StoredUpTo
      <4>4. QED
        BY <4>1, <4>2, <4>3 DEF BlockFeeds
    <3>3. QED
      BY <1>t, <3>1, <3>2, BlocksType, NumbersAssumption
      DEF StartBlock, SyncSince, UpTo, InWindow, BlockFeeds, GteFeeds
  <2>8. LocatedUpTo'
    BY <1>0, <2>2, <2>h, <2>5, <2>6, <2>7, UpToKept DEF LocatedUpTo
  <2>9. \A q \in Processes : pc'[q] \in {"fetched", "inserted"} => pc'[q] = pc[q]
    BY <2>2 DEF TypeOK
  <2>10. FetchedUpTo'
    BY <1>0, <2>2, <2>9, UpToKept DEF FetchedUpTo
  <2>11. InsertedUpTo'
    BY <1>0, <2>2, <2>9, UpToKept DEF InsertedUpTo, subgraphVars
  <2>12. QED
    BY <2>3, <2>4, <2>8, <2>10, <2>11
<1>3. ASSUME NEW p \in Processes, Fetch(p)
      PROVE  StoredUpTo' /\ CursorUpTo' /\ LocatedUpTo' /\ FetchedUpTo' /\ InsertedUpTo'
  <2> DEFINE P == FirstPage({e \in indexed : Block(e) >= from[p]})
  <2>1. /\ pc[p] = "located" /\ UNCHANGED <<subgraphVars, stored, cursor>>
        /\ page' = [page EXCEPT ![p] = P] /\ pc' = [pc EXCEPT ![p] = "fetched"]
        /\ from' = [from EXCEPT ![p] = 0]
    BY <1>3 DEF Fetch
  <2>h. head' = head
    BY <2>1 DEF subgraphVars
  <2>2. StoredUpTo' /\ CursorUpTo'
    BY <1>0, <2>1, <2>h, UpToKept DEF StoredUpTo, CursorUpTo
  <2>3. \A q \in Processes : q # p => pc'[q] = pc[q] /\ from'[q] = from[q] /\ page'[q] = page[q]
    BY <2>1 DEF TypeOK
  <2>4. pc'[p] = "fetched" /\ page'[p] = P
    BY <2>1 DEF TypeOK
  <2>5. LocatedUpTo'
    BY <1>0, <2>1, <2>h, <2>3, <2>4, UpToKept DEF LocatedUpTo
  <2>6. \A f \in P : UpTo(Block(f), Blocks(stored) \cup Blocks(P))
    <3>1. from[p] \in Nat /\ UpTo(from[p] - 1, Blocks(stored))
      BY <1>0, <1>t, <2>1 DEF LocatedUpTo
    <3>2. QED
      BY <3>1, PageUpTo
  <2> HIDE DEF P
  <2>7. FetchedUpTo'
    <3> SUFFICES ASSUME NEW q \in Processes, pc'[q] = "fetched", NEW f \in page'[q]
                 PROVE  UpTo(Block(f), Blocks(stored) \cup Blocks(page[q]))'
      BY DEF FetchedUpTo
    <3>1. CASE q = p
      BY <2>1, <2>4, <2>6, <3>1, UpToKept
    <3>2. CASE q # p
      BY <1>0, <2>1, <2>3, <3>2, UpToKept DEF FetchedUpTo
    <3>3. QED
      BY <3>1, <3>2
  <2>8. InsertedUpTo'
    BY <1>0, <2>1, <2>3, <2>4, UpToKept DEF InsertedUpTo, subgraphVars
  <2>9. QED
    BY <2>2, <2>5, <2>7, <2>8
<1>4. ASSUME NEW p \in Processes, Insert(p)
      PROVE  StoredUpTo' /\ CursorUpTo' /\ LocatedUpTo' /\ FetchedUpTo' /\ InsertedUpTo'
  <2>1. /\ pc[p] = "fetched" /\ UNCHANGED <<subgraphVars, cursor>>
        /\ stored' = stored \cup page[p]
        /\ Return(p) \/ (feed = "cowSwaps" /\ GoOnToCursor(p))
    BY <1>4 DEF Insert, CursorFeeds, BlockFeeds
  <2>h. head' = head
    BY <2>1 DEF subgraphVars
  <2>2. Blocks(stored') = Blocks(stored) \cup Blocks(page[p])
    BY <2>1, BlocksUnion
  <2>3. \A f \in page[p] : UpTo(Block(f), Blocks(stored'))
    BY <1>0, <2>1, <2>2 DEF FetchedUpTo
  <2>4. StoredUpTo'
    <3> SUFFICES ASSUME NEW f \in stored' PROVE UpTo(Block(f), Blocks(stored))'
      BY DEF StoredUpTo
    <3>1. CASE f \in stored
      BY <1>0, <2>1, <2>2, <3>1, UpToKept DEF StoredUpTo
    <3>2. CASE f \in page[p]
      BY <2>1, <2>3, <3>2, UpToKept
    <3>3. QED
      BY <2>1, <3>1, <3>2
  <2>5. CursorUpTo'
    BY <1>0, <2>1, <2>2, <2>h, UpToKept DEF CursorUpTo, subgraphVars
  <2>6. LocatedUpTo'
    BY <1>0, <2>1, <2>2, <2>h, UpToKept, LocalsReset DEF LocatedUpTo
  <2>7. FetchedUpTo'
    <3> SUFFICES ASSUME NEW q \in Processes, pc'[q] = "fetched", NEW f \in page'[q]
                 PROVE  UpTo(Block(f), Blocks(stored) \cup Blocks(page[q]))'
      BY DEF FetchedUpTo
    <3>1. pc[q] = "fetched" /\ page'[q] = page[q]
      BY <2>1, LocalsReset
    <3>2. UpTo(Block(f), Blocks(stored) \cup Blocks(page[q]))
      BY <1>0, <3>1 DEF FetchedUpTo
    <3>3. QED
      BY <2>1, <2>2, <3>1, <3>2, UpToKept
  <2>8. InsertedUpTo'
    <3> SUFFICES ASSUME NEW q \in Processes, pc'[q] = "inserted"
                 PROVE  /\ feed' = "cowSwaps"
                        /\ \A f \in page'[q] : UpTo(Block(f), Blocks(stored))'
      BY DEF InsertedUpTo
    <3>1. CASE pc[q] = "inserted"
      BY <1>0, <2>1, <2>2, <3>1, CountersReset, UpToKept DEF InsertedUpTo, subgraphVars
    <3>2. CASE pc[q] # "inserted"
      <4>1. q = p /\ GoOnToCursor(p) /\ page'[q] = page[q]
        BY <2>1, <3>2, CountersReset
      <4>2. ~Return(p)
        BY <4>1, <2>1 DEF TypeOK, Return, GoOnToCursor
      <4>3. QED
        BY <2>1, <2>3, <4>1, <4>2, UpToKept
    <3>3. QED
      BY <3>1, <3>2
  <2>9. QED
    BY <2>4, <2>5, <2>6, <2>7, <2>8
<1>5. ASSUME NEW p \in Processes, InsertFails(p) \/ Abort(p)
      PROVE  StoredUpTo' /\ CursorUpTo' /\ LocatedUpTo' /\ FetchedUpTo' /\ InsertedUpTo'
  <2>1. UNCHANGED <<subgraphVars, stored, cursor>> /\ Return(p)
    BY <1>5 DEF InsertFails, Abort, BlockFeeds
  <2>h. head' = head
    BY <2>1 DEF subgraphVars
  <2>2. StoredUpTo' /\ CursorUpTo'
    BY <1>0, <2>1, <2>h, UpToKept DEF StoredUpTo, CursorUpTo
  <2>3. LocatedUpTo' /\ FetchedUpTo'
    BY <1>0, <2>1, <2>h, UpToKept, LocalsReset DEF LocatedUpTo, FetchedUpTo
  <2>4. \A q \in Processes : pc'[q] = "inserted" => pc[q] = "inserted" /\ page'[q] = page[q]
    BY <2>1 DEF Return, TypeOK
  <2>5. InsertedUpTo'
    BY <1>0, <2>1, <2>4, UpToKept DEF InsertedUpTo, subgraphVars
  <2>6. QED
    BY <2>2, <2>3, <2>5
<1>6. ASSUME NEW p \in Processes, SaveCursor(p)
      PROVE  StoredUpTo' /\ CursorUpTo' /\ LocatedUpTo' /\ FetchedUpTo' /\ InsertedUpTo'
  <2>1. UNCHANGED <<subgraphVars, stored>> /\ Return(p) /\ pc[p] = "inserted"
    BY <1>6 DEF SaveCursor
  <2>h. head' = head
    BY <2>1 DEF subgraphVars
  <2>2. StoredUpTo'
    BY <1>0, <2>1, UpToKept DEF StoredUpTo
  <2>5. LocatedUpTo' /\ FetchedUpTo'
    BY <1>0, <2>1, <2>h, UpToKept, LocalsReset DEF LocatedUpTo, FetchedUpTo
  <2>6. \A q \in Processes : pc'[q] = "inserted" => pc[q] = "inserted" /\ page'[q] = page[q]
    BY <2>1 DEF Return, TypeOK
  <2>7. InsertedUpTo'
    BY <1>0, <2>1, <2>6, UpToKept DEF InsertedUpTo, subgraphVars
  <2>8. CursorUpTo'
    <3>1. CASE cursor' = cursor
      BY <1>0, <2>1, <2>h, <3>1, UpToKept DEF CursorUpTo, subgraphVars
    <3>2. CASE cursor' # cursor
      <4>1. PICK f \in page[p] : cursor' = Block(f)
        BY <1>6, <3>2 DEF SaveCursor, IsHighest, Blocks
      <4>2. UpTo(Block(f), Blocks(stored))
        BY <1>0, <2>1 DEF InsertedUpTo
      <4>3. QED
        BY <1>t, <2>1, <2>h, <4>1, <4>2, UpToKept DEF CursorUpTo
    <3>3. QED
      BY <3>1, <3>2
  <2>9. QED
    BY <2>2, <2>5, <2>7, <2>8
<1>7. CASE UNCHANGED vars
  BY <1>0, <1>7, UpToKept
  DEF vars, subgraphVars, StoredUpTo, CursorUpTo, LocatedUpTo, FetchedUpTo, InsertedUpTo
<1>8. QED
  BY <1>1, <1>2, <1>3, <1>4, <1>5, <1>6, <1>7 DEF Next

LEMMA InvariantsInit == Init => GapInv /\ BlockInv
  BY FS_EmptySet, NumbersAssumption
  DEF Init, GapInv, Grown, NoGaps, StartsBehind, PageClosed, BlockInv, StoredUpTo,
      CursorUpTo, LocatedUpTo, FetchedUpTo, InsertedUpTo, UpTo, Blocks

(* A feed that goes on after its newest block (v3JoinExits inside of its    *)
(* window, cowSwaps up to its cursor row) splits blocks, but never skips    *)
(* one.                                                                     *)
THEOREM NoBlockSkippedCorrect == Spec => []NoBlockSkipped
<1>1. Init => GapInv /\ BlockInv
  BY InvariantsInit
<1>2. GapInv => Grown
  BY DEF GapInv
<1>3. TypeOK /\ BlockInv => NoBlockSkipped
  <2> SUFFICES ASSUME TypeOK, BlockInv, feed \in BlockFeeds, NEW b \in Blocks(indexed),
                      Passed(b), InWindow(b)
               PROVE  b \in Blocks(stored)
    BY DEF NoBlockSkipped, GtFeeds, BlockFeeds, InWindow
  <2>1. CASE feed = "cowSwaps"
    BY <2>1 DEF BlockInv, CursorUpTo, UpTo, Passed, CursorFeeds
  <2>2. CASE feed = "v3JoinExits"
    <3>1. PICK e \in stored : b <= Block(e)
      BY <2>2 DEF Passed, CursorFeeds
    <3>2. QED
      BY <3>1 DEF BlockInv, StoredUpTo, UpTo
  <2>3. QED
    BY <2>1, <2>2 DEF BlockFeeds
<1>4. QED
  BY <1>1, <1>2, <1>3, GapStep, BlockStep, TypeCorrect, PTL DEF Spec

-----------------------------------------------------------------------------
(***************************************************************************)
(* The sync implements BlockCopy: indexing a block is Grow, storing a page *)
(* is Extend, and every other step changes neither copy nor source.        *)
(***************************************************************************)

LEMMA PromisedEmpty == Promised({}) = {}
  BY DEF Promised, Blocks

(* What is promised of more events is more. *)
LEMMA PromisedMonotone == \A S, T : S \subseteq T => Promised(S) \subseteq Promised(T)
  BY DEF Promised, Blocks

LEMMA PromisedKept ==
  ASSUME feed' = feed
  PROVE  /\ \A S : Promised(S)' = Promised(S)
         /\ UNCHANGED indexed => UNCHANGED Promised(indexed)
         /\ UNCHANGED stored => UNCHANGED Promised(stored)
  BY DEF Promised, Blocks, Block

(* Indexing a block. *)
LEMMA GrowStep ==
  ASSUME TypeOK, Grown, IndexBlock
  PROVE  Copy!Grow
<1>1. PICK n \in 0 .. MaxPerBlock :
        indexed' = indexed \cup {<<head + 1, i>> : i \in 1 .. n}
  BY DEF IndexBlock
<1>2. UNCHANGED <<feed, stored>> /\ head \in Nat
  BY DEF IndexBlock, TypeOK
<1>3. Promised(indexed) \subseteq Promised(indexed)'
  BY <1>1, <1>2 DEF Promised, Blocks
<1>4. \A e \in indexed' : e \in indexed \/ e[1] = head + 1
  BY <1>1
<1>5. \A f \in indexed : f[1] \in Nat /\ f[1] <= head
  BY BlocksType DEF Grown, Block
<1>6. \A f \in Promised(indexed) : f[1] \in Nat /\ f[1] <= head
  BY <1>5 DEF Promised, Blocks, Block
<1>7. \A e \in Promised(indexed)' : e \in Promised(indexed) \/ e[1] = head + 1
  BY <1>2, <1>4 DEF Promised, Blocks, Block
<1>8. \A e \in Promised(indexed)' \ Promised(indexed) :
        \A f \in Promised(indexed) : f[1] < e[1]
  BY <1>2, <1>6, <1>7
<1>9. QED
  BY <1>2, <1>3, <1>8, PromisedKept DEF Copy!Grow

(* What is stored is gapless. *)
LEMMA GaplessStored ==
  TypeOK /\ GapInv /\ BlockInv => Copy!Gapless(Promised(indexed), Promised(stored))
<1> SUFFICES ASSUME TypeOK, GapInv, BlockInv
             PROVE  Copy!Gapless(Promised(indexed), Promised(stored))
  OBVIOUS
<1>1. CASE feed \in GteFeeds
  BY <1>1 DEF GapInv, NoGaps, Copy!Gapless, Promised, Block
<1>2. CASE feed = "cowSwaps"
  <2>1. StoredUpTo
    BY <1>2 DEF BlockInv, BlockFeeds
  <2>2. ASSUME NEW f \in Blocks(stored), NEW b \in Blocks(indexed), b < f
        PROVE  b \in Blocks(stored)
    <3>1. PICK g \in stored : f = Block(g)
      BY DEF Blocks
    <3>2. b \in Nat /\ f \in Nat
      BY <3>1, BlocksType
    <3>3. QED
      BY <1>2, <2>1, <2>2, <3>1, <3>2 DEF StoredUpTo, UpTo, InWindow
  <2>3. feed \notin GteFeeds
    BY <1>2 DEF GteFeeds
  <2>4. /\ Promised(stored) = {<<b, 0>> : b \in Blocks(stored)}
        /\ Promised(indexed) = {<<b, 0>> : b \in Blocks(indexed)}
    BY <1>2, <2>3 DEF Promised
  <2>5. QED
    BY <2>2, <2>4 DEF Copy!Gapless
<1>3. CASE feed \notin GteFeeds \cup {"cowSwaps"}
  BY <1>3 DEF Copy!Gapless, Promised
<1>4. QED
  BY <1>1, <1>2, <1>3

LEMMA CopyStep ==
  ASSUME TypeOK, GapInv, BlockInv, TypeOK', GapInv', BlockInv', [Next]_vars
  PROVE  [Copy!Next]_(Copy!vars)
<1>1. CASE IndexBlock
  BY <1>1, GrowStep DEF GapInv, Copy!Next
<1>2. ASSUME NEW p \in Processes, Insert(p) PROVE [Copy!Next]_(Copy!vars)
  <2>1. UNCHANGED <<feed, indexed>> /\ stored \subseteq stored'
    BY <1>2 DEF Insert, subgraphVars
  <2>2. UNCHANGED Promised(indexed)
    BY <2>1, PromisedKept
  <2>3. Promised(stored) \subseteq Promised(stored)'
    BY <2>1 DEF Promised, Blocks
  <2>4. Promised(stored)' \subseteq Promised(indexed)
    <3>1. stored' \subseteq indexed
      BY <2>1 DEF TypeOK
    <3>2. QED
      BY <2>1, <3>1 DEF Promised, Blocks
  <2>5. Copy!Gapless(Promised(indexed), Promised(stored))'
    BY GaplessStored, PTL
  <2>6. QED
    BY <2>2, <2>3, <2>4, <2>5 DEF Copy!Next, Copy!Extend, Copy!Gapless
<1>3. ASSUME UNCHANGED <<feed, indexed, stored>> PROVE [Copy!Next]_(Copy!vars)
  BY <1>3, PromisedKept DEF Copy!vars
<1>4. ASSUME NEW p \in Processes,
             Locate(p) \/ Fetch(p) \/ InsertFails(p) \/ SaveCursor(p) \/ Abort(p)
      PROVE  UNCHANGED <<feed, indexed, stored>>
  BY <1>4 DEF Locate, Fetch, InsertFails, SaveCursor, Abort, subgraphVars
<1>5. QED
  BY <1>1, <1>2, <1>3, <1>4 DEF Next, vars, subgraphVars

(* The table of pool events is an ordered copy of the subgraph's events (of *)
(* their blocks, for cowSwaps), whatever runs overlap or fail.              *)
THEOREM CopiesInOrderCorrect == Spec => CopiesInOrder
<1>1. Init => Copy!Init
  BY PromisedEmpty DEF Init, Copy!Init
<1>2. Init => GapInv /\ BlockInv
  BY InvariantsInit
<1>3. TypeOK /\ GapInv /\ BlockInv /\ [Next]_vars => GapInv' /\ BlockInv'
  BY GapStep, BlockStep DEF GapInv
<1>4. TypeOK /\ GapInv /\ BlockInv /\ TypeOK' /\ GapInv' /\ BlockInv' /\ [Next]_vars
        => [Copy!Next]_(Copy!vars)
  BY CopyStep
<1>5. QED
  BY <1>1, <1>2, <1>3, <1>4, TypeCorrect, PTL DEF Spec, CopiesInOrder, Copy!Spec

=============================================================================
