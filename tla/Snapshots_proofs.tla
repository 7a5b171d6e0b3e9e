-------------------------- MODULE Snapshots_proofs --------------------------
(***************************************************************************)
(* Proofs about the daily snapshots: types, that the stored values of the  *)
(* days are the differences of the totals, that a row that is out of date  *)
(* is asked for again, that no swap is counted twice in a sum, and that    *)
(* no total goes back.                                                     *)
(*                                                                         *)
(* What is kept of the stored rows is said for any chain and any rows:     *)
(* Core, that they have no gap, right differences, bounded sums, right     *)
(* totals but for the last one, and nothing out of date that has not       *)
(* changed since a block c; Near, that what has changed since c is not     *)
(* before the two latest rows, the only ones that a run reads. CatchesUp   *)
(* and SyncsAll show that a run makes such rows from such rows, CoreLater  *)
(* and NearLater that they stay so while the chain grows, StillRight that  *)
(* they are so after every transaction. Inv says of every step of a run    *)
(* for which block its rows, and those that are stored, are so.            *)
(*                                                                         *)
(* A run that is cut off may leave rows that are not so. Kept is what is   *)
(* left of it then: sums and totals are bounded, and every day that has    *)
(* not changed since a block is stored as the subgraph has it. FreeInv     *)
(* says of every step for which block that is so, without conditions;      *)
(* LosesNothing shows that a run keeps it and takes no total back,         *)
(* KeptLater that it stays so while the chain grows.                       *)
(***************************************************************************)
EXTENDS Snapshots, TLAPS, FiniteSetTheorems, WellFoundedInduction

-----------------------------------------------------------------------------
(***************************************************************************)
(* Least and greatest numbers. The library's induction theorems take an    *)
(* operator; its theorem on well-founded orders does not, and a proof by   *)
(* induction is one about the least counterexample.                        *)
(***************************************************************************)

LEMMA Least ==
    ASSUME NEW T, T \subseteq Nat, T # {}
    PROVE  \E x \in T : \A y \in T : x <= y
<1>1. IsWellFoundedOn(OpToRel(<, Nat), Nat)
  BY NatLessThanWellFounded
<1>2. \E x \in T : \A y \in T : ~ (<<y, x>> \in OpToRel(<, Nat))
  BY <1>1, WFMin
<1>3. PICK x \in T : \A y \in T : ~ (<<y, x>> \in OpToRel(<, Nat))
  BY <1>2
<1>4. ASSUME NEW y \in T
      PROVE  x <= y
  <2>1. <<y, x>> \in Nat \X Nat /\ <<y, x>> \notin OpToRel(<, Nat)
    BY <1>3
  <2>2. ~ (y < x)
    BY <2>1 DEF OpToRel
  <2> QED
    BY <2>2
<1> QED
  BY <1>4

LEMMA MinOfSet ==
    ASSUME NEW T, T \subseteq Nat, T # {}
    PROVE  MinOf(T) \in T /\ \A y \in T : MinOf(T) <= y
<1>1. \E x \in T : \A y \in T : x <= y
  BY Least
<1> QED
  BY <1>1 DEF MinOf

\* The greatest is the least bound.
LEMMA MaxOfSet ==
    ASSUME NEW T, T \subseteq Nat, T # {}, NEW u \in Nat, \A y \in T : y <= u
    PROVE  MaxOf(T) \in T /\ \A y \in T : y <= MaxOf(T)
<1> DEFINE B == {x \in Nat : \A y \in T : y <= x}
<1>1. B \subseteq Nat /\ B # {}
  OBVIOUS
<1>2. PICK x \in B : \A y \in B : x <= y
  <2> HIDE DEF B
  <2> QED
    BY <1>1, Least
<1>3. x \in T
  <2>1. SUFFICES ASSUME x \notin T
                 PROVE  FALSE
    OBVIOUS
  <2>2. PICK t \in T : TRUE
    OBVIOUS
  <2>3. t <= x /\ t # x
    BY <2>1, <2>2
  <2>4. x - 1 \in Nat
    BY <2>3, <1>1
  <2>5. \A y \in T : y <= x - 1
    BY <2>1, <1>1
  <2> QED
    BY <2>4, <2>5, <1>2
<1>4. \E w \in T : \A y \in T : y <= w
  BY <1>3, <1>2
<1> QED
  BY <1>4 DEF MaxOf

-----------------------------------------------------------------------------
(***************************************************************************)
(* The chain and what the subgraph tells of it, for any chain bs.          *)
(***************************************************************************)

Chains == Seq([day : 1 .. MaxDay, swap : BOOLEAN])

\* The blocks up to n with a swap on the days D; the days with one; the total of a day; whether
\* a day has changed in block c or later; the day of a block.
SwapsIn(bs, n, D) == {b \in 1 .. n : bs[b].swap /\ bs[b].day \in D}
DaysIn(bs, n) == {d \in 1 .. MaxDay : SwapsIn(bs, n, {d}) # {}}
TotalIn(bs, n, d) == Cardinality(SwapsIn(bs, n, 1 .. d))
ChangedIn(bs, n, d, c) == \E b \in SwapsIn(bs, n, {d}) : b >= c
DayIn(bs, n) == IF n = 0 THEN 1 ELSE bs[n].day

\* No block is of an earlier day than one before it.
Ordered(bs) == \A i, j \in 1 .. Len(bs) : i <= j => bs[i].day <= bs[j].day

LEMMA Element ==
    ASSUME NEW S, NEW s \in Seq(S), NEW i \in 1 .. Len(s)
    PROVE  s[i] \in S
  OBVIOUS

LEMMA BlockTyped ==
    ASSUME NEW bs \in Chains, NEW b \in 1 .. Len(bs)
    PROVE  bs[b].day \in 1 .. MaxDay
<1>1. bs[b] \in [day : 1 .. MaxDay, swap : BOOLEAN]
  BY Element DEF Chains
<1> QED
  BY <1>1

LEMMA SwapsFinite ==
    ASSUME NEW bs, NEW n \in Nat, NEW D
    PROVE  IsFiniteSet(SwapsIn(bs, n, D)) /\ Cardinality(SwapsIn(bs, n, D)) \in 0 .. n
<1>1. IsFiniteSet(1 .. n) /\ Cardinality(1 .. n) = n
  BY FS_Interval
<1>2. SwapsIn(bs, n, D) \subseteq 1 .. n
  BY DEF SwapsIn
<1>3. /\ IsFiniteSet(SwapsIn(bs, n, D))
      /\ Cardinality(SwapsIn(bs, n, D)) <= Cardinality(1 .. n)
  BY <1>1, <1>2, FS_Subset
<1>4. Cardinality(SwapsIn(bs, n, D)) \in Nat
  BY <1>3, FS_CardinalityType
<1> QED
  BY <1>1, <1>3, <1>4

LEMMA TotalTyped ==
    ASSUME NEW bs, NEW n \in Nat, NEW d
    PROVE  TotalIn(bs, n, d) \in 0 .. n
  BY SwapsFinite DEF TotalIn

LEMMA TotalMonotone ==
    ASSUME NEW bs, NEW n \in Nat, NEW m \in Nat, n <= m,
           NEW d \in Int, NEW e \in Int, d <= e
    PROVE  TotalIn(bs, n, d) <= TotalIn(bs, m, e)
<1>1. SwapsIn(bs, n, 1 .. d) \subseteq SwapsIn(bs, m, 1 .. e)
  BY DEF SwapsIn
<1>2. IsFiniteSet(SwapsIn(bs, m, 1 .. e))
  BY SwapsFinite
<1> QED
  BY <1>1, <1>2, FS_Subset DEF TotalIn

\* The total does not grow on a day without a swap.
LEMMA TotalSkips ==
    ASSUME NEW bs \in Chains, NEW n \in 0 .. Len(bs), NEW d \in Int, NEW e \in Int, d <= e,
           \A x \in DaysIn(bs, n) : ~ (d < x /\ x <= e)
    PROVE  TotalIn(bs, n, e) = TotalIn(bs, n, d)
<1>1. ASSUME NEW b \in SwapsIn(bs, n, 1 .. e)
      PROVE  b \in SwapsIn(bs, n, 1 .. d)
  <2>1. b \in 1 .. n /\ b \in 1 .. Len(bs) /\ bs[b].swap /\ bs[b].day \in 1 .. e
    BY DEF SwapsIn
  <2>2. bs[b].day \in 1 .. MaxDay
    BY <2>1, BlockTyped
  <2>3. bs[b].day \in DaysIn(bs, n)
    BY <2>1, <2>2 DEF DaysIn, SwapsIn
  <2> QED
    BY <2>1, <2>3 DEF SwapsIn
<1>2. SwapsIn(bs, n, 1 .. d) \subseteq SwapsIn(bs, n, 1 .. e)
  BY DEF SwapsIn
<1>3. SwapsIn(bs, n, 1 .. d) = SwapsIn(bs, n, 1 .. e)
  BY <1>1, <1>2
<1> QED
  BY <1>3 DEF TotalIn

\* Nor in blocks of later days.
LEMMA TotalLater ==
    ASSUME NEW bs \in Chains, NEW n \in 0 .. Len(bs), NEW m \in n .. Len(bs), NEW d \in Int,
           \A b \in n + 1 .. m : bs[b].swap => bs[b].day > d
    PROVE  TotalIn(bs, m, d) = TotalIn(bs, n, d)
<1>1. ASSUME NEW b \in SwapsIn(bs, m, 1 .. d)
      PROVE  b \in SwapsIn(bs, n, 1 .. d)
  <2>1. b \in 1 .. m /\ bs[b].swap /\ bs[b].day \in 1 .. d
    BY DEF SwapsIn
  <2>2. b \notin n + 1 .. m
    BY <2>1
  <2> QED
    BY <2>1, <2>2 DEF SwapsIn
<1>2. SwapsIn(bs, n, 1 .. d) \subseteq SwapsIn(bs, m, 1 .. d)
  BY DEF SwapsIn
<1>3. SwapsIn(bs, n, 1 .. d) = SwapsIn(bs, m, 1 .. d)
  BY <1>1, <1>2
<1> QED
  BY <1>3 DEF TotalIn

\* A later block is of no earlier day than any with a swap.
LEMMA DayLater ==
    ASSUME NEW bs \in Chains, Ordered(bs), NEW n \in 0 .. Len(bs), NEW m \in n .. Len(bs),
           NEW b \in n + 1 .. m, NEW d \in DaysIn(bs, n)
    PROVE  d <= bs[b].day
<1>1. PICK a \in SwapsIn(bs, n, {d}) : TRUE
  BY DEF DaysIn
<1>2. a \in 1 .. n /\ bs[a].day = d
  BY <1>1 DEF SwapsIn
<1>3. a \in 1 .. Len(bs) /\ b \in 1 .. Len(bs) /\ a <= b
  BY <1>2
<1> QED
  BY <1>2, <1>3 DEF Ordered

LEMMA DaysLater ==
    ASSUME NEW bs, NEW n \in Nat, NEW m \in Nat, n <= m
    PROVE  DaysIn(bs, n) \subseteq DaysIn(bs, m)
  BY DEF DaysIn, SwapsIn

LEMMA ChangedLater ==
    ASSUME NEW bs, NEW n \in Nat, NEW m \in Nat, n <= m, NEW d, NEW c, ChangedIn(bs, n, d, c)
    PROVE  ChangedIn(bs, m, d, c)
  BY DEF ChangedIn, SwapsIn

LEMMA ChangedEarlier ==
    ASSUME NEW bs, NEW n \in Nat, NEW d, NEW c \in Int, NEW e \in Int, e <= c,
           ChangedIn(bs, n, d, c)
    PROVE  ChangedIn(bs, n, d, e)
  BY DEF ChangedIn, SwapsIn

\* When a day has changed since block c, so have all later ones with a swap.
LEMMA ChangedUpwards ==
    ASSUME NEW bs \in Chains, Ordered(bs), NEW n \in 0 .. Len(bs), NEW c \in Int,
           NEW d \in Int, NEW e \in DaysIn(bs, n), d < e, ChangedIn(bs, n, d, c)
    PROVE  ChangedIn(bs, n, e, c)
<1>1. PICK a \in SwapsIn(bs, n, {d}) : a >= c
  BY DEF ChangedIn
<1>2. PICK b \in SwapsIn(bs, n, {e}) : TRUE
  BY DEF DaysIn
<1>3. /\ a \in 1 .. Len(bs) /\ bs[a].day = d
      /\ b \in 1 .. Len(bs) /\ bs[b].day = e
  BY <1>1, <1>2 DEF SwapsIn
<1>4. e \in Int
  BY DEF DaysIn
<1>5. ~ (b <= a)
  <2>1. b <= a => bs[b].day <= bs[a].day
    BY <1>3 DEF Ordered
  <2> QED
    BY <1>3, <1>4, <2>1
<1> QED
  BY <1>1, <1>2, <1>3, <1>5 DEF ChangedIn

\* A day with a swap between n and m, or one that had it by n.
LEMMA DaysBetween ==
    ASSUME NEW bs \in Chains, NEW n \in 0 .. Len(bs), NEW m \in n .. Len(bs),
           NEW c \in Int, c <= n, NEW d \in DaysIn(bs, m), ~ ChangedIn(bs, m, d, c)
    PROVE  /\ d \in DaysIn(bs, n) /\ ~ ChangedIn(bs, n, d, c)
           /\ \A b \in n + 1 .. m : bs[b].swap => bs[b].day # d
<1>1. ~ ChangedIn(bs, n, d, c)
  BY ChangedLater
<1>2. \A b \in n + 1 .. m : bs[b].swap => bs[b].day # d
  BY DEF ChangedIn, SwapsIn
<1>3. PICK b \in SwapsIn(bs, m, {d}) : TRUE
  BY DEF DaysIn
<1>4. b \in SwapsIn(bs, n, {d})
  BY <1>2, <1>3 DEF SwapsIn
<1> QED
  BY <1>1, <1>2, <1>4 DEF DaysIn

\* What the subgraph tells of a block does not depend on the blocks after it.
LEMMA Prefix ==
    ASSUME NEW bs \in Chains, NEW r, NEW n \in 0 .. Len(bs)
    PROVE  /\ \A D : SwapsIn(Append(bs, r), n, D) = SwapsIn(bs, n, D)
           /\ DaysIn(Append(bs, r), n) = DaysIn(bs, n)
           /\ \A d : TotalIn(Append(bs, r), n, d) = TotalIn(bs, n, d)
           /\ \A d, c : ChangedIn(Append(bs, r), n, d, c) <=> ChangedIn(bs, n, d, c)
           /\ DayIn(Append(bs, r), n) = DayIn(bs, n)
<1>1. \A b \in 1 .. n : Append(bs, r)[b] = bs[b]
  BY DEF Chains
<1>2. \A D : SwapsIn(Append(bs, r), n, D) = SwapsIn(bs, n, D)
  BY <1>1 DEF SwapsIn
<1>3. DayIn(Append(bs, r), n) = DayIn(bs, n)
  BY <1>1 DEF DayIn
<1> QED
  BY <1>2, <1>3 DEF DaysIn, TotalIn, ChangedIn

-----------------------------------------------------------------------------
(***************************************************************************)
(* Rows that are put together, for any rows.                               *)
(***************************************************************************)

\* A row whose totals are at most h, and rows of days.
Row(h) == [total : 0 .. h, daily : -h .. h, sum : Int]
AreRows(rows, h) == rows \in [DOMAIN rows -> Row(h)] /\ DOMAIN rows \subseteq 1 .. MaxDay

LEMMA RowFields ==
    ASSUME NEW h \in Nat, NEW rows, AreRows(rows, h), NEW d \in DOMAIN rows
    PROVE  /\ d \in 1 .. MaxDay /\ d \in Nat /\ rows[d] \in Row(h)
           /\ rows[d].total \in 0 .. h /\ rows[d].total \in Int
           /\ rows[d].daily \in -h .. h /\ rows[d].daily \in Int
           /\ rows[d].sum \in Int
<1>1. d \in 1 .. MaxDay /\ rows[d] \in Row(h)
  BY DEF AreRows
<1>2. d \in Nat
  BY <1>1, BoundsAssumption
<1> QED
  BY <1>1, <1>2 DEF Row

LEMMA NoRowsAre ==
    ASSUME NEW h \in Nat
    PROVE  AreRows(NoRows, h) /\ DOMAIN NoRows = {}
  BY DEF AreRows, NoRows

LEMMA EmptyIsNoRows ==
    ASSUME NEW h, NEW rows, AreRows(rows, h), DOMAIN rows = {}
    PROVE  rows = NoRows
  BY DEF AreRows, NoRows

LEMMA RowsGrow ==
    ASSUME NEW h \in Nat, NEW k \in Nat, h <= k, NEW rows, AreRows(rows, h)
    PROVE  AreRows(rows, k)
<1>1. ASSUME NEW d \in DOMAIN rows
      PROVE  rows[d] \in Row(k)
  <2>1. rows[d] \in Row(h)
    BY DEF AreRows
  <2> QED
    BY <2>1 DEF Row
<1> QED
  BY <1>1 DEF AreRows

\* The first and the last day, and the last one up to a day.
LEMMA Ends ==
    ASSUME NEW D, D \subseteq 1 .. MaxDay, D # {}
    PROVE  /\ MinOf(D) \in D /\ MaxOf(D) \in D
           /\ MinOf(D) \in 1 .. MaxDay /\ MaxOf(D) \in 1 .. MaxDay
           /\ \A x \in D : MinOf(D) <= x /\ x <= MaxOf(D)
<1>1. D \subseteq Nat /\ MaxDay \in Nat /\ \A x \in D : x <= MaxDay
  BY BoundsAssumption
<1>2. MinOf(D) \in D /\ \A x \in D : MinOf(D) <= x
  BY <1>1, MinOfSet
<1>3. MaxOf(D) \in D /\ \A x \in D : x <= MaxOf(D)
  BY <1>1, MaxOfSet
<1> QED
  BY <1>2, <1>3

LEMMA LastUpTo ==
    ASSUME NEW D, D \subseteq 1 .. MaxDay, D # {}, NEW d \in Int, MinOf(D) <= d
    PROVE  LET x == MaxOf({y \in D : y <= d})
           IN  /\ x \in D /\ x <= d
               /\ \A y \in D : y <= d => y <= x
               /\ d \in D => x = d
<1> DEFINE U == {y \in D : y <= d}
<1>1. U \subseteq 1 .. MaxDay /\ MinOf(D) \in U
  BY Ends
<1>2. MaxOf(U) \in U /\ \A y \in U : y <= MaxOf(U)
  <2> HIDE DEF U
  <2> QED
    BY <1>1, Ends
<1>3. MaxOf(U) \in Int
  BY <1>1, <1>2
<1>4. d \in D => d <= MaxOf(U)
  BY <1>2
<1>5. d \in D => MaxOf(U) = d
  <2> HIDE DEF U
  <2>1. MaxOf(U) <= d
    BY <1>2 DEF U
  <2> QED
    BY <2>1, <1>3, <1>4
<1> QED
  BY <1>2, <1>5

-----------------------------------------------------------------------------

\* The sums of ApplyUSDValues.
Sums(rows) ==
    LET sum[d \in DOMAIN rows] ==
            IF d - 1 \in DOMAIN rows THEN sum[d - 1] + rows[d].daily
            ELSE IF rows[d].sum # 0 THEN rows[d].sum
            ELSE rows[d].daily
    IN  sum

FirstSum(row) == IF row.sum # 0 THEN row.sum ELSE row.daily

\* Every value of a day after the first is what the total has grown.
Differences(rows) ==
    \A d \in DOMAIN rows :
        d - 1 \in DOMAIN rows => rows[d].daily = rows[d].total - rows[d - 1].total

SumOf(rows, sum, d) ==
    IF d - 1 \in DOMAIN rows THEN sum[d - 1] + rows[d].daily
    ELSE IF rows[d].sum # 0 THEN rows[d].sum
    ELSE rows[d].daily

LEMMA SumsRecursive ==
    ASSUME NEW rows, NEW g, g = [d \in DOMAIN rows |-> SumOf(rows, g, d)]
    PROVE  Sums(rows) = [d \in DOMAIN rows |-> SumOf(rows, Sums(rows), d)]
  BY DEF Sums, SumOf

\* The sum of a day is that of the first one and what the total has grown since.
LEMMA SumsClosed ==
    ASSUME NEW h \in Nat, NEW rows, AreRows(rows, h), NEW a \in Nat, NEW z \in Nat, a <= z,
           DOMAIN rows = a .. z, Differences(rows)
    PROVE  \A d \in a .. z : Sums(rows)[d] = FirstSum(rows[a]) + (rows[d].total - rows[a].total)
<1> DEFINE g == [d \in a .. z |-> FirstSum(rows[a]) + (rows[d].total - rows[a].total)]
           s == Sums(rows)
<1>1. /\ FirstSum(rows[a]) \in Int
      /\ \A d \in a .. z : rows[d].total \in Int /\ rows[d].daily \in Int /\ rows[d].sum \in Int
      /\ \A d \in a .. z : d - 1 \in a .. z => rows[d].daily = rows[d].total - rows[d - 1].total
  <2>1. \A d \in a .. z : rows[d].total \in Int /\ rows[d].daily \in Int /\ rows[d].sum \in Int
    BY RowFields
  <2>2. FirstSum(rows[a]) \in Int
    BY <2>1 DEF FirstSum
  <2> QED
    BY <2>1, <2>2 DEF Differences
<1>2. ASSUME NEW d \in a .. z
      PROVE  g[d] = SumOf(rows, g, d)
  <2>1. CASE d = a
    <3>1. d - 1 \notin DOMAIN rows
      BY <2>1
    <3>2. g[d] = FirstSum(rows[a])
      BY <2>1, <1>1
    <3> QED
      BY <2>1, <3>1, <3>2 DEF FirstSum, SumOf
  <2>2. CASE d # a
    <3>1. d - 1 \in a .. z
      BY <2>2
    <3>2. SumOf(rows, g, d) = g[d - 1] + rows[d].daily
      BY <3>1 DEF SumOf
    <3>3. /\ rows[d].total \in Int /\ rows[d - 1].total \in Int /\ rows[a].total \in Int
          /\ rows[d].daily = rows[d].total - rows[d - 1].total
      BY <3>1, <1>1
    <3>4. /\ g[d] = FirstSum(rows[a]) + (rows[d].total - rows[a].total)
          /\ g[d - 1] = FirstSum(rows[a]) + (rows[d - 1].total - rows[a].total)
      BY <3>1
    <3> HIDE DEF g
    <3> QED
      BY <3>2, <3>3, <3>4, <1>1
  <2> QED
    BY <2>1, <2>2
<1>3. g = [d \in DOMAIN rows |-> SumOf(rows, g, d)]
  BY <1>2
<1>4. s = [d \in DOMAIN rows |-> SumOf(rows, s, d)]
  <2> HIDE DEF g
  <2> QED
    BY <1>3, SumsRecursive
<1> HIDE DEF s
<1> DEFINE T == {d \in a .. z : s[d] # g[d]}
<1>5. CASE T # {}
  <2>1. T \subseteq Nat
    OBVIOUS
  <2>2. PICK d \in T : \A y \in T : d <= y
    <3> HIDE DEF T
    <3> QED
      BY <1>5, <2>1, Least
  <2>3. d \in a .. z /\ s[d] # g[d] /\ (d - 1 \in a .. z => s[d - 1] = g[d - 1])
    BY <2>2
  <2>4. s[d] = SumOf(rows, s, d)
    BY <1>4, <2>3
  <2>5. g[d] = SumOf(rows, g, d)
    BY <1>2, <2>3
  <2>6. SumOf(rows, s, d) = SumOf(rows, g, d)
    <3> HIDE DEF g
    <3> QED
      BY <2>3 DEF SumOf
  <2> QED
    BY <2>3, <2>4, <2>5, <2>6
<1>6. CASE T = {}
  BY <1>6 DEF s
<1> QED
  BY <1>5, <1>6

LEMMA AppliedSums ==
    ASSUME NEW rows
    PROVE  ApplyUSDValues(rows) = [d \in DOMAIN rows |-> [rows[d] EXCEPT !.sum = Sums(rows)[d]]]
  BY DEF ApplyUSDValues, Sums

LEMMA RowDaily ==
    ASSUME NEW h \in Nat, NEW r \in Row(h), NEW v \in -h .. h, NEW m, m = [r EXCEPT !.daily = v]
    PROVE  m \in Row(h) /\ m.total = r.total /\ m.daily = v /\ m.sum = r.sum
<1>1. m \in Row(h)
  BY Zenon DEF Row
<1> QED
  BY <1>1 DEF Row

LEMMA RowSum ==
    ASSUME NEW h \in Nat, NEW r \in Row(h), NEW s \in Int, NEW m, m = [r EXCEPT !.sum = s]
    PROVE  m \in Row(h) /\ m.total = r.total /\ m.daily = r.daily /\ m.sum = s
<1>1. m \in Row(h)
  BY Zenon DEF Row
<1> QED
  BY <1>1 DEF Row

LEMMA FilledRows ==
    ASSUME NEW h \in Nat, NEW rows, AreRows(rows, h), DOMAIN rows # {}, NEW f,
           f = FillMissingTimestamps(rows)
    PROVE  /\ AreRows(f, h)
           /\ DOMAIN f = MinOf(DOMAIN rows) .. MaxOf(DOMAIN rows)
           /\ \A d \in DOMAIN f : f[d] = rows[MaxOf({x \in DOMAIN rows : x <= d})]
           /\ f[MinOf(DOMAIN rows)] = rows[MinOf(DOMAIN rows)]
<1> DEFINE D == DOMAIN rows
           a == MinOf(D)
           z == MaxOf(D)
<1>1. D \subseteq 1 .. MaxDay
  BY DEF AreRows
<1>2. a \in D /\ z \in D /\ a \in 1 .. MaxDay /\ z \in 1 .. MaxDay
  BY <1>1, Ends
<1>3. rows # NoRows
  BY NoRowsAre
<1>4. f = [d \in a .. z |-> rows[MaxOf({x \in D : x <= d})]]
  BY <1>3 DEF FillMissingTimestamps
<1>5. ASSUME NEW d \in a .. z
      PROVE  rows[MaxOf({x \in D : x <= d})] \in Row(h)
  <2>1. PICK x : x = MaxOf({y \in D : y <= d})
    OBVIOUS
  <2>2. x \in D
    <3> HIDE DEF D
    <3>1. d \in Int /\ a <= d
      BY <1>2
    <3> QED
      BY <2>1, <3>1, <1>1, <1>2, LastUpTo
  <2>3. rows[x] \in Row(h)
    BY <2>2, RowFields
  <2> QED
    BY <2>1, <2>3
<1>6. AreRows(f, h)
  <2>1. DOMAIN f = a .. z /\ \A d \in a .. z : f[d] \in Row(h)
    BY <1>4, <1>5
  <2>2. a .. z \subseteq 1 .. MaxDay
    BY <1>2, BoundsAssumption
  <2> HIDE DEF a, z
  <2> QED
    BY <1>4, <2>1, <2>2 DEF AreRows
<1>7. MaxOf({x \in D : x <= a}) = a
  <2> HIDE DEF D
  <2>1. a \in Int /\ a <= a
    BY <1>2
  <2> QED
    BY <2>1, <1>1, <1>2, LastUpTo
<1>8. a \in a .. z
  BY <1>1, <1>2, Ends
<1> QED
  BY <1>4, <1>6, <1>7, <1>8

LEMMA DailyRows ==
    ASSUME NEW h \in Nat, NEW rows, AreRows(rows, h), NEW a \in Nat, NEW z \in Nat, a <= z,
           DOMAIN rows = a .. z, NEW c, c = ComputeDailyValues(rows)
    PROVE  /\ AreRows(c, h) /\ DOMAIN c = a .. z /\ Differences(c)
           /\ \A d \in a .. z : c[d].total = rows[d].total /\ c[d].sum = rows[d].sum
           /\ c[a].daily = IF a = z THEN rows[a].total ELSE rows[a].daily
<1> DEFINE v(d) == IF d - 1 \in a .. z THEN rows[d].total - rows[d - 1].total
                   ELSE IF a = z THEN rows[d].total
                   ELSE rows[d].daily
<1>1. Cardinality(a .. z) = 1 <=> a = z
  BY FS_Interval
<1>2. \A d \in a .. z : /\ rows[d] \in Row(h) /\ rows[d].total \in 0 .. h
                        /\ rows[d].daily \in -h .. h /\ d \in 1 .. MaxDay
  BY RowFields
<1>3. ASSUME NEW d \in a .. z
      PROVE  v(d) \in -h .. h
  <2>1. CASE d - 1 \in a .. z
    BY <2>1, <1>2
  <2>2. CASE d - 1 \notin a .. z
    BY <2>2, <1>2
  <2> QED
    BY <2>1, <2>2
<1>4. ASSUME NEW d \in a .. z
      PROVE  /\ c[d] \in Row(h) /\ c[d].total = rows[d].total /\ c[d].sum = rows[d].sum
             /\ c[d].daily = v(d)
  <2>1. d \in a .. z => c[d] = IF d - 1 \in a .. z THEN [rows[d] EXCEPT !.daily = v(d)]
                               ELSE IF a = z THEN [rows[d] EXCEPT !.daily = v(d)]
                               ELSE rows[d]
    BY <1>1 DEF ComputeDailyValues
  <2>3. CASE d - 1 \in a .. z \/ a = z
    <3>1. c[d] = [rows[d] EXCEPT !.daily = v(d)]
      BY <2>1, <2>3
    <3> HIDE DEF v
    <3> QED
      BY <3>1, <1>2, <1>3, RowDaily
  <2>4. CASE ~ (d - 1 \in a .. z \/ a = z)
    <3>1. c[d] = rows[d]
      BY <2>1, <2>4
    <3> QED
      BY <3>1, <2>4, <1>2
  <2> QED
    BY <2>3, <2>4
<1>5. DOMAIN c = a .. z
  BY DEF ComputeDailyValues
<1>6. c \in [a .. z -> Row(h)]
  BY <1>4, <1>5 DEF ComputeDailyValues
<1>7. AreRows(c, h)
  BY <1>5, <1>6 DEF AreRows
<1>8. ASSUME NEW d \in a .. z, d - 1 \in a .. z
      PROVE  c[d].daily = c[d].total - c[d - 1].total
  BY <1>4, <1>8
<1>9. Differences(c)
  BY <1>5, <1>8 DEF Differences
<1>10. a \in a .. z /\ a - 1 \notin a .. z
  OBVIOUS
<1>11. c[a].daily = IF a = z THEN rows[a].total ELSE rows[a].daily
  BY <1>4, <1>10
<1> HIDE DEF v
<1> QED
  BY <1>4, <1>5, <1>7, <1>9, <1>11

LEMMA SummedRows ==
    ASSUME NEW h \in Nat, NEW rows, AreRows(rows, h), NEW a \in Nat, NEW z \in Nat, a <= z,
           DOMAIN rows = a .. z, Differences(rows), NEW u, u = ApplyUSDValues(rows)
    PROVE  /\ AreRows(u, h) /\ DOMAIN u = a .. z
           /\ \A d \in a .. z :
                /\ u[d].total = rows[d].total /\ u[d].daily = rows[d].daily
                /\ u[d].sum = FirstSum(rows[a]) + (rows[d].total - rows[a].total)
<1>1. u = [d \in a .. z |-> [rows[d] EXCEPT !.sum = Sums(rows)[d]]]
  BY AppliedSums
<1>2. \A d \in a .. z : Sums(rows)[d] = FirstSum(rows[a]) + (rows[d].total - rows[a].total)
  BY SumsClosed
<1>3. \A d \in a .. z : /\ rows[d] \in Row(h) /\ rows[d].total \in Int /\ rows[d].daily \in Int
                        /\ rows[d].sum \in Int /\ d \in 1 .. MaxDay
  BY RowFields
<1>4. a \in a .. z /\ FirstSum(rows[a]) \in Int
  BY <1>3 DEF FirstSum
<1>5. ASSUME NEW d \in a .. z
      PROVE  /\ u[d] \in Row(h) /\ u[d].total = rows[d].total /\ u[d].daily = rows[d].daily
             /\ u[d].sum = Sums(rows)[d]
  <2>1. Sums(rows)[d] \in Int
    <3>1. rows[d].total \in Int /\ rows[a].total \in Int
      BY <1>3, <1>4
    <3>2. Sums(rows)[d] = FirstSum(rows[a]) + (rows[d].total - rows[a].total)
      BY <1>2
    <3> QED
      BY <3>1, <3>2, <1>4
  <2>2. u[d] = [rows[d] EXCEPT !.sum = Sums(rows)[d]] /\ rows[d] \in Row(h)
    BY <1>1, <1>3
  <2>3. PICK m : m = [rows[d] EXCEPT !.sum = Sums(rows)[d]]
    OBVIOUS
  <2>4. PICK s : s = Sums(rows)[d]
    OBVIOUS
  <2>5. /\ m \in Row(h) /\ m.total = rows[d].total /\ m.daily = rows[d].daily
        /\ m.sum = s
    BY <2>1, <2>2, <2>3, <2>4, RowSum
  <2> QED
    BY <2>2, <2>3, <2>4, <2>5
<1>6. AreRows(u, h)
  BY <1>1, <1>3, <1>5 DEF AreRows
<1> QED
  BY <1>1, <1>2, <1>5, <1>6

\* What becomes of rows: every day from the first to the last has a row, with the total of the
\* latest day up to it; the values of the days are the differences of the totals; the sum of a
\* day is that of the first and the difference of the totals.
LEMMA ProcessedRows ==
    ASSUME NEW h \in Nat, NEW rows, AreRows(rows, h), DOMAIN rows # {},
           NEW a, a = MinOf(DOMAIN rows), NEW z, z = MaxOf(DOMAIN rows),
           NEW p, p = ProcessSnapshots(rows)
    PROVE  /\ AreRows(p, h) /\ DOMAIN p = a .. z /\ Differences(p)
           /\ \A d \in a .. z : p[d].total = rows[MaxOf({x \in DOMAIN rows : x <= d})].total
           /\ p[a].total = rows[a].total
           /\ p[a].daily = IF a = z THEN rows[a].total ELSE rows[a].daily
           /\ p[a].sum = IF rows[a].sum # 0 THEN rows[a].sum ELSE p[a].daily
           /\ \A d \in a .. z : p[d].sum = p[a].sum + (p[d].total - p[a].total)
<1>a. PICK f : f = FillMissingTimestamps(rows)
  OBVIOUS
<1>b. PICK c : c = ComputeDailyValues(f)
  OBVIOUS
<1>c. /\ AreRows(f, h) /\ DOMAIN f = a .. z /\ f[a] = rows[a]
      /\ \A d \in a .. z : f[d] = rows[MaxOf({x \in DOMAIN rows : x <= d})]
  <2>1. /\ AreRows(f, h)
        /\ DOMAIN f = MinOf(DOMAIN rows) .. MaxOf(DOMAIN rows)
        /\ \A d \in DOMAIN f : f[d] = rows[MaxOf({x \in DOMAIN rows : x <= d})]
        /\ f[MinOf(DOMAIN rows)] = rows[MinOf(DOMAIN rows)]
    BY <1>a, FilledRows
  <2> QED
    BY <2>1
<1>1. AreRows(f, h) /\ DOMAIN f = a .. z /\ f[a] = rows[a]
  BY <1>c
<1>2. a \in Nat /\ z \in Nat /\ a <= z /\ a \in DOMAIN rows
  <2>1. DOMAIN rows \subseteq 1 .. MaxDay
    BY DEF AreRows
  <2> QED
    BY <2>1, Ends
<1>3. /\ AreRows(c, h) /\ DOMAIN c = a .. z /\ Differences(c)
      /\ \A d \in a .. z : c[d].total = f[d].total /\ c[d].sum = f[d].sum
      /\ c[a].daily = IF a = z THEN f[a].total ELSE f[a].daily
  BY <1>b, <1>1, <1>2, DailyRows
<1>4. /\ AreRows(p, h) /\ DOMAIN p = a .. z
      /\ \A d \in a .. z : /\ p[d].total = c[d].total /\ p[d].daily = c[d].daily
                           /\ p[d].sum = FirstSum(c[a]) + (c[d].total - c[a].total)
  <2>1. p = ApplyUSDValues(c)
    BY <1>a, <1>b DEF ProcessSnapshots
  <2> QED
    BY <2>1, <1>2, <1>3, SummedRows
<1>5. Differences(p)
  BY <1>3, <1>4 DEF Differences
<1>6. a \in a .. z
  BY <1>2
<1>7. /\ c[a].total \in Int /\ c[a].sum \in Int /\ c[a].daily \in Int
  BY <1>3, <1>6, RowFields
<1>8. p[a].sum = FirstSum(c[a])
  <2>1. FirstSum(c[a]) \in Int
    BY <1>7 DEF FirstSum
  <2> QED
    BY <2>1, <1>4, <1>6, <1>7
<1>9. p[a].sum = IF rows[a].sum # 0 THEN rows[a].sum ELSE p[a].daily
  BY <1>1, <1>3, <1>4, <1>6, <1>8 DEF FirstSum
<1>10. \A d \in a .. z : p[d].sum = p[a].sum + (p[d].total - p[a].total)
  BY <1>4, <1>6, <1>8
<1>11. \A d \in a .. z : p[d].total = rows[MaxOf({x \in DOMAIN rows : x <= d})].total
  BY <1>c, <1>3, <1>4
<1> QED
  BY <1>1, <1>3, <1>4, <1>5, <1>6, <1>9, <1>10, <1>11

LEMMA ProcessedNothing ==
    ProcessSnapshots(NoRows) = NoRows
<1> DEFINE c == ComputeDailyValues(NoRows)
<1>1. DOMAIN NoRows = {} /\ FillMissingTimestamps(NoRows) = NoRows
  BY DEF NoRows, FillMissingTimestamps
<1>2. DOMAIN c = {} /\ c = NoRows
  BY <1>1 DEF ComputeDailyValues, NoRows
<1>3. ApplyUSDValues(NoRows) = NoRows
  BY <1>1, AppliedSums DEF NoRows
<1> QED
  BY <1>1, <1>2, <1>3 DEF ProcessSnapshots

-----------------------------------------------------------------------------
(***************************************************************************)
(* What is kept of stored rows, for any chain bs and any rows.             *)
(***************************************************************************)

\* Days without a gap.
Contiguous(D) == \A x, d \in D : x < d => d - 1 \in D

\* Days between two that the subgraph has a row for at block n.
Within(bs, D, n) == \A d \in D : \E x, y \in DaysIn(bs, n) : x <= d /\ d <= y

\* No value is more than the total, and no total more than that of the subgraph.
Bounded(bs, rows, n) ==
    \A d \in DOMAIN rows : /\ rows[d].daily <= rows[d].total
                           /\ rows[d].sum <= rows[d].total
                           /\ rows[d].total <= TotalIn(bs, n, d)

Has(bs, rows, n, d) == d \in DOMAIN rows /\ rows[d].total = TotalIn(bs, n, d)

\* Only the last row may have an old total.
Complete(bs, rows, n) == \A x, d \in DOMAIN rows : x < d => Has(bs, rows, n, x)

\* A day that the pool in the database should have, or that is after the first of the days D,
\* has changed since block c or is stored as it is; so is a day without a row of the subgraph.
Current(bs, rows, D, c, n, l) ==
    /\ \A d \in DaysIn(bs, n) :
        \/ l # NotListed /\ ChangedIn(bs, n, d, l + 1)
        \/ \E x \in D : x <= d
        => ChangedIn(bs, n, d, c) \/ Has(bs, rows, n, d)
    /\ \A d \in DOMAIN rows : d \in DaysIn(bs, n) \/ Has(bs, rows, n, d)

Core(bs, rows, D, c, n, l) ==
    /\ Contiguous(DOMAIN rows)
    /\ Differences(rows)
    /\ Bounded(bs, rows, n)
    /\ Complete(bs, rows, n)
    /\ Current(bs, rows, D, c, n, l)

\* The days D are not before those of E, or the last but one of them.
Near(D, E) == \A d \in D, x \in E : d >= x \/ (d = x - 1 /\ d \in E)

ChangedDays(bs, n, c) == {d \in DaysIn(bs, n) : ChangedIn(bs, n, d, c)}

\* Rows from which a run that starts at block c puts everything right.
Good(bs, rows, c, n, l) ==
    Core(bs, rows, DOMAIN rows, c, n, l) /\ Near(ChangedDays(bs, n, c), DOMAIN rows)

LEMMA DayNumber ==
    ASSUME NEW bs, NEW n, NEW d \in DaysIn(bs, n)
    PROVE  d \in 1 .. MaxDay /\ d \in Nat
<1>1. d \in 1 .. MaxDay
  BY DEF DaysIn
<1> QED
  BY <1>1, BoundsAssumption

\* No block after n is of a day before one that is within the days of n.
LEMMA WithinLater ==
    ASSUME NEW bs \in Chains, Ordered(bs), NEW n \in 0 .. Len(bs), NEW m \in n .. Len(bs),
           NEW E, E \subseteq Nat, Within(bs, E, n), NEW x \in E, NEW b \in n + 1 .. m
    PROVE  x <= bs[b].day
<1>1. PICK y \in DaysIn(bs, n) : x <= y
  BY DEF Within
<1>2. y <= bs[b].day
  BY DayLater
<1>3. bs[b].day \in Nat /\ y \in Nat
  BY BlockTyped, DayNumber, BoundsAssumption
<1> QED
  BY <1>1, <1>2, <1>3

LEMMA WithinGrows ==
    ASSUME NEW bs, NEW n \in Nat, NEW m \in Nat, n <= m, NEW E, Within(bs, E, n)
    PROVE  Within(bs, E, m)
<1>1. DaysIn(bs, n) \subseteq DaysIn(bs, m)
  BY DaysLater
<1> QED
  BY <1>1, Zenon DEF Within

\* A stored day is as it is at a later block, unless it has changed.
LEMMA HasLater ==
    ASSUME NEW bs \in Chains, Ordered(bs), NEW n \in 0 .. Len(bs), NEW m \in n .. Len(bs),
           NEW h \in Nat, NEW rows, AreRows(rows, h), Within(bs, DOMAIN rows, n), NEW d,
           Has(bs, rows, n, d), \A b \in n + 1 .. m : bs[b].swap => bs[b].day # d
    PROVE  Has(bs, rows, m, d)
<1>1. d \in Nat /\ DOMAIN rows \subseteq Nat
  BY RowFields DEF Has
<1>2. ASSUME NEW b \in n + 1 .. m, bs[b].swap
      PROVE  bs[b].day > d
  <2>1. d <= bs[b].day
    BY <1>1, WithinLater DEF Has
  <2>2. b \in 1 .. Len(bs)
    OBVIOUS
  <2>3. bs[b].day \in 1 .. MaxDay
    BY <2>2, BlockTyped
  <2> QED
    BY <1>1, <1>2, <2>1, <2>3
<1>3. TotalIn(bs, m, d) = TotalIn(bs, n, d)
  BY <1>1, <1>2, TotalLater
<1> QED
  BY <1>3 DEF Has

LEMMA CurrentLater ==
    ASSUME NEW bs \in Chains, Ordered(bs), NEW n \in 0 .. Len(bs), NEW m \in n .. Len(bs),
           NEW c \in Int, c <= n, NEW l \in Int, NEW D,
           NEW h \in Nat, NEW rows, AreRows(rows, h), Within(bs, DOMAIN rows, n),
           Current(bs, rows, D, c, n, l)
    PROVE  Current(bs, rows, D, c, m, l)
<1>1. ASSUME NEW d \in DaysIn(bs, m), ~ ChangedIn(bs, m, d, c),
             (l # NotListed /\ ChangedIn(bs, m, d, l + 1)) \/ (\E x \in D : x <= d)
      PROVE  Has(bs, rows, m, d)
  <2>1. /\ d \in DaysIn(bs, n) /\ ~ ChangedIn(bs, n, d, c)
        /\ \A b \in n + 1 .. m : bs[b].swap => bs[b].day # d
    BY <1>1, DaysBetween
  <2>2. ASSUME ChangedIn(bs, m, d, l + 1)
        PROVE  ChangedIn(bs, n, d, l + 1)
    <3>1. PICK b \in SwapsIn(bs, m, {d}) : b >= l + 1
      BY <2>2 DEF ChangedIn
    <3>2. b \in SwapsIn(bs, n, {d})
      BY <2>1, <3>1 DEF SwapsIn
    <3> QED
      BY <3>1, <3>2 DEF ChangedIn
  <2>3. Has(bs, rows, n, d)
    BY <1>1, <2>1, <2>2, Zenon DEF Current
  <2> QED
    BY <2>1, <2>3, HasLater
<1>2. ASSUME NEW d \in DOMAIN rows, d \notin DaysIn(bs, m)
      PROVE  Has(bs, rows, m, d)
  <2>1. DaysIn(bs, n) \subseteq DaysIn(bs, m)
    BY DaysLater
  <2>2. Has(bs, rows, n, d)
    BY <1>2, <2>1 DEF Current
  <2>3. \A b \in n + 1 .. m : bs[b].swap => bs[b].day # d
    <3> SUFFICES ASSUME NEW b \in n + 1 .. m, bs[b].swap, bs[b].day = d
                 PROVE  FALSE
      OBVIOUS
    <3>1. b \in 1 .. Len(bs) /\ b \in 1 .. m
      OBVIOUS
    <3>2. d \in 1 .. MaxDay
      BY <3>1, BlockTyped
    <3>3. b \in SwapsIn(bs, m, {d})
      BY <3>1 DEF SwapsIn
    <3> QED
      BY <1>2, <3>2, <3>3 DEF DaysIn
  <2> QED
    BY <2>2, <2>3, HasLater
<1> QED
  BY <1>1, <1>2, Zenon DEF Current

LEMMA CoreLater ==
    ASSUME NEW bs \in Chains, Ordered(bs), NEW n \in 0 .. Len(bs), NEW m \in n .. Len(bs),
           NEW c \in Int, c <= n, NEW l \in Int, NEW D,
           NEW h \in Nat, NEW rows, AreRows(rows, h), Within(bs, DOMAIN rows, n),
           Core(bs, rows, D, c, n, l)
    PROVE  Core(bs, rows, D, c, m, l)
<1>1. DOMAIN rows \subseteq Nat
  BY RowFields
<1>2. Current(bs, rows, D, c, m, l)
  BY CurrentLater DEF Core
<1>3. ASSUME NEW x \in DOMAIN rows, NEW d \in DOMAIN rows, x < d
      PROVE  Has(bs, rows, m, x)
  <2>1. Has(bs, rows, n, x)
    BY <1>3 DEF Core, Complete
  <2>2. \A b \in n + 1 .. m : bs[b].swap => bs[b].day # x
    <3> SUFFICES ASSUME NEW b \in n + 1 .. m, bs[b].day = x
                 PROVE  FALSE
      OBVIOUS
    <3>1. d <= bs[b].day
      BY <1>1, WithinLater
    <3> QED
      BY <1>1, <1>3, <3>1
  <2> QED
    BY <2>1, <2>2, HasLater
<1>4. ASSUME NEW d \in DOMAIN rows
      PROVE  rows[d].total <= TotalIn(bs, m, d)
  <2>1. d \in Int /\ rows[d].total \in Int
    BY RowFields
  <2>2. rows[d].total <= TotalIn(bs, n, d)
    BY DEF Core, Bounded
  <2>3. TotalIn(bs, n, d) <= TotalIn(bs, m, d)
    BY <2>1, TotalMonotone
  <2>4. TotalIn(bs, n, d) \in Int /\ TotalIn(bs, m, d) \in Int
    BY TotalTyped
  <2> QED
    BY <2>1, <2>2, <2>3, <2>4
<1>5. Complete(bs, rows, m)
  BY <1>3 DEF Complete
<1>6. Bounded(bs, rows, m)
  BY <1>4 DEF Core, Bounded
<1> QED
  BY <1>2, <1>5, <1>6 DEF Core

LEMMA NearLater ==
    ASSUME NEW bs \in Chains, Ordered(bs), NEW n \in 0 .. Len(bs), NEW m \in n .. Len(bs),
           NEW c \in Int, NEW E, E \subseteq Nat, Within(bs, E, n),
           Near(ChangedDays(bs, n, c), E)
    PROVE  Near(ChangedDays(bs, m, c), E)
<1> SUFFICES ASSUME NEW d \in ChangedDays(bs, m, c), NEW x \in E, ~ (d >= x)
             PROVE  d = x - 1 /\ d \in E
  BY DEF Near
<1>1. PICK b \in SwapsIn(bs, m, {d}) : b >= c
  BY DEF ChangedDays, ChangedIn
<1>2. b \in 1 .. m /\ bs[b].day = d
  BY <1>1 DEF SwapsIn
<1>3. b \notin n + 1 .. m
  <2> SUFFICES ASSUME b \in n + 1 .. m
               PROVE  FALSE
    OBVIOUS
  <2>1. x <= d
    BY <1>2, WithinLater
  <2>2. d \in Nat
    BY DayNumber DEF ChangedDays
  <2> QED
    BY <2>1, <2>2
<1>4. b \in SwapsIn(bs, n, {d})
  BY <1>1, <1>2, <1>3 DEF SwapsIn
<1>5. d \in ChangedDays(bs, n, c)
  BY <1>1, <1>4, DayNumber DEF ChangedDays, ChangedIn, DaysIn
<1> QED
  BY <1>5 DEF Near

LEMMA GoodLater ==
    ASSUME NEW bs \in Chains, Ordered(bs), NEW n \in 0 .. Len(bs), NEW m \in n .. Len(bs),
           NEW c \in Int, c <= n, NEW l \in Int,
           NEW h \in Nat, NEW rows, AreRows(rows, h), Within(bs, DOMAIN rows, n),
           Good(bs, rows, c, n, l)
    PROVE  Good(bs, rows, c, m, l)
<1>1. DOMAIN rows \subseteq Nat
  BY RowFields
<1> QED
  BY <1>1, CoreLater, NearLater DEF Good

-----------------------------------------------------------------------------
(***************************************************************************)
(* A run that catches up on the days that have changed.                    *)
(***************************************************************************)

\* The rows once all of those of the run are written.
Over(rows, old) ==
    [d \in DOMAIN old \cup DOMAIN rows |-> IF d \in DOMAIN rows THEN rows[d] ELSE old[d]]

Exact(bs, rows, n) == \A d \in DOMAIN rows : Has(bs, rows, n, d)

\* The rows of a run that holds a row for every day of the subgraph from its first one on have
\* the totals of the subgraph.
LEMMA ProcessedTotals ==
    ASSUME NEW bs \in Chains, NEW n \in 0 .. Len(bs),
           NEW h \in Nat, NEW rows, AreRows(rows, h), DOMAIN rows # {}, Exact(bs, rows, n),
           \A d \in DaysIn(bs, n) : d >= MinOf(DOMAIN rows) => d \in DOMAIN rows,
           NEW p, p = ProcessSnapshots(rows)
    PROVE  Exact(bs, p, n)
<1>1. PICK a, z : a = MinOf(DOMAIN rows) /\ z = MaxOf(DOMAIN rows)
  OBVIOUS
<1>2. /\ DOMAIN p = a .. z
      /\ \A d \in a .. z : p[d].total = rows[MaxOf({x \in DOMAIN rows : x <= d})].total
  BY <1>1, ProcessedRows
<1>3. DOMAIN rows \subseteq 1 .. MaxDay
  BY DEF AreRows
<1>4. a \in Nat /\ z \in Nat
  BY <1>1, <1>3, Ends
<1>5. ASSUME NEW d \in a .. z
      PROVE  Has(bs, p, n, d)
  <2>1. PICK x : x = MaxOf({y \in DOMAIN rows : y <= d})
    OBVIOUS
  <2>2. x \in DOMAIN rows /\ x <= d /\ \A y \in DOMAIN rows : y <= d => y <= x
    <3>1. d \in Int /\ MinOf(DOMAIN rows) <= d
      BY <1>1, <1>4
    <3> QED
      BY <2>1, <3>1, <1>3, LastUpTo
  <2>3. x \in Int /\ a <= x
    BY <1>1, <1>3, <2>2, Ends
  <2>4. \A y \in DaysIn(bs, n) : ~ (x < y /\ y <= d)
    <3> SUFFICES ASSUME NEW y \in DaysIn(bs, n), x < y, y <= d
                 PROVE  FALSE
      OBVIOUS
    <3>1. y \in Nat
      BY DayNumber
    <3>2. y \in DOMAIN rows
      BY <3>1, <1>1, <1>4, <2>3
    <3> QED
      BY <3>1, <3>2, <2>2, <2>3
  <2>5. d \in Int
    BY <1>4
  <2>6. TotalIn(bs, n, d) = TotalIn(bs, n, x)
    BY <2>2, <2>3, <2>4, <2>5, TotalSkips
  <2>7. rows[x].total = TotalIn(bs, n, x)
    BY <2>2 DEF Exact, Has
  <2> QED
    BY <1>2, <2>1, <2>6, <2>7 DEF Has
<1> QED
  BY <1>2, <1>5 DEF Exact

\* The values and sums of such rows are within their totals, when those of the first row are.
LEMMA ProcessedBounded ==
    ASSUME NEW bs, NEW n \in Nat, NEW h \in Nat, NEW p, AreRows(p, h),
           NEW a \in Nat, NEW z \in Nat, a <= z, DOMAIN p = a .. z,
           Exact(bs, p, n), Differences(p),
           p[a].daily <= p[a].total, p[a].sum <= p[a].total,
           \A d \in a .. z : p[d].sum = p[a].sum + (p[d].total - p[a].total)
    PROVE  Bounded(bs, p, n)
<1>1. ASSUME NEW d \in a .. z
      PROVE  p[d].daily <= p[d].total /\ p[d].sum <= p[d].total
  <2>1. /\ p[d].total \in Int /\ p[d].sum \in Int /\ p[d].daily \in Int
        /\ a \in a .. z /\ p[a].total \in Int /\ p[a].sum \in Int
    <3>1. a \in a .. z
      OBVIOUS
    <3> QED
      BY <3>1, RowFields
  <2>2. p[d].sum <= p[d].total
    <3>1. p[d].sum = p[a].sum + (p[d].total - p[a].total)
      OBVIOUS
    <3> QED
      BY <2>1, <3>1
  <2>3. CASE d = a
    BY <2>2, <2>3
  <2>4. CASE d # a
    <3>1. d - 1 \in a .. z
      <4>1. d \in Int
        OBVIOUS
      <4> QED
        BY <4>1, <2>4
    <3>2. p[d].daily = p[d].total - p[d - 1].total
      BY <3>1 DEF Differences
    <3>3. p[d - 1].total \in 0 .. h
      BY <3>1, RowFields
    <3>4. p[d - 1].total \in Int /\ p[d - 1].total >= 0
      BY <3>3
    <3>5. p[d].daily <= p[d].total
      BY <2>1, <3>2, <3>4
    <3> QED
      BY <2>2, <3>5
  <2> QED
    BY <2>3, <2>4
<1>2. ASSUME NEW d \in a .. z
      PROVE  p[d].total <= TotalIn(bs, n, d)
  <2>1. p[d].total = TotalIn(bs, n, d)
    BY DEF Exact, Has
  <2>2. p[d].total \in Int
    BY RowFields
  <2> QED
    BY <2>1, <2>2
<1> QED
  BY <1>1, <1>2 DEF Bounded

\* The old days before day a are right, and a row for that day continues them.
Right(bs, old, a, n) ==
    /\ \A x \in DOMAIN old : x < a =>
        /\ Has(bs, old, n, x)
        /\ old[x].daily <= old[x].total /\ old[x].sum <= old[x].total
        /\ x - 1 \in DOMAIN old => old[x].daily = old[x].total - old[x - 1].total
    /\ \A x, d \in DOMAIN old : x < d /\ d < a => d - 1 \in DOMAIN old

Continued(old, a, row) ==
    \A x \in DOMAIN old : x < a =>
        a - 1 \in DOMAIN old /\ row.daily = row.total - old[a - 1].total

\* Such rows over older ones.
LEMMA Overlay ==
    ASSUME NEW bs, NEW n \in Nat, NEW h \in Nat, NEW old, AreRows(old, h),
           NEW p, AreRows(p, h), NEW a \in Nat, NEW z \in Nat, a <= z, DOMAIN p = a .. z,
           Exact(bs, p, n), Differences(p), Bounded(bs, p, n),
           \A x \in DOMAIN old : x <= z,
           Right(bs, old, a, n), Continued(old, a, p[a]),
           NEW f, f = Over(p, old)
    PROVE  /\ AreRows(f, h) /\ Contiguous(DOMAIN f) /\ Differences(f) /\ Bounded(bs, f, n)
           /\ Exact(bs, f, n)
<1>1. DOMAIN f = DOMAIN old \cup a .. z
  BY DEF Over
<1>2. \A d \in a .. z : f[d] = p[d]
  BY DEF Over
<1>3. \A d \in DOMAIN old : d < a => f[d] = old[d]
  BY DEF Over
<1>4. DOMAIN old \subseteq 1 .. MaxDay /\ a .. z \subseteq 1 .. MaxDay
  BY DEF AreRows
<1>5. ASSUME NEW d \in DOMAIN f
      PROVE  d \in Nat /\ (d \in a .. z \/ (d \in DOMAIN old /\ d < a /\ d \notin a .. z))
  <2>1. d \in Nat
    BY <1>1, <1>4, BoundsAssumption
  <2> QED
    BY <2>1, <1>1
<1>6. AreRows(f, h)
  <2>1. ASSUME NEW d \in DOMAIN f
        PROVE  f[d] \in Row(h)
    BY <1>2, <1>3, <1>5, RowFields
  <2>2. f = [d \in DOMAIN f |-> f[d]]
    BY DEF Over
  <2> QED
    BY <2>1, <2>2, <1>1, <1>4 DEF AreRows
<1>7. Exact(bs, f, n)
  <2> SUFFICES ASSUME NEW d \in DOMAIN f
               PROVE  f[d].total = TotalIn(bs, n, d)
    BY DEF Exact, Has
  <2>1. CASE d \in a .. z
    BY <2>1, <1>2 DEF Exact, Has
  <2>2. CASE d \in DOMAIN old /\ d < a
    BY <2>2, <1>3 DEF Right, Has
  <2> QED
    BY <1>5, <2>1, <2>2
<1>8. ASSUME NEW d \in DOMAIN f
      PROVE  f[d].daily <= f[d].total /\ f[d].sum <= f[d].total
  <2>1. CASE d \in a .. z
    BY <2>1, <1>2 DEF Bounded
  <2>2. CASE d \in DOMAIN old /\ d < a
    BY <2>2, <1>3 DEF Right
  <2> QED
    BY <1>5, <2>1, <2>2
<1>9. Bounded(bs, f, n)
  <2>1. ASSUME NEW d \in DOMAIN f
        PROVE  f[d].total <= TotalIn(bs, n, d)
    <3>1. f[d].total \in Int
      BY <1>6, RowFields
    <3>2. f[d].total = TotalIn(bs, n, d)
      BY <1>7 DEF Exact, Has
    <3> QED
      BY <3>1, <3>2
  <2> QED
    BY <1>8, <2>1 DEF Bounded
<1>10. ASSUME NEW x \in DOMAIN f, NEW d \in DOMAIN f, x < d
       PROVE  d - 1 \in DOMAIN f
  <2>1. x \in Nat /\ d \in Nat
    BY <1>5
  <2>2. CASE d \in a + 1 .. z
    BY <2>2, <1>1
  <2>3. CASE d = a
    <3>1. x \in DOMAIN old /\ x < a
      BY <1>5, <1>10, <2>1, <2>3
    <3> QED
      BY <3>1, <2>3, <1>1 DEF Continued
  <2>4. CASE d \in DOMAIN old /\ d < a
    <3>1. x \in DOMAIN old
      BY <1>5, <1>10, <2>1, <2>4
    <3> QED
      BY <3>1, <2>4, <1>10, <1>1 DEF Right
  <2> QED
    BY <1>5, <2>1, <2>2, <2>3, <2>4
<1>11. ASSUME NEW d \in DOMAIN f, d - 1 \in DOMAIN f
       PROVE  f[d].daily = f[d].total - f[d - 1].total
  <2>1. d \in Nat /\ d - 1 \in Nat
    BY <1>5, <1>11
  <2>2. CASE d \in a + 1 .. z
    <3>1. d \in a .. z /\ d - 1 \in a .. z
      BY <2>2
    <3> QED
      BY <3>1, <1>2 DEF Differences
  <2>3. CASE d = a
    <3>1. d - 1 \in DOMAIN old /\ d - 1 < a /\ a \in a .. z
      BY <1>5, <1>11, <2>1, <2>3
    <3> QED
      BY <3>1, <2>3, <1>2, <1>3 DEF Continued
  <2>4. CASE d \in DOMAIN old /\ d < a
    <3>1. d - 1 \in DOMAIN old /\ d - 1 < a
      BY <1>5, <1>11, <2>1, <2>4
    <3> QED
      BY <3>1, <2>4, <1>3 DEF Right
  <2> QED
    BY <1>5, <2>1, <2>2, <2>3, <2>4
<1> QED
  BY <1>6, <1>7, <1>9, <1>10, <1>11 DEF Contiguous, Differences

\* Rows that all have the totals of block n need nothing of the blocks up to it.
LEMMA ExactCore ==
    ASSUME NEW bs, NEW n \in Nat, NEW f, NEW c, NEW l, NEW D,
           Contiguous(DOMAIN f), Differences(f), Bounded(bs, f, n), Exact(bs, f, n),
           \A d \in DaysIn(bs, n) :
               \/ l # NotListed /\ ChangedIn(bs, n, d, l + 1)
               \/ \E x \in D : x <= d
               => ChangedIn(bs, n, d, c) \/ d \in DOMAIN f
    PROVE  Core(bs, f, D, c, n, l)
<1>1. Complete(bs, f, n)
  BY DEF Complete, Exact
<1>2. \A d \in DOMAIN f : Has(bs, f, n, d)
  BY DEF Exact
<1>3. Current(bs, f, D, c, n, l)
  BY <1>2, Zenon DEF Current
<1> QED
  BY <1>1, <1>3 DEF Core

\* The two latest of some days.
LatestOf(D) == {d \in D : Cardinality({x \in D : x > d}) < 2}

\* Without a gap they are the last one and the one before it.
LEMMA LatestDays ==
    ASSUME NEW D, D \subseteq 1 .. MaxDay, Contiguous(D), D # {}
    PROVE  LatestOf(D) = {d \in D : d >= MaxOf(D) - 1}
<1>1. PICK m : m = MaxOf(D)
  OBVIOUS
<1>2. m \in D /\ m \in Nat /\ D \subseteq Nat /\ \A x \in D : x <= m
  <2>1. m \in D /\ \A x \in D : x <= m
    BY <1>1, Ends
  <2>2. \A x \in 1 .. MaxDay : x \in Nat
    BY BoundsAssumption
  <2> QED
    BY <2>1, <2>2
<1>3. IsFiniteSet(D)
  <2>1. IsFiniteSet(1 .. MaxDay)
    BY FS_Interval, BoundsAssumption
  <2> QED
    BY <2>1, FS_Subset
<1>4. ASSUME NEW d \in D, d >= m - 1
      PROVE  Cardinality({x \in D : x > d}) < 2
  <2>1. {x \in D : x > d} \subseteq {m}
    <3>1. d \in Nat
      BY <1>2
    <3>2. ASSUME NEW x \in D, x > d
          PROVE  x = m
      <4>1. x \in Nat /\ x <= m
        BY <1>2
      <4> QED
        BY <4>1, <3>1, <3>2, <1>2, <1>4
    <3> QED
      BY <3>2
  <2>2. IsFiniteSet({m}) /\ Cardinality({m}) = 1
    BY FS_Singleton
  <2>3. Cardinality({x \in D : x > d}) <= 1 /\ IsFiniteSet({x \in D : x > d})
    BY <2>1, <2>2, FS_Subset
  <2>4. Cardinality({x \in D : x > d}) \in Nat
    BY <2>3, FS_CardinalityType
  <2> QED
    BY <2>3, <2>4
<1>5. ASSUME NEW d \in D, d < m - 1
      PROVE  ~ (Cardinality({x \in D : x > d}) < 2)
  <2>1. d < m /\ d \in Nat
    <3>1. d \in Nat
      BY <1>2
    <3> QED
      BY <3>1, <1>2, <1>5
  <2>2. m - 1 \in D
    BY <1>2, <2>1 DEF Contiguous
  <2>3. {m - 1, m} \subseteq {x \in D : x > d}
    BY <1>2, <1>5, <2>1, <2>2
  <2>4. IsFiniteSet({m}) /\ Cardinality({m}) = 1
    BY FS_Singleton
  <2>5. m - 1 \notin {m}
    BY <1>2
  <2>6. Cardinality({m} \cup {m - 1}) = 2
    BY <2>4, <2>5, FS_AddElement
  <2>7. {m} \cup {m - 1} = {m - 1, m}
    OBVIOUS
  <2>8. IsFiniteSet({x \in D : x > d})
    BY <1>3, FS_Subset
  <2>9. Cardinality({m - 1, m}) <= Cardinality({x \in D : x > d})
    BY <2>3, <2>8, FS_Subset
  <2>10. Cardinality({x \in D : x > d}) \in Nat
    BY <2>8, FS_CardinalityType
  <2> QED
    BY <2>6, <2>7, <2>9, <2>10
<1>6. \A d \in D : d \in Int
  BY <1>2
<1>7. \A d \in D : Cardinality({x \in D : x > d}) < 2 <=> d >= m - 1
  BY <1>2, <1>4, <1>5, <1>6
<1> QED
  BY <1>1, <1>7 DEF LatestOf

-----------------------------------------------------------------------------
\* The rows that a run gets of the subgraph, and the two latest stored ones.
Fetched(bs, n, W) == [d \in W |-> [total |-> TotalIn(bs, n, d), daily |-> 0, sum |-> 0]]
LatestRows(old) == [d \in LatestOf(DOMAIN old) |-> old[d]]

LEMMA FetchedRows ==
    ASSUME NEW bs, NEW n \in Nat, NEW W, W \subseteq 1 .. MaxDay, NEW f, f = Fetched(bs, n, W)
    PROVE  /\ AreRows(f, n) /\ DOMAIN f = W /\ Exact(bs, f, n)
           /\ \A d \in W : f[d].daily = 0 /\ f[d].sum = 0 /\ f[d].total = TotalIn(bs, n, d)
<1>1. ASSUME NEW d \in W
      PROVE  f[d] \in Row(n)
  <2>1. TotalIn(bs, n, d) \in 0 .. n
    BY TotalTyped
  <2> QED
    BY <2>1 DEF Fetched, Row
<1>2. f \in [W -> Row(n)]
  BY <1>1 DEF Fetched
<1>3. \A d \in W : f[d].daily = 0 /\ f[d].sum = 0 /\ f[d].total = TotalIn(bs, n, d)
  BY DEF Fetched
<1> QED
  BY <1>2, <1>3 DEF AreRows, Exact, Has

\* A row that is got again keeps the value of the day, and loses the sum.
Merged(m, f, s) ==
    /\ DOMAIN m = DOMAIN f \cup DOMAIN s
    /\ \A d \in DOMAIN f : m[d].total = f[d].total /\ m[d].sum = f[d].sum
    /\ \A d \in DOMAIN s : m[d].daily = s[d].daily
    /\ \A d \in DOMAIN s \ DOMAIN f : m[d] = s[d]
    /\ \A d \in DOMAIN f \ DOMAIN s : m[d] = f[d]

LEMMA MergedRows ==
    ASSUME NEW h \in Nat, NEW f, AreRows(f, h), NEW s, AreRows(s, h), NEW m, m = MergeRows(f, s)
    PROVE  AreRows(m, h) /\ Merged(m, f, s)
<1>1. DOMAIN m = DOMAIN f \cup DOMAIN s
  BY DEF MergeRows
<1>2. ASSUME NEW d \in DOMAIN f, d \in DOMAIN s
      PROVE  /\ m[d] \in Row(h) /\ m[d].total = f[d].total /\ m[d].sum = f[d].sum
             /\ m[d].daily = s[d].daily
  <2>1. m[d] = [f[d] EXCEPT !.daily = s[d].daily]
    BY <1>2 DEF MergeRows
  <2>2. f[d] \in Row(h) /\ s[d].daily \in -h .. h
    BY <1>2, RowFields
  <2> QED
    BY <2>1, <2>2, RowDaily
<1>3. /\ \A d \in DOMAIN s \ DOMAIN f : m[d] = s[d]
      /\ \A d \in DOMAIN f \ DOMAIN s : m[d] = f[d]
  BY DEF MergeRows
<1>4. ASSUME NEW d \in DOMAIN m
      PROVE  m[d] \in Row(h) /\ d \in 1 .. MaxDay
  BY <1>1, <1>2, <1>3, RowFields
<1>5. m = [d \in DOMAIN m |-> m[d]]
  BY DEF MergeRows
<1>6. AreRows(m, h)
  BY <1>4, <1>5 DEF AreRows
<1> QED
  BY <1>1, <1>2, <1>3, <1>6 DEF Merged

LEMMA LatestRowsAre ==
    ASSUME NEW h, NEW old, AreRows(old, h)
    PROVE  /\ AreRows(LatestRows(old), h) /\ DOMAIN LatestRows(old) = LatestOf(DOMAIN old)
           /\ \A d \in LatestOf(DOMAIN old) : LatestRows(old)[d] = old[d]
<1>1. LatestOf(DOMAIN old) \subseteq DOMAIN old
  BY DEF LatestOf
<1> QED
  BY <1>1 DEF LatestRows, AreRows

-----------------------------------------------------------------------------
\* What the rows m put together of those of the subgraph at block n and of the old ones must be
\* for their result to be right: of every day of the subgraph from the first one on there is a
\* row, with the right total; the values of the first one are bounded; the old days before it
\* are right, and it continues them.
LEMMA CaughtUp ==
    ASSUME NEW bs \in Chains, NEW n \in 0 .. Len(bs), NEW h \in Nat,
           NEW old, AreRows(old, h), NEW m, AreRows(m, h), DOMAIN m # {}, Exact(bs, m, n),
           NEW a, a = MinOf(DOMAIN m), NEW z, z = MaxOf(DOMAIN m),
           \A d \in DaysIn(bs, n) : d >= a => d \in DOMAIN m,
           m[a].daily <= m[a].total, m[a].sum <= m[a].total,
           \A x \in DOMAIN old : x <= z,
           Right(bs, old, a, n), Continued(old, a, m[a]), \A x \in DOMAIN old : x < a => a # z,
           NEW p, p = ProcessSnapshots(m), NEW f, f = Over(p, old)
    PROVE  /\ DOMAIN p = a .. z
           /\ Contiguous(DOMAIN f) /\ Differences(f) /\ Bounded(bs, f, n) /\ Exact(bs, f, n)
<1>1. /\ AreRows(p, h) /\ DOMAIN p = a .. z /\ Differences(p)
      /\ p[a].total = m[a].total
      /\ p[a].daily = IF a = z THEN m[a].total ELSE m[a].daily
      /\ p[a].sum = IF m[a].sum # 0 THEN m[a].sum ELSE p[a].daily
      /\ \A d \in a .. z : p[d].sum = p[a].sum + (p[d].total - p[a].total)
  BY ProcessedRows
<1>2. DOMAIN m \subseteq 1 .. MaxDay
  BY DEF AreRows
<1>3. a \in DOMAIN m /\ a \in Nat /\ z \in Nat /\ a <= z
  BY <1>2, Ends
<1>4. Exact(bs, p, n)
  BY ProcessedTotals
<1>5. m[a].total \in Int /\ m[a].daily \in Int /\ m[a].sum \in Int
  BY <1>3, RowFields
<1>6. p[a].daily <= p[a].total /\ p[a].sum <= p[a].total
  BY <1>1, <1>5
<1>7. n \in Nat
  BY DEF Chains
<1>8. Bounded(bs, p, n)
  BY <1>1, <1>3, <1>4, <1>6, <1>7, ProcessedBounded
<1>9. Continued(old, a, p[a])
  BY <1>1 DEF Continued
<1>10. /\ AreRows(f, h) /\ Contiguous(DOMAIN f) /\ Differences(f) /\ Bounded(bs, f, n)
       /\ Exact(bs, f, n)
  BY <1>1, <1>3, <1>4, <1>7, <1>8, <1>9, Overlay
<1> QED
  BY <1>1, <1>10

\* A run that starts at the saved block c: what processSnapshots makes of the rows that have
\* changed since then and of the two latest stored rows is, together with the other stored rows,
\* as the subgraph has it at block n: no gaps, the right total and difference of every day.
THEOREM CatchesUp ==
    ASSUME NEW bs \in Chains, Ordered(bs), NEW n \in 0 .. Len(bs), NEW h \in n .. Len(bs),
           NEW c \in Int, NEW l, NEW old, AreRows(old, h), Within(bs, DOMAIN old, n),
           Core(bs, old, DOMAIN old, c, n, l),
           NEW W, W = ChangedDays(bs, n, c), W # {}, Near(W, DOMAIN old),
           NEW p, p = ProcessSnapshots(MergeRows(Fetched(bs, n, W), LatestRows(old))),
           NEW f, f = Over(p, old)
    PROVE  /\ Contiguous(DOMAIN f) /\ Differences(f) /\ Bounded(bs, f, n) /\ Exact(bs, f, n)
           /\ \E a, z \in Nat :
                /\ DOMAIN p = a .. z /\ a \in W \cup DOMAIN old /\ z \in W \cup DOMAIN old
                /\ W \subseteq a .. z
                /\ \A x \in DOMAIN old :
                      /\ x <= z
                      /\ x > a => x = a + 1 /\ a \in DOMAIN old
                      /\ x < a => a \in DOMAIN old
                /\ DOMAIN old = {} => a \in W
<1> DEFINE D == DOMAIN old
           L == LatestOf(D)
<1>1. /\ W \subseteq 1 .. MaxDay /\ W \subseteq Nat /\ D \subseteq 1 .. MaxDay /\ D \subseteq Nat
      /\ n \in Nat /\ h \in Nat /\ n <= h
  <2>1. W \subseteq 1 .. MaxDay /\ W \subseteq Nat
    BY DayNumber DEF ChangedDays
  <2>2. D \subseteq 1 .. MaxDay
    BY DEF AreRows
  <2> QED
    BY <2>1, <2>2, BoundsAssumption
<1>2. Contiguous(D) /\ Differences(old) /\ Bounded(bs, old, n) /\ Complete(bs, old, n)
  BY DEF Core
<1>3. PICK g, s, m : /\ g = Fetched(bs, n, W) /\ s = LatestRows(old) /\ m = MergeRows(g, s)
                     /\ p = ProcessSnapshots(m)
  OBVIOUS
<1>4. /\ AreRows(g, h) /\ DOMAIN g = W
      /\ \A d \in W : g[d].daily = 0 /\ g[d].sum = 0 /\ g[d].total = TotalIn(bs, n, d)
  <2>1. /\ AreRows(g, n) /\ DOMAIN g = W
        /\ \A d \in W : g[d].daily = 0 /\ g[d].sum = 0 /\ g[d].total = TotalIn(bs, n, d)
    BY <1>1, <1>3, FetchedRows
  <2> QED
    BY <2>1, <1>1, RowsGrow
<1>5. AreRows(s, h) /\ DOMAIN s = L /\ \A d \in L : s[d] = old[d]
  BY <1>3, LatestRowsAre
<1>6. /\ AreRows(m, h) /\ DOMAIN m = W \cup L
      /\ \A d \in W : m[d].total = g[d].total /\ m[d].sum = g[d].sum
      /\ \A d \in L : m[d].daily = s[d].daily
      /\ \A d \in L \ W : m[d] = s[d]
      /\ \A d \in W \ L : m[d] = g[d]
  <2>1. h \in Nat /\ AreRows(g, h) /\ AreRows(s, h) /\ m = MergeRows(g, s)
    BY <1>1, <1>3, <1>4, <1>5
  <2>2. AreRows(m, h) /\ Merged(m, g, s)
    BY <2>1, MergedRows
  <2>3. DOMAIN g = W /\ DOMAIN s = L
    BY <1>4, <1>5
  <2> HIDE DEF L
  <2> QED
    BY <2>2, <2>3, Zenon DEF Merged
<1>7. L \subseteq D
  BY DEF LatestOf
<1>8. PICK a, z : a = MinOf(DOMAIN m) /\ z = MaxOf(DOMAIN m)
  OBVIOUS
<1>9. /\ a \in W \cup L /\ z \in W \cup L /\ a \in Nat /\ z \in Nat /\ a <= z
      /\ \A x \in W \cup L : a <= x /\ x <= z
  <2>1. W \cup L \subseteq 1 .. MaxDay /\ W \cup L # {}
    BY <1>1, <1>7
  <2>2. /\ a \in W \cup L /\ z \in W \cup L
        /\ \A x \in W \cup L : a <= x /\ x <= z
    BY <2>1, <1>6, <1>8, Ends
  <2> HIDE DEF L
  <2> QED
    BY <2>1, <2>2, BoundsAssumption
\* The two latest stored rows and the new ones.
<1>10. \A x \in D : /\ x <= z
                    /\ x \in L <=> x >= a
                    /\ x > a => x = a + 1 /\ a \in D
                    /\ x < a => a \in D /\ a - 1 \in D /\ \E y \in L : y > a
  <2>1. CASE D = {}
    BY <2>1
  <2>2. CASE D # {}
    <3>1. PICK k : k = MaxOf(D)
      OBVIOUS
    <3>2. k \in D /\ k \in Nat /\ \A x \in D : x <= k
      BY <3>1, <1>1, <2>2, Ends
    <3>3. L = {d \in D : d >= k - 1}
      BY <3>1, <1>1, <1>2, <2>2, LatestDays
    <3>4. k \in L
      BY <3>2, <3>3
    <3> HIDE DEF L
    <3>5. \A d \in W : d >= k \/ (d = k - 1 /\ d \in D)
      BY <3>2 DEF Near
    <3>6. a >= k \/ (a = k - 1 /\ a \in D)
      <4>1. CASE a \in W
        BY <4>1, <3>5
      <4>2. CASE a \in L
        BY <4>2, <1>1, <1>9, <3>2, <3>3
      <4> QED
        BY <4>1, <4>2, <1>9
    <3>7. a <= k /\ k <= z
      BY <3>4, <1>9
    <3> SUFFICES ASSUME NEW x \in D
                 PROVE  /\ x <= z
                        /\ x \in L <=> x >= a
                        /\ x > a => x = a + 1 /\ a \in D
                        /\ x < a => a \in D /\ a - 1 \in D /\ \E y \in L : y > a
      OBVIOUS
    <3>8. x \in Nat /\ x <= k
      BY <1>1, <3>2
    <3>9. x <= z
      BY <3>2, <3>7, <3>8, <1>9
    <3>10. x \in L <=> x >= k - 1
      BY <3>3
    <3>11. x \in L => x >= a
      BY <1>9
    <3>12. x >= a => x \in L
      BY <3>2, <3>6, <3>8, <3>10, <1>9
    <3>13. a \in D
      BY <3>2, <3>6, <3>7, <1>9
    <3>14. x > a => x = a + 1
      BY <3>2, <3>6, <3>8, <1>9
    <3>15. x < a => a - 1 \in D
      BY <3>13, <1>2 DEF Contiguous
    <3>16. x < a => a # k
      BY <3>2, <3>3, <3>15, <1>9
    <3>17. x < a => \E y \in L : y > a
      BY <3>2, <3>4, <3>7, <3>16, <1>9
    <3> QED
      BY <3>9, <3>11, <3>12, <3>13, <3>14, <3>15, <3>17
  <2> QED
    BY <2>1, <2>2
\* The totals.
<1>11. ASSUME NEW d \in L \ W
       PROVE  Has(bs, old, n, d)
  <2>1. d \in D /\ d <= d
    BY <1>1, <1>7
  <2>2. d \notin DaysIn(bs, n) \/ ~ ChangedIn(bs, n, d, c)
    BY <1>11 DEF ChangedDays
  <2>3. Current(bs, old, D, c, n, l)
    BY DEF Core
  <2> HIDE DEF L
  <2> QED
    BY <2>1, <2>2, <2>3 DEF Current
<1>12. Exact(bs, m, n)
  <2> SUFFICES ASSUME NEW d \in W \cup L
               PROVE  m[d].total = TotalIn(bs, n, d)
    BY <1>6 DEF Exact, Has
  <2>1. CASE d \in W
    BY <2>1, <1>4, <1>6
  <2>2. CASE d \in L \ W
    BY <2>2, <1>5, <1>6, <1>11 DEF Has
  <2> QED
    BY <2>1, <2>2
<1>13. ASSUME NEW d \in DaysIn(bs, n), d >= a
       PROVE  d \in W \cup L
  <2>1. d \in Nat
    BY DayNumber
  <2>2. CASE a \in W
    <3>1. ChangedIn(bs, n, a, c)
      BY <2>2 DEF ChangedDays
    <3>2. CASE d = a
      BY <3>2, <2>2
    <3>3. CASE d # a
      <4>1. a < d /\ a \in Int
        BY <3>3, <2>1, <1>9, <1>13
      <4>2. ChangedIn(bs, n, d, c)
        BY <4>1, <3>1, ChangedUpwards
      <4> QED
        BY <4>2 DEF ChangedDays
    <3> QED
      BY <3>2, <3>3
  <2>3. CASE a \in L
    <3>1. a \in D /\ a <= d
      BY <2>1, <2>3, <1>7, <1>9, <1>13
    <3>2. ChangedIn(bs, n, d, c) \/ Has(bs, old, n, d)
      BY <3>1 DEF Core, Current
    <3>3. CASE d \in D
      BY <3>3, <1>10, <1>13
    <3>4. CASE ChangedIn(bs, n, d, c)
      BY <3>4 DEF ChangedDays
    <3> QED
      BY <3>2, <3>3, <3>4 DEF Has
  <2> QED
    BY <2>2, <2>3, <1>9
\* The first row.
<1>14. m[a].daily <= m[a].total /\ m[a].sum <= m[a].total
  <2>1. TotalIn(bs, n, a) \in 0 .. n /\ m[a].total = TotalIn(bs, n, a)
    BY <1>1, <1>6, <1>9, <1>12, TotalTyped DEF Exact, Has
  <2>2. CASE a \in L
    <3>1. /\ a \in D /\ m[a].daily = old[a].daily /\ old[a].daily \in Int /\ old[a].total \in Int
          /\ old[a].daily <= old[a].total /\ old[a].total <= TotalIn(bs, n, a)
          /\ old[a].sum <= old[a].total /\ old[a].sum \in Int
      BY <2>2, <1>1, <1>2, <1>5, <1>6, <1>7, RowFields DEF Bounded
    <3>2. m[a].daily <= m[a].total
      BY <2>1, <3>1
    <3>3. CASE a \in W
      BY <3>2, <3>3, <2>1, <1>4, <1>6
    <3>4. CASE a \notin W
      BY <3>1, <3>2, <3>4, <2>1, <2>2, <1>5, <1>6
    <3> QED
      BY <3>2, <3>3, <3>4
  <2>3. CASE a \in W \ L
    BY <2>1, <2>3, <1>4, <1>6
  <2> QED
    BY <2>2, <2>3, <1>9
<1>15. ASSUME NEW x \in D, x < a
       PROVE  /\ a # z /\ a - 1 \in D
              /\ m[a].daily = m[a].total - old[a - 1].total
  <2>1. PICK y \in L : y > a
    BY <1>10, <1>15
  <2>2. a \in D /\ a - 1 \in D /\ a \in L /\ y \in D /\ y \in Nat
    BY <2>1, <1>1, <1>7, <1>9, <1>10, <1>15
  <2>3. a # z
    BY <2>1, <2>2, <1>9
  <2>4. old[a].daily = old[a].total - old[a - 1].total
    BY <2>2, <1>2 DEF Differences
  <2>5. old[a].total = TotalIn(bs, n, a)
    BY <2>1, <2>2, <1>2 DEF Complete, Has
  <2>6. m[a].total = TotalIn(bs, n, a) /\ m[a].daily = old[a].daily
    BY <2>2, <1>5, <1>6, <1>12 DEF Exact, Has
  <2> QED
    BY <2>2, <2>3, <2>4, <2>5, <2>6
<1>16. Continued(old, a, m[a])
  BY <1>15 DEF Continued
<1>17. Right(bs, old, a, n)
  <2>1. ASSUME NEW x \in D, x < a
        PROVE  Has(bs, old, n, x)
    BY <2>1, <1>2, <1>10 DEF Complete
  <2>2. \A x \in D : x - 1 \in D => old[x].daily = old[x].total - old[x - 1].total
    BY <1>2 DEF Differences
  <2>3. \A x \in D : old[x].daily <= old[x].total /\ old[x].sum <= old[x].total
    BY <1>2 DEF Bounded
  <2>4. \A x, d \in D : x < d => d - 1 \in D
    BY <1>2 DEF Contiguous
  <2> QED
    BY <2>1, <2>2, <2>3, <2>4 DEF Right
<1>18. /\ DOMAIN p = a .. z
       /\ Contiguous(DOMAIN f) /\ Differences(f) /\ Bounded(bs, f, n) /\ Exact(bs, f, n)
  <2>1. DOMAIN m # {} /\ \A d \in DaysIn(bs, n) : d >= a => d \in DOMAIN m
    BY <1>6, <1>9, <1>13
  <2>2. (\A x \in DOMAIN old : x <= z) /\ (\A x \in DOMAIN old : x < a => a # z)
    BY <1>10, <1>15
  <2>3. h \in Nat /\ AreRows(m, h) /\ a = MinOf(DOMAIN m) /\ z = MaxOf(DOMAIN m)
    BY <1>1, <1>6, <1>8
  <2>4. p = ProcessSnapshots(m)
    BY <1>3
  <2>5. m[a].daily <= m[a].total /\ m[a].sum <= m[a].total
    BY <1>14
  <2> QED
    BY <2>1, <2>2, <2>3, <2>4, <2>5, <1>12, <1>16, <1>17, CaughtUp
<1>19. a \in W \cup D /\ z \in W \cup D
  BY <1>7, <1>9
<1>20. W \subseteq a .. z
  BY <1>1, <1>9
<1>21. D = {} => a \in W
  BY <1>7, <1>9
<1> HIDE DEF L
<1> QED
  BY <1>9, <1>10, <1>18, <1>19, <1>20, <1>21

\* Every day has changed since block 0.
LEMMA AllDays ==
    ASSUME NEW bs, NEW n \in Nat
    PROVE  ChangedDays(bs, n, 0) = DaysIn(bs, n)
<1>1. ASSUME NEW d \in DaysIn(bs, n)
      PROVE  ChangedIn(bs, n, d, 0)
  <2>1. PICK b \in SwapsIn(bs, n, {d}) : TRUE
    BY DEF DaysIn
  <2>2. b >= 0
    BY <2>1 DEF SwapsIn
  <2> QED
    BY <2>2 DEF ChangedIn
<1> QED
  BY <1>1 DEF ChangedDays

\* A sync of all snapshots does not read the stored rows, and writes over all of them: whatever
\* they were, the result has no gaps and the right total and difference of every day.
THEOREM SyncsAll ==
    ASSUME NEW bs \in Chains, NEW n \in 0 .. Len(bs), NEW h \in n .. Len(bs),
           NEW old, AreRows(old, h), Within(bs, DOMAIN old, n),
           NEW W, W = ChangedDays(bs, n, 0), W # {},
           NEW p, p = ProcessSnapshots(MergeRows(Fetched(bs, n, W), NoRows)),
           NEW f, f = Over(p, old)
    PROVE  /\ Contiguous(DOMAIN f) /\ Differences(f) /\ Bounded(bs, f, n) /\ Exact(bs, f, n)
           /\ \E a, z \in Nat :
                DOMAIN p = a .. z /\ a \in W /\ z \in W /\ W \subseteq a .. z
<1> DEFINE D == DOMAIN old
<1>1. /\ W = DaysIn(bs, n) /\ n \in Nat /\ h \in Nat /\ n <= h
      /\ W \subseteq 1 .. MaxDay /\ W \subseteq Nat /\ D \subseteq 1 .. MaxDay /\ D \subseteq Nat
  <2>1. n \in Nat /\ h \in Nat /\ n <= h
    BY DEF Chains
  <2>2. W = DaysIn(bs, n)
    BY <2>1, AllDays
  <2>3. W \subseteq 1 .. MaxDay /\ W \subseteq Nat
    BY <2>2, DayNumber
  <2>4. D \subseteq 1 .. MaxDay
    BY DEF AreRows
  <2> QED
    BY <2>1, <2>2, <2>3, <2>4, BoundsAssumption
<1>2. PICK g, m : g = Fetched(bs, n, W) /\ m = MergeRows(g, NoRows) /\ p = ProcessSnapshots(m)
  OBVIOUS
<1>3. /\ AreRows(g, h) /\ DOMAIN g = W
      /\ \A d \in W : g[d].daily = 0 /\ g[d].sum = 0 /\ g[d].total = TotalIn(bs, n, d)
  <2>1. /\ AreRows(g, n) /\ DOMAIN g = W
        /\ \A d \in W : g[d].daily = 0 /\ g[d].sum = 0 /\ g[d].total = TotalIn(bs, n, d)
    BY <1>1, <1>2, FetchedRows
  <2> QED
    BY <2>1, <1>1, RowsGrow
<1>4. AreRows(m, h) /\ DOMAIN m = W /\ \A d \in W : m[d] = g[d]
  <2>1. AreRows(NoRows, h) /\ DOMAIN NoRows = {}
    BY <1>1, NoRowsAre
  <2>2. AreRows(m, h) /\ Merged(m, g, NoRows)
    BY <2>1, <1>1, <1>2, <1>3, MergedRows
  <2> QED
    BY <2>1, <2>2, <1>3 DEF Merged
<1>5. PICK a, z : a = MinOf(DOMAIN m) /\ z = MaxOf(DOMAIN m)
  OBVIOUS
<1>6. /\ a \in W /\ z \in W /\ a \in Nat /\ z \in Nat
      /\ \A x \in W : a <= x /\ x <= z
  BY <1>1, <1>4, <1>5, Ends
<1>7. ASSUME NEW x \in D
      PROVE  a <= x /\ x <= z
  <2>1. PICK u, v \in W : u <= x /\ x <= v
    BY <1>1 DEF Within
  <2>2. u \in Nat /\ v \in Nat /\ x \in Nat
    BY <1>1
  <2> QED
    BY <2>1, <2>2, <1>6
<1>8. \A x \in D : ~ (x < a)
  <2> SUFFICES ASSUME NEW x \in D, x < a
               PROVE  FALSE
    OBVIOUS
  <2>1. x \in Nat /\ a <= x
    BY <1>1, <1>7
  <2> QED
    BY <2>1, <1>6
<1>9. Right(bs, old, a, n) /\ Continued(old, a, m[a])
  BY <1>8 DEF Right, Continued
<1>10. m[a].daily <= m[a].total /\ m[a].sum <= m[a].total
  <2>1. m[a].daily = 0 /\ m[a].sum = 0 /\ m[a].total = TotalIn(bs, n, a)
    BY <1>3, <1>4, <1>6
  <2>2. TotalIn(bs, n, a) \in 0 .. n
    BY <1>1, TotalTyped
  <2> QED
    BY <2>1, <2>2, <1>1
<1>11. /\ DOMAIN p = a .. z
       /\ Contiguous(DOMAIN f) /\ Differences(f) /\ Bounded(bs, f, n) /\ Exact(bs, f, n)
  <2>1. DOMAIN m # {} /\ \A d \in DaysIn(bs, n) : d >= a => d \in DOMAIN m
    BY <1>1, <1>4
  <2>2. (\A x \in DOMAIN old : x <= z) /\ (\A x \in DOMAIN old : x < a => a # z)
    BY <1>7, <1>8
  <2>3. h \in Nat /\ AreRows(m, h) /\ a = MinOf(DOMAIN m) /\ z = MaxOf(DOMAIN m)
    BY <1>1, <1>4, <1>5
  <2>4. Exact(bs, m, n)
    BY <1>3, <1>4 DEF Exact, Has
  <2>5. p = ProcessSnapshots(m)
    BY <1>2
  <2> QED
    BY <2>1, <2>2, <2>3, <2>4, <2>5, <1>9, <1>10, CaughtUp
<1>12. W \subseteq a .. z
  BY <1>1, <1>6
<1> QED
  BY <1>6, <1>11, <1>12

-----------------------------------------------------------------------------
(***************************************************************************)
(* The transactions of a run.                                              *)
(***************************************************************************)

\* The stored rows after a transaction with the rows up to some day, and what is left to write.
Batch(rows, last) == {d \in DOMAIN rows : d <= last}
Stores(rows, old, last) ==
    [d \in DOMAIN old \cup Batch(rows, last) |->
        IF d \in Batch(rows, last) THEN rows[d] ELSE old[d]]
Left(rows, last) == [d \in DOMAIN rows \ Batch(rows, last) |-> rows[d]]

\* What will be stored in the end does not change.
LEMMA OverAfter ==
    ASSUME NEW rows, NEW old, NEW last
    PROVE  Over(Left(rows, last), Stores(rows, old, last)) = Over(rows, old)
<1> DEFINE s == Stores(rows, old, last)
           r == Left(rows, last)
<1>1. DOMAIN s = DOMAIN old \cup Batch(rows, last) /\ DOMAIN r = DOMAIN rows \ Batch(rows, last)
  BY DEF Stores, Left
<1>2. Batch(rows, last) \subseteq DOMAIN rows
  BY DEF Batch
<1>3. DOMAIN s \cup DOMAIN r = DOMAIN old \cup DOMAIN rows
  BY <1>1, <1>2
<1>4. ASSUME NEW d \in DOMAIN old \cup DOMAIN rows
      PROVE  (IF d \in DOMAIN r THEN r[d] ELSE s[d])
             = (IF d \in DOMAIN rows THEN rows[d] ELSE old[d])
  <2>1. CASE d \in DOMAIN r
    BY <2>1, <1>1 DEF Left
  <2>2. CASE d \in Batch(rows, last)
    BY <2>2, <1>1, <1>2 DEF Stores
  <2>3. CASE d \notin DOMAIN rows
    BY <2>3, <1>1, <1>2 DEF Stores
  <2> QED
    BY <2>1, <2>2, <2>3, <1>1
<1> HIDE DEF s, r
<1> QED
  BY <1>3, <1>4 DEF Over, s, r

LEMMA OverTyped ==
    ASSUME NEW h \in Nat, NEW rows, AreRows(rows, h), NEW old, AreRows(old, h)
    PROVE  AreRows(Over(rows, old), h)
<1>1. Over(rows, old) \in [DOMAIN old \cup DOMAIN rows -> Row(h)]
  BY RowFields DEF Over
<1>2. DOMAIN old \subseteq 1 .. MaxDay /\ DOMAIN rows \subseteq 1 .. MaxDay
  BY DEF AreRows
<1> QED
  BY <1>1, <1>2 DEF AreRows

LEMMA StoredRows ==
    ASSUME NEW h \in Nat, NEW rows, AreRows(rows, h), NEW old, AreRows(old, h), NEW last
    PROVE  /\ AreRows(Stores(rows, old, last), h) /\ AreRows(Left(rows, last), h)
           /\ DOMAIN Stores(rows, old, last) = DOMAIN old \cup Batch(rows, last)
           /\ DOMAIN Left(rows, last) = {d \in DOMAIN rows : ~ (d <= last)}
           /\ Batch(rows, last) \subseteq DOMAIN rows
<1>1. DOMAIN Stores(rows, old, last) = DOMAIN old \cup Batch(rows, last)
  BY DEF Stores
<1>2. DOMAIN Left(rows, last) = {d \in DOMAIN rows : ~ (d <= last)}
  BY DEF Left, Batch
<1>3. Batch(rows, last) \subseteq DOMAIN rows
  BY DEF Batch
<1>4. Stores(rows, old, last) \in [DOMAIN old \cup Batch(rows, last) -> Row(h)]
  BY <1>3, RowFields DEF Stores
<1>5. Left(rows, last) \in [DOMAIN rows \ Batch(rows, last) -> Row(h)]
  BY RowFields DEF Left
<1>6. DOMAIN old \subseteq 1 .. MaxDay /\ DOMAIN rows \subseteq 1 .. MaxDay
  BY DEF AreRows
<1> QED
  BY <1>1, <1>2, <1>3, <1>4, <1>5, <1>6 DEF AreRows

LEMMA StillRight ==
    ASSUME NEW bs, NEW n \in Nat, NEW c \in Int, NEW k \in Int, c <= k, NEW l,
           NEW h \in Nat, NEW rows, AreRows(rows, h), NEW old, AreRows(old, h),
           NEW last \in DOMAIN rows, NEW f, f = Over(rows, old),
           Core(bs, f, DOMAIN f, k, n, l), Core(bs, old, DOMAIN f, c, n, l),
           Near(DOMAIN rows, DOMAIN old), NEW s, s = Stores(rows, old, last)
    PROVE  Core(bs, s, DOMAIN f, c, n, l) /\ Near(DOMAIN Left(rows, last), DOMAIN s)
<1> DEFINE B == Batch(rows, last)
<1>1. /\ DOMAIN s = DOMAIN old \cup B /\ B \subseteq DOMAIN rows
      /\ \A d \in B : d <= last /\ s[d] = rows[d]
      /\ \A d \in DOMAIN old \ B : s[d] = old[d]
      /\ \A d \in DOMAIN rows : d \notin B => ~ (d <= last)
  BY DEF Stores, Batch
<1>2. /\ DOMAIN f = DOMAIN old \cup DOMAIN rows
      /\ \A d \in DOMAIN rows : f[d] = rows[d]
      /\ \A d \in DOMAIN old \ DOMAIN rows : f[d] = old[d]
  BY DEF Over
<1>3. DOMAIN rows \subseteq Nat /\ DOMAIN old \subseteq Nat /\ last \in Nat
  BY RowFields
<1> HIDE DEF B
<1>4. \A d \in DOMAIN Left(rows, last) : d \in Nat /\ ~ (d <= last)
  <2>1. \A d \in DOMAIN Left(rows, last) : d \in DOMAIN rows /\ ~ (d <= last)
    BY DEF Left, Batch
  <2> QED
    BY <2>1, <1>3
<1>5. /\ Contiguous(DOMAIN f) /\ Differences(f) /\ Bounded(bs, f, n) /\ Complete(bs, f, n)
      /\ Current(bs, f, DOMAIN f, k, n, l)
      /\ Contiguous(DOMAIN old) /\ Differences(old) /\ Bounded(bs, old, n) /\ Complete(bs, old, n)
      /\ Current(bs, old, DOMAIN f, c, n, l)
  BY DEF Core
\* Either the rows up to that day are as they will be in the end, and there are no others.
<1>6. CASE \A x \in DOMAIN old : x <= last
  <2>1. ASSUME NEW d \in DOMAIN s
        PROVE  d \in DOMAIN f /\ d \in Nat /\ d <= last /\ s[d] = f[d]
    <3>1. CASE d \in B
      BY <3>1, <1>1, <1>2, <1>3
    <3>2. CASE d \notin B
      <4>1. d \in DOMAIN old /\ d <= last /\ s[d] = old[d] /\ d \notin DOMAIN rows
        BY <3>2, <1>1, <1>6
      <4> QED
        BY <4>1, <1>2, <1>3
    <3> QED
      BY <3>1, <3>2
  <2>2. ASSUME NEW d \in DOMAIN f, d <= last
        PROVE  d \in DOMAIN s
    BY <2>2, <1>1, <1>2
  <2>3. ASSUME NEW x \in DOMAIN s, NEW d \in DOMAIN s, x < d
        PROVE  d - 1 \in DOMAIN s
    <3>1. d - 1 \in DOMAIN f
      BY <2>1, <2>3, <1>5 DEF Contiguous
    <3>2. d - 1 <= last
      BY <2>1, <1>3
    <3> QED
      BY <3>1, <3>2, <2>2
  <2>4. Differences(s)
    BY <2>1, <1>5 DEF Differences
  <2>5. Bounded(bs, s, n)
    BY <2>1, <1>5 DEF Bounded
  <2>6. \A d \in DOMAIN s : Has(bs, f, n, d) => Has(bs, s, n, d)
    BY <2>1 DEF Has
  <2>7. Complete(bs, s, n)
    BY <2>1, <2>6, <1>5 DEF Complete
  <2>8. ASSUME NEW d \in DaysIn(bs, n), ~ ChangedIn(bs, n, d, c), Has(bs, old, n, d)
        PROVE  Has(bs, s, n, d)
    <3>1. d \in DOMAIN s /\ d \in DOMAIN f /\ d <= d
      BY <2>8, <1>1, <1>2, <1>3 DEF Has
    <3>2. ~ ChangedIn(bs, n, d, k)
      BY <2>8, ChangedEarlier
    <3>3. Has(bs, f, n, d)
      BY <3>1, <3>2, <1>5 DEF Current
    <3> QED
      BY <3>1, <3>3, <2>6
  <2>9. \A d \in DOMAIN s : d \in DaysIn(bs, n) \/ Has(bs, s, n, d)
    BY <2>1, <2>6, <1>5 DEF Current
  <2>10. Current(bs, s, DOMAIN f, c, n, l)
    <3>1. \A d \in DaysIn(bs, n) :
             \/ l # NotListed /\ ChangedIn(bs, n, d, l + 1)
             \/ \E x \in DOMAIN f : x <= d
             => ChangedIn(bs, n, d, c) \/ Has(bs, old, n, d)
      BY <1>5, Zenon DEF Current
    <3>2. \A d \in DaysIn(bs, n) :
             \/ l # NotListed /\ ChangedIn(bs, n, d, l + 1)
             \/ \E x \in DOMAIN f : x <= d
             => ChangedIn(bs, n, d, c) \/ Has(bs, s, n, d)
      BY <2>8, <3>1, Zenon
    <3> QED
      BY <2>9, <3>2, Zenon DEF Current
  <2>11. Near(DOMAIN Left(rows, last), DOMAIN s)
    <3>1. \A d \in DOMAIN Left(rows, last), x \in DOMAIN s : d >= x
      BY <1>4, <2>1, <1>3
    <3> QED
      BY <3>1 DEF Near
  <2> QED
    BY <2>3, <2>4, <2>5, <2>7, <2>10, <2>11 DEF Core, Contiguous
\* Or it is the row before the last one alone, and its total does not change.
<1>7. CASE \E x \in DOMAIN old : ~ (x <= last)
  <2>1. PICK m \in DOMAIN old : ~ (m <= last)
    BY <1>7
  <2>2. m \in Nat /\ last = m - 1 /\ last \in DOMAIN old
    BY <2>1, <1>3 DEF Near
  <2>3. \A x \in DOMAIN old : x <= m
    <3> SUFFICES ASSUME NEW x \in DOMAIN old, ~ (x <= m)
                 PROVE  FALSE
      OBVIOUS
    <3>1. x \in Nat /\ last = x - 1
      BY <2>2, <1>3 DEF Near
    <3> QED
      BY <3>1, <2>2
  <2>4. \A d \in DOMAIN rows : d >= last
    BY <2>1, <2>2, <1>3 DEF Near
  <2>5. B = {last}
    <3>1. \A d \in B : d = last
      BY <2>4, <1>1, <1>3
    <3>2. last \in B
      BY <1>1, <1>3
    <3> QED
      BY <3>1, <3>2
  <2>6. DOMAIN s = DOMAIN old
    BY <2>2, <2>5, <1>1
  <2>7. s[last] = f[last] /\ \A d \in DOMAIN old : d # last => s[d] = old[d]
    BY <2>5, <1>1, <1>2
  <2>8. Has(bs, old, n, last) /\ Has(bs, f, n, last)
    <3>1. last < m /\ m \in DOMAIN f /\ last \in DOMAIN f
      BY <2>2, <1>2
    <3> QED
      BY <3>1, <2>2, <1>5 DEF Complete
  <2>9. \A d \in DOMAIN old : s[d].total = old[d].total
    BY <2>7, <2>8 DEF Has
  <2>10. \A d : Has(bs, old, n, d) <=> Has(bs, s, n, d)
    BY <2>6, <2>9 DEF Has
  <2>11. ASSUME NEW d \in DOMAIN old, d - 1 \in DOMAIN old
         PROVE  s[d].daily = s[d].total - s[d - 1].total
    <3>1. CASE d # last
      BY <3>1, <2>7, <2>9, <2>11, <1>5 DEF Differences
    <3>2. CASE d = last
      <4>1. d - 1 \in DOMAIN f /\ d \in DOMAIN f
        BY <2>11, <1>2
      <4>2. f[d].daily = f[d].total - f[d - 1].total
        BY <4>1, <1>5 DEF Differences
      <4>3. d - 1 \notin DOMAIN rows /\ d - 1 # last
        BY <3>2, <2>4, <1>3
      <4>4. f[d - 1] = old[d - 1] /\ s[d - 1] = old[d - 1]
        BY <4>3, <2>7, <2>11, <1>2
      <4> QED
        BY <3>2, <4>2, <4>4, <2>7
    <3> QED
      BY <3>1, <3>2
  <2>12. ASSUME NEW d \in DOMAIN old
         PROVE  /\ s[d].daily <= s[d].total /\ s[d].sum <= s[d].total
                /\ s[d].total <= TotalIn(bs, n, d)
    <3>1. CASE d = last
      BY <3>1, <2>7, <2>8, <1>5 DEF Bounded, Has
    <3>2. CASE d # last
      BY <3>2, <2>7, <1>5 DEF Bounded
    <3> QED
      BY <3>1, <3>2
  <2>13. Complete(bs, s, n) /\ Current(bs, s, DOMAIN f, c, n, l)
    <3>1. Complete(bs, s, n)
      BY <2>6, <2>10, <1>5 DEF Complete
    <3>2. \A d \in DaysIn(bs, n) :
             \/ l # NotListed /\ ChangedIn(bs, n, d, l + 1)
             \/ \E x \in DOMAIN f : x <= d
             => ChangedIn(bs, n, d, c) \/ Has(bs, s, n, d)
      BY <2>10, <1>5, Zenon DEF Current
    <3>3. \A d \in DOMAIN s : d \in DaysIn(bs, n) \/ Has(bs, s, n, d)
      BY <2>6, <2>10, <1>5 DEF Current
    <3> QED
      BY <3>1, <3>2, <3>3, Zenon DEF Current
  <2>14. Differences(s) /\ Bounded(bs, s, n) /\ Contiguous(DOMAIN s)
    BY <2>6, <2>11, <2>12, <1>5 DEF Differences, Bounded
  <2>15. Near(DOMAIN Left(rows, last), DOMAIN s)
    <3>1. ASSUME NEW d \in DOMAIN Left(rows, last), NEW x \in DOMAIN s
          PROVE  d >= x
      <4>1. x \in Nat /\ x <= m
        BY <2>3, <2>6, <1>3
      <4> QED
        BY <4>1, <1>4, <2>2
    <3> QED
      BY <3>1 DEF Near
  <2> QED
    BY <2>13, <2>14, <2>15 DEF Core
<1> QED
  BY <1>6, <1>7

-----------------------------------------------------------------------------
(***************************************************************************)
(* Types.                                                                  *)
(***************************************************************************)

Steps == {"idle", "begun", "located", "fetched", "writing"}
AllRows(h) == UNION {[D -> Row(h)] : D \in SUBSET (1 .. MaxDay)}
Locals(h) == [all : BOOLEAN, current : 0 .. h, last : 0 .. h, knows : BOOLEAN, rows : AllRows(h)]

TypeInv ==
    /\ blocks \in Chains
    /\ listed \in NotListed .. head
    /\ cursor \in 0 .. head
    /\ ragged \in BOOLEAN
    /\ step \in Steps
    /\ AreRows(db, head)
    /\ run \in Locals(head)

LEMMA RowsMember ==
    ASSUME NEW h, NEW rows
    PROVE  rows \in AllRows(h) <=> AreRows(rows, h)
  BY DEF AllRows, AreRows

LEMMA TypeInvTypeOK ==
    ASSUME TypeInv
    PROVE  TypeOK
<1>1. head \in Nat
  BY DEF TypeInv, Chains, head
<1>2. /\ {run.current, run.last} \subseteq 0 .. head
      /\ run.rows \in AllRows(head)
  BY DEF TypeInv, Locals
<1>3. AreRows(run.rows, head)
  BY <1>2, RowsMember
<1>4. ASSUME NEW rows, AreRows(rows, head)
      PROVE  /\ DOMAIN rows \subseteq 1 .. MaxDay
             /\ \A d \in DOMAIN rows : /\ rows[d].total \in 0 .. head
                                       /\ rows[d].daily \in -head .. head
                                       /\ rows[d].sum \in Int
  BY <1>1, <1>4, RowFields
<1>5. \A rows \in {db, run.rows} :
        /\ DOMAIN rows \subseteq 1 .. MaxDay
        /\ \A d \in DOMAIN rows : /\ rows[d].total \in 0 .. head
                                  /\ rows[d].daily \in -head .. head
                                  /\ rows[d].sum \in Int
  BY <1>3, <1>4 DEF TypeInv
<1> QED
  BY <1>2, <1>5 DEF TypeInv, TypeOK, Chains, Steps

LEMMA NoRunTyped ==
    ASSUME NEW h \in Nat
    PROVE  NoRun \in Locals(h)
<1>1. NoRows \in AllRows(h)
  BY NoRowsAre, RowsMember
<1> QED
  BY <1>1 DEF NoRun, Locals

LEMMA LocalsGrow ==
    ASSUME NEW h \in Nat, NEW k \in Nat, h <= k, NEW l \in Locals(h)
    PROVE  l \in Locals(k)
<1>1. l.rows \in AllRows(k)
  <2>1. AreRows(l.rows, h)
    BY RowsMember DEF Locals
  <2> QED
    BY <2>1, RowsGrow, RowsMember
<1> QED
  BY <1>1 DEF Locals

LEMMA WithRows ==
    ASSUME NEW h, NEW l \in Locals(h), NEW r, AreRows(r, h), NEW m, m = [l EXCEPT !.rows = r]
    PROVE  /\ m \in Locals(h) /\ m.all = l.all /\ m.current = l.current
           /\ m.last = l.last /\ m.knows = l.knows /\ m.rows = r
<1>1. r \in AllRows(h)
  BY RowsMember
<1>2. m \in Locals(h)
  BY <1>1, Zenon DEF Locals
<1> QED
  BY <1>2 DEF Locals

-----------------------------------------------------------------------------
(***************************************************************************)
(* What the module says of the chain of the state.                         *)
(***************************************************************************)

LEMMA HeadNumber ==
    ASSUME TypeInv
    PROVE  /\ head \in Nat /\ blocks \in Chains /\ Len(blocks) = head
           /\ listed \in Int /\ cursor \in Nat /\ cursor <= head /\ listed <= head
  BY DEF TypeInv, Chains, head, NotListed

LEMMA RunTyped ==
    ASSUME TypeInv
    PROVE  /\ run \in Locals(head)
           /\ run.all \in BOOLEAN /\ run.knows \in BOOLEAN
           /\ run.current \in Nat /\ run.current \in 0 .. head
           /\ run.last \in Nat /\ run.last \in 0 .. head
           /\ AreRows(run.rows, head) /\ AreRows(db, head)
<1>1. head \in Nat
  BY HeadNumber
<1>2. run.rows \in AllRows(head)
  BY DEF TypeInv, Locals
<1> QED
  BY <1>1, <1>2, RowsMember DEF TypeInv, Locals

LEMMA OfTheChain ==
    /\ \A n, D : Swaps(n, D) = SwapsIn(blocks, n, D)
    /\ \A n : RowDays(n) = DaysIn(blocks, n)
    /\ \A n, d : Total(n, d) = TotalIn(blocks, n, d)
    /\ \A n : DayOf(n) = DayIn(blocks, n)
    /\ Latest = LatestOf(DOMAIN db)
<1>1. \A n, D : Swaps(n, D) = SwapsIn(blocks, n, D)
  BY DEF Swaps, SwapsIn
<1>2. Latest = LatestOf(DOMAIN db)
  BY DEF Latest, LatestOf
<1>3. \A n : DayOf(n) = DayIn(blocks, n)
  BY DEF DayOf, DayIn
<1> QED
  BY <1>1, <1>2, <1>3 DEF RowDays, DaysIn, Total, TotalIn

\* The block that changed a day last is one that changed it.
LEMMA LastChange ==
    ASSUME NEW n \in Nat, NEW d \in DaysIn(blocks, n), NEW c \in Int
    PROVE  /\ ChangedAt(n, d) \in Nat
           /\ ChangedAt(n, d) >= c <=> ChangedIn(blocks, n, d, c)
<1> DEFINE S == SwapsIn(blocks, n, {d})
<1>1. ChangedAt(n, d) = MaxOf(S)
  BY OfTheChain DEF ChangedAt
<1>2. S \subseteq Nat /\ S # {} /\ \A b \in S : b <= n
  BY DEF DaysIn, SwapsIn
<1>3. MaxOf(S) \in S /\ \A b \in S : b <= MaxOf(S)
  <2> HIDE DEF S
  <2> QED
    BY <1>2, MaxOfSet
<1>4. ChangedIn(blocks, n, d, c) <=> \E b \in S : b >= c
  BY DEF ChangedIn
<1>5. MaxOf(S) \in Nat /\ \A b \in S : b \in Nat
  BY <1>2, <1>3
<1>6. (\E b \in S : b >= c) <=> MaxOf(S) >= c
  <2> HIDE DEF S
  <2> QED
    BY <1>3, <1>5
<1> QED
  BY <1>1, <1>4, <1>5, <1>6

LEMMA ChangedSinceDays ==
    ASSUME NEW n \in Nat, NEW c \in Int
    PROVE  ChangedSince(n, c) = ChangedDays(blocks, n, c)
<1>1. RowDays(n) = DaysIn(blocks, n)
  BY OfTheChain
<1>2. \A d \in DaysIn(blocks, n) : ChangedAt(n, d) >= c <=> ChangedIn(blocks, n, d, c)
  BY LastChange
<1> QED
  BY <1>1, <1>2 DEF ChangedSince, ChangedDays

\* The rows that are asked for, those that are stored, and those that are put together.
LEMMA WantedRows ==
    ASSUME TypeInv
    PROVE  /\ Wanted = IF run.knows THEN ChangedDays(blocks, head, run.last) ELSE {}
           /\ Wanted \subseteq 1 .. MaxDay
           /\ [d \in Wanted |-> [total |-> Total(head, d), daily |-> 0, sum |-> 0]]
              = Fetched(blocks, head, Wanted)
<1>1. Wanted = IF run.knows THEN ChangedDays(blocks, head, run.last) ELSE {}
  BY HeadNumber, RunTyped, ChangedSinceDays DEF Wanted
<1>2. Wanted \subseteq 1 .. MaxDay
  BY <1>1, DayNumber DEF ChangedDays
<1> QED
  BY <1>1, <1>2, OfTheChain DEF Fetched

LEMMA StoredAre ==
    Stored = IF run.all \/ run.rows = NoRows THEN NoRows ELSE LatestRows(db)
  BY OfTheChain DEF Stored, LatestRows

LEMMA ProcessedTyped ==
    ASSUME TypeInv
    PROVE  AreRows(ProcessSnapshots(MergeRows(run.rows, Stored)), head)
<1>1. head \in Nat /\ AreRows(db, head) /\ AreRows(run.rows, head)
  BY HeadNumber, RunTyped
<1>2. AreRows(Stored, head)
  <2>1. AreRows(NoRows, head)
    BY <1>1, NoRowsAre
  <2>2. AreRows(LatestRows(db), head)
    BY <1>1, LatestRowsAre
  <2> QED
    BY <2>1, <2>2, StoredAre
<1>3. PICK m : m = MergeRows(run.rows, Stored)
  OBVIOUS
<1>4. AreRows(m, head)
  BY <1>1, <1>2, <1>3, MergedRows
<1>5. PICK p : p = ProcessSnapshots(m)
  OBVIOUS
<1>6. CASE DOMAIN m = {}
  <2>1. m = NoRows
    BY <1>4, <1>6, EmptyIsNoRows
  <2> QED
    BY <2>1, <1>1, <1>3, ProcessedNothing, NoRowsAre
<1>7. CASE DOMAIN m # {}
  <2>1. AreRows(p, head)
    BY <1>1, <1>4, <1>5, <1>7, ProcessedRows
  <2> QED
    BY <2>1, <1>3, <1>5
<1> QED
  BY <1>6, <1>7

LEMMA TypeInit ==
    ASSUME Init
    PROVE  TypeInv
<1>1. head = 0 /\ blocks \in Chains
  BY DEF Init, head, Chains
<1>2. AreRows(db, 0) /\ run \in Locals(0)
  BY NoRowsAre, NoRunTyped DEF Init
<1>3. listed \in NotListed .. 0 /\ cursor \in 0 .. 0 /\ ragged \in BOOLEAN /\ step \in Steps
  <2>1. listed = -1 \/ listed = 0
    BY DEF Init, NotListed
  <2>2. cursor = 0 /\ step = "idle"
    BY DEF Init
  <2>3. ragged \in BOOLEAN
    BY Zenon DEF Init
  <2>4. NotListed = -1
    BY DEF NotListed
  <2>5. listed \in NotListed .. 0 /\ cursor \in 0 .. 0 /\ step \in Steps
    BY <2>1, <2>2, <2>4 DEF Steps
  <2> QED
    BY <2>3, <2>5, Zenon
<1> QED
  BY <1>1, <1>2, <1>3 DEF TypeInv

\* A step that leaves the chain alone.
LEMMA TypeKept ==
    ASSUME TypeInv, blocks' = blocks, listed' \in NotListed .. head, cursor' \in 0 .. head,
           ragged' \in BOOLEAN, step' \in Steps, AreRows(db', head), run' \in Locals(head)
    PROVE  TypeInv' /\ head' = head
<1>1. head' = head
  BY DEF head
<1> QED
  BY <1>1 DEF TypeInv

LEMMA NewBlockSteps ==
    ASSUME TypeInv, NewBlock
    PROVE  /\ \E d \in 1 .. MaxDay, swap \in BOOLEAN :
                /\ blocks' = Append(blocks, [day |-> d, swap |-> swap])
                /\ d \in {DayIn(blocks, head), DayIn(blocks, head) + 1}
                /\ step # "idle" => d <= DayIn(blocks, run.current) + 1
           /\ blocks' \in Chains /\ head' = head + 1 /\ Len(blocks') = head + 1
           /\ UNCHANGED <<listed, db, cursor, step, run, ragged>>
<1>1. PICK d \in {DayOf(head), DayOf(head) + 1}, swap \in BOOLEAN :
        d <= MaxDay /\ InTime(d) /\ blocks' = Append(blocks, [day |-> d, swap |-> swap])
  BY DEF NewBlock
<1>2. head \in Nat /\ blocks \in Chains /\ Len(blocks) = head
  BY HeadNumber
<1>3. DayIn(blocks, head) \in Nat \ {0}
  <2>1. CASE head = 0
    BY <2>1 DEF DayIn
  <2>2. CASE head # 0
    <3>1. head \in 1 .. Len(blocks)
      BY <2>2, <1>2
    <3>2. blocks[head].day \in 1 .. MaxDay
      BY <3>1, <1>2, BlockTyped
    <3> QED
      BY <3>2, <2>2, BoundsAssumption DEF DayIn
  <2> QED
    BY <2>1, <2>2
<1>4. d \in {DayIn(blocks, head), DayIn(blocks, head) + 1} /\ d \in 1 .. MaxDay
  BY <1>1, <1>3, OfTheChain, BoundsAssumption
<1>5. step # "idle" => d <= DayIn(blocks, run.current) + 1
  BY <1>1, OfTheChain DEF InTime
<1>6. [day |-> d, swap |-> swap] \in [day : 1 .. MaxDay, swap : BOOLEAN]
  BY <1>4
<1>7. blocks' \in Chains /\ Len(blocks') = head + 1
  BY <1>1, <1>2, <1>6 DEF Chains
<1> QED
  BY <1>1, <1>4, <1>5, <1>7 DEF NewBlock, head

LEMMA ReadHeadSteps ==
    ASSUME TypeInv, ReadHead
    PROVE  /\ run' \in Locals(head) /\ run'.current = head /\ run'.rows = NoRows
           /\ step' = "begun" /\ UNCHANGED <<blocks, listed, db, cursor, ragged>>
<1>1. PICK all \in BOOLEAN : run' = [NoRun EXCEPT !.all = all, !.current = head]
  BY DEF ReadHead
<1> DEFINE m == [NoRun EXCEPT !.all = all, !.current = head]
<1>2. /\ m \in Locals(head) /\ m.all = all /\ m.current = head
      /\ m.last = 0 /\ m.knows = FALSE /\ m.rows = NoRows
  <2>1. NoRun \in Locals(head) /\ head \in 0 .. head
    BY HeadNumber, NoRunTyped
  <2>2. m \in Locals(head)
    BY <2>1, Zenon DEF Locals
  <2>3. m.all = all /\ m.current = head
    BY <2>1, <2>2 DEF Locals
  <2>4. m.last = NoRun.last /\ m.knows = NoRun.knows /\ m.rows = NoRun.rows
    BY <2>1, <2>2 DEF Locals
  <2> HIDE DEF m
  <2> QED
    BY <2>2, <2>3, <2>4 DEF NoRun
<1> HIDE DEF m
<1>3. run' = m
  BY <1>1, Zenon DEF m
<1> QED
  BY <1>2, <1>3 DEF ReadHead

LEMMA ReadCursorSteps ==
    ASSUME TypeInv, ReadCursor
    PROVE  /\ run' \in Locals(head) /\ run'.all = run.all /\ run'.current = run.current
           /\ run'.last = (IF run.all THEN 0 ELSE cursor)
           /\ run'.knows = (listed # NotListed) /\ run'.rows = run.rows
           /\ step' = "located" /\ UNCHANGED <<blocks, listed, db, cursor, ragged>>
<1>1. run' = [run EXCEPT !.last = IF run.all THEN 0 ELSE cursor, !.knows = listed # NotListed]
  BY Zenon DEF ReadCursor
<1>2. (IF run.all THEN 0 ELSE cursor) \in 0 .. head /\ (listed # NotListed) \in BOOLEAN
  BY HeadNumber
<1>3. run \in Locals(head)
  BY DEF TypeInv
<1>4. run' \in Locals(head)
  BY <1>1, <1>2, <1>3, Zenon DEF Locals
<1>5. /\ run'.all = run.all /\ run'.current = run.current /\ run'.rows = run.rows
      /\ run'.last = (IF run.all THEN 0 ELSE cursor)
  BY <1>1, <1>3, <1>4 DEF Locals
<1>6. run'.knows = (listed # NotListed)
  BY <1>1, <1>3, <1>4, Zenon DEF Locals
<1> QED
  BY <1>4, <1>5, <1>6, Zenon DEF ReadCursor

LEMMA TypeNext ==
    ASSUME TypeInv, [Next]_vars
    PROVE  TypeInv'
<1>1. head \in Nat /\ listed \in NotListed .. head /\ cursor \in 0 .. head /\ ragged \in BOOLEAN
  BY HeadNumber DEF TypeInv
<1>2. AreRows(db, head) /\ run \in Locals(head) /\ step \in Steps
  BY DEF TypeInv
<1>3. NoRun \in Locals(head)
  BY <1>1, NoRunTyped
<1>4. CASE NewBlock
  <2>1. /\ blocks' \in Chains /\ head' = head + 1
        /\ UNCHANGED <<listed, db, cursor, step, run, ragged>>
    BY <1>4, NewBlockSteps
  <2>2. AreRows(db, head + 1) /\ run \in Locals(head + 1)
    BY <1>1, <1>2, RowsGrow, LocalsGrow
  <2> QED
    BY <2>1, <2>2, <1>1, <1>2 DEF TypeInv, NotListed
<1>5. CASE AddPool
  BY <1>1, <1>2, <1>5, TypeKept DEF AddPool, NotListed
<1>6. CASE ReadHead
  <2>1. run' \in Locals(head)
    BY <1>6, ReadHeadSteps
  <2> QED
    BY <2>1, <1>1, <1>2, <1>6, TypeKept DEF ReadHead, Steps
<1>7. CASE ReadCursor
  <2>1. run' \in Locals(head)
    BY <1>7, ReadCursorSteps
  <2> QED
    BY <2>1, <1>1, <1>2, <1>7, TypeKept DEF ReadCursor, Steps
<1>8. CASE Fetch
  <2>1. AreRows(Fetched(blocks, head, Wanted), head)
    BY <1>1, WantedRows, FetchedRows
  <2>2. run' \in Locals(head) /\ step' \in Steps
    <3>1. CASE Return
      BY <3>1, <1>3 DEF Return, Steps
    <3>2. CASE step' = "fetched" /\ run' = [run EXCEPT !.rows = Fetched(blocks, head, Wanted)]
      BY <3>2, <2>1, <1>2, WithRows DEF Steps
    <3> QED
      BY <3>1, <3>2, <1>8, WantedRows DEF Fetch
  <2> QED
    BY <2>2, <1>1, <1>2, <1>8, TypeKept DEF Fetch
<1>9. CASE Process
  <2>1. run' \in Locals(head)
    BY <1>2, <1>9, ProcessedTyped, WithRows DEF Process
  <2> QED
    BY <2>1, <1>1, <1>2, <1>9, TypeKept DEF Process, Steps
<1>10. CASE WriteBatch
  <2>1. PICK last \in DOMAIN run.rows :
          /\ db' = Stores(run.rows, db, last)
          /\ run' = [run EXCEPT !.rows = Left(run.rows, last)]
    BY <1>10 DEF WriteBatch, Stores, Left, Batch
  <2>2. AreRows(Stores(run.rows, db, last), head) /\ AreRows(Left(run.rows, last), head)
    BY <1>1, RunTyped, StoredRows
  <2>3. run' \in Locals(head)
    BY <2>1, <2>2, <1>2, WithRows
  <2> QED
    BY <2>1, <2>2, <2>3, <1>1, <1>2, <1>10, TypeKept DEF WriteBatch
<1>11. CASE Save
  <2>1. cursor' \in 0 .. head
    BY <1>11, RunTyped DEF Save
  <2>2. ragged' \in BOOLEAN
    BY <1>11, Zenon DEF Save
  <2> QED
    BY <2>1, <2>2, <1>1, <1>2, <1>3, <1>11, TypeKept DEF Save, Return, Steps
<1>12. CASE Abort
  <2>1. ragged' \in BOOLEAN
    BY <1>12, Zenon DEF Abort
  <2> QED
    BY <2>1, <1>1, <1>2, <1>3, <1>12, TypeKept DEF Abort, Return, Steps
<1>13. CASE UNCHANGED vars
  BY <1>1, <1>2, <1>13, TypeKept DEF vars
<1> QED
  BY <1>4, <1>5, <1>6, <1>7, <1>8, <1>9, <1>10, <1>11, <1>12, <1>13 DEF Next

\* The types of the chain, of the stored rows and of the locals of a run: however a run of
\* syncSnapshots is interrupted, no stored total or value of a day exceeds the blocks there are.
THEOREM TypeCorrect == Spec => []TypeOK
<1>1. Init => TypeInv
  BY TypeInit
<1>2. TypeInv /\ [Next]_vars => TypeInv'
  BY TypeNext
<1>3. TypeInv => TypeOK
  BY TypeInvTypeOK
<1> QED
  BY <1>1, <1>2, <1>3, PTL DEF Spec

-----------------------------------------------------------------------------
(***************************************************************************)
(* The invariant.                                                          *)
(***************************************************************************)

\* The stored days, and those that are being written, are days of the subgraph or between them.
DaysInv ==
    /\ Within(blocks, DOMAIN db, head)
    /\ step = "writing" => Within(blocks, DOMAIN run.rows, head)
    /\ listed = NotListed => DOMAIN db = {}

SettledInv == Settled => Good(blocks, db, cursor, head, listed)

\* The block of a run is not before the saved one, and at most a day old.
BegunInv ==
    step # "idle" =>
        cursor <= run.current /\ DayIn(blocks, head) <= DayIn(blocks, run.current) + 1

\* A run that does not know the pool found nothing of it in the database; the pool is added at
\* the block of the run or later.
KnowsInv ==
    /\ step \in {"begun", "located"} => run.rows = NoRows
    /\ step \in {"located", "fetched", "writing"} =>
        /\ run.last = IF run.all THEN 0 ELSE cursor
        /\ run.knows => listed # NotListed
        /\ ~ run.knows => /\ DOMAIN db = {} /\ run.rows = NoRows
                          /\ listed = NotListed \/ listed >= run.current

\* The rows of a run are those of the subgraph at some block since the run began.
RowsAt(n) ==
    /\ run.rows = IF run.knows THEN Fetched(blocks, n, ChangedDays(blocks, n, run.last))
                  ELSE NoRows
    /\ Within(blocks, DOMAIN db, n)

FetchedAt(n) == RowsAt(n) /\ (~ ragged => Core(blocks, db, DOMAIN db, cursor, n, listed))

FetchedInv == step = "fetched" => \E n \in run.current .. head : FetchedAt(n)

\* What is stored once a run has written all of its rows is right for its block; what is stored
\* in between is so for the saved block, but for days that the next run may not be able to tell.
WritingInv ==
    step = "writing" =>
        /\ run.all \/ ~ ragged =>
            Good(blocks, Over(run.rows, db), run.current, head, listed)
        /\ ~ run.all /\ ~ ragged =>
            /\ Core(blocks, db, DOMAIN Over(run.rows, db), cursor, head, listed)
            /\ Near(DOMAIN run.rows, DOMAIN db)

Inv ==
    /\ TypeInv
    /\ Ordered(blocks)
    /\ DaysInv
    /\ SettledInv
    /\ BegunInv
    /\ KnowsInv
    /\ FetchedInv
    /\ WritingInv

LEMMA InvInit ==
    ASSUME Init
    PROVE  Inv
<1>1. TypeInv /\ head = 0 /\ blocks = <<>> /\ db = NoRows /\ step = "idle" /\ DOMAIN db = {}
  BY TypeInit, NoRowsAre DEF Init, head
<1>2. Ordered(blocks)
  BY <1>1 DEF Ordered
<1>3. DaysInv
  BY <1>1 DEF DaysInv, Within
<1>4. DaysIn(blocks, 0) = {}
  BY DEF DaysIn, SwapsIn
<1>5. Good(blocks, db, cursor, head, listed)
  BY <1>1, <1>4 DEF Good, Core, Contiguous, Differences, Bounded, Complete, Current, Near
<1> QED
  BY <1>1, <1>2, <1>3, <1>5
  DEF Inv, SettledInv, BegunInv, KnowsInv, FetchedInv, WritingInv

-----------------------------------------------------------------------------
\* A block is added to the chain: what was so at a block before it still is.
SameAt(bs, bt, n) ==
    /\ \A D : Within(bs, D, n) => Within(bt, D, n)
    /\ \A rows, D, c, l : Core(bs, rows, D, c, n, l) => Core(bt, rows, D, c, n, l)
    /\ \A rows, c, l : Good(bs, rows, c, n, l) => Good(bt, rows, c, n, l)
    /\ \A W : Fetched(bt, n, W) = Fetched(bs, n, W)
    /\ \A c : ChangedDays(bt, n, c) = ChangedDays(bs, n, c)
    /\ DayIn(bt, n) = DayIn(bs, n)

LEMMA PrefixKept ==
    ASSUME NEW bs \in Chains, NEW r, NEW n \in 0 .. Len(bs), NEW bt, bt = Append(bs, r)
    PROVE  SameAt(bs, bt, n)
<1>1. /\ DaysIn(bt, n) = DaysIn(bs, n)
      /\ \A d : TotalIn(bt, n, d) = TotalIn(bs, n, d)
      /\ \A d, c : ChangedIn(bt, n, d, c) <=> ChangedIn(bs, n, d, c)
      /\ DayIn(bt, n) = DayIn(bs, n)
  BY Prefix
<1>2. \A D : Within(bs, D, n) => Within(bt, D, n)
  BY <1>1 DEF Within
<1>3. \A rows, d : Has(bt, rows, n, d) <=> Has(bs, rows, n, d)
  BY <1>1 DEF Has
<1>4. \A rows, D, c, l : Current(bs, rows, D, c, n, l) => Current(bt, rows, D, c, n, l)
  <2> SUFFICES ASSUME NEW rows, NEW D, NEW c, NEW l, Current(bs, rows, D, c, n, l)
               PROVE  Current(bt, rows, D, c, n, l)
    BY Zenon
  <2> QED
    BY <1>1, <1>3, Zenon DEF Current
<1>5. \A rows : Bounded(bs, rows, n) => Bounded(bt, rows, n)
  BY <1>1 DEF Bounded
<1>6. \A rows : Complete(bs, rows, n) => Complete(bt, rows, n)
  BY <1>3 DEF Complete
<1>7. \A rows, D, c, l : Core(bs, rows, D, c, n, l) => Core(bt, rows, D, c, n, l)
  BY <1>4, <1>5, <1>6, Zenon DEF Core
<1>8. \A c : ChangedDays(bt, n, c) = ChangedDays(bs, n, c)
  BY <1>1 DEF ChangedDays
<1>9. \A rows, c, l : Good(bs, rows, c, n, l) => Good(bt, rows, c, n, l)
  BY <1>7, <1>8, Zenon DEF Good
<1>10. \A W : Fetched(bt, n, W) = Fetched(bs, n, W)
  BY <1>1 DEF Fetched
<1> QED
  BY <1>1, <1>2, <1>7, <1>8, <1>9, <1>10 DEF SameAt

LEMMA OrderedGrows ==
    ASSUME NEW bs \in Chains, Ordered(bs), NEW r, NEW bt, bt = Append(bs, r),
           r.day \in 1 .. MaxDay, DayIn(bs, Len(bs)) <= r.day
    PROVE  Ordered(bt)
<1>1. Len(bs) \in Nat /\ Len(bt) = Len(bs) + 1 /\ bt[Len(bs) + 1] = r
      /\ \A i \in 1 .. Len(bs) : bt[i] = bs[i]
  BY DEF Chains
<1>2. ASSUME NEW i \in 1 .. Len(bs)
      PROVE  bs[i].day <= r.day
  <2>1. Len(bs) \in 1 .. Len(bs) /\ i <= Len(bs)
    BY <1>1
  <2>2. bs[i].day <= bs[Len(bs)].day
    BY <2>1 DEF Ordered
  <2>3. bs[i].day \in 1 .. MaxDay /\ bs[Len(bs)].day \in 1 .. MaxDay
    BY <2>1, BlockTyped
  <2>4. DayIn(bs, Len(bs)) = bs[Len(bs)].day
    BY <2>1 DEF DayIn
  <2> QED
    BY <2>2, <2>3, <2>4
<1>3. ASSUME NEW i \in 1 .. Len(bt), NEW j \in 1 .. Len(bt), i <= j
      PROVE  bt[i].day <= bt[j].day
  <2>1. CASE j \in 1 .. Len(bs)
    <3>1. i \in 1 .. Len(bs)
      BY <2>1, <1>1, <1>3
    <3> QED
      BY <2>1, <3>1, <1>1, <1>3 DEF Ordered
  <2>2. CASE j = Len(bs) + 1 /\ i \in 1 .. Len(bs)
    BY <2>2, <1>1, <1>2
  <2>3. CASE j = Len(bs) + 1 /\ i = Len(bs) + 1
    BY <2>3, <1>1
  <2> QED
    BY <2>1, <2>2, <2>3, <1>1, <1>3
<1> QED
  BY <1>3 DEF Ordered

LEMMA NewBlockInv ==
    ASSUME Inv, NewBlock
    PROVE  Inv'
<1>1. TypeInv /\ Ordered(blocks)
  BY DEF Inv
<1>2. TypeInv'
  BY <1>1, TypeNext DEF Next
<1>3. PICK d \in 1 .. MaxDay, swap \in BOOLEAN :
        /\ blocks' = Append(blocks, [day |-> d, swap |-> swap])
        /\ d \in {DayIn(blocks, head), DayIn(blocks, head) + 1}
        /\ step # "idle" => d <= DayIn(blocks, run.current) + 1
  BY <1>1, NewBlockSteps
<1>4. /\ blocks' \in Chains /\ head' = head + 1 /\ Len(blocks') = head + 1
      /\ UNCHANGED <<listed, db, cursor, step, run, ragged>>
  BY <1>1, NewBlockSteps
<1>5. /\ head \in Nat /\ blocks \in Chains /\ Len(blocks) = head
      /\ listed \in Int /\ cursor \in Nat /\ cursor <= head /\ listed <= head
  BY <1>1, HeadNumber
<1>6. AreRows(db, head) /\ AreRows(run.rows, head) /\ run.current \in 0 .. head /\ run.last \in Nat
  BY <1>1, RunTyped
<1>7. Ordered(blocks')
  <2>1. d \in Int /\ DayIn(blocks, head) \in Int /\ DayIn(blocks, head) <= d
    <3>1. DayIn(blocks, head) \in Int
      <4>1. CASE head = 0
        BY <4>1 DEF DayIn
      <4>2. CASE head # 0
        <5>1. head \in 1 .. Len(blocks)
          BY <4>2, <1>5
        <5>2. blocks[head].day \in 1 .. MaxDay
          BY <5>1, <1>5, BlockTyped
        <5> QED
          BY <4>2, <5>2 DEF DayIn
      <4> QED
        BY <4>1, <4>2
    <3> QED
      BY <3>1, <1>3
  <2>2. [day |-> d, swap |-> swap].day = d
    OBVIOUS
  <2> QED
    BY <2>1, <2>2, <1>1, <1>3, <1>5, OrderedGrows
\* What was so at a block is so at the same block of the longer chain, and at its head.
<1>8. ASSUME NEW n \in 0 .. head
      PROVE  /\ \A D : Within(blocks, D, n) => Within(blocks', D, n)
             /\ \A rows, D, c, l : Core(blocks, rows, D, c, n, l) => Core(blocks', rows, D, c, n, l)
             /\ \A rows, c, l : Good(blocks, rows, c, n, l) => Good(blocks', rows, c, n, l)
             /\ \A W : Fetched(blocks', n, W) = Fetched(blocks, n, W)
             /\ \A c : ChangedDays(blocks', n, c) = ChangedDays(blocks, n, c)
             /\ DayIn(blocks', n) = DayIn(blocks, n)
  <2>1. n \in 0 .. Len(blocks)
    BY <1>5
  <2>2. SameAt(blocks, blocks', n)
    BY <2>1, <1>3, <1>5, PrefixKept
  <2> QED
    BY <2>2, Zenon DEF SameAt
<1>9. head \in 0 .. Len(blocks') /\ head' \in head .. Len(blocks') /\ head \in 0 .. head
  BY <1>4, <1>5
<1>10. \A D : Within(blocks, D, head) => Within(blocks', D, head')
  <2>1. head' \in Nat /\ head <= head'
    BY <1>4, <1>5
  <2> QED
    BY <2>1, <1>5, <1>8, <1>9, WithinGrows
<1>11. DaysInv'
  BY <1>4, <1>10 DEF Inv, DaysInv
<1>12. SettledInv'
  <2> SUFFICES ASSUME Settled
               PROVE  Good(blocks', db, cursor, head', listed)
    BY <1>4 DEF SettledInv, Settled
  <2>1. Good(blocks', db, cursor, head, listed)
    BY <1>8, <1>9 DEF Inv, SettledInv
  <2>2. Within(blocks', DOMAIN db, head)
    BY <1>8, <1>9 DEF Inv, DaysInv
  <2> QED
    BY <2>1, <2>2, <1>4, <1>5, <1>6, <1>7, <1>9, GoodLater
<1>13. BegunInv'
  <2> SUFFICES ASSUME step # "idle"
               PROVE  /\ cursor <= run.current
                      /\ DayIn(blocks', head') <= DayIn(blocks', run.current) + 1
    BY <1>4 DEF BegunInv
  <2>1. DayIn(blocks', head') = d
    <3>1. blocks'[head + 1] = [day |-> d, swap |-> swap]
      BY <1>3, <1>5 DEF Chains
    <3>2. head' # 0 /\ head' = head + 1
      BY <1>4, <1>5
    <3> QED
      BY <3>1, <3>2 DEF DayIn
  <2>2. DayIn(blocks', run.current) = DayIn(blocks, run.current)
    BY <1>6, <1>8
  <2> QED
    BY <2>1, <2>2, <1>3 DEF Inv, BegunInv
<1>14. KnowsInv'
  BY <1>4 DEF Inv, KnowsInv
<1>15. FetchedInv'
  <2> SUFFICES ASSUME step = "fetched"
               PROVE  \E n \in run.current .. head' : FetchedAt(n)'
    BY <1>4 DEF FetchedInv
  <2>1. PICK n \in run.current .. head : FetchedAt(n)
    BY DEF Inv, FetchedInv
  <2>2. n \in 0 .. head /\ n \in run.current .. head'
    BY <1>4, <1>5, <1>6
  <2>3. FetchedAt(n)'
    BY <2>1, <2>2, <1>4, <1>8 DEF FetchedAt, RowsAt
  <2> QED
    BY <2>2, <2>3
<1>16. WritingInv'
  <2> DEFINE f == Over(run.rows, db)
  <2> SUFFICES ASSUME step = "writing"
               PROVE  /\ run.all \/ ~ ragged => Good(blocks', f, run.current, head', listed)
                      /\ ~ run.all /\ ~ ragged =>
                          /\ Core(blocks', db, DOMAIN f, cursor, head', listed)
                          /\ Near(DOMAIN run.rows, DOMAIN db)
    BY <1>4 DEF WritingInv
  <2>1. /\ Within(blocks', DOMAIN db, head) /\ Within(blocks', DOMAIN run.rows, head)
        /\ DOMAIN f = DOMAIN db \cup DOMAIN run.rows
    BY <1>8, <1>9 DEF Inv, DaysInv, Over
  <2>2. AreRows(f, head)
    BY <1>5, <1>6, OverTyped
  <2>3. Within(blocks', DOMAIN f, head)
    BY <2>1 DEF Within
  <2>4. run.current \in Int /\ run.current <= head
    BY <1>6
  <2> HIDE DEF f
  <2>5. ASSUME run.all \/ ~ ragged
        PROVE  Good(blocks', f, run.current, head', listed)
    <3>1. Good(blocks', f, run.current, head, listed)
      BY <2>5, <1>8, <1>9 DEF Inv, WritingInv, f
    <3> QED
      BY <3>1, <2>2, <2>3, <2>4, <1>4, <1>5, <1>7, <1>9, GoodLater
  <2>6. ASSUME ~ run.all, ~ ragged
        PROVE  /\ Core(blocks', db, DOMAIN f, cursor, head', listed)
               /\ Near(DOMAIN run.rows, DOMAIN db)
    <3>1. /\ Core(blocks', db, DOMAIN f, cursor, head, listed)
          /\ Near(DOMAIN run.rows, DOMAIN db)
      BY <2>6, <1>8, <1>9 DEF Inv, WritingInv, f
    <3>2. Core(blocks', db, DOMAIN f, cursor, head', listed)
      BY <3>1, <2>1, <1>4, <1>5, <1>6, <1>7, <1>9, CoreLater
    <3> QED
      BY <3>1, <3>2
  <2> QED
    BY <2>5, <2>6
<1> QED
  BY <1>2, <1>7, <1>11, <1>12, <1>13, <1>14, <1>15, <1>16, Zenon DEF Inv

\* The pool is added to the database.
LEMMA ListedNow ==
    ASSUME NEW bs, NEW n \in Nat, NEW h \in Nat, n <= h, NEW rows, NEW c
    PROVE  /\ \A D : Core(bs, rows, D, c, n, NotListed) => Core(bs, rows, D, c, n, h)
           /\ Good(bs, rows, c, n, NotListed) => Good(bs, rows, c, n, h)
<1>1. \A d : ~ ChangedIn(bs, n, d, h + 1)
  BY DEF ChangedIn, SwapsIn
<1>2. ASSUME NEW D, Current(bs, rows, D, c, n, NotListed)
      PROVE  Current(bs, rows, D, c, n, h)
  BY <1>1, <1>2, Zenon DEF Current
<1>3. \A D : Core(bs, rows, D, c, n, NotListed) => Core(bs, rows, D, c, n, h)
  BY <1>2, Zenon DEF Core
<1> QED
  BY <1>3, Zenon DEF Good

LEMMA AddPoolInv ==
    ASSUME Inv, AddPool
    PROVE  Inv'
<1>1. TypeInv /\ Ordered(blocks)
  BY DEF Inv
<1>2. TypeInv'
  BY <1>1, TypeNext DEF Next
<1>3. /\ listed = NotListed /\ listed' = head /\ head' = head
      /\ UNCHANGED <<blocks, db, cursor, step, run, ragged>>
  BY DEF AddPool, head
<1>4. /\ head \in Nat /\ head <= head /\ NotListed # head
      /\ run.current \in 0 .. head
  BY <1>1, HeadNumber, RunTyped DEF NotListed
<1>5. ASSUME NEW n \in 0 .. head, NEW rows, NEW c
      PROVE  /\ \A D : Core(blocks, rows, D, c, n, listed) => Core(blocks, rows, D, c, n, head)
             /\ Good(blocks, rows, c, n, listed) => Good(blocks, rows, c, n, head)
  <2>1. n \in Nat /\ n <= head
    BY <1>4
  <2> QED
    BY <2>1, <1>3, <1>4, ListedNow
<1>6. head \in 0 .. head
  BY <1>4
<1>7. DaysInv'
  BY <1>3, <1>4 DEF Inv, DaysInv
<1>8. SettledInv'
  BY <1>3, <1>5, <1>6 DEF Inv, SettledInv, Settled
<1>9. BegunInv'
  BY <1>3 DEF Inv, BegunInv
<1>10. KnowsInv'
  BY <1>3, <1>4 DEF Inv, KnowsInv
<1>11. FetchedInv'
  <2> SUFFICES ASSUME step = "fetched"
               PROVE  \E n \in run.current .. head : FetchedAt(n)'
    BY <1>3 DEF FetchedInv
  <2>1. PICK n \in run.current .. head : FetchedAt(n)
    BY DEF Inv, FetchedInv
  <2>2. n \in 0 .. head
    BY <1>4
  <2> QED
    BY <2>1, <2>2, <1>3, <1>5 DEF FetchedAt, RowsAt
<1>12. WritingInv'
  BY <1>3, <1>5, <1>6 DEF Inv, WritingInv
<1> QED
  BY <1>1, <1>2, <1>3, <1>7, <1>8, <1>9, <1>10, <1>11, <1>12, Zenon DEF Inv

-----------------------------------------------------------------------------
\* The first steps of a run. Until it writes, the stored rows are as they were.
LEMMA ReadHeadInv ==
    ASSUME Inv, ReadHead
    PROVE  Inv'
<1>1. TypeInv /\ Ordered(blocks)
  BY DEF Inv
<1>2. TypeInv'
  BY <1>1, TypeNext DEF Next
<1>3. /\ run'.current = head /\ run'.rows = NoRows /\ step = "idle" /\ step' = "begun"
      /\ head' = head /\ UNCHANGED <<blocks, listed, db, cursor, ragged>>
  BY <1>1, ReadHeadSteps DEF ReadHead, head
<1>4. cursor <= head /\ DayIn(blocks, head) <= DayIn(blocks, head) + 1
  <2>1. head \in Nat /\ blocks \in Chains /\ Len(blocks) = head /\ cursor <= head
    BY <1>1, HeadNumber
  <2>2. CASE head = 0
    BY <2>1, <2>2 DEF DayIn
  <2>3. CASE head # 0
    <3>1. head \in 1 .. Len(blocks)
      BY <2>1, <2>3
    <3>2. blocks[head].day \in 1 .. MaxDay
      BY <3>1, <2>1, BlockTyped
    <3> QED
      BY <3>2, <2>1, <2>3 DEF DayIn
  <2> QED
    BY <2>2, <2>3
<1>5. DaysInv' /\ SettledInv'
  BY <1>3 DEF Inv, DaysInv, SettledInv, Settled
<1>6. BegunInv'
  BY <1>3, <1>4 DEF BegunInv
<1>7. KnowsInv' /\ FetchedInv' /\ WritingInv'
  BY <1>3 DEF KnowsInv, FetchedInv, WritingInv
<1> QED
  BY <1>1, <1>2, <1>3, <1>5, <1>6, <1>7, Zenon DEF Inv

LEMMA ReadCursorInv ==
    ASSUME Inv, ReadCursor
    PROVE  Inv'
<1>1. TypeInv /\ Ordered(blocks)
  BY DEF Inv
<1>2. TypeInv'
  BY <1>1, TypeNext DEF Next
<1>3. /\ run'.all = run.all /\ run'.current = run.current
      /\ run'.last = (IF run.all THEN 0 ELSE cursor)
      /\ run'.knows = (listed # NotListed) /\ run'.rows = run.rows
      /\ step = "begun" /\ step' = "located" /\ head' = head
      /\ UNCHANGED <<blocks, listed, db, cursor, ragged>>
  BY <1>1, ReadCursorSteps, Zenon DEF ReadCursor, head
<1>4. DaysInv' /\ SettledInv'
  BY <1>3 DEF Inv, DaysInv, SettledInv, Settled
<1>5. BegunInv'
  BY <1>3 DEF Inv, BegunInv
<1>6. KnowsInv'
  <2>1. run.rows = NoRows
    BY <1>3 DEF Inv, KnowsInv
  <2>2. listed = NotListed => DOMAIN db = {}
    BY DEF Inv, DaysInv
  <2>3. run'.knows => listed # NotListed
    BY <1>3, Zenon
  <2>4. ~ run'.knows => listed = NotListed
    BY <1>3, Zenon
  <2> QED
    BY <1>3, <2>1, <2>2, <2>3, <2>4 DEF KnowsInv
<1>7. FetchedInv' /\ WritingInv'
  BY <1>3 DEF FetchedInv, WritingInv
<1> QED
  BY <1>1, <1>2, <1>3, <1>4, <1>5, <1>6, <1>7, Zenon DEF Inv

LEMMA FetchInv ==
    ASSUME Inv, Fetch
    PROVE  Inv'
<1>1. TypeInv /\ Ordered(blocks)
  BY DEF Inv
<1>2. TypeInv'
  BY <1>1, TypeNext DEF Next
<1>3. /\ step = "located" /\ head' = head
      /\ UNCHANGED <<blocks, listed, db, cursor, ragged>>
  BY DEF Fetch, head
<1>4. Settled => Good(blocks, db, cursor, head, listed)
  BY DEF Inv, SettledInv
<1>5. CASE Return
  <2>1. step' = "idle"
    BY <1>5 DEF Return
  <2>2. DaysInv' /\ SettledInv'
    BY <1>3, <2>1 DEF Inv, DaysInv, SettledInv, Settled
  <2>3. BegunInv' /\ KnowsInv' /\ FetchedInv' /\ WritingInv'
    BY <2>1 DEF BegunInv, KnowsInv, FetchedInv, WritingInv
  <2> QED
    BY <1>1, <1>2, <1>3, <2>2, <2>3, Zenon DEF Inv
<1>6. CASE step' = "fetched" /\ run' = [run EXCEPT !.rows = Fetched(blocks, head, Wanted)]
  <2>1. head \in Nat /\ AreRows(Fetched(blocks, head, Wanted), head)
    BY <1>1, HeadNumber, WantedRows, FetchedRows
  <2>2. /\ run'.all = run.all /\ run'.current = run.current /\ run'.last = run.last
        /\ run'.knows = run.knows /\ run'.rows = Fetched(blocks, head, Wanted)
    BY <1>1, <1>6, <2>1, RunTyped, WithRows
  <2>3. DaysInv' /\ SettledInv'
    BY <1>3, <1>6 DEF Inv, DaysInv, SettledInv, Settled
  <2>4. BegunInv'
    BY <1>3, <1>6, <2>2 DEF Inv, BegunInv
  <2>5. Wanted = IF run.knows THEN ChangedDays(blocks, head, run.last) ELSE {}
    BY <1>1, WantedRows
  <2>6. ~ run.knows => Fetched(blocks, head, Wanted) = NoRows
    BY <2>5 DEF Fetched, NoRows
  <2>7. KnowsInv'
    BY <1>3, <1>6, <2>2, <2>6 DEF Inv, KnowsInv
  <2>8. FetchedAt(head)'
    <3>1. ~ ragged => Core(blocks, db, DOMAIN db, cursor, head, listed)
      BY <1>3, <1>4 DEF Settled, Good
    <3>2. Within(blocks, DOMAIN db, head)
      BY DEF Inv, DaysInv
    <3> QED
      BY <1>3, <2>2, <2>5, <2>6, <3>1, <3>2 DEF FetchedAt, RowsAt
  <2>9. FetchedInv'
    <3>1. head \in run'.current .. head
      BY <1>1, <2>1, <2>2, RunTyped
    <3> QED
      BY <3>1, <2>8, <1>3 DEF FetchedInv
  <2>10. WritingInv'
    BY <1>6 DEF WritingInv
  <2> QED
    BY <1>1, <1>2, <1>3, <2>3, <2>4, <2>7, <2>9, <2>10, Zenon DEF Inv
<1> QED
  BY <1>1, <1>5, <1>6, WantedRows DEF Fetch

-----------------------------------------------------------------------------
\* A transaction.
LEMMA WriteBatchInv ==
    ASSUME Inv, WriteBatch
    PROVE  Inv'
<1>1. TypeInv /\ Ordered(blocks)
  BY DEF Inv
<1>2. TypeInv'
  BY <1>1, TypeNext DEF Next
<1>3. PICK last \in DOMAIN run.rows :
        /\ db' = Stores(run.rows, db, last)
        /\ run' = [run EXCEPT !.rows = Left(run.rows, last)]
  BY DEF WriteBatch, Stores, Left, Batch
<1>4. /\ step = "writing" /\ head' = head
      /\ UNCHANGED <<blocks, listed, cursor, step, ragged>>
  BY DEF WriteBatch, head
<1>5. /\ head \in Nat /\ cursor \in Int /\ run.current \in Int
      /\ AreRows(db, head) /\ AreRows(run.rows, head) /\ run \in Locals(head)
  BY <1>1, HeadNumber, RunTyped
<1>6. /\ AreRows(db', head) /\ AreRows(Left(run.rows, last), head)
      /\ DOMAIN db' = DOMAIN db \cup Batch(run.rows, last)
      /\ DOMAIN Left(run.rows, last) \subseteq DOMAIN run.rows
      /\ Batch(run.rows, last) \subseteq DOMAIN run.rows
  <2>1. /\ AreRows(Stores(run.rows, db, last), head) /\ AreRows(Left(run.rows, last), head)
        /\ DOMAIN Stores(run.rows, db, last) = DOMAIN db \cup Batch(run.rows, last)
        /\ DOMAIN Left(run.rows, last) = {d \in DOMAIN run.rows : ~ (d <= last)}
        /\ Batch(run.rows, last) \subseteq DOMAIN run.rows
    BY <1>5, StoredRows
  <2> QED
    BY <2>1, <1>3
<1>7. /\ run'.all = run.all /\ run'.current = run.current /\ run'.last = run.last
      /\ run'.knows = run.knows /\ run'.rows = Left(run.rows, last)
  BY <1>3, <1>5, <1>6, WithRows
<1>8. run.knows /\ listed # NotListed
  <2>1. run.rows # NoRows
    BY <1>3, <1>5, NoRowsAre
  <2> QED
    BY <2>1, <1>4 DEF Inv, KnowsInv
<1>9. DaysInv'
  <2>1. Within(blocks, DOMAIN db, head) /\ Within(blocks, DOMAIN run.rows, head)
    BY <1>4 DEF Inv, DaysInv
  <2>2. Within(blocks, DOMAIN db', head) /\ Within(blocks, DOMAIN Left(run.rows, last), head)
    BY <2>1, <1>6 DEF Within
  <2> QED
    BY <2>2, <1>4, <1>7, <1>8 DEF DaysInv
<1>10. SettledInv' /\ FetchedInv'
  BY <1>4 DEF SettledInv, Settled, FetchedInv
<1>11. BegunInv'
  BY <1>4, <1>7 DEF Inv, BegunInv
<1>12. KnowsInv'
  BY <1>4, <1>7, <1>8 DEF Inv, KnowsInv
<1>13. WritingInv'
  <2>1. PICK f : f = Over(run.rows, db)
    OBVIOUS
  <2>2. Over(run'.rows, db') = f
    BY <2>1, <1>3, <1>7, OverAfter
  <2>3. run.all \/ ~ ragged => Good(blocks, f, run.current, head, listed)
    BY <2>1, <1>4 DEF Inv, WritingInv
  <2>4. ASSUME ~ run.all, ~ ragged
        PROVE  /\ Core(blocks, db', DOMAIN f, cursor, head, listed)
               /\ Near(DOMAIN Left(run.rows, last), DOMAIN db')
    <3>1. /\ Core(blocks, db, DOMAIN f, cursor, head, listed)
          /\ Near(DOMAIN run.rows, DOMAIN db)
      BY <2>1, <2>4, <1>4 DEF Inv, WritingInv
    <3>2. Core(blocks, f, DOMAIN f, run.current, head, listed)
      BY <2>3, <2>4 DEF Good
    <3>3. cursor <= run.current
      BY <1>4 DEF Inv, BegunInv
    <3> QED
      BY <2>1, <3>1, <3>2, <3>3, <1>3, <1>5, StillRight
  <2> QED
    BY <2>2, <2>3, <2>4, <1>4, <1>7 DEF WritingInv
<1> QED
  BY <1>1, <1>2, <1>4, <1>9, <1>10, <1>11, <1>12, <1>13, Zenon DEF Inv

-----------------------------------------------------------------------------
\* The end of a run.
LEMMA OverNothing ==
    ASSUME NEW h, NEW old, AreRows(old, h)
    PROVE  Over(NoRows, old) = old
  BY DEF Over, NoRows, AreRows

LEMMA CoreFewer ==
    ASSUME NEW bs, NEW n, NEW rows, NEW c, NEW l, NEW D, NEW E, E \subseteq D,
           Core(bs, rows, D, c, n, l)
    PROVE  Core(bs, rows, E, c, n, l)
<1>1. Current(bs, rows, D, c, n, l)
  BY DEF Core
<1>2. \A d \in DaysIn(bs, n) : (\E x \in E : x <= d) => (\E x \in D : x <= d)
  OBVIOUS
<1>3. Current(bs, rows, E, c, n, l)
  BY <1>1, <1>2, Zenon DEF Current
<1> QED
  BY <1>3, Zenon DEF Core

\* Days that are not before the two latest stored ones.
LEMMA NotTooFar ==
    ASSUME NEW D, D \subseteq 1 .. MaxDay, Contiguous(D), D # {}, NEW W, W \subseteq Nat,
           \A d \in W : ~ (d < MinOf(LatestOf(D)))
    PROVE  Near(W, D)
<1>1. PICK k : k = MaxOf(D)
  OBVIOUS
<1>2. k \in D /\ k \in Nat /\ D \subseteq Nat /\ \A x \in D : x <= k
  <2>1. k \in D /\ \A x \in D : x <= k
    BY <1>1, Ends
  <2>2. \A x \in 1 .. MaxDay : x \in Nat
    BY BoundsAssumption
  <2> QED
    BY <2>1, <2>2
<1>3. LatestOf(D) = {d \in D : d >= k - 1}
  BY <1>1, LatestDays
<1>4. PICK l : l = MinOf(LatestOf(D))
  OBVIOUS
<1>5. l \in D /\ l >= k - 1 /\ l \in Nat
  <2>1. k \in LatestOf(D)
    BY <1>2, <1>3
  <2>2. LatestOf(D) \subseteq 1 .. MaxDay
    BY <1>3
  <2>3. l \in LatestOf(D)
    BY <1>4, <2>1, <2>2, Ends
  <2> QED
    BY <2>3, <1>2, <1>3
<1> SUFFICES ASSUME NEW d \in W, NEW x \in D, ~ (d >= x)
             PROVE  d = x - 1 /\ d \in D
  BY DEF Near
<1>6. d \in Nat /\ x \in Nat /\ ~ (d < l) /\ x <= k
  BY <1>2, <1>4
<1>7. d = k - 1 /\ x = k /\ l = d
  BY <1>2, <1>5, <1>6
<1> QED
  BY <1>5, <1>7

LEMMA SaveInv ==
    ASSUME Inv, Save
    PROVE  Inv'
<1>1. TypeInv /\ Ordered(blocks)
  BY DEF Inv
<1>2. TypeInv'
  BY <1>1, TypeNext DEF Next
<1>3. /\ step = "writing" /\ step' = "idle" /\ run.rows = NoRows /\ cursor' = run.current
      /\ head' = head /\ UNCHANGED <<blocks, listed, db>>
  BY DEF Save, Return, head
<1>4. ~ ragged' => run.all \/ ~ ragged
  BY Zenon DEF Save
<1>5. DaysInv'
  BY <1>3 DEF Inv, DaysInv
<1>6. SettledInv'
  <2> SUFFICES ASSUME ~ ragged'
               PROVE  Good(blocks, db, run.current, head, listed)
    BY <1>3 DEF SettledInv, Settled
  <2>1. Good(blocks, Over(run.rows, db), run.current, head, listed)
    BY <1>3, <1>4 DEF Inv, WritingInv
  <2>2. Over(run.rows, db) = db
    BY <1>1, <1>3, RunTyped, OverNothing
  <2> QED
    BY <2>1, <2>2
<1>7. BegunInv' /\ KnowsInv' /\ FetchedInv' /\ WritingInv'
  BY <1>3 DEF BegunInv, KnowsInv, FetchedInv, WritingInv
<1> QED
  BY <1>1, <1>2, <1>3, <1>5, <1>6, <1>7, Zenon DEF Inv

LEMMA AbortInv ==
    ASSUME Inv, Abort
    PROVE  Inv'
<1>1. TypeInv /\ Ordered(blocks)
  BY DEF Inv
<1>2. TypeInv'
  BY <1>1, TypeNext DEF Next
<1>3. step' = "idle" /\ head' = head /\ UNCHANGED <<blocks, listed, db, cursor>>
  BY DEF Abort, Return, head
<1>4. ~ ragged' => ~ ragged /\ (step = "writing" => ~ run.all /\ ~ TooFarAhead)
  BY Zenon DEF Abort
<1>5. DaysInv'
  BY <1>3 DEF Inv, DaysInv
<1>6. SettledInv'
  <2> SUFFICES ASSUME ~ ragged'
               PROVE  Good(blocks, db, cursor, head, listed)
    BY <1>3 DEF SettledInv, Settled
  <2>1. CASE step # "writing"
    BY <2>1, <1>4 DEF Inv, SettledInv, Settled
  <2>2. CASE step = "writing"
    <3>1. Core(blocks, db, DOMAIN Over(run.rows, db), cursor, head, listed)
      BY <2>2, <1>4 DEF Inv, WritingInv
    <3>2. DOMAIN db \subseteq DOMAIN Over(run.rows, db)
      BY DEF Over
    <3>3. Core(blocks, db, DOMAIN db, cursor, head, listed)
      BY <3>1, <3>2, CoreFewer
    <3>4. Near(ChangedDays(blocks, head, cursor), DOMAIN db)
      <4>1. CASE DOMAIN db = {}
        BY <4>1 DEF Near
      <4>2. CASE DOMAIN db # {}
        <5>1. ChangedSince(head, cursor) = ChangedDays(blocks, head, cursor)
          BY <1>1, HeadNumber, ChangedSinceDays
        <5>2. \A d \in ChangedDays(blocks, head, cursor) : ~ (d < MinOf(LatestOf(DOMAIN db)))
          BY <2>2, <4>2, <5>1, <1>4, OfTheChain DEF TooFarAhead
        <5>3. ChangedDays(blocks, head, cursor) \subseteq Nat
          BY DayNumber DEF ChangedDays
        <5>4. DOMAIN db \subseteq 1 .. MaxDay /\ Contiguous(DOMAIN db)
          BY <3>3, <1>1, RunTyped DEF AreRows, Core
        <5> QED
          BY <4>2, <5>2, <5>3, <5>4, NotTooFar
      <4> QED
        BY <4>1, <4>2
    <3> QED
      BY <3>3, <3>4 DEF Good
  <2> QED
    BY <2>1, <2>2
<1>7. BegunInv' /\ KnowsInv' /\ FetchedInv' /\ WritingInv'
  BY <1>3 DEF BegunInv, KnowsInv, FetchedInv, WritingInv
<1> QED
  BY <1>1, <1>2, <1>3, <1>5, <1>6, <1>7, Zenon DEF Inv

-----------------------------------------------------------------------------
\* A run puts its rows together. First what it holds then, and at which block it was so.
LEMMA ProcessSteps ==
    ASSUME Inv, Process
    PROVE  /\ step = "fetched" /\ step' = "writing" /\ head' = head
           /\ UNCHANGED <<blocks, listed, db, cursor, ragged>>
           /\ run'.all = run.all /\ run'.current = run.current /\ run'.last = run.last
           /\ run'.knows = run.knows
           /\ run'.rows = ProcessSnapshots(MergeRows(run.rows, Stored))
<1>1. TypeInv /\ run \in Locals(head)
  BY DEF Inv, TypeInv
<1>2. AreRows(ProcessSnapshots(MergeRows(run.rows, Stored)), head)
  BY <1>1, ProcessedTyped
<1>3. run' = [run EXCEPT !.rows = ProcessSnapshots(MergeRows(run.rows, Stored))]
  BY DEF Process
<1> QED
  BY <1>1, <1>2, <1>3, WithRows DEF Process, head

\* The rows r that a run puts together, and the stored ones with them, at block n of the
\* subgraph.
Result(n, r) ==
    LET f == Over(r, db)
    IN  /\ run.all \/ ~ ragged =>
            /\ Core(blocks, f, DOMAIN f, run.current, n, listed)
            /\ DOMAIN f = {} \/ ChangedDays(blocks, n, run.current) \subseteq DOMAIN f
        /\ ~ run.all /\ ~ ragged =>
            /\ Current(blocks, db, DOMAIN f, cursor, n, listed)
            /\ Near(DOMAIN r, DOMAIN db)

\* The facts the three cases share.
LEMMA AtBlock ==
    ASSUME Inv, step = "fetched", NEW n \in run.current .. head
    PROVE  /\ blocks \in Chains /\ Ordered(blocks) /\ n \in 0 .. Len(blocks) /\ n \in Nat
           /\ head \in n .. Len(blocks) /\ head \in Nat /\ n <= head
           /\ cursor \in Int /\ run.current \in Int /\ run.last \in Int /\ listed \in Int
           /\ cursor <= run.current /\ run.current <= n /\ 0 <= run.current
           /\ AreRows(db, head) /\ AreRows(run.rows, head)
           /\ run.last = IF run.all THEN 0 ELSE cursor
<1>1. TypeInv /\ Ordered(blocks)
  BY DEF Inv
<1>2. cursor <= run.current /\ run.last = IF run.all THEN 0 ELSE cursor
  BY DEF Inv, BegunInv, KnowsInv
<1>3. /\ blocks \in Chains /\ Len(blocks) = head /\ head \in Nat /\ cursor \in Int
      /\ listed \in Int /\ run.current \in Nat /\ run.current \in 0 .. head /\ run.last \in Int
      /\ AreRows(db, head) /\ AreRows(run.rows, head)
  BY <1>1, HeadNumber, RunTyped
<1> QED
  BY <1>1, <1>2, <1>3

\* There were new rows, and the stored ones are merged with them.
LEMMA ResultOfNew ==
    ASSUME Inv, step = "fetched", NEW n \in run.current .. head, FetchedAt(n),
           run.knows, ~ run.all, run.rows # NoRows,
           NEW r, r = ProcessSnapshots(MergeRows(run.rows, Stored))
    PROVE  ~ ragged => Result(n, r)
<1> SUFFICES ASSUME ~ ragged
             PROVE  Result(n, r)
  OBVIOUS
<1> DEFINE W == ChangedDays(blocks, n, cursor)
           D == DOMAIN db
<1>1. /\ blocks \in Chains /\ Ordered(blocks) /\ n \in 0 .. Len(blocks) /\ n \in Nat
      /\ head \in n .. Len(blocks) /\ head \in Nat /\ n <= head
      /\ cursor \in Int /\ run.current \in Int /\ run.last \in Int /\ listed \in Int
      /\ cursor <= run.current /\ run.current <= n /\ 0 <= run.current
      /\ AreRows(db, head) /\ AreRows(run.rows, head)
      /\ run.last = IF run.all THEN 0 ELSE cursor
  BY AtBlock
<1>2. run.rows = Fetched(blocks, n, W) /\ W # {} /\ W \subseteq Nat /\ D \subseteq Nat
  <2>1. run.rows = Fetched(blocks, n, W)
    BY <1>1 DEF FetchedAt, RowsAt
  <2>2. W \subseteq Nat
    BY DayNumber DEF ChangedDays
  <2>3. D \subseteq Nat
    BY <1>1, RowFields
  <2>4. W # {}
    <3>1. DOMAIN run.rows # {}
      BY <1>1, EmptyIsNoRows
    <3>2. DOMAIN run.rows = W
      BY <2>1 DEF Fetched
    <3> QED
      BY <3>1, <3>2
  <2> QED
    BY <2>1, <2>2, <2>3, <2>4
<1>3. Within(blocks, D, n) /\ Core(blocks, db, D, cursor, n, listed)
  BY DEF FetchedAt, RowsAt
<1>4. Near(W, D)
  <2>1. Near(ChangedDays(blocks, head, cursor), D)
    BY DEF Inv, SettledInv, Settled, Good
  <2>2. W \subseteq ChangedDays(blocks, head, cursor)
    BY <1>1, DaysLater, ChangedLater DEF ChangedDays
  <2> QED
    BY <2>1, <2>2 DEF Near
<1>5. r = ProcessSnapshots(MergeRows(Fetched(blocks, n, W), LatestRows(db)))
  BY <1>2, StoredAre
<1>6. PICK f : f = Over(r, db)
  OBVIOUS
<1> HIDE DEF W, D
<1>7. /\ Contiguous(DOMAIN f) /\ Differences(f) /\ Bounded(blocks, f, n) /\ Exact(blocks, f, n)
      /\ \E a, z \in Nat :
           /\ DOMAIN r = a .. z /\ a \in W \cup D /\ z \in W \cup D
           /\ W \subseteq a .. z
           /\ \A x \in D :
                 x <= z /\ (x > a => x = a + 1 /\ a \in D) /\ (x < a => a \in D)
           /\ D = {} => a \in W
  BY <1>1, <1>2, <1>3, <1>4, <1>5, <1>6, CatchesUp DEF W, D
<1>8. PICK a \in Nat, z \in Nat :
           /\ DOMAIN r = a .. z /\ a \in W \cup D /\ z \in W \cup D
           /\ W \subseteq a .. z
           /\ \A x \in D :
                 x <= z /\ (x > a => x = a + 1 /\ a \in D) /\ (x < a => a \in D)
           /\ D = {} => a \in W
  BY <1>7
<1>9. DOMAIN f = D \cup a .. z
  BY <1>6, <1>8 DEF Over, D
\* A day from the first of the rows on has changed since the saved block, or is stored.
<1>11. ASSUME NEW d \in DaysIn(blocks, n), ~ ChangedIn(blocks, n, d, cursor),
              NEW x \in DOMAIN f, x <= d
       PROVE  Has(blocks, db, n, d)
  <2>1. d \in Nat /\ d \notin W /\ x \in Nat
    <3>1. d \in Nat
      BY DayNumber
    <3>2. d \notin W
      BY <1>11 DEF W, ChangedDays
    <3>3. \A y \in D \cup a .. z : y \in Nat
      BY <1>2
    <3>4. x \in D \cup a .. z
      BY <1>9, <1>11
    <3> QED
      BY <3>1, <3>2, <3>3, <3>4
  <2>2. CASE \E e \in D : e <= d
    BY <2>2, <1>3, <1>11 DEF Core, Current
  <2>3. CASE \A e \in D : ~ (e <= d)
    <3>1. x \in a .. z /\ a <= d /\ a \notin D
      <4>1. x \in a .. z
        BY <2>3, <1>9, <1>11
      <4> QED
        BY <4>1, <2>1, <2>3, <1>8, <1>11
    <3>2. a \in W
      BY <3>1, <1>8
    <3>3. a # d /\ ChangedIn(blocks, n, a, cursor)
      BY <3>2, <2>1 DEF W, ChangedDays
    <3>4. a \in Int /\ a < d
      BY <3>1, <3>3, <2>1
    <3>5. ChangedIn(blocks, n, d, cursor)
      BY <3>3, <3>4, <1>1, ChangedUpwards
    <3> QED
      BY <3>5, <1>11
  <2> QED
    BY <2>2, <2>3
<1>12. Current(blocks, db, DOMAIN f, cursor, n, listed)
  <2>1. ASSUME NEW d \in DaysIn(blocks, n), ~ ChangedIn(blocks, n, d, cursor),
               listed # NotListed /\ ChangedIn(blocks, n, d, listed + 1)
        PROVE  Has(blocks, db, n, d)
    BY <2>1, <1>3, Zenon DEF Core, Current
  <2>2. \A d \in D : d \in DaysIn(blocks, n) \/ Has(blocks, db, n, d)
    BY <1>3 DEF Core, Current, D
  <2> QED
    BY <2>1, <2>2, <1>11, Zenon DEF Current, D
<1>13. Core(blocks, f, DOMAIN f, run.current, n, listed)
  <2>1. ASSUME NEW d \in DaysIn(blocks, n),
               \/ listed # NotListed /\ ChangedIn(blocks, n, d, listed + 1)
               \/ \E x \in DOMAIN f : x <= d
        PROVE  d \in DOMAIN f
    <3>1. ChangedIn(blocks, n, d, cursor) \/ Has(blocks, db, n, d)
      BY <2>1, <1>12, Zenon DEF Current
    <3>2. CASE ChangedIn(blocks, n, d, cursor)
      BY <3>2, <1>8, <1>9 DEF W, ChangedDays
    <3>3. CASE Has(blocks, db, n, d)
      BY <3>3, <1>9 DEF Has, D
    <3> QED
      BY <3>1, <3>2, <3>3
  <2>2. \A d \in DaysIn(blocks, n) :
           \/ listed # NotListed /\ ChangedIn(blocks, n, d, listed + 1)
           \/ \E x \in DOMAIN f : x <= d
           => ChangedIn(blocks, n, d, run.current) \/ d \in DOMAIN f
    BY <2>1, Zenon
  <2> QED
    BY <2>2, <1>1, <1>7, ExactCore
<1>14. ChangedDays(blocks, n, run.current) \subseteq DOMAIN f
  <2>1. ChangedDays(blocks, n, run.current) \subseteq W
    BY <1>1, ChangedEarlier DEF W, ChangedDays
  <2> QED
    BY <2>1, <1>8, <1>9
<1>15. Near(DOMAIN r, D)
  <2> SUFFICES ASSUME NEW d \in a .. z, NEW x \in D, ~ (d >= x)
               PROVE  d = x - 1 /\ d \in D
    BY <1>8 DEF Near
  <2>1. x \in Nat /\ x > a
    BY <1>2
  <2> QED
    BY <2>1, <1>8
<1> QED
  BY <1>6, <1>12, <1>13, <1>14, <1>15 DEF Result, D

\* A run of all snapshots.
LEMMA ResultOfAll ==
    ASSUME Inv, step = "fetched", NEW n \in run.current .. head, FetchedAt(n),
           run.knows, run.all, run.rows # NoRows,
           NEW r, r = ProcessSnapshots(MergeRows(run.rows, Stored))
    PROVE  Result(n, r)
<1> DEFINE W == ChangedDays(blocks, n, 0)
<1>1. /\ blocks \in Chains /\ n \in 0 .. Len(blocks) /\ n \in Nat
      /\ head \in n .. Len(blocks) /\ run.current \in Int /\ listed \in Int
      /\ AreRows(db, head) /\ AreRows(run.rows, head) /\ run.last = 0
  BY AtBlock
<1>2. run.rows = Fetched(blocks, n, W) /\ W = DaysIn(blocks, n)
  <2>1. run.rows = Fetched(blocks, n, W)
    BY <1>1 DEF FetchedAt, RowsAt
  <2>2. W = DaysIn(blocks, n)
    BY <1>1, AllDays
  <2> QED
    BY <2>1, <2>2
<1>3. W # {}
  <2>1. DOMAIN run.rows # {}
    BY <1>1, EmptyIsNoRows
  <2>2. DOMAIN run.rows = W
    BY <1>2 DEF Fetched
  <2> QED
    BY <2>1, <2>2
<1>4. r = ProcessSnapshots(MergeRows(Fetched(blocks, n, W), NoRows))
  BY <1>2, StoredAre
<1>5. Within(blocks, DOMAIN db, n)
  BY DEF FetchedAt, RowsAt
<1>6. PICK f : f = Over(r, db)
  OBVIOUS
<1> HIDE DEF W
<1>7. /\ Contiguous(DOMAIN f) /\ Differences(f) /\ Bounded(blocks, f, n) /\ Exact(blocks, f, n)
      /\ \E a, z \in Nat :
           DOMAIN r = a .. z /\ a \in W /\ z \in W /\ W \subseteq a .. z
  BY <1>1, <1>3, <1>4, <1>5, <1>6, SyncsAll DEF W
<1>8. W \subseteq DOMAIN f
  BY <1>6, <1>7 DEF Over
<1>9. Core(blocks, f, DOMAIN f, run.current, n, listed)
  <2>1. \A d \in DaysIn(blocks, n) :
           \/ listed # NotListed /\ ChangedIn(blocks, n, d, listed + 1)
           \/ \E x \in DOMAIN f : x <= d
           => ChangedIn(blocks, n, d, run.current) \/ d \in DOMAIN f
    BY <1>2, <1>8, Zenon
  <2> QED
    BY <2>1, <1>1, <1>7, ExactCore
<1>10. ChangedDays(blocks, n, run.current) \subseteq DOMAIN f
  BY <1>2, <1>8 DEF ChangedDays
<1> QED
  BY <1>6, <1>9, <1>10 DEF Result

\* Nothing is stored, and the pool need not have anything.
LEMMA ResultOfNone ==
    ASSUME NEW n, DOMAIN db = {},
           \A d \in DaysIn(blocks, n) :
               listed # NotListed /\ ChangedIn(blocks, n, d, listed + 1)
               => /\ ChangedIn(blocks, n, d, run.current)
                  /\ ChangedIn(blocks, n, d, cursor)
    PROVE  /\ Core(blocks, db, DOMAIN db, run.current, n, listed)
           /\ Core(blocks, db, DOMAIN db, cursor, n, listed)
<1>1. ASSUME NEW c, \A d \in DaysIn(blocks, n) :
                       listed # NotListed /\ ChangedIn(blocks, n, d, listed + 1)
                       => ChangedIn(blocks, n, d, c)
      PROVE  Core(blocks, db, DOMAIN db, c, n, listed)
  <2>1. ~ \E x \in DOMAIN db : TRUE
    OBVIOUS
  <2>2. Current(blocks, db, DOMAIN db, c, n, listed)
    BY <1>1, <2>1, Zenon DEF Current
  <2> QED
    BY <2>2 DEF Core, Contiguous, Differences, Bounded, Complete
<1>2. \A d \in DaysIn(blocks, n) :
        listed # NotListed /\ ChangedIn(blocks, n, d, listed + 1)
        => ChangedIn(blocks, n, d, run.current)
  BY Zenon
<1>3. \A d \in DaysIn(blocks, n) :
        listed # NotListed /\ ChangedIn(blocks, n, d, listed + 1)
        => ChangedIn(blocks, n, d, cursor)
  BY Zenon
<1> QED
  BY <1>1, <1>2, <1>3

\* There were no new rows.
LEMMA ResultOfNothing ==
    ASSUME Inv, step = "fetched", NEW n \in run.current .. head, FetchedAt(n),
           run.rows = NoRows, NEW r, r = ProcessSnapshots(MergeRows(run.rows, Stored))
    PROVE  r = NoRows /\ Result(n, r)
<1>1. /\ blocks \in Chains /\ n \in 0 .. Len(blocks) /\ n \in Nat /\ head \in Nat
      /\ cursor \in Int /\ run.current \in Int /\ listed \in Int /\ cursor <= run.current
      /\ AreRows(db, head) /\ run.last = IF run.all THEN 0 ELSE cursor
  BY AtBlock
<1>2. r = NoRows /\ DOMAIN r = {}
  <2>1. Stored = NoRows
    BY StoredAre
  <2>2. PICK m : m = MergeRows(NoRows, NoRows)
    OBVIOUS
  <2>3. AreRows(NoRows, head) /\ DOMAIN NoRows = {}
    BY <1>1, NoRowsAre
  <2>4. AreRows(m, head) /\ DOMAIN m = {}
    <3>1. AreRows(m, head) /\ Merged(m, NoRows, NoRows)
      BY <1>1, <2>2, <2>3, MergedRows
    <3> QED
      BY <2>3, <3>1 DEF Merged
  <2>5. m = NoRows
    BY <2>4, EmptyIsNoRows
  <2> QED
    BY <2>1, <2>2, <2>3, <2>5, ProcessedNothing
<1>3. Over(r, db) = db
  BY <1>1, <1>2, OverNothing
<1> SUFFICES Result(n, r)
  BY <1>2
<1>4. Near(DOMAIN r, DOMAIN db)
  BY <1>2 DEF Near
<1>5. ASSUME DOMAIN db = {},
             \A d \in DaysIn(blocks, n) :
                 listed # NotListed /\ ChangedIn(blocks, n, d, listed + 1)
                 => /\ ChangedIn(blocks, n, d, run.current)
                    /\ ChangedIn(blocks, n, d, cursor)
      PROVE  Result(n, r)
  <2>1. /\ Core(blocks, db, DOMAIN db, run.current, n, listed)
        /\ Core(blocks, db, DOMAIN db, cursor, n, listed)
    BY <1>5, ResultOfNone
  <2>2. Current(blocks, db, DOMAIN db, cursor, n, listed)
    BY <2>1 DEF Core
  <2> QED
    BY <1>3, <1>4, <1>5, <2>1, <2>2 DEF Result
<1>6. CASE ~ run.knows
  <2>1. DOMAIN db = {} /\ (listed = NotListed \/ listed >= run.current)
    BY <1>6 DEF Inv, KnowsInv
  <2>2. ASSUME NEW d \in DaysIn(blocks, n), listed # NotListed,
               ChangedIn(blocks, n, d, listed + 1)
        PROVE  ChangedIn(blocks, n, d, run.current) /\ ChangedIn(blocks, n, d, cursor)
    <3>1. run.current <= listed + 1 /\ listed + 1 \in Int
      BY <1>1, <2>1, <2>2
    <3>2. ChangedIn(blocks, n, d, run.current)
      BY <3>1, <1>1, <2>2, ChangedEarlier
    <3> QED
      BY <3>2, <1>1, ChangedEarlier
  <2> QED
    <3>1. \A d \in DaysIn(blocks, n) :
             listed # NotListed /\ ChangedIn(blocks, n, d, listed + 1)
             => /\ ChangedIn(blocks, n, d, run.current)
                /\ ChangedIn(blocks, n, d, cursor)
      BY <2>2, Zenon
    <3> QED
      BY <2>1, <3>1, <1>5, Zenon
<1>7. CASE run.knows
  <2> DEFINE W == ChangedDays(blocks, n, run.last)
  <2>1. W = {}
    <3>1. NoRows = Fetched(blocks, n, W)
      BY <1>7 DEF FetchedAt, RowsAt
    <3>2. DOMAIN NoRows = W
      BY <3>1 DEF Fetched
    <3> QED
      BY <3>2, <1>1, NoRowsAre
  <2>2. CASE run.all
    <3>1. DaysIn(blocks, n) = {}
      BY <1>1, <2>1, <2>2, AllDays
    <3>2. DOMAIN db = {}
      BY <3>1 DEF FetchedAt, RowsAt, Within
    <3> QED
      <4>1. \A d \in DaysIn(blocks, n) :
               listed # NotListed /\ ChangedIn(blocks, n, d, listed + 1)
               => /\ ChangedIn(blocks, n, d, run.current)
                  /\ ChangedIn(blocks, n, d, cursor)
        BY <3>1, Zenon
      <4> QED
        BY <3>2, <4>1, <1>5, Zenon
  <2>3. CASE ~ run.all
    <3> SUFFICES ASSUME ~ ragged
                 PROVE  Result(n, r)
      BY <2>3, Zenon DEF Result
    <3>1. Core(blocks, db, DOMAIN db, cursor, n, listed)
      BY DEF FetchedAt, RowsAt
    <3>2. \A d \in DaysIn(blocks, n) : ~ ChangedIn(blocks, n, d, cursor)
      BY <1>1, <2>1, <2>3 DEF ChangedDays
    <3>3. Current(blocks, db, DOMAIN db, run.current, n, listed)
      <4>1. Current(blocks, db, DOMAIN db, cursor, n, listed)
        BY <3>1 DEF Core
      <4> QED
        BY <4>1, <3>2, Zenon DEF Current
    <3>4. Core(blocks, db, DOMAIN db, run.current, n, listed)
      BY <3>1, <3>3, Zenon DEF Core
    <3>5. ChangedDays(blocks, n, run.current) = {}
      <4> SUFFICES ASSUME NEW d \in DaysIn(blocks, n), ChangedIn(blocks, n, d, run.current)
                   PROVE  FALSE
        BY DEF ChangedDays
      <4>1. ChangedIn(blocks, n, d, cursor)
        BY <1>1, ChangedEarlier
      <4> QED
        BY <4>1, <3>2
    <3>6. Current(blocks, db, DOMAIN db, cursor, n, listed)
      BY <3>1 DEF Core
    <3> QED
      BY <1>3, <1>4, <3>4, <3>5, <3>6 DEF Result
  <2> QED
    BY <2>2, <2>3
<1> QED
  BY <1>6, <1>7

LEMMA ProcessedDays ==
    ASSUME NEW h \in Nat, NEW rows, AreRows(rows, h), DOMAIN rows # {},
           NEW a, a = MinOf(DOMAIN rows), NEW z, z = MaxOf(DOMAIN rows)
    PROVE  DOMAIN ProcessSnapshots(rows) = a .. z
<1>1. PICK p : p = ProcessSnapshots(rows)
  OBVIOUS
<1>2. /\ AreRows(p, h) /\ DOMAIN p = a .. z /\ Differences(p)
      /\ p[a].total = rows[a].total
      /\ p[a].daily = IF a = z THEN rows[a].total ELSE rows[a].daily
      /\ p[a].sum = IF rows[a].sum # 0 THEN rows[a].sum ELSE p[a].daily
      /\ \A d \in a .. z : p[d].sum = p[a].sum + (p[d].total - p[a].total)
  BY <1>1, ProcessedRows
<1> QED
  BY <1>1, <1>2

\* The rows reach from one day to another of those that were put together.
LEMMA RowsWithin ==
    ASSUME Inv, step = "fetched", NEW n \in run.current .. head, RowsAt(n),
           NEW r, r = ProcessSnapshots(MergeRows(run.rows, Stored))
    PROVE  Within(blocks, DOMAIN r, n)
<1>1. head \in Nat /\ AreRows(db, head) /\ AreRows(run.rows, head)
  BY AtBlock
<1>2. AreRows(Stored, head) /\ DOMAIN Stored \subseteq DOMAIN db
  <2>1. AreRows(NoRows, head) /\ DOMAIN NoRows = {}
    BY <1>1, NoRowsAre
  <2>2. AreRows(LatestRows(db), head) /\ DOMAIN LatestRows(db) = LatestOf(DOMAIN db)
    BY <1>1, LatestRowsAre
  <2>3. LatestOf(DOMAIN db) \subseteq DOMAIN db
    BY DEF LatestOf
  <2> QED
    BY <2>1, <2>2, <2>3, StoredAre
<1>3. PICK m : m = MergeRows(run.rows, Stored)
  OBVIOUS
<1>4. AreRows(m, head) /\ DOMAIN m = DOMAIN run.rows \cup DOMAIN Stored
  <2>1. AreRows(m, head) /\ Merged(m, run.rows, Stored)
    BY <1>1, <1>2, <1>3, MergedRows
  <2> QED
    BY <2>1 DEF Merged
<1>5. ASSUME NEW d \in DOMAIN m
      PROVE  \E x, y \in DaysIn(blocks, n) : x <= d /\ d <= y
  <2>1. CASE d \in DOMAIN db
    BY <2>1 DEF RowsAt, Within
  <2>2. CASE d \in DOMAIN run.rows
    <3>1. DOMAIN NoRows = {}
      BY <1>1, NoRowsAre
    <3>2. d \in DaysIn(blocks, n)
      BY <2>2, <3>1 DEF RowsAt, Fetched, ChangedDays
    <3>3. d <= d
      BY <3>2, DayNumber
    <3> QED
      BY <3>2, <3>3
  <2> QED
    BY <2>1, <2>2, <1>2, <1>4
<1>6. CASE DOMAIN m = {}
  <2>1. m = NoRows
    BY <1>4, <1>6, EmptyIsNoRows
  <2>2. r = NoRows /\ DOMAIN r = {}
    BY <2>1, <1>1, <1>3, ProcessedNothing, NoRowsAre
  <2> QED
    BY <2>2 DEF Within
<1>7. CASE DOMAIN m # {}
  <2>1. PICK a, z : a = MinOf(DOMAIN m) /\ z = MaxOf(DOMAIN m)
    OBVIOUS
  <2>2. r = ProcessSnapshots(m)
    BY <1>3
  <2>3. DOMAIN r = a .. z
    BY <2>1, <2>2, <1>1, <1>4, <1>7, ProcessedDays
  <2>4. a \in DOMAIN m /\ z \in DOMAIN m
    BY <2>1, <1>4, <1>7, Ends DEF AreRows
  <2>5. PICK x \in DaysIn(blocks, n) : x <= a
    BY <2>4, <1>5
  <2>6. PICK y \in DaysIn(blocks, n) : z <= y
    BY <2>4, <1>5
  <2>7. x \in Nat /\ y \in Nat /\ a \in Nat /\ z \in Nat
    BY <2>4, <1>1, <1>4, RowFields, DayNumber
  <2>8. \A d \in a .. z : x <= d /\ d <= y
    BY <2>5, <2>6, <2>7
  <2> QED
    BY <2>3, <2>8 DEF Within
<1> QED
  BY <1>6, <1>7

\* The days that change in the block a run has read or later are not before those of the stored
\* rows, when they reach at most to the day after it.
LEMMA StillNear ==
    ASSUME NEW bs \in Chains, Ordered(bs), NEW k \in 0 .. Len(bs), NEW n \in k .. Len(bs),
           DayIn(bs, Len(bs)) <= DayIn(bs, k) + 1, NEW E, E \subseteq Nat, Within(bs, E, n),
           E = {} \/ ChangedDays(bs, n, k) \subseteq E
    PROVE  Near(ChangedDays(bs, Len(bs), k), E)
<1> DEFINE h == Len(bs)
<1>1. h \in Nat /\ k \in Nat /\ n \in Nat /\ n <= h /\ k <= n /\ n \in 0 .. h /\ h \in n .. h
  BY DEF Chains
<1> SUFFICES ASSUME NEW d \in ChangedDays(bs, h, k), NEW x \in E, ~ (d >= x)
             PROVE  d = x - 1 /\ d \in E
  BY DEF Near
<1>2. PICK b \in 1 .. h : b >= k /\ bs[b].swap /\ bs[b].day = d
  BY DEF ChangedDays, ChangedIn, SwapsIn
<1>3. d \in 1 .. MaxDay /\ d \in Nat /\ x \in Nat
  <2>1. d \in DaysIn(bs, h)
    BY DEF ChangedDays
  <2> QED
    BY <2>1, DayNumber
\* The day of the block k is not after d, and x is not after that of the last block.
<1>4. DayIn(bs, k) <= d /\ DayIn(bs, k) \in Nat
  <2>1. CASE k = 0
    BY <2>1, <1>3 DEF DayIn
  <2>2. CASE k # 0
    <3>1. k \in 1 .. Len(bs) /\ b \in 1 .. Len(bs) /\ k <= b
      BY <2>2, <1>1, <1>2
    <3>2. bs[k].day <= bs[b].day
      BY <3>1 DEF Ordered
    <3>3. bs[k].day \in 1 .. MaxDay
      BY <3>1, BlockTyped
    <3> QED
      BY <2>2, <3>2, <3>3, <1>2, BoundsAssumption DEF DayIn
  <2> QED
    BY <2>1, <2>2
<1>5. x <= DayIn(bs, h) /\ DayIn(bs, h) \in Nat
  <2>1. PICK y \in DaysIn(bs, n) : x <= y
    BY DEF Within
  <2>2. PICK a \in 1 .. n : bs[a].day = y
    BY DEF DaysIn, SwapsIn
  <2>3. a \in 1 .. Len(bs) /\ h \in 1 .. Len(bs) /\ a <= h /\ h # 0
    BY <1>1
  <2>4. bs[a].day <= bs[h].day
    BY <2>3 DEF Ordered
  <2>5. bs[a].day \in 1 .. MaxDay /\ bs[h].day \in 1 .. MaxDay
    BY <2>3, BlockTyped
  <2>6. DayIn(bs, h) = bs[h].day
    BY <2>3 DEF DayIn
  <2> QED
    BY <2>1, <2>2, <2>4, <2>5, <2>6, <1>3, BoundsAssumption
<1>6. d = x - 1
  BY <1>3, <1>4, <1>5
<1>7. b \in 1 .. n
  <2> SUFFICES ASSUME b \notin 1 .. n
               PROVE  FALSE
    OBVIOUS
  <2>1. b \in n + 1 .. h
    BY <1>1
  <2>2. x <= bs[b].day
    BY <2>1, <1>1, WithinLater
  <2> QED
    BY <2>2, <1>2, <1>3
<1>8. d \in ChangedDays(bs, n, k)
  <2>1. b \in SwapsIn(bs, n, {d})
    BY <1>2, <1>7 DEF SwapsIn
  <2> QED
    BY <2>1, <1>2, <1>3 DEF ChangedDays, DaysIn, ChangedIn
<1> QED
  BY <1>6, <1>8

\* The step itself.
LEMMA ProcessInv ==
    ASSUME Inv, Process
    PROVE  Inv'
<1>1. TypeInv /\ Ordered(blocks)
  BY DEF Inv
<1>2. TypeInv'
  BY <1>1, TypeNext DEF Next
<1>3. PICK r : r = ProcessSnapshots(MergeRows(run.rows, Stored))
  OBVIOUS
<1>4. /\ step = "fetched" /\ step' = "writing" /\ head' = head
      /\ UNCHANGED <<blocks, listed, db, cursor, ragged>>
      /\ run'.all = run.all /\ run'.current = run.current /\ run'.last = run.last
      /\ run'.knows = run.knows
      /\ run'.rows = r
  BY <1>3, ProcessSteps
<1>5. PICK n \in run.current .. head : FetchedAt(n)
  BY <1>4 DEF Inv, FetchedInv
<1>6. /\ blocks \in Chains /\ n \in 0 .. Len(blocks) /\ n \in Nat
      /\ head \in n .. Len(blocks) /\ head \in Nat /\ n <= head
      /\ cursor \in Int /\ run.current \in Int /\ listed \in Int
      /\ cursor <= n /\ run.current <= n /\ 0 <= run.current /\ AreRows(db, head)
  <2>1. /\ blocks \in Chains /\ Ordered(blocks) /\ n \in 0 .. Len(blocks) /\ n \in Nat
        /\ head \in n .. Len(blocks) /\ head \in Nat /\ n <= head
        /\ cursor \in Int /\ run.current \in Int /\ run.last \in Int /\ listed \in Int
        /\ cursor <= run.current /\ run.current <= n /\ 0 <= run.current
        /\ AreRows(db, head) /\ AreRows(run.rows, head)
        /\ run.last = IF run.all THEN 0 ELSE cursor
    BY <1>4, <1>5, AtBlock
  <2> QED
    BY <2>1
<1>7. AreRows(r, head)
  BY <1>1, <1>3, ProcessedTyped
<1>8. Within(blocks, DOMAIN r, n) /\ Within(blocks, DOMAIN db, n)
  BY <1>3, <1>4, <1>5, RowsWithin DEF FetchedAt, RowsAt
<1>9. run.knows \/ run.rows = NoRows
  BY <1>4, Zenon DEF Inv, KnowsInv
<1>10. run.rows = NoRows => r = NoRows
  BY <1>3, <1>4, <1>5, ResultOfNothing
<1>11. run.all \/ ~ ragged => Result(n, r)
  <2>1. CASE run.rows = NoRows
    BY <2>1, <1>3, <1>4, <1>5, ResultOfNothing
  <2>2. CASE run.rows # NoRows /\ run.all
    BY <2>2, <1>3, <1>4, <1>5, <1>9, ResultOfAll
  <2>3. CASE run.rows # NoRows /\ ~ run.all
    <3>1. run.knows
      BY <2>3, <1>9
    <3>2. ~ ragged => Result(n, r)
      BY <2>3, <3>1, <1>3, <1>4, <1>5, ResultOfNew
    <3> QED
      BY <2>3, <3>2, Zenon
  <2> QED
    BY <2>1, <2>2, <2>3
<1>12. DaysInv'
  <2>1. Within(blocks, DOMAIN r, head)
    BY <1>6, <1>8, WithinGrows
  <2> QED
    BY <2>1, <1>4 DEF Inv, DaysInv
<1>13. SettledInv' /\ FetchedInv'
  BY <1>4 DEF SettledInv, Settled, FetchedInv
<1>14. BegunInv'
  BY <1>4 DEF Inv, BegunInv
<1>15. KnowsInv'
  BY <1>4, <1>10 DEF Inv, KnowsInv
<1>16. PICK f : f = Over(r, db)
  OBVIOUS
<1>17. AreRows(f, head) /\ Within(blocks, DOMAIN f, n) /\ DOMAIN f \subseteq Nat
  <2>1. AreRows(f, head)
    BY <1>6, <1>7, <1>16, OverTyped
  <2>2. DOMAIN f = DOMAIN db \cup DOMAIN r
    BY <1>16 DEF Over
  <2>3. Within(blocks, DOMAIN f, n)
    BY <2>2, <1>8 DEF Within
  <2> QED
    BY <2>1, <2>3, <1>6, RowFields
<1>18. ASSUME run.all \/ ~ ragged
       PROVE  Good(blocks, f, run.current, head, listed)
  <2>1. /\ Core(blocks, f, DOMAIN f, run.current, n, listed)
        /\ DOMAIN f = {} \/ ChangedDays(blocks, n, run.current) \subseteq DOMAIN f
    BY <1>11, <1>16, <1>18, Zenon DEF Result
  <2>2. Core(blocks, f, DOMAIN f, run.current, head, listed)
    BY <2>1, <1>1, <1>6, <1>17, CoreLater
  <2>3. Near(ChangedDays(blocks, head, run.current), DOMAIN f)
    <3>1. /\ run.current \in 0 .. Len(blocks) /\ n \in run.current .. Len(blocks)
          /\ Len(blocks) = head
      BY <1>6 DEF head
    <3>2. DayIn(blocks, head) <= DayIn(blocks, run.current) + 1
      BY <1>4 DEF Inv, BegunInv
    <3> QED
      BY <2>1, <3>1, <3>2, <1>1, <1>6, <1>17, StillNear
  <2> QED
    BY <2>2, <2>3 DEF Good
<1>19. ASSUME ~ run.all, ~ ragged
       PROVE  /\ Core(blocks, db, DOMAIN f, cursor, head, listed)
              /\ Near(DOMAIN r, DOMAIN db)
  <2>1. /\ Current(blocks, db, DOMAIN f, cursor, n, listed)
        /\ Near(DOMAIN r, DOMAIN db)
    BY <1>11, <1>16, <1>19, Zenon DEF Result
  <2>2. Core(blocks, db, DOMAIN db, cursor, n, listed)
    BY <1>5, <1>19, Zenon DEF FetchedAt, RowsAt
  <2>3. Core(blocks, db, DOMAIN f, cursor, n, listed)
    BY <2>1, <2>2, Zenon DEF Core
  <2>4. Core(blocks, db, DOMAIN f, cursor, head, listed)
    BY <2>3, <1>1, <1>6, <1>8, CoreLater
  <2> QED
    BY <2>1, <2>4
<1>20. WritingInv'
  BY <1>4, <1>16, <1>18, <1>19, Zenon DEF WritingInv
<1> QED
  BY <1>1, <1>2, <1>4, <1>12, <1>13, <1>14, <1>15, <1>20, Zenon DEF Inv

LEMMA InvNext ==
    ASSUME Inv, [Next]_vars
    PROVE  Inv'
<1>1. CASE UNCHANGED vars
  <2>1. TypeInv'
    BY <1>1, TypeNext DEF Inv
  <2>2. /\ blocks' = blocks /\ listed' = listed /\ db' = db /\ cursor' = cursor
        /\ step' = step /\ run' = run /\ ragged' = ragged /\ head' = head
    BY <1>1 DEF vars, head
  <2>3. DaysInv' /\ SettledInv' /\ BegunInv' /\ KnowsInv'
    BY <2>2 DEF Inv, DaysInv, SettledInv, Settled, BegunInv, KnowsInv
  <2>4. FetchedInv' /\ WritingInv'
    BY <2>2 DEF Inv, FetchedInv, FetchedAt, RowsAt, WritingInv
  <2> QED
    BY <2>1, <2>2, <2>3, <2>4, Zenon DEF Inv
<1> QED
  BY <1>1, NewBlockInv, AddPoolInv, ReadHeadInv, ReadCursorInv, FetchInv, ProcessInv,
     WriteBatchInv, SaveInv, AbortInv DEF Next

-----------------------------------------------------------------------------
(***************************************************************************)
(* The theorems.                                                           *)
(***************************************************************************)

LEMMA InvAlways == Spec => []Inv
<1>1. Init => Inv
  BY InvInit
<1>2. Inv /\ [Next]_vars => Inv'
  BY InvNext
<1> QED
  BY <1>1, <1>2, PTL DEF Spec

\* Between two runs the stored days have no gap, and the value of every day but the first is
\* the difference of its total and the one before (computeDailyValues, for every number of
\* days and blocks and every interruption of a run that the next one can repair).
THEOREM DailyIsDifferenceCorrect == Spec => []DailyIsDifference
<1>1. ASSUME Inv
      PROVE  DailyIsDifference
  <2> SUFFICES ASSUME Settled, NEW d \in DOMAIN db, d # MinOf(DOMAIN db)
               PROVE  /\ d - 1 \in DOMAIN db
                      /\ db[d].daily = db[d].total - db[d - 1].total
    BY Zenon DEF DailyIsDifference
  <2>1. Contiguous(DOMAIN db) /\ Differences(db)
    BY <1>1 DEF Inv, SettledInv, Good, Core
  <2>2. DOMAIN db \subseteq 1 .. MaxDay
    BY <1>1 DEF Inv, TypeInv, AreRows
  <2>3. MinOf(DOMAIN db) \in DOMAIN db /\ MinOf(DOMAIN db) <= d
    BY <2>2, Ends
  <2>4. MinOf(DOMAIN db) < d
    BY <2>2, <2>3, BoundsAssumption
  <2>5. d - 1 \in DOMAIN db
    BY <2>1, <2>3, <2>4 DEF Contiguous
  <2> QED
    BY <2>1, <2>5 DEF Differences
<1> QED
  BY <1>1, InvAlways, PTL

-----------------------------------------------------------------------------
(***************************************************************************)
(* What is so at any time, also after a run that was cut off and left      *)
(* days the next one cannot tell: values and sums are bounded, no change   *)
(* since the pool was added is lost, and no total goes back.               *)
(***************************************************************************)

\* A day that has changed since the pool was added has changed since block c or is stored.
Followed(bs, rows, c, n, l) ==
    \A d \in DaysIn(bs, n) :
        l # NotListed /\ ChangedIn(bs, n, d, l + 1)
        => ChangedIn(bs, n, d, c) \/ Has(bs, rows, n, d)

Kept(bs, rows, c, n, l) == Bounded(bs, rows, n) /\ Followed(bs, rows, c, n, l)

LEMMA BoundedLater ==
    ASSUME NEW bs, NEW n \in Nat, NEW m \in Nat, n <= m, NEW h \in Nat, NEW rows,
           AreRows(rows, h), Bounded(bs, rows, n)
    PROVE  Bounded(bs, rows, m)
<1>1. ASSUME NEW d \in DOMAIN rows
      PROVE  rows[d].total <= TotalIn(bs, m, d)
  <2>1. d \in Int /\ rows[d].total \in Int
    BY RowFields
  <2>2. rows[d].total <= TotalIn(bs, n, d)
    BY DEF Bounded
  <2>3. TotalIn(bs, n, d) <= TotalIn(bs, m, d)
    BY <2>1, TotalMonotone
  <2>4. TotalIn(bs, n, d) \in Int /\ TotalIn(bs, m, d) \in Int
    BY TotalTyped
  <2> QED
    BY <2>1, <2>2, <2>3, <2>4
<1> QED
  BY <1>1 DEF Bounded

LEMMA KeptLater ==
    ASSUME NEW bs \in Chains, Ordered(bs), NEW n \in 0 .. Len(bs), NEW m \in n .. Len(bs),
           NEW c \in Int, c <= n, NEW l \in Int,
           NEW h \in Nat, NEW rows, AreRows(rows, h), Within(bs, DOMAIN rows, n),
           Kept(bs, rows, c, n, l)
    PROVE  Kept(bs, rows, c, m, l)
<1>1. Bounded(bs, rows, m)
  <2>1. n \in Nat /\ m \in Nat /\ n <= m
    BY DEF Chains
  <2> QED
    BY <2>1, BoundedLater DEF Kept
<1>2. ASSUME NEW d \in DaysIn(bs, m), l # NotListed, ChangedIn(bs, m, d, l + 1),
             ~ ChangedIn(bs, m, d, c)
      PROVE  Has(bs, rows, m, d)
  <2>1. /\ d \in DaysIn(bs, n) /\ ~ ChangedIn(bs, n, d, c)
        /\ \A b \in n + 1 .. m : bs[b].swap => bs[b].day # d
    BY <1>2, DaysBetween
  <2>2. PICK b \in SwapsIn(bs, m, {d}) : b >= l + 1
    BY <1>2 DEF ChangedIn
  <2>3. b \in SwapsIn(bs, n, {d})
    BY <2>1, <2>2 DEF SwapsIn
  <2>4. ChangedIn(bs, n, d, l + 1)
    BY <2>2, <2>3 DEF ChangedIn
  <2>5. Has(bs, rows, n, d)
    BY <1>2, <2>1, <2>4, Zenon DEF Kept, Followed
  <2> QED
    BY <2>1, <2>5, HasLater
<1>3. Followed(bs, rows, c, m, l)
  BY <1>2, Zenon DEF Followed
<1> QED
  BY <1>1, <1>3 DEF Kept

\* Every row has the total of the last one up to it of those it was made from.
FilledFrom(rows, p) ==
    \A d \in DOMAIN p : p[d].total = rows[MaxOf({x \in DOMAIN rows : x <= d})].total

LEMMA ProcessedFill ==
    ASSUME NEW h \in Nat, NEW rows, AreRows(rows, h), DOMAIN rows # {},
           NEW p, p = ProcessSnapshots(rows)
    PROVE  /\ AreRows(p, h) /\ FilledFrom(rows, p)
           /\ DOMAIN p = MinOf(DOMAIN rows) .. MaxOf(DOMAIN rows)
<1>1. PICK a, z : a = MinOf(DOMAIN rows) /\ z = MaxOf(DOMAIN rows)
  OBVIOUS
<1>2. /\ AreRows(p, h) /\ DOMAIN p = a .. z
      /\ \A d \in a .. z : p[d].total = rows[MaxOf({x \in DOMAIN rows : x <= d})].total
  BY <1>1, ProcessedRows
<1>3. FilledFrom(rows, p)
  BY <1>2 DEF FilledFrom
<1> QED
  BY <1>1, <1>2, <1>3

\* The rows m are those of the subgraph for the days W and those stored for the other days of L.
JoinedFrom(bs, n, W, L, old, m) ==
    /\ DOMAIN m = W \cup L
    /\ \A d \in W : m[d].total = TotalIn(bs, n, d)
    /\ \A d \in L \ W : m[d] = old[d]
    /\ \A d \in DOMAIN m : m[d].daily <= m[d].total /\ m[d].sum <= m[d].total

Upwards(L, D) == L \subseteq D /\ \A x \in L, y \in D : x < y => y \in L

\* A row that is made from such rows has the total of the subgraph, or it is stored as it is and
\* was not asked for.
Told(bs, n, W, L, old, p, d) ==
    \/ Has(bs, p, n, d)
    \/ /\ \E x \in L \ W : x <= d /\ p[d].total = old[x].total
       /\ d \in DOMAIN old => d \in L \ W /\ p[d].total = old[d].total
       /\ d \notin W

LEMMA FilledTotals ==
    ASSUME NEW bs \in Chains, Ordered(bs), NEW n \in 0 .. Len(bs), NEW h \in Nat,
           NEW c \in Int, NEW old,
           NEW W, W = ChangedDays(bs, n, c), W # {}, NEW L, Upwards(L, DOMAIN old),
           NEW m, AreRows(m, h), JoinedFrom(bs, n, W, L, old, m),
           NEW p, p = ProcessSnapshots(m), NEW d \in DOMAIN p
    PROVE  Told(bs, n, W, L, old, p, d)
<1>1. PICK a, z : a = MinOf(DOMAIN m) /\ z = MaxOf(DOMAIN m)
  OBVIOUS
<1>2. DOMAIN m # {}
  BY DEF JoinedFrom
<1>3. FilledFrom(m, p) /\ DOMAIN p = a .. z
  <2>1. AreRows(p, h) /\ FilledFrom(m, p) /\ DOMAIN p = MinOf(DOMAIN m) .. MaxOf(DOMAIN m)
    BY <1>2, ProcessedFill
  <2> QED
    BY <1>1, <2>1
<1>11. DOMAIN m \subseteq 1 .. MaxDay /\ n \in Nat
  BY DEF AreRows, Chains
<1>4. a \in Nat /\ z \in Nat /\ d \in Int /\ a <= d
  BY <1>1, <1>2, <1>3, <1>11, Ends
<1>5. PICK x : x = MaxOf({y \in DOMAIN m : y <= d})
  OBVIOUS
<1>6. x \in DOMAIN m /\ x <= d /\ \A y \in DOMAIN m : y <= d => y <= x
  BY <1>1, <1>2, <1>11, <1>4, <1>5, LastUpTo
<1>7. p[d].total = m[x].total
  BY <1>3, <1>5 DEF FilledFrom
<1>8. x \in Int /\ \A y \in DOMAIN m : y \in Int
  BY <1>11, <1>6
<1>9. CASE x \in W
  <2>1. ASSUME NEW e \in DaysIn(bs, n), x < e, e <= d
        PROVE  FALSE
    <3>1. ChangedIn(bs, n, x, c)
      BY <1>9 DEF ChangedDays
    <3>2. ChangedIn(bs, n, e, c)
      BY <2>1, <3>1, <1>8, ChangedUpwards
    <3>3. e \in DOMAIN m
      BY <3>2 DEF ChangedDays, JoinedFrom
    <3> QED
      BY <2>1, <3>3, <1>6, <1>8
  <2>2. TotalIn(bs, n, d) = TotalIn(bs, n, x)
    BY <2>1, <1>4, <1>6, <1>8, TotalSkips
  <2> QED
    BY <2>2, <1>7, <1>9 DEF Has, Told, JoinedFrom
<1>10. CASE x \notin W
  <2>1. x \in L \ W /\ p[d].total = old[x].total
    BY <1>6, <1>7, <1>10 DEF JoinedFrom
  <2>2. ASSUME d \in DOMAIN m
        PROVE  d = x
    BY <2>2, <1>4, <1>6, <1>8
  <2>3. ASSUME d \in DOMAIN old
        PROVE  d \in L \ W /\ p[d].total = old[d].total
    <3>1. d \in L
      BY <2>1, <2>3, <1>4, <1>6, <1>8 DEF Upwards, JoinedFrom
    <3> QED
      BY <2>1, <2>2, <3>1 DEF JoinedFrom
  <2>4. d \notin W
    BY <2>2, <1>10 DEF JoinedFrom
  <2> QED
    BY <2>1, <2>3, <2>4, <1>6 DEF Told
<1> QED
  BY <1>9, <1>10

\* With a day all later ones are among the two latest.
LEMMA LatestUpwards ==
    ASSUME NEW D, D \subseteq 1 .. MaxDay
    PROVE  \A x \in LatestOf(D), y \in D : x < y => y \in LatestOf(D)
<1> SUFFICES ASSUME NEW x \in LatestOf(D), NEW y \in D, x < y
             PROVE  y \in LatestOf(D)
  OBVIOUS
<1>1. IsFiniteSet(D)
  <2>1. IsFiniteSet(1 .. MaxDay)
    BY FS_Interval, BoundsAssumption
  <2> QED
    BY <2>1, FS_Subset
<1>2. IsFiniteSet({w \in D : w > x}) /\ IsFiniteSet({w \in D : w > y})
  BY <1>1, FS_Subset
<1>3. {w \in D : w > y} \subseteq {w \in D : w > x}
  <2>1. x \in Int /\ \A w \in D : w \in Int
    BY BoundsAssumption DEF LatestOf
  <2>2. ASSUME NEW w \in D, w > y
        PROVE  w > x
    BY <2>1, <2>2
  <2> QED
    BY <2>2
<1>4. Cardinality({w \in D : w > y}) <= Cardinality({w \in D : w > x})
  BY <1>2, <1>3, FS_Subset
<1>5. Cardinality({w \in D : w > y}) \in Nat /\ Cardinality({w \in D : w > x}) \in Nat
  BY <1>2, FS_CardinalityType
<1>6. Cardinality({w \in D : w > x}) < 2
  BY DEF LatestOf
<1>7. Cardinality({w \in D : w > y}) < 2
  BY <1>4, <1>5, <1>6
<1> QED
  BY <1>7 DEF LatestOf

\* Values and sums stay bounded when the first row, whose sum may be zero, has bounded ones.
LEMMA ProcessedStaysBounded ==
    ASSUME NEW bs, NEW n, NEW h \in Nat, NEW m, AreRows(m, h), DOMAIN m # {},
           \A d \in DOMAIN m : m[d].daily <= m[d].total /\ m[d].sum <= m[d].total,
           NEW p, p = ProcessSnapshots(m),
           \A d \in DOMAIN p : p[d].total <= TotalIn(bs, n, d)
    PROVE  Bounded(bs, p, n)
<1>1. PICK a, z : a = MinOf(DOMAIN m) /\ z = MaxOf(DOMAIN m)
  OBVIOUS
<1>2. /\ AreRows(p, h) /\ DOMAIN p = a .. z /\ Differences(p)
      /\ p[a].total = m[a].total
      /\ p[a].daily = IF a = z THEN m[a].total ELSE m[a].daily
      /\ p[a].sum = IF m[a].sum # 0 THEN m[a].sum ELSE p[a].daily
      /\ \A d \in a .. z : p[d].sum = p[a].sum + (p[d].total - p[a].total)
  BY <1>1, ProcessedRows
<1>3. a \in DOMAIN m /\ a \in Nat /\ z \in Nat /\ a <= z
  <2>1. DOMAIN m \subseteq 1 .. MaxDay
    BY DEF AreRows
  <2>2. a \in DOMAIN m /\ a \in 1 .. MaxDay /\ z \in DOMAIN m /\ z \in 1 .. MaxDay /\ a <= z
    BY <2>1, <1>1, Ends
  <2> QED
    BY <2>2, BoundsAssumption
<1>4. /\ m[a].total \in Int /\ m[a].daily \in Int /\ m[a].sum \in Int
      /\ m[a].daily <= m[a].total /\ m[a].sum <= m[a].total
  BY <1>3, RowFields
<1>5. p[a].daily <= p[a].total /\ p[a].sum <= p[a].total
  BY <1>2, <1>4
<1>6. a \in DOMAIN p
  BY <1>2, <1>3
<1>7. p[a].total \in Int /\ p[a].sum \in Int
  BY <1>2, <1>6, RowFields
<1>8. ASSUME NEW d \in DOMAIN p
      PROVE  p[d].daily <= p[d].total /\ p[d].sum <= p[d].total
  <2>1. p[d].total \in Int /\ p[d].daily \in Int /\ p[d].sum \in Int
    BY <1>2, RowFields
  <2>2. p[d].sum = p[a].sum + (p[d].total - p[a].total)
    BY <1>2
  <2>3. p[d].sum <= p[d].total
    BY <2>1, <2>2, <1>5, <1>7
  <2>4. CASE d = a
    BY <2>3, <2>4, <1>5
  <2>5. CASE d # a
    <3>1. d - 1 \in DOMAIN p
      BY <2>5, <1>2, <1>3
    <3>2. p[d].daily = p[d].total - p[d - 1].total
      BY <3>1, <1>2 DEF Differences
    <3>3. p[d - 1].total \in 0 .. h
      BY <3>1, <1>2, RowFields
    <3> QED
      BY <2>1, <2>3, <3>2, <3>3
  <2> QED
    BY <2>4, <2>5
<1> QED
  BY <1>8 DEF Bounded

\* The rows of the subgraph together with some of the stored ones.
LEMMA MergedWithNew ==
    ASSUME NEW bs, NEW n \in Nat, NEW h \in Nat, n <= h, NEW W, W \subseteq 1 .. MaxDay,
           NEW old, AreRows(old, h), Bounded(bs, old, n),
           NEW s, AreRows(s, h), DOMAIN s \subseteq DOMAIN old, \A d \in DOMAIN s : s[d] = old[d],
           NEW m, m = MergeRows(Fetched(bs, n, W), s)
    PROVE  AreRows(m, h) /\ JoinedFrom(bs, n, W, DOMAIN s, old, m)
<1>1. PICK g : g = Fetched(bs, n, W)
  OBVIOUS
<1>2. /\ AreRows(g, n) /\ DOMAIN g = W
      /\ \A d \in W : g[d].daily = 0 /\ g[d].sum = 0 /\ g[d].total = TotalIn(bs, n, d)
  <2>1. AreRows(g, n)
    BY <1>1, FetchedRows
  <2> QED
    BY <2>1, <1>1 DEF Fetched
<1>3. AreRows(g, h)
  BY <1>2, RowsGrow
<1>4. m = MergeRows(g, s)
  BY <1>1
<1>5. AreRows(m, h) /\ Merged(m, g, s)
  BY <1>3, <1>4, MergedRows
<1>6. /\ DOMAIN m = W \cup DOMAIN s
      /\ \A d \in W : m[d].total = TotalIn(bs, n, d) /\ m[d].sum = 0
      /\ \A d \in DOMAIN s : m[d].daily = old[d].daily
      /\ \A d \in DOMAIN s \ W : m[d] = old[d]
      /\ \A d \in W \ DOMAIN s : m[d].daily = 0
  BY <1>2, <1>5 DEF Merged
<1>7. ASSUME NEW d \in DOMAIN m
      PROVE  m[d].daily <= m[d].total /\ m[d].sum <= m[d].total
  <2>1. m[d].total \in 0 .. h
    BY <1>5, RowFields
  <2>2. d \in DOMAIN old => /\ old[d].daily <= old[d].total /\ old[d].sum <= old[d].total
                            /\ old[d].total <= TotalIn(bs, n, d)
                            /\ old[d].daily \in Int /\ old[d].total \in Int
                            /\ TotalIn(bs, n, d) \in Int
    BY RowFields, TotalTyped DEF Bounded
  <2>3. CASE d \in DOMAIN s \ W
    BY <2>2, <2>3, <1>6
  <2>4. CASE d \in W
    <3>1. m[d].total = TotalIn(bs, n, d) /\ m[d].sum = 0
      BY <2>4, <1>6
    <3>2. CASE d \in DOMAIN s
      <4>1. m[d].daily = old[d].daily /\ d \in DOMAIN old
        BY <3>2, <1>6
      <4> QED
        BY <2>1, <2>2, <3>1, <4>1
    <3>3. CASE d \notin DOMAIN s
      <4>1. m[d].daily = 0
        BY <2>4, <3>3, <1>6
      <4> QED
        BY <2>1, <3>1, <4>1
    <3> QED
      BY <3>2, <3>3
  <2> QED
    BY <2>3, <2>4, <1>6
<1> QED
  BY <1>5, <1>6, <1>7 DEF JoinedFrom

\* Whatever is stored: rows put together of those of the subgraph and the later ones L of the
\* stored ones lose no change, and no total goes back.
LEMMA FilledKeeps ==
    ASSUME NEW bs \in Chains, Ordered(bs), NEW n \in 0 .. Len(bs), NEW h \in Nat, n <= h,
           NEW c \in Int, NEW l, NEW old, AreRows(old, h), Kept(bs, old, c, n, l),
           NEW W, W = ChangedDays(bs, n, c), W # {},
           NEW L, Upwards(L, DOMAIN old),
           NEW m, AreRows(m, h), JoinedFrom(bs, n, W, L, old, m),
           NEW p, p = ProcessSnapshots(m), NEW f, f = Over(p, old), NEW k
    PROVE  /\ Kept(bs, f, k, n, l)
           /\ \A d \in DOMAIN p \cap DOMAIN old : old[d].total <= p[d].total
<1>1. n \in Nat /\ DOMAIN m # {}
  BY DEF Chains, JoinedFrom
<1>2. ASSUME NEW d \in DOMAIN p
      PROVE  Told(bs, n, W, L, old, p, d)
  BY FilledTotals
<1>3. AreRows(p, h) /\ W \subseteq DOMAIN p
  <2>1. AreRows(p, h) /\ DOMAIN p = MinOf(DOMAIN m) .. MaxOf(DOMAIN m)
    BY <1>1, ProcessedFill
  <2>2. DOMAIN m \subseteq 1 .. MaxDay /\ \A x \in 1 .. MaxDay : x \in Int
    BY DEF AreRows
  <2>3. PICK a, z : a = MinOf(DOMAIN m) /\ z = MaxOf(DOMAIN m)
    OBVIOUS
  <2>4. a \in Int /\ z \in Int /\ \A x \in DOMAIN m : a <= x /\ x <= z /\ x \in Int
    BY <2>2, <2>3, <1>1, Ends
  <2>5. DOMAIN m \subseteq a .. z
    BY <2>4
  <2> QED
    BY <2>1, <2>3, <2>5 DEF JoinedFrom
<1>4. Bounded(bs, old, n)
  BY DEF Kept
<1>5. ASSUME NEW d \in DOMAIN p
       PROVE  /\ p[d].total <= TotalIn(bs, n, d)
              /\ d \in DOMAIN old => old[d].total <= p[d].total
  <2>1. p[d].total \in Int /\ TotalIn(bs, n, d) \in Int /\ d \in Int
    BY <1>1, <1>3, RowFields, TotalTyped
  <2>2. d \in DOMAIN old => old[d].total \in Int /\ old[d].total <= TotalIn(bs, n, d)
    BY <1>1, <1>4, RowFields DEF Bounded
  <2>3. CASE Has(bs, p, n, d)
    BY <2>1, <2>2, <2>3 DEF Has
  <2>4. CASE ~ Has(bs, p, n, d)
    <3>1. PICK x \in L \ W : x <= d /\ p[d].total = old[x].total
      BY <2>4, <1>2 DEF Told
    <3>2. x \in DOMAIN old /\ x \in Int
      BY <1>1, RowFields DEF Upwards
    <3>3. old[x].total <= TotalIn(bs, n, x)
      BY <3>2, <1>4 DEF Bounded
    <3>4. TotalIn(bs, n, x) <= TotalIn(bs, n, d)
      BY <3>1, <3>2, <2>1, <1>1, TotalMonotone
    <3>5. TotalIn(bs, n, x) \in Int
      BY <1>1, TotalTyped
    <3>6. d \in DOMAIN old => p[d].total = old[d].total
      BY <2>4, <1>2 DEF Told
    <3> QED
      BY <3>1, <3>3, <3>4, <3>5, <3>6, <2>1, <2>2
  <2> QED
    BY <2>3, <2>4
<1>6. Bounded(bs, f, n)
  <2>1. Bounded(bs, p, n)
    BY <1>1, <1>5, ProcessedStaysBounded DEF JoinedFrom
  <2> QED
    BY <2>1, <1>4 DEF Bounded, Over
<1>7. Followed(bs, f, k, n, l)
  <2> SUFFICES ASSUME NEW d \in DaysIn(bs, n), l # NotListed, ChangedIn(bs, n, d, l + 1)
               PROVE  Has(bs, f, n, d)
    BY Zenon DEF Followed
  <2>1. d \in W \/ Has(bs, old, n, d)
    <3>1. ChangedIn(bs, n, d, c) \/ Has(bs, old, n, d)
      BY Zenon DEF Kept, Followed
    <3> QED
      BY <3>1 DEF ChangedDays
  <2>2. CASE d \in DOMAIN p
    <3>1. Has(bs, p, n, d) \/ (d \in DOMAIN old => p[d].total = old[d].total)
      BY <2>2, <1>2 DEF Told
    <3>2. d \in W => Has(bs, p, n, d)
      BY <2>2, <1>2 DEF Told
    <3>3. p[d].total = TotalIn(bs, n, d)
      BY <2>1, <3>1, <3>2, Zenon DEF Has
    <3> QED
      BY <2>2, <3>3 DEF Has, Over
  <2>3. CASE d \notin DOMAIN p
    BY <2>1, <2>3, <1>3 DEF Has, Over
  <2> QED
    BY <2>2, <2>3
<1> QED
  BY <1>5, <1>6, <1>7 DEF Kept

\* A run that asks for what has changed since a block loses no change since the pool was added,
\* and takes no total back, whatever is stored, when the stored rows it reads are the later ones.
THEOREM LosesNothing ==
    ASSUME NEW bs \in Chains, Ordered(bs), NEW n \in 0 .. Len(bs), NEW h \in n .. Len(bs),
           NEW c \in Int, NEW l, NEW old, AreRows(old, h), Kept(bs, old, c, n, l),
           NEW W, W = ChangedDays(bs, n, c), W # {},
           NEW s, AreRows(s, h), Upwards(DOMAIN s, DOMAIN old), \A d \in DOMAIN s : s[d] = old[d],
           NEW p, p = ProcessSnapshots(MergeRows(Fetched(bs, n, W), s)),
           NEW f, f = Over(p, old), NEW k
    PROVE  /\ Kept(bs, f, k, n, l)
           /\ \A d \in DOMAIN p \cap DOMAIN old : old[d].total <= p[d].total
<1>1. h \in Nat /\ n \in Nat /\ n <= h /\ W \subseteq 1 .. MaxDay /\ Bounded(bs, old, n)
  BY DEF Chains, ChangedDays, DaysIn, Kept
<1>2. PICK m : m = MergeRows(Fetched(bs, n, W), s)
  OBVIOUS
<1>3. AreRows(m, h) /\ JoinedFrom(bs, n, W, DOMAIN s, old, m)
  BY <1>1, <1>2, MergedWithNew DEF Upwards
<1>4. p = ProcessSnapshots(m)
  BY <1>2
<1> QED
  BY <1>1, <1>3, <1>4, FilledKeeps

-----------------------------------------------------------------------------
\* What is so at any time: of the stored rows, of those a run has got, and of those that are
\* stored once it has written all of its own.
SeenAt(n) == RowsAt(n) /\ Kept(blocks, db, cursor, n, listed)

\* The rows r of a run lose no change since its block, and take no total back.
Grown(r, n) ==
    /\ Kept(blocks, Over(r, db), run.current, n, listed)
    /\ \A d \in DOMAIN r \cap DOMAIN db : db[d].total <= r[d].total

FreeInv ==
    /\ Kept(blocks, db, cursor, head, listed)
    /\ step = "fetched" => \E n \in run.current .. head : SeenAt(n)
    /\ step = "writing" => Grown(run.rows, head)

LEMMA FreeInit ==
    ASSUME Init
    PROVE  FreeInv
<1>1. DOMAIN db = {} /\ head = 0 /\ step = "idle" /\ blocks = <<>>
  BY DEF Init, NoRows, head
<1>2. DaysIn(blocks, head) = {}
  BY <1>1 DEF DaysIn, SwapsIn
<1>3. Kept(blocks, db, cursor, head, listed)
  BY <1>1, <1>2 DEF Kept, Bounded, Followed
<1> QED
  BY <1>1, <1>3 DEF FreeInv

LEMMA KeptSame ==
    ASSUME NEW bs \in Chains, NEW r, NEW n \in 0 .. Len(bs), NEW bt, bt = Append(bs, r),
           NEW rows, NEW c, NEW l, Kept(bs, rows, c, n, l)
    PROVE  Kept(bt, rows, c, n, l)
<1>1. /\ DaysIn(bt, n) = DaysIn(bs, n)
      /\ \A d : TotalIn(bt, n, d) = TotalIn(bs, n, d)
      /\ \A d, e : ChangedIn(bt, n, d, e) <=> ChangedIn(bs, n, d, e)
  BY Prefix
<1>2. \A d : Has(bt, rows, n, d) <=> Has(bs, rows, n, d)
  BY <1>1 DEF Has
<1>3. Bounded(bt, rows, n)
  BY <1>1 DEF Bounded, Kept
<1>4. Followed(bt, rows, c, n, l)
  BY <1>1, <1>2, Zenon DEF Followed, Kept
<1> QED
  BY <1>3, <1>4 DEF Kept

LEMMA KeptWhenAdded ==
    ASSUME NEW bs, NEW n \in Nat, NEW h \in Nat, n <= h, NEW rows, NEW c, NEW k,
           Kept(bs, rows, c, n, NotListed)
    PROVE  Kept(bs, rows, k, n, h)
<1>1. ASSUME NEW d \in DaysIn(bs, n)
      PROVE  ~ ChangedIn(bs, n, d, h + 1)
  BY DEF ChangedIn, SwapsIn
<1>2. Followed(bs, rows, k, n, h)
  BY <1>1, Zenon DEF Followed
<1> QED
  BY <1>2 DEF Kept

\* The chain grows.
LEMMA NewBlockFree ==
    ASSUME Inv, FreeInv, NewBlock
    PROVE  FreeInv'
<1>1. TypeInv
  BY DEF Inv
<1>2. PICK r : blocks' = Append(blocks, r)
  BY <1>1, NewBlockSteps
<1>3. /\ blocks' \in Chains /\ head' = head + 1 /\ Len(blocks') = head + 1
      /\ UNCHANGED <<listed, db, cursor, step, run, ragged>>
  BY <1>1, NewBlockSteps
<1>4. /\ head \in Nat /\ blocks \in Chains /\ Len(blocks) = head
      /\ listed \in Int /\ cursor \in Int /\ cursor <= head
  BY <1>1, HeadNumber
<1>5. AreRows(db, head) /\ AreRows(run.rows, head) /\ run.current \in 0 .. head
  BY <1>1, RunTyped
<1>6. Ordered(blocks')
  BY NewBlockInv DEF Inv
<1>7. head \in 0 .. Len(blocks') /\ head' \in head .. Len(blocks') /\ head \in 0 .. head
  BY <1>3, <1>4
<1>8. ASSUME NEW n \in 0 .. head, NEW rows, NEW c, Kept(blocks, rows, c, n, listed)
      PROVE  Kept(blocks', rows, c, n, listed)
  <2>1. n \in 0 .. Len(blocks)
    BY <1>4
  <2> QED
    BY <2>1, <1>2, <1>4, <1>8, KeptSame, Zenon
<1>9. ASSUME NEW n \in 0 .. head
      PROVE  SameAt(blocks, blocks', n)
  BY <1>2, <1>4, PrefixKept
<1>10. \A D : Within(blocks, D, head) => Within(blocks', D, head)
  BY <1>7, <1>9 DEF SameAt
<1>11. Kept(blocks', db, cursor, head', listed)
  <2>1. Kept(blocks', db, cursor, head, listed)
    BY <1>7, <1>8 DEF FreeInv
  <2>2. Within(blocks', DOMAIN db, head)
    BY <1>10 DEF Inv, DaysInv
  <2> QED
    BY <2>1, <2>2, <1>3, <1>4, <1>5, <1>6, <1>7, KeptLater
<1>12. ASSUME step = "fetched"
       PROVE  \E n \in run.current .. head' : SeenAt(n)'
  <2>1. PICK n \in run.current .. head : SeenAt(n)
    BY <1>12 DEF FreeInv
  <2>2. n \in 0 .. head /\ n \in run.current .. head'
    BY <1>3, <1>4, <1>5
  <2>3. Kept(blocks', db, cursor, n, listed)
    BY <2>1, <2>2, <1>8 DEF SeenAt
  <2>4. /\ \A D : Within(blocks, D, n) => Within(blocks', D, n)
        /\ \A W : Fetched(blocks', n, W) = Fetched(blocks, n, W)
        /\ \A c : ChangedDays(blocks', n, c) = ChangedDays(blocks, n, c)
    BY <2>2, <1>9, Zenon DEF SameAt
  <2>5. RowsAt(n)'
    BY <2>1, <2>4, <1>3 DEF SeenAt, RowsAt
  <2>6. SeenAt(n)'
    BY <2>3, <2>5, <1>3 DEF SeenAt
  <2> QED
    BY <2>2, <2>6
<1>13. ASSUME step = "writing"
       PROVE  Kept(blocks', Over(run.rows, db), run.current, head', listed)
  <2>1. PICK f : f = Over(run.rows, db)
    OBVIOUS
  <2>2. AreRows(f, head) /\ Within(blocks', DOMAIN f, head)
    <3>1. AreRows(f, head)
      BY <2>1, <1>4, <1>5, OverTyped
    <3>2. DOMAIN f = DOMAIN db \cup DOMAIN run.rows
      BY <2>1 DEF Over
    <3>3. Within(blocks, DOMAIN f, head)
      BY <3>2, <1>13 DEF Inv, DaysInv, Within
    <3> QED
      BY <3>1, <3>3, <1>10
  <2>3. Kept(blocks', f, run.current, head, listed)
    BY <2>1, <1>7, <1>8, <1>13 DEF FreeInv, Grown
  <2>4. Kept(blocks', f, run.current, head', listed)
    BY <2>2, <2>3, <1>3, <1>4, <1>5, <1>6, <1>7, KeptLater
  <2> QED
    BY <2>1, <2>4
<1>14. (step = "writing" => Grown(run.rows, head))'
  BY <1>3, <1>13 DEF FreeInv, Grown
<1>15. (step = "fetched" => \E n \in run.current .. head : SeenAt(n))'
  BY <1>3, <1>12
<1> QED
  BY <1>3, <1>11, <1>14, <1>15, Zenon DEF FreeInv

LEMMA AddPoolFree ==
    ASSUME Inv, FreeInv, AddPool
    PROVE  FreeInv'
<1>1. /\ listed = NotListed /\ listed' = head /\ head' = head
      /\ UNCHANGED <<blocks, db, cursor, step, run, ragged>>
  BY DEF AddPool, head
<1>2. head \in Nat /\ run.current \in Nat
  BY HeadNumber, RunTyped DEF Inv
<1>3. ASSUME NEW n \in Nat, n <= head, NEW rows, NEW c, Kept(blocks, rows, c, n, listed)
      PROVE  Kept(blocks, rows, c, n, listed')
  BY <1>1, <1>2, <1>3, KeptWhenAdded
<1>4. Kept(blocks, db, cursor, head, listed')
  BY <1>2, <1>3 DEF FreeInv
<1>5. ASSUME step = "fetched"
      PROVE  \E n \in run.current .. head : SeenAt(n)'
  <2>1. PICK n \in run.current .. head : SeenAt(n)
    BY <1>5 DEF FreeInv
  <2>2. n \in Nat /\ n <= head
    BY <1>2
  <2>3. Kept(blocks, db, cursor, n, listed')
    BY <2>1, <2>2, <1>3 DEF SeenAt
  <2>4. SeenAt(n)'
    BY <2>1, <2>3, <1>1 DEF SeenAt, RowsAt
  <2> QED
    BY <2>4
<1>6. ASSUME step = "writing"
      PROVE  Grown(run.rows, head)'
  <2>1. Kept(blocks, Over(run.rows, db), run.current, head, listed')
    BY <1>2, <1>3, <1>6 DEF FreeInv, Grown
  <2> QED
    BY <2>1, <1>1, <1>6 DEF FreeInv, Grown
<1> QED
  BY <1>1, <1>4, <1>5, <1>6 DEF FreeInv

\* Steps that store nothing and bring no rows.
LEMMA OtherFree ==
    ASSUME FreeInv, UNCHANGED <<blocks, listed, db, cursor>>, step' \notin {"fetched", "writing"}
    PROVE  FreeInv'
<1>1. head' = head
  BY DEF head
<1>2. Kept(blocks, db, cursor, head, listed)'
  BY <1>1 DEF FreeInv
<1> QED
  BY <1>2 DEF FreeInv

LEMMA FetchFree ==
    ASSUME Inv, FreeInv, Fetch
    PROVE  FreeInv'
<1>1. TypeInv
  BY DEF Inv
<1>2. /\ step = "located" /\ head' = head
      /\ UNCHANGED <<blocks, listed, db, cursor, ragged>>
  BY DEF Fetch, head
<1>3. CASE step' = "idle"
  BY <1>2, <1>3, OtherFree
<1>4. CASE step' = "fetched" /\ run' = [run EXCEPT !.rows = Fetched(blocks, head, Wanted)]
  <2>1. head \in Nat /\ AreRows(Fetched(blocks, head, Wanted), head)
    BY <1>1, HeadNumber, WantedRows, FetchedRows
  <2>2. /\ run'.all = run.all /\ run'.current = run.current /\ run'.last = run.last
        /\ run'.knows = run.knows /\ run'.rows = Fetched(blocks, head, Wanted)
    BY <1>1, <1>4, <2>1, RunTyped, WithRows
  <2>3. Wanted = IF run.knows THEN ChangedDays(blocks, head, run.last) ELSE {}
    BY <1>1, WantedRows
  <2>4. ~ run.knows => Fetched(blocks, head, Wanted) = NoRows
    BY <2>3 DEF Fetched, NoRows
  <2>5. Within(blocks, DOMAIN db, head)
    BY DEF Inv, DaysInv
  <2>6. Kept(blocks, db, cursor, head, listed)
    BY DEF FreeInv
  <2>7. SeenAt(head)'
    BY <1>2, <2>2, <2>3, <2>4, <2>5, <2>6 DEF SeenAt, RowsAt
  <2>8. head \in run'.current .. head
    BY <1>1, <2>1, <2>2, RunTyped
  <2> QED
    BY <2>6, <2>7, <2>8, <1>2, <1>4 DEF FreeInv
<1> QED
  BY <1>1, <1>3, <1>4, WantedRows DEF Fetch, Return

\* What a run makes of the rows it has got.
LEMMA RunGrows ==
    ASSUME Inv, step = "fetched", NEW n \in run.current .. head, SeenAt(n),
           NEW r, r = ProcessSnapshots(MergeRows(run.rows, Stored))
    PROVE  Grown(r, n)
<1>1. /\ blocks \in Chains /\ Ordered(blocks) /\ n \in 0 .. Len(blocks) /\ n \in Nat
      /\ head \in n .. Len(blocks) /\ head \in Nat /\ n <= head
      /\ cursor \in Int /\ run.current \in Int /\ run.last \in Int /\ listed \in Int
      /\ cursor <= run.current /\ run.current <= n /\ 0 <= run.current
      /\ AreRows(db, head) /\ AreRows(run.rows, head)
      /\ run.last = IF run.all THEN 0 ELSE cursor
  BY AtBlock
<1>2. Kept(blocks, db, run.last, n, listed)
  <2>1. Kept(blocks, db, cursor, n, listed)
    BY DEF SeenAt
  <2>2. CASE run.all
    <3>1. \A d \in DaysIn(blocks, n) : ChangedIn(blocks, n, d, 0)
      <4>1. ChangedDays(blocks, n, 0) = DaysIn(blocks, n)
        BY <1>1, AllDays
      <4> QED
        BY <4>1 DEF ChangedDays
    <3>2. run.last = 0
      BY <2>2, <1>1
    <3> QED
      BY <3>1, <3>2, <2>1, Zenon DEF Kept, Followed
  <2>3. CASE ~ run.all
    BY <2>1, <2>3, <1>1
  <2> QED
    BY <2>2, <2>3
<1>3. CASE run.rows = NoRows
  <2>1. r = NoRows
    <3>1. PICK k \in run.current .. head : FetchedAt(k)
      BY DEF Inv, FetchedInv
    <3> QED
      BY <3>1, <1>3, ResultOfNothing
  <2>2. DOMAIN r = {} /\ Over(r, db) = db
    BY <2>1, <1>1, OverNothing, NoRowsAre
  <2>3. Followed(blocks, db, run.current, n, listed)
    <3> SUFFICES ASSUME NEW d \in DaysIn(blocks, n), listed # NotListed,
                        ChangedIn(blocks, n, d, listed + 1)
                 PROVE  ChangedIn(blocks, n, d, run.current) \/ Has(blocks, db, n, d)
      BY Zenon DEF Followed
    <3>1. CASE ~ run.knows
      <4>1. listed = NotListed \/ listed >= run.current
        BY <3>1 DEF Inv, KnowsInv
      <4>2. run.current <= listed + 1 /\ listed + 1 \in Int
        BY <4>1, <1>1
      <4> QED
        BY <4>2, <1>1, ChangedEarlier
    <3>2. CASE run.knows
      <4>1. ChangedDays(blocks, n, run.last) = {}
        <5>1. NoRows = Fetched(blocks, n, ChangedDays(blocks, n, run.last))
          BY <3>2, <1>3 DEF SeenAt, RowsAt
        <5>2. DOMAIN NoRows = ChangedDays(blocks, n, run.last)
          BY <5>1 DEF Fetched
        <5> QED
          BY <5>2, <1>1, NoRowsAre
      <4>2. ~ ChangedIn(blocks, n, d, run.last)
        BY <4>1 DEF ChangedDays
      <4> QED
        BY <4>2, <1>2, Zenon DEF Kept, Followed
    <3> QED
      BY <3>1, <3>2
  <2> QED
    BY <2>2, <2>3, <1>2 DEF Grown, Kept
<1>4. CASE run.rows # NoRows
  <2>1. PICK W : W = ChangedDays(blocks, n, run.last)
    OBVIOUS
  <2>2. run.rows = Fetched(blocks, n, W)
    BY <2>1, <1>4 DEF SeenAt, RowsAt
  <2>3. W # {}
    <3>1. DOMAIN run.rows # {}
      BY <1>1, <1>4, EmptyIsNoRows
    <3>2. DOMAIN run.rows = W
      BY <2>2 DEF Fetched
    <3> QED
      BY <3>1, <3>2
  <2>4. PICK s : s = Stored
    OBVIOUS
  <2>5. /\ AreRows(s, head) /\ Upwards(DOMAIN s, DOMAIN db)
        /\ \A d \in DOMAIN s : s[d] = db[d]
    <3>1. CASE run.all
      <4>1. s = NoRows
        BY <3>1, <2>4, StoredAre
      <4>2. AreRows(NoRows, head) /\ DOMAIN NoRows = {}
        BY <1>1, NoRowsAre
      <4> QED
        BY <4>1, <4>2 DEF Upwards
    <3>2. CASE ~ run.all
      <4>1. s = LatestRows(db)
        BY <3>2, <2>4, <1>4, StoredAre
      <4>2. /\ AreRows(LatestRows(db), head) /\ DOMAIN LatestRows(db) = LatestOf(DOMAIN db)
            /\ \A d \in LatestOf(DOMAIN db) : LatestRows(db)[d] = db[d]
        BY <1>1, LatestRowsAre
      <4>3. \A x \in LatestOf(DOMAIN db), y \in DOMAIN db : x < y => y \in LatestOf(DOMAIN db)
        BY <1>1, LatestUpwards DEF AreRows
      <4>4. LatestOf(DOMAIN db) \subseteq DOMAIN db
        BY DEF LatestOf
      <4> QED
        BY <4>1, <4>2, <4>3, <4>4 DEF Upwards
    <3> QED
      BY <3>1, <3>2
  <2>6. r = ProcessSnapshots(MergeRows(Fetched(blocks, n, W), s))
    BY <2>2, <2>4
  <2>7. PICK f : f = Over(r, db)
    OBVIOUS
  <2>8. /\ Kept(blocks, f, run.current, n, listed)
        /\ \A d \in DOMAIN r \cap DOMAIN db : db[d].total <= r[d].total
    BY <2>1, <2>3, <2>5, <2>6, <2>7, <1>1, <1>2, LosesNothing
  <2> QED
    BY <2>7, <2>8 DEF Grown
<1> QED
  BY <1>3, <1>4

LEMMA ProcessFree ==
    ASSUME Inv, FreeInv, Process
    PROVE  FreeInv'
<1>1. TypeInv /\ Ordered(blocks)
  BY DEF Inv
<1>2. PICK r : r = ProcessSnapshots(MergeRows(run.rows, Stored))
  OBVIOUS
<1>3. /\ step = "fetched" /\ step' = "writing" /\ head' = head
      /\ UNCHANGED <<blocks, listed, db, cursor, ragged>>
      /\ run'.current = run.current /\ run'.rows = r
  BY <1>2, ProcessSteps
<1>4. PICK n \in run.current .. head : SeenAt(n)
  BY <1>3 DEF FreeInv
<1>5. /\ blocks \in Chains /\ Ordered(blocks) /\ n \in 0 .. Len(blocks) /\ n \in Nat
      /\ head \in n .. Len(blocks) /\ head \in Nat /\ n <= head
      /\ cursor \in Int /\ run.current \in Int /\ run.last \in Int /\ listed \in Int
      /\ cursor <= run.current /\ run.current <= n /\ 0 <= run.current
      /\ AreRows(db, head) /\ AreRows(run.rows, head)
      /\ run.last = IF run.all THEN 0 ELSE cursor
  BY <1>3, <1>4, AtBlock
<1>6. Grown(r, n)
  BY <1>2, <1>3, <1>4, RunGrows
<1>7. PICK f : f = Over(r, db)
  OBVIOUS
<1>8. AreRows(f, head) /\ Within(blocks, DOMAIN f, n)
  <2>1. AreRows(r, head)
    BY <1>1, <1>2, ProcessedTyped
  <2>2. Within(blocks, DOMAIN r, n) /\ Within(blocks, DOMAIN db, n)
    BY <1>2, <1>3, <1>4, RowsWithin DEF SeenAt, RowsAt
  <2>3. AreRows(f, head)
    BY <2>1, <1>5, <1>7, OverTyped
  <2>4. DOMAIN f = DOMAIN db \cup DOMAIN r
    BY <1>7 DEF Over
  <2> QED
    BY <2>2, <2>3, <2>4 DEF Within
<1>9. Kept(blocks, f, run.current, n, listed)
  BY <1>6, <1>7 DEF Grown
<1>10. Kept(blocks, f, run.current, head, listed)
  BY <1>5, <1>8, <1>9, KeptLater
<1>11. Grown(run.rows, head)'
  BY <1>3, <1>6, <1>7, <1>10 DEF Grown
<1> QED
  BY <1>3, <1>11 DEF FreeInv

LEMMA WriteBatchFree ==
    ASSUME Inv, FreeInv, WriteBatch
    PROVE  FreeInv' /\ \A d \in DOMAIN db : d \in DOMAIN db' /\ db[d].total <= db'[d].total
<1>1. TypeInv
  BY DEF Inv
<1>2. PICK last \in DOMAIN run.rows :
        /\ db' = Stores(run.rows, db, last)
        /\ run' = [run EXCEPT !.rows = Left(run.rows, last)]
  BY DEF WriteBatch, Stores, Left, Batch
<1>3. /\ step = "writing" /\ head' = head
      /\ UNCHANGED <<blocks, listed, cursor, step, ragged>>
  BY DEF WriteBatch, head
<1>4. /\ head \in Nat /\ cursor \in Int /\ run.current \in Int
      /\ AreRows(db, head) /\ AreRows(run.rows, head) /\ run \in Locals(head)
  BY <1>1, HeadNumber, RunTyped
<1>5. /\ AreRows(Left(run.rows, last), head)
      /\ DOMAIN Stores(run.rows, db, last) = DOMAIN db \cup Batch(run.rows, last)
      /\ DOMAIN Left(run.rows, last) \subseteq DOMAIN run.rows
      /\ Batch(run.rows, last) \subseteq DOMAIN run.rows
  <2>1. /\ AreRows(Stores(run.rows, db, last), head) /\ AreRows(Left(run.rows, last), head)
        /\ DOMAIN Stores(run.rows, db, last) = DOMAIN db \cup Batch(run.rows, last)
        /\ DOMAIN Left(run.rows, last) = {d \in DOMAIN run.rows : ~ (d <= last)}
        /\ Batch(run.rows, last) \subseteq DOMAIN run.rows
    BY <1>4, StoredRows
  <2> QED
    BY <2>1
<1>6. run'.current = run.current /\ run'.rows = Left(run.rows, last)
  BY <1>2, <1>4, <1>5, WithRows
<1>7. Grown(run.rows, head) /\ Kept(blocks, db, cursor, head, listed)
  BY <1>3 DEF FreeInv
<1>8. PICK f : f = Over(run.rows, db)
  OBVIOUS
<1>9. Kept(blocks, f, run.current, head, listed)
  BY <1>7, <1>8 DEF Grown
<1>10. /\ \A d \in Batch(run.rows, last) :
            /\ d \in DOMAIN run.rows /\ db'[d] = run.rows[d] /\ f[d] = run.rows[d]
            /\ d \in DOMAIN f
       /\ \A d \in DOMAIN db \ Batch(run.rows, last) : db'[d] = db[d]
       /\ DOMAIN db' = DOMAIN db \cup Batch(run.rows, last)
  BY <1>2, <1>5, <1>8 DEF Stores, Over
<1>11. \A d \in DOMAIN Left(run.rows, last) :
           d \notin Batch(run.rows, last) /\ Left(run.rows, last)[d] = run.rows[d]
  BY DEF Left
<1>12. \A d \in DOMAIN db : d \in DOMAIN db' /\ db[d].total <= db'[d].total
  <2> SUFFICES ASSUME NEW d \in DOMAIN db
               PROVE  d \in DOMAIN db' /\ db[d].total <= db'[d].total
    OBVIOUS
  <2>1. CASE d \in Batch(run.rows, last)
    BY <2>1, <1>7, <1>10 DEF Grown
  <2>2. CASE d \notin Batch(run.rows, last)
    <3>1. db[d].total \in Int
      BY <1>4, RowFields
    <3> QED
      BY <2>2, <3>1, <1>10
  <2> QED
    BY <2>1, <2>2
<1>13. Kept(blocks, db', cursor, head, listed)
  <2>1. Bounded(blocks, db', head)
    BY <1>7, <1>9, <1>10 DEF Kept, Bounded
  <2>2. Followed(blocks, db', cursor, head, listed)
    <3> SUFFICES ASSUME NEW d \in DaysIn(blocks, head), listed # NotListed,
                        ChangedIn(blocks, head, d, listed + 1),
                        ~ ChangedIn(blocks, head, d, cursor)
                 PROVE  Has(blocks, db', head, d)
      BY Zenon DEF Followed
    <3>1. cursor <= run.current
      BY <1>3 DEF Inv, BegunInv
    <3>2. ~ ChangedIn(blocks, head, d, run.current)
      BY <3>1, <1>4, ChangedEarlier
    <3>3. Has(blocks, f, head, d)
      BY <3>2, <1>9, Zenon DEF Kept, Followed
    <3>4. Has(blocks, db, head, d)
      BY <1>7, Zenon DEF Kept, Followed
    <3> QED
      BY <3>3, <3>4, <1>10 DEF Has
  <2> QED
    BY <2>1, <2>2 DEF Kept
<1>14. Grown(run.rows, head)'
  <2>1. Over(run'.rows, db') = f
    BY <1>2, <1>6, <1>8, OverAfter
  <2>2. ASSUME NEW d \in DOMAIN Left(run.rows, last) \cap DOMAIN db'
        PROVE  db'[d].total <= Left(run.rows, last)[d].total
    BY <1>5, <1>7, <1>10, <1>11 DEF Grown
  <2> QED
    BY <2>1, <2>2, <1>3, <1>6, <1>9 DEF Grown
<1> QED
  BY <1>3, <1>12, <1>13, <1>14 DEF FreeInv

LEMMA SaveFree ==
    ASSUME Inv, FreeInv, Save
    PROVE  FreeInv'
<1>1. /\ step = "writing" /\ step' = "idle" /\ cursor' = run.current /\ run.rows = NoRows
      /\ UNCHANGED <<blocks, listed, db>> /\ head' = head
  BY DEF Save, Return, head
<1>2. AreRows(db, head)
  BY RunTyped DEF Inv
<1>3. Over(run.rows, db) = db
  BY <1>1, <1>2, OverNothing
<1>4. Kept(blocks, db, run.current, head, listed)
  BY <1>1, <1>3 DEF FreeInv, Grown
<1> QED
  BY <1>1, <1>4 DEF FreeInv

LEMMA FreeNext ==
    ASSUME Inv, FreeInv, [Next]_vars
    PROVE  FreeInv'
<1>1. CASE UNCHANGED vars
  BY <1>1 DEF vars, FreeInv, SeenAt, RowsAt, Grown, head
<1>2. CASE ReadHead \/ ReadCursor \/ Abort
  <2>1. UNCHANGED <<blocks, listed, db, cursor>> /\ step' \notin {"fetched", "writing"}
    BY <1>2 DEF ReadHead, ReadCursor, Abort, Return
  <2> QED
    BY <2>1, OtherFree
<1> QED
  BY <1>1, <1>2, NewBlockFree, AddPoolFree, FetchFree, ProcessFree, WriteBatchFree, SaveFree
     DEF Next

LEMMA FreeAlways == Spec => [](Inv /\ FreeInv)
<1>1. Init => Inv /\ FreeInv
  BY InvInit, FreeInit
<1>2. Inv /\ FreeInv /\ [Next]_vars => (Inv /\ FreeInv)'
  BY InvNext, FreeNext
<1> QED
  BY <1>1, <1>2, PTL DEF Spec

\* No change of a day is lost, wherever a run of syncSnapshots ends: a stored row that is not as
\* the subgraph has it has changed since the saved block, so that the next run asks for it.
THEOREM StaleIsFetchedCorrect == Spec => []StaleIsFetched
<1>1. ASSUME Inv, FreeInv
      PROVE  StaleIsFetched
  <2>1. head \in Nat /\ cursor \in Int /\ listed \in Int /\ listed + 1 \in Int
    BY <1>1, HeadNumber DEF Inv
  <2> SUFFICES ASSUME NEW d \in RowDays(head), listed # NotListed, ChangedAt(head, d) > listed
               PROVE  \/ ChangedAt(head, d) >= cursor
                      \/ d \in DOMAIN db /\ db[d].total = Total(head, d)
    BY Zenon DEF StaleIsFetched
  <2>2. d \in DaysIn(blocks, head) /\ Total(head, d) = TotalIn(blocks, head, d)
    BY OfTheChain
  <2>3. /\ ChangedAt(head, d) \in Nat
        /\ ChangedAt(head, d) >= cursor <=> ChangedIn(blocks, head, d, cursor)
        /\ ChangedAt(head, d) >= listed + 1 <=> ChangedIn(blocks, head, d, listed + 1)
    BY <2>1, <2>2, LastChange
  <2>4. ChangedIn(blocks, head, d, listed + 1)
    BY <2>1, <2>3
  <2>5. Followed(blocks, db, cursor, head, listed)
    BY <1>1 DEF FreeInv, Kept
  <2>6. ChangedIn(blocks, head, d, cursor) \/ Has(blocks, db, head, d)
    BY <2>2, <2>4, <2>5, Zenon DEF Followed
  <2> QED
    BY <2>2, <2>3, <2>6, Zenon DEF Has
<1> QED
  BY <1>1, FreeAlways, PTL

\* However often the same rows are got, merged with stored ones and filled up, and wherever a
\* run ends, the running sum of a day (applyUSDValues) is never more than the total.
THEOREM NoSwapCountedTwiceCorrect == Spec => []NoSwapCountedTwice
<1>1. ASSUME FreeInv
      PROVE  NoSwapCountedTwice
  BY <1>1 DEF NoSwapCountedTwice, FreeInv, Kept, Bounded
<1> QED
  BY <1>1, FreeAlways, PTL

\* No transaction of syncSnapshots loses a stored day or takes a total back, although the rows
\* were got and merged in steps before it, and whatever earlier runs have left.
THEOREM TotalsGrowCorrect == Spec => TotalsGrow
<1>1. ASSUME Inv, FreeInv, [Next]_vars
      PROVE  [\A d \in DOMAIN db : d \in DOMAIN db' /\ db'[d].total >= db[d].total]_vars
  <2>1. AreRows(db, head) /\ head \in Nat
    BY <1>1, RunTyped, HeadNumber DEF Inv
  <2>2. AreRows(db', head') /\ head' \in Nat
    <3>1. TypeInv'
      BY <1>1, TypeNext DEF Inv
    <3> QED
      BY <3>1 DEF TypeInv, Chains, head
  <2>3. CASE db' = db
    <3>1. \A d \in DOMAIN db : db[d].total >= db[d].total
      BY <2>1, RowFields
    <3> QED
      BY <2>3, <3>1
  <2>4. CASE WriteBatch
    <3>1. \A d \in DOMAIN db : d \in DOMAIN db' /\ db[d].total <= db'[d].total
      BY <1>1, <2>4, WriteBatchFree
    <3>2. \A d \in DOMAIN db : db[d].total \in Int
      BY <2>1, RowFields
    <3>3. \A d \in DOMAIN db' : db'[d].total \in Int
      BY <2>2, RowFields
    <3> QED
      BY <3>1, <3>2, <3>3
  <2>5. db' = db \/ WriteBatch
    BY <1>1 DEF Next, vars, NewBlock, AddPool, ReadHead, ReadCursor, Fetch, Process, Save, Abort
  <2> QED
    BY <2>3, <2>4, <2>5
<1> QED
  BY <1>1, FreeAlways, PTL DEF Spec, TotalsGrow

=============================================================================
