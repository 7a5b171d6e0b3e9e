-------------------------- MODULE LogBatches_proofs -------------------------
(***************************************************************************)
(* What the batches of a range of blocks cover, for every range and every  *)
(* limit of a node.                                                        *)
(***************************************************************************)
EXTENDS LogBatches, TLAPS

\* A quotient is the number of whole divisors that fit.
LEMMA Quotient ==
    ASSUME NEW x \in Int, NEW d \in Nat \ {0}
    PROVE  /\ x \div d \in Int
           /\ (x \div d) * d <= x
           /\ x < (x \div d) * d + d
<1>1. /\ x \div d \in Int
      /\ x % d \in 0 .. d - 1
      /\ x = d * (x \div d) + (x % d)
    BY SMT
<1>2. d * (x \div d) = (x \div d) * d
    BY <1>1, SMT
<1> QED BY <1>1, <1>2, SMT

\* Rounding up: the batches reach the last block, and the last one has a block to read.
LEMMA EnoughBatches ==
    ASSUME NEW first \in Int, NEW last \in Int, NEW range \in Nat \ {0}
    PROVE  /\ NumBatches(first, last, range) \in Int
           /\ last - first <= NumBatches(first, last, range) * range
           /\ (NumBatches(first, last, range) - 1) * range < last - first
<1> DEFINE n == NumBatches(first, last, range)
<1>1. /\ n \in Int
      /\ n * range <= last - first + range - 1
      /\ last - first + range - 1 < n * range + range
    BY Quotient DEF NumBatches
<1>2. (n - 1) * range = n * range - range
    BY <1>1, SMT
<1> HIDE DEF n
<1>3. /\ last - first <= n * range
      /\ (n - 1) * range < last - first
    BY <1>1, <1>2, SMT
<1> QED BY <1>1, <1>3 DEF n

\* i of them are at most as long as j of them.
LEMMA Monotone ==
    ASSUME NEW i \in Int, NEW j \in Int, i <= j, NEW range \in Nat \ {0}
    PROVE  i * range <= j * range
<1>1. (j - i) * range >= 0
    BY SMT
<1>2. (j - i) * range = j * range - i * range
    BY SMT
<1>3. i * range \in Int /\ j * range \in Int
    BY SMT
<1> QED BY <1>1, <1>2, <1>3, SMT

\* A range of two or more blocks is read completely, and nothing outside of it: what
\* allChangedPools and getEvents are meant to see.
THEOREM BatchesCover ==
    ASSUME NEW first \in Int, NEW last \in Int, first < last,
           NEW range \in Nat \ {0}
    PROVE  Scanned(first, last, range) = first .. last
<1> DEFINE n == NumBatches(first, last, range)
<1>1. /\ n \in Int
      /\ last - first <= n * range
      /\ (n - 1) * range < last - first
    BY EnoughBatches
<1> HIDE DEF n
<1>2. n > 0
    <2>1. SUFFICES ASSUME n <= 0 PROVE FALSE
        BY <1>1
    <2>2. n * range <= 0 * range
        BY <1>1, <2>1, Monotone
    <2> QED BY <1>1, <2>2, SMT
<1>3. ASSUME NEW i \in 0 .. n - 1
      PROVE  Batch(first, last, range, i) \subseteq first .. last
    <2>1. i * range \in Int /\ 0 * range <= i * range /\ i + 1 \in Int
        BY <1>1, <1>3, Monotone, SMT
    <2>2. BatchFrom(first, range, i) \in Int /\ first <= BatchFrom(first, range, i)
        BY <2>1, SMT DEF BatchFrom
    <2>3. (i + 1) * range \in Int
        BY <2>1, SMT
    <2>4. BatchTo(first, last, range, i) \in Int /\ BatchTo(first, last, range, i) <= last
        BY <2>3, SMT DEF BatchTo
    <2> QED BY <2>2, <2>4, SMT DEF Batch
<1>4. ASSUME NEW b \in first .. last
      PROVE  \E i \in 0 .. n - 1 : b \in Batch(first, last, range, i)
    <2>1. CASE b = first
        <3>1. BatchFrom(first, range, 0) = first
            BY SMT DEF BatchFrom
        <3>2. first <= BatchTo(first, last, range, 0) /\ BatchTo(first, last, range, 0) \in Int
            BY SMT DEF BatchTo
        <3>3. b \in Batch(first, last, range, 0)
            BY <2>1, <3>1, <3>2, SMT DEF Batch
        <3> QED BY <1>1, <1>2, <3>3, SMT
    <2>2. CASE b # first
        <3> DEFINE i == (b - first - 1) \div range
        <3>1. /\ i \in Int
              /\ i * range <= b - first - 1
              /\ b - first - 1 < i * range + range
            BY Quotient
        <3> HIDE DEF i
        <3>2. (i + 1) * range = i * range + range
            BY <3>1, SMT
        <3>3. i >= 0
            <4>1. SUFFICES ASSUME i + 1 <= 0 PROVE FALSE
                BY <3>1, SMT
            <4>2. (i + 1) * range <= 0 * range
                BY <3>1, <4>1, Monotone
            <4> QED BY <2>2, <3>1, <3>2, <4>2, SMT
        <3>4. i <= n - 1
            <4>1. SUFFICES ASSUME n <= i PROVE FALSE
                BY <1>1, <3>1, SMT
            <4>2. n * range <= i * range
                BY <1>1, <3>1, <4>1, Monotone
            <4>3. i * range \in Int /\ n * range \in Int
                BY <1>1, <3>1, SMT
            <4> QED BY <1>1, <3>1, <4>2, <4>3, SMT
        <3>5. i * range \in Int
            BY <3>1, SMT
        <3>6. BatchFrom(first, range, i) \in Int /\ BatchFrom(first, range, i) <= b
            BY <2>2, <3>1, <3>5, SMT DEF BatchFrom
        <3>7. BatchTo(first, last, range, i) \in Int /\ b <= BatchTo(first, last, range, i)
            BY <3>1, <3>2, <3>5, SMT DEF BatchTo
        <3>8. b \in Batch(first, last, range, i)
            BY <3>6, <3>7, SMT DEF Batch
        <3> QED BY <1>1, <3>1, <3>3, <3>4, <3>8, SMT
    <2> QED BY <2>1, <2>2
<1> QED BY <1>3, <1>4 DEF Scanned, n

\* A range of a single block is not read at all: V2's sync saves it as synced.
THEOREM SingleBlockUnread ==
    ASSUME NEW block \in Int, NEW range \in Nat \ {0}
    PROVE  Scanned(block, block, range) = {}
<1> DEFINE n == NumBatches(block, block, range)
<1>1. /\ n \in Int
      /\ (n - 1) * range < 0
    BY EnoughBatches, SMT
<1> HIDE DEF n
<1>2. n < 1
    <2>1. SUFFICES ASSUME 0 <= n - 1 PROVE FALSE
        BY <1>1, SMT
    <2>2. 0 * range <= (n - 1) * range
        BY <1>1, <2>1, Monotone
    <2> QED BY <1>1, <2>2, SMT
<1>3. 0 .. n - 1 = {}
    BY <1>1, <1>2, SMT
<1> QED BY <1>3 DEF Scanned, n

\* No batch is longer than the limit of the node, as it counts: the distance of its ends.
THEOREM BatchesFit ==
    ASSUME NEW first \in Int, NEW last \in Int, NEW range \in Nat \ {0},
           NEW i \in Nat
    PROVE  BatchTo(first, last, range, i) - BatchFrom(first, range, i) <= range
<1>1. i * range \in Int /\ (i + 1) * range = i * range + range
    BY SMT
<1>2. BatchTo(first, last, range, i) \in Int
      /\ BatchTo(first, last, range, i) <= first + i * range + range
    BY <1>1, SMT DEF BatchTo
<1>3. BatchFrom(first, range, i) \in Int /\ first + i * range <= BatchFrom(first, range, i)
    BY <1>1, SMT DEF BatchFrom
<1> QED BY <1>1, <1>2, <1>3, SMT

\* No log is read twice.
THEOREM BatchesDisjoint ==
    ASSUME NEW first \in Int, NEW last \in Int, NEW range \in Nat \ {0},
           NEW i \in Nat, NEW j \in Nat, i < j
    PROVE  Batch(first, last, range, i) \cap Batch(first, last, range, j) = {}
<1>1. (i + 1) * range \in Int /\ j * range \in Int /\ (i + 1) * range <= j * range
    BY Monotone, SMT
<1>2. BatchTo(first, last, range, i) \in Int
      /\ BatchTo(first, last, range, i) <= first + (i + 1) * range
    BY <1>1, SMT DEF BatchTo
<1>3. BatchFrom(first, range, j) \in Int /\ BatchFrom(first, range, j) = first + 1 + j * range
    BY <1>1, SMT DEF BatchFrom
<1> QED BY <1>1, <1>2, <1>3, SMT DEF Batch

=============================================================================
