----------------------- MODULE StakedBalances_proofs -----------------------
(***************************************************************************)
(* Proofs about the copy of what users have staked: its types, and that a  *)
(* stored balance that is not the chain's is read again by the next sync.  *)
(***************************************************************************)
EXTENDS StakedBalances, TLAPS

Reads == UNION {[S -> Amounts] : S \in SUBSET Rows}

Locals == [begun : Int, from : Int, to : Int, read : Reads]

Steps == {"idle", "located", "named", "ready", "writing", "shares", "user"}

\* What the locals of a run at a step are.
Placed(c, l) ==
    /\ l.begun \in 0 .. head
    /\ c \in {"located", "named", "ready", "writing"} => l.from \in -Margin .. head - Margin
    /\ c \in {"named", "ready", "writing", "shares"} => l.to \in 0 .. head
    /\ c = "shares" => DOMAIN l.read = Rows

TypeInv ==
    /\ TypeOK
    /\ run \in [Processes -> Locals]
    /\ \A p \in Processes : Placed(pc[p], run[p])

\* Every request for logs covers the margin: otherwise the saved block could go backwards
\* until it is no block any more.
RangeSuffices == Margin <= RpcRange

-----------------------------------------------------------------------------
(***************************************************************************)
(* Types.                                                                  *)
(***************************************************************************)

LEMMA Numbers == /\ Margin \in Nat /\ Lag \in Nat /\ Delay \in Nat /\ MaxBlock \in Nat
                 /\ Batches \in Nat \ {0} /\ ChunkSize \in Nat \ {0}
                 /\ RpcRange \in Nat /\ RpcRange > 1
  BY NumbersAssumption

LEMMA RowsFacts == /\ \A r \in Rows : FarmOf(r) \in Farms /\ UserOf(r) \in Users
                   /\ \A r \in Rows, f \in Farms : <<f, UserOf(r)>> \in Rows
                   /\ \A r \in Rows : r = <<FarmOf(r), UserOf(r)>>
  BY DEF Rows, FarmOf, UserOf

LEMMA ReadsHave == ASSUME NEW f \in Reads
                   PROVE  DOMAIN f \subseteq Rows /\ \A r \in DOMAIN f : f[r] \in Amounts
  BY Zenon DEF Reads

LEMMA ReadsMade == ASSUME NEW S \in SUBSET Rows, NEW f \in [S -> Amounts]
                   PROVE  f \in Reads
  BY Zenon DEF Reads

LEMMA NoRunTyped == NoRun \in Locals
<1>1. [r \in {} |-> 0] \in [{} -> Amounts]
  OBVIOUS
<1>2. [r \in {} |-> 0] \in Reads
  BY <1>1, ReadsMade
<1> QED
  BY <1>2 DEF NoRun, Locals

LEMMA WithFrom ==
    ASSUME NEW b \in Int, NEW x \in Int
    PROVE  LET m == [NoRun EXCEPT !.begun = b, !.from = x]
           IN  m \in Locals /\ m.begun = b /\ m.from = x
<1> DEFINE m == [NoRun EXCEPT !.begun = b, !.from = x]
<1>1. NoRun \in Locals
  BY NoRunTyped
<1>2. m \in Locals
  BY <1>1, Zenon DEF Locals
<1> QED
  BY <1>1, <1>2 DEF Locals

LEMMA WithUser ==
    ASSUME NEW b \in Int, NEW f \in Reads
    PROVE  LET m == [NoRun EXCEPT !.begun = b, !.read = f]
           IN  m \in Locals /\ m.begun = b /\ m.read = f
<1> DEFINE m == [NoRun EXCEPT !.begun = b, !.read = f]
<1>1. NoRun \in Locals
  BY NoRunTyped
<1>2. m \in Locals
  BY <1>1, Zenon DEF Locals
<1> QED
  BY <1>1, <1>2 DEF Locals

LEMMA WithRead ==
    ASSUME NEW l \in Locals, NEW f \in Reads, NEW m, m = [l EXCEPT !.read = f]
    PROVE  m \in Locals /\ m.begun = l.begun /\ m.from = l.from /\ m.to = l.to /\ m.read = f
<1>1. m \in Locals
  BY Zenon DEF Locals
<1> QED
  BY <1>1 DEF Locals

\* The balances a run reads, each at a block of its own.
LEMMA SharesTyped ==
    ASSUME TypeInv, NEW S \in SUBSET Rows, NEW at, \A r \in S : at[r] \in 0 .. head
    PROVE  [r \in S |-> balance[r][at[r]]] \in Reads
<1>1. \A r \in S : balance[r][at[r]] \in Amounts
  BY DEF TypeInv, TypeOK
<1>2. [r \in S |-> balance[r][at[r]]] \in [S -> Amounts]
  BY <1>1
<1> QED
  BY <1>2, ReadsMade

-----------------------------------------------------------------------------
(***************************************************************************)
(* What each step does to the types and to the locals of the runs.         *)
(***************************************************************************)

\* The other runs are where they were.
Others(p) == \A q \in Processes \ {p} : run'[q] = run[q] /\ pc'[q] = pc[q]

\* Run p goes to step c with locals l; what it stores has its type.
LEMMA Ran ==
    ASSUME TypeInv, NEW p \in Processes, NEW l \in Locals, NEW c \in Steps, Placed(c, l),
           pc' = [pc EXCEPT ![p] = c], run' = [run EXCEPT ![p] = l],
           kind' = kind, UNCHANGED chainVars, farms' \in SUBSET Farms,
           since' \in [Farms -> -1 .. head], db' \in [Rows -> Amounts],
           cursor' \in NoStatus .. head, lost' \in SUBSET Users
    PROVE  TypeInv' /\ Others(p) /\ run'[p] = l /\ pc'[p] = c
<1>1. head' = head /\ balance' = balance /\ silent' = silent
  BY DEF chainVars
<1>2. /\ pc \in [Processes -> Steps] /\ run \in [Processes -> Locals]
      /\ pc' \in [Processes -> Steps] /\ run' \in [Processes -> Locals]
  BY DEF TypeInv, TypeOK, Steps
<1>3. Others(p) /\ run'[p] = l /\ pc'[p] = c
  BY <1>2 DEF Others
<1>4. ASSUME NEW q \in Processes
      PROVE  Placed(pc[q], run[q])' /\ run'[q].begun \in 0 .. head'
  <2>1. CASE q = p
    BY <1>1, <1>3, <2>1 DEF Placed
  <2>2. CASE q # p
    BY <1>1, <1>3, <2>2 DEF Others, TypeInv, Placed
  <2> QED
    BY <2>1, <2>2
<1>5. ASSUME NEW q \in Processes
      PROVE  /\ {run'[q].from, run'[q].to} \subseteq Int
             /\ DOMAIN run'[q].read \subseteq Rows
             /\ \A r \in DOMAIN run'[q].read : run'[q].read[r] \in Amounts
  <2>1. run'[q].from \in Int /\ run'[q].to \in Int /\ run'[q].read \in Reads
    BY <1>2 DEF Locals
  <2> QED
    BY <2>1, ReadsHave
<1>6. /\ kind' \in Kinds /\ head' \in Nat /\ balance' \in [Rows -> [0 .. head' -> Amounts]]
      /\ silent' \in SUBSET ((1 .. head') \X Users)
      /\ since' \in [Farms -> -1 .. head'] /\ cursor' \in NoStatus .. head'
  BY <1>1 DEF TypeInv, TypeOK
<1>7. TypeOK'
  BY <1>2, <1>4, <1>5, <1>6 DEF TypeOK, Steps
<1>8. TypeInv'
  BY <1>2, <1>4, <1>7 DEF TypeInv
<1> QED
  BY <1>3, <1>8

\* The same for a step that leaves the database alone.
LEMMA RanOn ==
    ASSUME TypeInv, NEW p \in Processes, NEW l \in Locals, NEW c \in Steps, Placed(c, l),
           pc' = [pc EXCEPT ![p] = c], run' = [run EXCEPT ![p] = l],
           kind' = kind, UNCHANGED <<chainVars, dbVars>>, lost' \in SUBSET Users
    PROVE  TypeInv' /\ Others(p) /\ run'[p] = l /\ pc'[p] = c
<1>1. /\ farms' \in SUBSET Farms /\ since' \in [Farms -> -1 .. head]
      /\ db' \in [Rows -> Amounts] /\ cursor' \in NoStatus .. head
  BY DEF dbVars, TypeInv, TypeOK
<1> QED
  BY <1>1, Ran

LEMMA NoRunPlaced == ASSUME TypeInv PROVE Placed("idle", NoRun)
  BY DEF TypeInv, TypeOK, Placed, NoRun

\* A run that ends, whatever it stores.
LEMMA Returned ==
    ASSUME TypeInv, NEW p \in Processes, Return(p),
           kind' = kind, UNCHANGED chainVars, farms' \in SUBSET Farms,
           since' \in [Farms -> -1 .. head], db' \in [Rows -> Amounts],
           cursor' \in NoStatus .. head, lost' \in SUBSET Users
    PROVE  TypeInv' /\ Others(p) /\ pc'[p] = "idle"
<1>1. NoRun \in Locals /\ Placed("idle", NoRun)
  BY NoRunTyped, NoRunPlaced
<1> QED
  BY <1>1, Ran DEF Return, Steps

LEMMA ReturnedOn ==
    ASSUME TypeInv, NEW p \in Processes, Return(p),
           kind' = kind, UNCHANGED <<chainVars, dbVars>>, lost' \in SUBSET Users
    PROVE  TypeInv' /\ Others(p) /\ pc'[p] = "idle"
<1>1. /\ farms' \in SUBSET Farms /\ since' \in [Farms -> -1 .. head]
      /\ db' \in [Rows -> Amounts] /\ cursor' \in NoStatus .. head
  BY DEF dbVars, TypeInv, TypeOK
<1> QED
  BY <1>1, Returned

LEMMA ReadStatusStep ==
    ASSUME TypeInv, NEW p \in Processes, ReadStatus(p)
    PROVE  /\ TypeInv' /\ Others(p) /\ pc'[p] = "located" /\ cursor # NoStatus
           /\ run'[p].begun = head /\ run'[p].from = cursor - Margin
           /\ kind' = kind /\ UNCHANGED <<chainVars, dbVars, lost>>
<1> DEFINE l == [NoRun EXCEPT !.begun = head, !.from = cursor - Margin]
<1>1. head \in Nat /\ cursor \in 0 .. head /\ Margin \in Nat /\ lost \in SUBSET Users
  BY Numbers DEF TypeInv, TypeOK, ReadStatus, NoStatus
<1>2. l \in Locals /\ l.begun = head /\ l.from = cursor - Margin
  <2>1. head \in Int /\ cursor - Margin \in Int
    BY <1>1
  <2> QED
    BY <2>1, WithFrom, Zenon
<1>3. Placed("located", l)
  <2> HIDE DEF l
  <2> QED
    BY <1>1, <1>2 DEF Placed
<1>4. /\ pc' = [pc EXCEPT ![p] = "located"] /\ run' = [run EXCEPT ![p] = l]
      /\ kind' = kind /\ UNCHANGED <<chainVars, dbVars, lost>> /\ cursor # NoStatus
  BY DEF ReadStatus, Goto
<1> HIDE DEF l
<1>5. TypeInv' /\ Others(p) /\ run'[p] = l /\ pc'[p] = "located"
  BY <1>1, <1>2, <1>3, <1>4, RanOn DEF Steps
<1> QED
  BY <1>2, <1>4, <1>5

LEMMA Product == ASSUME NEW a \in Nat \ {0}, NEW b \in Nat PROVE a * b \in Nat /\ a * b >= b
<1>1. a * b = b + (a - 1) * b /\ (a - 1) * b >= 0
  OBVIOUS
<1> QED
  BY <1>1

LEMMA RangeFacts == MaxRange \in Nat /\ MaxRange >= RpcRange
  BY Numbers, Product DEF MaxRange

\* What a sync has read of the logs of the blocks S, except for the skipped users: a row with
\* an event before the margin that it has not read belongs to a user who is lost.
LogsRead(p, S, skipped) ==
    /\ DOMAIN run'[p].read = {r \in Rows : /\ FarmOf(r) \in Listened /\ Touched(r, S)
                                           /\ UserOf(r) \notin skipped}
    /\ lost \subseteq lost'
    /\ \A r \in Rows \ DOMAIN run'[p].read :
        (/\ FarmOf(r) \in Listened
         /\ Touched(r, S) \/ Touched(r, run[p].from .. run'[p].to - Margin - 1))
            => UserOf(r) \in lost'

LEMMA ReadLogsStep ==
    ASSUME RangeSuffices, TypeInv, NEW p \in Processes, ReadLogs(p)
    PROVE  /\ TypeInv' /\ Others(p) /\ pc[p] = "located"
           /\ kind' = kind /\ UNCHANGED <<chainVars, dbVars>>
           /\ \/ pc'[p] = "idle" /\ lost' = lost
              \/ /\ pc'[p] = "named"
                 /\ run'[p].begun = run[p].begun /\ run'[p].from = run[p].from
                 /\ \E S \in LogBlocks(run[p].from, run'[p].to), skipped \in SUBSET Users :
                    LogsRead(p, S, skipped)
                 /\ run'[p].to >= 0
<1>1. /\ pc[p] = "located" /\ kind' = kind /\ UNCHANGED <<chainVars, dbVars>>
      /\ head \in Nat /\ lost \in SUBSET Users /\ run[p] \in Locals
      /\ run[p].from \in -Margin .. head - Margin /\ run[p].begun \in 0 .. head
  BY DEF ReadLogs, TypeInv, TypeOK, Placed
<1>2. PICK latest \in Answers :
        LET to == Min(run[p].from + MaxRange, latest)
        IN  \/ /\ run[p].from > latest
               /\ Return(p)
               /\ UNCHANGED lost
            \/ /\ run[p].from <= latest
               /\ \E S \in LogBlocks(run[p].from, to), skipped \in SUBSET Skippable :
                    LET named == {r \in Rows : FarmOf(r) \in Listened /\ Touched(r, S)}
                        unread == {r \in Rows \ named : FarmOf(r) \in Listened
                                        /\ Touched(r, run[p].from .. to - Margin - 1)}
                    IN  /\ run' = [run EXCEPT
                                ![p].to = to,
                                ![p].read = [r \in {x \in named : UserOf(x) \notin skipped} |-> 0]]
                        /\ lost' = lost \cup {u \in skipped : \E r \in named : UserOf(r) = u}
                                        \cup {UserOf(r) : r \in unread}
               /\ pc' = [pc EXCEPT ![p] = "named"]
  BY Zenon DEF ReadLogs
<1>3. CASE Return(p) /\ lost' = lost
  <2>1. TypeInv' /\ Others(p) /\ pc'[p] = "idle"
    BY <1>1, <1>3, ReturnedOn
  <2> QED
    BY <1>1, <1>3, <2>1
<1> DEFINE to == Min(run[p].from + MaxRange, latest)
<1>4. CASE \E S \in LogBlocks(run[p].from, to), skipped \in SUBSET Skippable :
            LET named == {r \in Rows : FarmOf(r) \in Listened /\ Touched(r, S)}
                unread == {r \in Rows \ named : FarmOf(r) \in Listened
                                /\ Touched(r, run[p].from .. to - Margin - 1)}
            IN  /\ run' = [run EXCEPT
                        ![p].to = to,
                        ![p].read = [r \in {x \in named : UserOf(x) \notin skipped} |-> 0]]
                /\ lost' = lost \cup {u \in skipped : \E r \in named : UserOf(r) = u}
                                \cup {UserOf(r) : r \in unread}
                /\ pc' = [pc EXCEPT ![p] = "named"]
  <2>1. PICK S \in LogBlocks(run[p].from, to), skipped \in SUBSET Skippable :
            LET named == {r \in Rows : FarmOf(r) \in Listened /\ Touched(r, S)}
                unread == {r \in Rows \ named : FarmOf(r) \in Listened
                                /\ Touched(r, run[p].from .. to - Margin - 1)}
            IN  /\ run' = [run EXCEPT
                        ![p].to = to,
                        ![p].read = [r \in {x \in named : UserOf(x) \notin skipped} |-> 0]]
                /\ lost' = lost \cup {u \in skipped : \E r \in named : UserOf(r) = u}
                                \cup {UserOf(r) : r \in unread}
                /\ pc' = [pc EXCEPT ![p] = "named"]
    BY <1>4, Zenon
  <2> DEFINE named == {r \in Rows : FarmOf(r) \in Listened /\ Touched(r, S)}
             unread == {r \in Rows \ named : FarmOf(r) \in Listened
                            /\ Touched(r, run[p].from .. to - Margin - 1)}
             D == {x \in named : UserOf(x) \notin skipped}
             f == [r \in D |-> 0]
             l == [run[p] EXCEPT !.to = to, !.read = f]
  <2>2. to \in 0 .. head
    BY <1>1, RangeFacts, Numbers DEF Answers, Min, RangeSuffices
  <2>3. f \in Reads /\ DOMAIN f = D
    <3>1. D \in SUBSET Rows
      OBVIOUS
    <3>2. f \in [D -> Amounts]
      BY SetsAssumption
    <3> QED
      BY <3>1, <3>2, ReadsMade
  <2>4. /\ l \in Locals /\ l.begun = run[p].begun /\ l.from = run[p].from
        /\ l.to = to /\ l.read = f
    <3> HIDE DEF f, to
    <3>1. to \in Int /\ run[p] \in Locals /\ f \in Reads
      BY <1>1, <2>2, <2>3
    <3>2. l \in Locals
      BY <3>1, Zenon DEF Locals
    <3> QED
      BY <3>1, <3>2 DEF Locals
  <2>5. run' = [run EXCEPT ![p] = l] /\ pc' = [pc EXCEPT ![p] = "named"]
    BY <2>1
  <2>6. Placed("named", l)
    <3> HIDE DEF l, f, to
    <3> QED
      BY <1>1, <2>2, <2>4 DEF Placed
  <2>7. /\ skipped \in SUBSET Users
        /\ lost' = lost \cup {u \in skipped : \E r \in named : UserOf(r) = u}
                       \cup {UserOf(r) : r \in unread}
    BY <2>1 DEF Skippable
  <2>8. TypeInv' /\ Others(p) /\ run'[p] = l /\ pc'[p] = "named"
    <3>1. lost' \in SUBSET Users
      BY <1>1, <2>7, RowsFacts
    <3> HIDE DEF l
    <3> QED
      BY <1>1, <2>4, <2>5, <2>6, <3>1, RanOn DEF Steps
  <2>9. /\ run'[p].begun = run[p].begun /\ run'[p].from = run[p].from /\ run'[p].to = to
        /\ DOMAIN run'[p].read = D
    <3> HIDE DEF l, f, D, to
    <3> QED
      BY <2>3, <2>4, <2>8
  <2>10. S \in LogBlocks(run[p].from, run'[p].to) /\ run'[p].to >= 0
    BY <2>1, <2>2, <2>9
  <2>11. LogsRead(p, S, skipped)
    <3>1. DOMAIN run'[p].read = {r \in Rows : /\ FarmOf(r) \in Listened /\ Touched(r, S)
                                              /\ UserOf(r) \notin skipped}
      <4> HIDE DEF l, f, to
      <4> QED
        BY <2>9
    <3>2. ASSUME NEW r \in Rows \ DOMAIN run'[p].read, FarmOf(r) \in Listened,
                 Touched(r, S) \/ Touched(r, run[p].from .. run'[p].to - Margin - 1)
          PROVE  UserOf(r) \in lost'
      <4>1. CASE Touched(r, S)
        <5>1. r \in named /\ UserOf(r) \in skipped
          BY <3>1, <3>2, <4>1
        <5> HIDE DEF named, unread
        <5> QED
          BY <2>7, <5>1
      <4>2. CASE ~Touched(r, S)
        <5>1. Touched(r, run[p].from .. to - Margin - 1)
          <6> HIDE DEF to
          <6> QED
            BY <2>9, <3>2, <4>2
        <5>2. r \in unread
          <6> HIDE DEF to
          <6> QED
            BY <3>2, <4>2, <5>1
        <5> HIDE DEF named, unread
        <5> QED
          BY <2>7, <5>2
      <4> QED
        BY <4>1, <4>2
    <3>3. lost \subseteq lost'
      BY <2>7
    <3> HIDE DEF l, f, to, D, named, unread
    <3> QED
      BY <3>1, <3>2, <3>3 DEF LogsRead
  <2> HIDE DEF l, f, to, D, named, unread
  <2> QED
    BY <1>1, <2>7, <2>8, <2>9, <2>10, <2>11
<1> QED
  BY <1>2, <1>3, <1>4, Zenon

LEMMA ReadBalancesStep ==
    ASSUME TypeInv, NEW p \in Processes, ReadBalances(p)
    PROVE  /\ TypeInv' /\ Others(p) /\ pc[p] = "named" /\ pc'[p] = "ready"
           /\ kind' = kind /\ UNCHANGED <<chainVars, dbVars, lost>>
           /\ run'[p].begun = run[p].begun /\ run'[p].from = run[p].from
           /\ run'[p].to = run[p].to /\ DOMAIN run'[p].read = DOMAIN run[p].read
           /\ \A r \in DOMAIN run'[p].read :
                \E b \in 0 .. head : b >= head - Lag /\ run'[p].read[r] = balance[r][b]
<1>1. /\ pc[p] = "named" /\ kind' = kind /\ UNCHANGED <<chainVars, dbVars, lost>>
      /\ pc' = [pc EXCEPT ![p] = "ready"]
      /\ lost \in SUBSET Users /\ run[p] \in Locals /\ Placed("named", run[p])
  BY DEF ReadBalances, Goto, TypeInv, TypeOK
<1>2. PICK at \in [DOMAIN run[p].read -> Answers] :
        run' = [run EXCEPT ![p].read = [r \in DOMAIN at |-> balance[r][at[r]]]]
  BY DEF ReadBalances
<1> DEFINE D == DOMAIN run[p].read
           f == [r \in D |-> balance[r][at[r]]]
           l == [run[p] EXCEPT !.read = f]
<1>3. D \in SUBSET Rows
  BY DEF TypeInv, TypeOK
<1>4. \A r \in D : at[r] \in 0 .. head /\ at[r] >= head - Lag
  BY <1>2 DEF Answers
<1>5. f \in Reads /\ DOMAIN f = D
  <2> HIDE DEF D
  <2> QED
    BY <1>3, <1>4, SharesTyped
<1>6. /\ l \in Locals /\ l.begun = run[p].begun /\ l.from = run[p].from
      /\ l.to = run[p].to /\ l.read = f
  <2> HIDE DEF f
  <2> QED
    BY <1>1, <1>5, WithRead
<1>7. run' = [run EXCEPT ![p] = l]
  BY <1>2
<1>8. Placed("ready", l)
  <2> HIDE DEF l, f
  <2> QED
    BY <1>1, <1>6 DEF Placed
<1>9. TypeInv' /\ Others(p) /\ run'[p] = l /\ pc'[p] = "ready"
  <2> HIDE DEF l
  <2> QED
    BY <1>1, <1>6, <1>7, <1>8, RanOn DEF Steps
<1>10. \A r \in D : f[r] = balance[r][at[r]]
  OBVIOUS
<1>11. run'[p].read = f /\ DOMAIN run'[p].read = D
  <2> HIDE DEF l, f, D
  <2> QED
    BY <1>5, <1>6, <1>9
<1>12. \A r \in D : \E b \in 0 .. head : b >= head - Lag /\ f[r] = balance[r][b]
  <2> HIDE DEF f, D
  <2> QED
    BY <1>4, <1>10
<1> HIDE DEF l, f
<1> QED
  BY <1>1, <1>6, <1>9, <1>11, <1>12

\* What a transaction of run p with the rows S leaves in the database.
Stored(p, S) ==
    \A r \in Rows : db'[r] = IF r \in S THEN run[p].read[r]
                             ELSE IF r \in Deleted(p) THEN 0 ELSE db[r]

LEMMA WriteTyped ==
    ASSUME TypeInv, NEW p \in Processes, NEW S \in SUBSET Pending(p), Write(p, S)
    PROVE  db' \in [Rows -> Amounts] /\ Stored(p, S)
<1>1. \A r \in S : run[p].read[r] \in Amounts
  BY DEF TypeInv, TypeOK, Pending
<1>2. db' = [r \in Rows |-> IF r \in S THEN run[p].read[r]
                            ELSE IF r \in Deleted(p) THEN 0 ELSE db[r]]
  BY DEF Write
<1>3. 0 \in Amounts /\ db \in [Rows -> Amounts]
  BY SetsAssumption DEF TypeInv, TypeOK
<1> QED
  BY <1>1, <1>2, <1>3 DEF Stored

LEMMA WriteChunkStep ==
    ASSUME TypeInv, NEW p \in Processes, WriteChunk(p)
    PROVE  /\ TypeInv' /\ Others(p) /\ pc[p] \in {"ready", "writing"} /\ pc'[p] = "writing"
           /\ kind' = kind /\ UNCHANGED <<chainVars, farms, since, cursor, lost>>
           /\ run'[p].begun = run[p].begun /\ run'[p].from = run[p].from
           /\ run'[p].to = run[p].to
           /\ \E S \in SUBSET Pending(p) :
                /\ Stored(p, S)
                /\ DOMAIN run'[p].read = Pending(p) \ S
                /\ \A r \in DOMAIN run'[p].read : run'[p].read[r] = run[p].read[r]
<1>1. /\ pc[p] \in {"ready", "writing"} /\ kind' = kind
      /\ UNCHANGED <<chainVars, farms, since, cursor, lost>>
      /\ pc' = [pc EXCEPT ![p] = "writing"]
      /\ run[p] \in Locals /\ Placed(pc[p], run[p])
  BY DEF WriteChunk, TypeInv
<1>2. PICK S \in SUBSET Pending(p) :
        /\ Write(p, S)
        /\ run' = [run EXCEPT ![p].read = [r \in Pending(p) \ S |-> run[p].read[r]]]
  BY DEF WriteChunk
<1> DEFINE D == Pending(p) \ S
           f == [r \in D |-> run[p].read[r]]
           l == [run[p] EXCEPT !.read = f]
<1>3. D \in SUBSET Rows /\ \A r \in D : run[p].read[r] \in Amounts
  BY DEF TypeInv, TypeOK, Pending
<1>4. f \in Reads /\ DOMAIN f = D
  <2>1. f \in [D -> Amounts]
    BY <1>3
  <2> QED
    BY <1>3, <2>1, ReadsMade
<1>5. /\ l \in Locals /\ l.begun = run[p].begun /\ l.from = run[p].from
      /\ l.to = run[p].to /\ l.read = f
  <2> HIDE DEF f
  <2> QED
    BY <1>1, <1>4, WithRead
<1>6. run' = [run EXCEPT ![p] = l]
  BY <1>2
<1>7. Placed("writing", l)
  <2> HIDE DEF l, f
  <2> QED
    BY <1>1, <1>5 DEF Placed
<1>8. db' \in [Rows -> Amounts] /\ Stored(p, S)
  BY <1>2, WriteTyped
<1>9. TypeInv' /\ Others(p) /\ run'[p] = l /\ pc'[p] = "writing"
  <2>1. /\ farms' \in SUBSET Farms /\ since' \in [Farms -> -1 .. head]
        /\ cursor' \in NoStatus .. head /\ lost' \in SUBSET Users
    BY <1>1 DEF TypeInv, TypeOK
  <2> HIDE DEF l
  <2> QED
    BY <1>1, <1>5, <1>6, <1>7, <1>8, <2>1, Ran DEF Steps
<1>10. \A r \in D : f[r] = run[p].read[r]
  OBVIOUS
<1>11. run'[p].read = f /\ DOMAIN run'[p].read = D
  <2> HIDE DEF l, f, D
  <2> QED
    BY <1>4, <1>5, <1>9
<1> HIDE DEF l, f
<1> QED
  BY <1>1, <1>5, <1>8, <1>9, <1>10, <1>11

LEMMA WriteStatusStep ==
    ASSUME TypeInv, NEW p \in Processes, WriteStatus(p)
    PROVE  /\ TypeInv' /\ Others(p) /\ pc[p] \in {"ready", "writing"} /\ pc'[p] = "idle"
           /\ kind' = kind /\ UNCHANGED <<chainVars, farms, since, lost>>
           /\ cursor' = run[p].to /\ Stored(p, Pending(p))
<1>1. /\ pc[p] \in {"ready", "writing"} /\ kind' = kind /\ cursor' = run[p].to
      /\ UNCHANGED <<chainVars, farms, since, lost>> /\ Return(p) /\ Write(p, Pending(p))
      /\ Placed(pc[p], run[p])
  BY DEF WriteStatus, TypeInv
<1>2. db' \in [Rows -> Amounts] /\ Stored(p, Pending(p))
  BY <1>1, WriteTyped
<1>3. /\ farms' \in SUBSET Farms /\ since' \in [Farms -> -1 .. head]
      /\ cursor' \in NoStatus .. head /\ lost' \in SUBSET Users
  BY <1>1 DEF TypeInv, TypeOK, Placed, NoStatus
<1>4. TypeInv' /\ Others(p) /\ pc'[p] = "idle"
  BY <1>1, <1>2, <1>3, Returned
<1> QED
  BY <1>1, <1>2, <1>4

LEMMA InitReadStep ==
    ASSUME TypeInv, NEW p \in Processes, InitRead(p)
    PROVE  /\ TypeInv' /\ Others(p) /\ pc[p] = "idle" /\ pc'[p] = "shares"
           /\ kind' = kind /\ UNCHANGED <<chainVars, dbVars, lost>>
           /\ run'[p].begun = head
           /\ \A r \in DOMAIN run'[p].read :
                \E b \in 0 .. head : b >= head - Lag /\ run'[p].read[r] = balance[r][b]
<1>1. /\ kind' = kind /\ UNCHANGED <<chainVars, dbVars, lost>>
      /\ pc[p] = "idle" /\ pc' = [pc EXCEPT ![p] = "shares"]
      /\ lost \in SUBSET Users /\ head \in Nat
  BY DEF InitRead, Goto, TypeInv, TypeOK
<1>2. PICK n \in Answers : \E at \in [Rows -> n .. head] :
        run' = [run EXCEPT ![p] = [NoRun EXCEPT
                    !.begun = head, !.to = n, !.read = [r \in Rows |-> balance[r][at[r]]]]]
  BY DEF InitRead
<1>3. PICK at \in [Rows -> n .. head] :
        run' = [run EXCEPT ![p] = [NoRun EXCEPT
                    !.begun = head, !.to = n, !.read = [r \in Rows |-> balance[r][at[r]]]]]
  BY <1>2
<1> DEFINE f == [r \in Rows |-> balance[r][at[r]]]
           l == [NoRun EXCEPT !.begun = head, !.to = n, !.read = f]
<1>4. n \in 0 .. head /\ n >= head - Lag /\ n \in Int /\ head \in Int
  BY <1>1, <1>2 DEF Answers
<1>5. \A r \in Rows : at[r] \in 0 .. head /\ at[r] >= head - Lag
  BY <1>1, <1>3, <1>4, Numbers
<1>6. f \in Reads /\ DOMAIN f = Rows
  BY <1>5, SharesTyped
<1>7. l \in Locals /\ l.begun = head /\ l.to = n /\ l.read = f
  <2> HIDE DEF f
  <2>1. NoRun \in Locals /\ f \in Reads /\ head \in Int /\ n \in Int
    BY <1>4, <1>6, NoRunTyped
  <2>2. l \in Locals
    BY <2>1, Zenon DEF Locals
  <2> QED
    BY <2>1, <2>2 DEF Locals
<1>8. Placed("shares", l)
  <2> HIDE DEF l, f
  <2> QED
    BY <1>1, <1>4, <1>6, <1>7 DEF Placed
<1>9. run' = [run EXCEPT ![p] = l]
  BY <1>3
<1>10. TypeInv' /\ Others(p) /\ run'[p] = l /\ pc'[p] = "shares"
  <2> HIDE DEF l
  <2> QED
    BY <1>1, <1>7, <1>8, <1>9, RanOn DEF Steps
<1>11. \A r \in Rows : f[r] = balance[r][at[r]]
  OBVIOUS
<1>12. \A r \in Rows : \E b \in 0 .. head : b >= head - Lag /\ f[r] = balance[r][b]
  <2> HIDE DEF f
  <2> QED
    BY <1>5, <1>11
<1> HIDE DEF l, f
<1> QED
  BY <1>1, <1>6, <1>7, <1>10, <1>12

LEMMA InitWriteStep ==
    ASSUME TypeInv, NEW p \in Processes, InitWrite(p)
    PROVE  /\ TypeInv' /\ Others(p) /\ pc[p] = "shares" /\ pc'[p] = "idle"
           /\ kind' = kind /\ UNCHANGED <<chainVars, farms>>
           /\ db' = run[p].read /\ DOMAIN run[p].read = Rows
           /\ cursor' = run[p].to /\ cursor' \in 0 .. head
<1>1. /\ pc[p] = "shares" /\ kind' = kind /\ UNCHANGED <<chainVars, farms>> /\ Return(p)
      /\ db' = run[p].read /\ cursor' = run[p].to /\ lost' = {}
      /\ since' = [f \in Farms |-> IF f \in farms THEN AtStart ELSE since[f]]
      /\ head \in Nat /\ farms \in SUBSET Farms /\ since \in [Farms -> -1 .. head]
      /\ Placed("shares", run[p]) /\ run[p] \in Locals
  BY DEF InitWrite, TypeInv, TypeOK
<1>2. DOMAIN run[p].read = Rows /\ run[p].to \in 0 .. head /\ run[p].read \in Reads
  BY <1>1 DEF Placed, Locals
<1>3. db' \in [Rows -> Amounts]
  <2>1. run[p].read \in [Rows -> Amounts]
    BY <1>2, Zenon DEF Reads
  <2> QED
    BY <1>1, <2>1
<1>4. since' \in [Farms -> -1 .. head]
  BY <1>1 DEF AtStart
<1>5. cursor' \in NoStatus .. head
  BY <1>1, <1>2 DEF NoStatus
<1>6. TypeInv' /\ Others(p) /\ pc'[p] = "idle"
  BY <1>1, <1>3, <1>4, <1>5, Returned
<1> QED
  BY <1>1, <1>2, <1>6

LEMMA ReadUserStep ==
    ASSUME TypeInv, NEW p \in Processes, ReadUser(p)
    PROVE  /\ TypeInv' /\ Others(p) /\ pc[p] = "idle" /\ pc'[p] = "user"
           /\ kind # "reliquary" /\ kind' = kind /\ UNCHANGED <<chainVars, dbVars, lost>>
           /\ run'[p].begun = head
           /\ \A r \in DOMAIN run'[p].read :
                \E b \in 0 .. head : b >= head - Lag /\ run'[p].read[r] = balance[r][b]
<1>1. /\ kind # "reliquary" /\ kind' = kind /\ UNCHANGED <<chainVars, dbVars, lost>>
      /\ pc[p] = "idle" /\ pc' = [pc EXCEPT ![p] = "user"]
      /\ lost \in SUBSET Users /\ head \in Nat
  BY DEF ReadUser, Goto, TypeInv, TypeOK
<1>2. PICK r \in Rows, n \in Answers :
        run' = [run EXCEPT ![p] = [NoRun EXCEPT
                    !.begun = head, !.read = [x \in {r} |-> balance[x][n]]]]
  BY DEF ReadUser
<1> DEFINE f == [x \in {r} |-> balance[x][n]]
           l == [NoRun EXCEPT !.begun = head, !.read = f]
<1>3. n \in 0 .. head /\ n >= head - Lag /\ head \in Int
  BY <1>1, <1>2 DEF Answers
<1>4. f \in Reads /\ \A x \in DOMAIN f : f[x] = balance[x][n]
  <2>1. f \in [{r} -> Amounts]
    BY <1>3 DEF TypeInv, TypeOK
  <2>2. {r} \in SUBSET Rows
    OBVIOUS
  <2> QED
    BY <2>1, <2>2, ReadsMade
<1>5. l \in Locals /\ l.begun = head /\ l.read = f
  <2> HIDE DEF f
  <2> QED
    BY <1>3, <1>4, WithUser, Zenon
<1>6. Placed("user", l)
  <2> HIDE DEF l, f
  <2> QED
    BY <1>1, <1>5 DEF Placed
<1>7. run' = [run EXCEPT ![p] = l]
  BY <1>2
<1>8. TypeInv' /\ Others(p) /\ run'[p] = l /\ pc'[p] = "user"
  <2> HIDE DEF l
  <2> QED
    BY <1>1, <1>5, <1>6, <1>7, RanOn DEF Steps
<1> HIDE DEF l, f
<1> QED
  BY <1>1, <1>3, <1>4, <1>5, <1>8

LEMMA WriteUserStep ==
    ASSUME TypeInv, NEW p \in Processes, WriteUser(p)
    PROVE  /\ TypeInv' /\ Others(p) /\ pc[p] = "user" /\ pc'[p] = "idle"
           /\ kind' = kind /\ UNCHANGED <<chainVars, farms, since, cursor, lost>>
           /\ \A r \in Rows : db'[r] = IF r \in DOMAIN run[p].read
                                       THEN run[p].read[r] ELSE db[r]
<1>1. /\ pc[p] = "user" /\ kind' = kind /\ Return(p)
      /\ UNCHANGED <<chainVars, farms, since, cursor, lost>>
      /\ db' = [r \in Rows |-> IF r \in DOMAIN run[p].read THEN run[p].read[r] ELSE db[r]]
  BY DEF WriteUser
<1>2. /\ farms' \in SUBSET Farms /\ since' \in [Farms -> -1 .. head]
      /\ cursor' \in NoStatus .. head /\ lost' \in SUBSET Users
  BY <1>1 DEF TypeInv, TypeOK
<1>3. db' \in [Rows -> Amounts]
  BY <1>1 DEF TypeInv, TypeOK
<1>4. TypeInv' /\ Others(p) /\ pc'[p] = "idle"
  BY <1>1, <1>2, <1>3, Returned
<1> QED
  BY <1>1, <1>4

LEMMA AbortStep ==
    ASSUME TypeInv, NEW p \in Processes, Abort(p)
    PROVE  /\ TypeInv' /\ Others(p) /\ pc[p] # "idle" /\ pc'[p] = "idle"
           /\ kind' = kind /\ UNCHANGED <<chainVars, dbVars>>
           /\ lost \subseteq lost'
           /\ \/ {UserOf(r) : r \in Missing(p)} \subseteq lost'
              \/ /\ cursor = run[p].from + Margin
                 /\ \A q \in Processes \ {p} : pc[q] = "idle"
<1>1. /\ pc[p] # "idle" /\ kind' = kind /\ UNCHANGED <<chainVars, dbVars>> /\ Return(p)
      /\ \/ lost' = lost \cup {UserOf(r) : r \in Missing(p)}
         \/ /\ lost' = lost /\ cursor = run[p].from + Margin
            /\ \A q \in Processes \ {p} : pc[q] = "idle"
  BY DEF Abort
<1>2. \A r \in Missing(p) : UserOf(r) \in Users
  BY RowsFacts DEF Missing, TypeInv, TypeOK
<1>3. lost' \in SUBSET Users
  BY <1>1, <1>2 DEF TypeInv, TypeOK
<1>4. TypeInv' /\ Others(p) /\ pc'[p] = "idle"
  BY <1>1, <1>3, ReturnedOn
<1> QED
  BY <1>1, <1>4

\* The chain and the farms move on their own.
LEMMA ChainStep ==
    ASSUME TypeInv, NewBlock
    PROVE  /\ TypeInv' /\ kind' = kind /\ UNCHANGED <<dbVars, pc, run, lost>>
           /\ head' = head + 1
           /\ \A r \in Rows : \A b \in 0 .. head : balance'[r][b] = balance[r][b]
           /\ \A b \in 0 .. head : \A u : <<b, u>> \in silent' <=> <<b, u>> \in silent
<1>1. /\ head \in Nat /\ balance \in [Rows -> [0 .. head -> Amounts]]
      /\ silent \in SUBSET ((1 .. head) \X Users)
  BY DEF TypeInv, TypeOK
<1>2. kind' = kind /\ UNCHANGED <<dbVars, pc, run, lost>> /\ head' = head + 1
  BY DEF NewBlock
<1>3. balance' \in [Rows -> [0 .. head' -> Amounts]]
      /\ \A r \in Rows : \A b \in 0 .. head : balance'[r][b] = balance[r][b]
  <2>1. PICK new \in [Rows -> Amounts] :
          balance' = [r \in Rows |-> [b \in 0 .. head + 1 |->
                          IF b <= head THEN balance[r][b] ELSE new[r]]]
    BY DEF NewBlock
  <2>2. ASSUME NEW r \in Rows
        PROVE  /\ balance'[r] \in [0 .. head' -> Amounts]
               /\ \A b \in 0 .. head : balance'[r][b] = balance[r][b]
    <3>1. balance'[r] = [b \in 0 .. head + 1 |-> IF b <= head THEN balance[r][b] ELSE new[r]]
      BY <2>1
    <3>2. \A b \in 0 .. head + 1 : b <= head => b \in 0 .. head
      BY <1>1
    <3> QED
      BY <1>1, <1>2, <3>1, <3>2
  <2>3. balance' = [r \in Rows |-> balance'[r]]
    BY <2>1
  <2> HIDE DEF NewBlock
  <2> QED
    BY <2>2, <2>3
<1>4. /\ farms' = farms /\ since' = since /\ db' = db /\ cursor' = cursor
      /\ pc' = pc /\ run' = run /\ lost' = lost
  BY <1>2 DEF dbVars
<1>5. since' \in [Farms -> -1 .. head'] /\ cursor' \in NoStatus .. head'
  <2>1. \A f \in Farms : since'[f] \in -1 .. head'
    BY <1>1, <1>2, <1>4 DEF TypeInv, TypeOK
  <2> QED
    BY <1>1, <1>2, <1>4, <2>1 DEF TypeInv, TypeOK, NoStatus
<1>6. ASSUME NEW q \in Processes
      PROVE  Placed(pc[q], run[q])' /\ run'[q].begun \in 0 .. head'
  <2>1. Placed(pc[q], run[q]) /\ run'[q] = run[q] /\ pc'[q] = pc[q]
    BY <1>4 DEF TypeInv
  <2> QED
    BY <1>1, <1>2, <2>1, Numbers DEF Placed
<1>7. PICK users \in SUBSET Users : silent' = silent \cup ({head + 1} \X users)
  BY DEF NewBlock, Unnamed
<1>8. silent' \in SUBSET ((1 .. head') \X Users)
  <2>1. 1 .. head \subseteq 1 .. head' /\ head + 1 \in 1 .. head'
    BY <1>1, <1>2
  <2> QED
    BY <1>1, <1>7, <2>1
<1>9. \A b \in 0 .. head : \A u : <<b, u>> \in silent' <=> <<b, u>> \in silent
  <2>1. \A b \in 0 .. head : b # head + 1
    BY <1>1
  <2> QED
    BY <1>7, <2>1
<1>10. TypeInv'
  BY <1>1, <1>2, <1>3, <1>4, <1>5, <1>6, <1>8 DEF TypeInv, TypeOK
<1> QED
  BY <1>2, <1>3, <1>9, <1>10

LEMMA FarmsStep ==
    ASSUME TypeInv, AddFarm \/ DeleteStaking
    PROVE  /\ TypeInv' /\ kind' = kind /\ UNCHANGED <<chainVars, cursor, pc, run, lost>>
           /\ \/ db' = db /\ farms' = farms /\ since' = since
              \/ /\ db' = db /\ kind # "gauge" /\ since' = since
              \/ /\ db' = db /\ kind = "gauge"
                 /\ \E f \in Farms \ farms : farms' = farms \cup {f}
                                             /\ since' = [since EXCEPT ![f] = head]
              \/ \A f \in Farms : since'[f] = head
<1>1. kind' = kind /\ UNCHANGED <<chainVars, cursor, pc, run, lost>>
  BY DEF AddFarm, DeleteStaking
<1>2. head \in Nat /\ since \in [Farms -> -1 .. head] /\ farms \in SUBSET Farms
      /\ db \in [Rows -> Amounts] /\ head \in -1 .. head
  BY DEF TypeInv, TypeOK
<1>3. farms' \in SUBSET Farms
  BY <1>2 DEF AddFarm, DeleteStaking
<1>4. since' \in [Farms -> -1 .. head]
  <2>1. CASE AddFarm
    BY <1>2, <2>1 DEF AddFarm
  <2>2. CASE DeleteStaking
    BY <1>2, <2>2 DEF DeleteStaking
  <2> QED
    BY <2>1, <2>2
<1>5. db' \in [Rows -> Amounts]
  BY <1>2, SetsAssumption DEF AddFarm, DeleteStaking
<1>6. TypeInv'
  BY <1>1, <1>3, <1>4, <1>5 DEF TypeInv, TypeOK, Placed, chainVars
<1>7. CASE AddFarm
  <2>1. db' = db
    BY <1>7 DEF AddFarm
  <2>2. PICK f \in Farms \ farms :
            /\ farms' = farms \cup {f}
            /\ since' = IF kind = "gauge" THEN [since EXCEPT ![f] = head] ELSE since
    BY <1>7 DEF AddFarm
  <2> QED
    BY <1>1, <1>6, <2>1, <2>2
<1>8. CASE DeleteStaking
  BY <1>1, <1>6, <1>8 DEF DeleteStaking
<1> QED
  BY <1>7, <1>8

LEMMA TypeInit == Init => TypeInv
<1> SUFFICES ASSUME Init PROVE TypeInv
  OBVIOUS
<1>1. NoRun \in Locals /\ DOMAIN NoRun.read = {} /\ NoRun.begun = 0
        /\ NoRun.from = 0 /\ NoRun.to = 0
  BY NoRunTyped DEF NoRun
<1>2. 0 .. 0 = {0} /\ 0 \in -1 .. 0 /\ -1 \in -1 .. 0
  OBVIOUS
<1>3. /\ kind \in Kinds /\ head = 0 /\ cursor = -1 /\ farms \in SUBSET Farms /\ lost = {}
      /\ balance \in [Rows -> [0 .. head -> Amounts]]
      /\ db \in [Rows -> Amounts] /\ since \in [Farms -> -1 .. head]
      /\ pc \in [Processes -> Steps] /\ silent = {}
  BY <1>2, SetsAssumption DEF Init, AtStart, NoStatus, Steps
<1>4. run \in [Processes -> Locals] /\ \A p \in Processes : run[p] = NoRun /\ pc[p] = "idle"
  BY <1>1 DEF Init
<1>5. \A p \in Processes : Placed(pc[p], run[p])
  BY <1>1, <1>3, <1>4 DEF Placed
<1> QED
  BY <1>1, <1>2, <1>3, <1>4, <1>5 DEF TypeInv, TypeOK, Steps, NoStatus

LEMMA TypeStep == RangeSuffices /\ TypeInv /\ [Next]_vars => TypeInv'
<1> SUFFICES ASSUME RangeSuffices, TypeInv, [Next]_vars PROVE TypeInv'
  OBVIOUS
<1>1. CASE NewBlock \/ AddFarm \/ DeleteStaking
  BY <1>1, ChainStep, FarmsStep
<1>2. ASSUME NEW p \in Processes,
             \/ ReadStatus(p) \/ ReadLogs(p) \/ ReadBalances(p) \/ WriteChunk(p)
             \/ WriteStatus(p) \/ InitRead(p) \/ InitWrite(p) \/ ReadUser(p)
             \/ WriteUser(p) \/ Abort(p)
      PROVE  TypeInv'
  BY <1>2, ReadStatusStep, ReadLogsStep, ReadBalancesStep, WriteChunkStep, WriteStatusStep,
     InitReadStep, InitWriteStep, ReadUserStep, WriteUserStep, AbortStep
<1>3. CASE UNCHANGED vars
  BY <1>3 DEF vars, chainVars, dbVars, TypeInv, TypeOK, Placed
<1> QED
  BY <1>1, <1>2, <1>3 DEF Next

LEMMA TypeInvCorrect ==
    ASSUME RangeSuffices
    PROVE  Spec => []TypeInv
<1>1. TypeInv /\ [Next]_vars => TypeInv'
  BY TypeStep
<1> QED
  BY <1>1, TypeInit, PTL DEF Spec

(* Whatever runs overlap and fail: the saved block is a block of the chain, or there is *)
(* none, and a run has read amounts of rows that exist, if the range of one request for *)
(* logs is at least the margin.                                                         *)
THEOREM TypeCorrect ==
    ASSUME RangeSuffices
    PROVE  Spec => []TypeOK
<1>1. TypeInv => TypeOK
  BY DEF TypeInv
<1> QED
  BY <1>1, TypeInvCorrect, PTL

-----------------------------------------------------------------------------
(***************************************************************************)
(* StaleIsReread.                                                          *)
(***************************************************************************)

\* A balance that a run holds is not older than the margin, when it is written.
MarginSuffices == RangeSuffices /\ Delay + Lag <= Margin + 1

\* An event of block b names row r.
Event(r, b) ==
    IF kind = "reliquary"
    THEN <<b, UserOf(r)>> \notin silent /\ \E f \in Farms : Changed(<<f, UserOf(r)>>, b)
    ELSE Changed(r, b)

\* An event of block n or a later one does.
Named(r, n) == \E b \in 0 .. head : b >= n /\ Event(r, b)

\* A change of its user's stakes that has no event, and no event after it.
Hidden(r) == \E b \in 1 .. head : <<b, UserOf(r)>> \in silent /\ ~Named(r, b + 1)

\* v was the balance of row r after block n or a later one.
Had(r, v, n) == \E b \in 0 .. head : b >= n /\ v = balance[r][b]

\* A stored balance that is not the chain's, and that no run has deleted and not written;
\* every change has an event, or an event after it.
Stale(r) ==
    /\ kind = "gauge" => FarmOf(r) \in farms
    /\ since[FarmOf(r)] = AtStart \/ Named(r, since[FarmOf(r)] + 1)
    /\ UserOf(r) \notin lost
    /\ ~Hidden(r)
    /\ \A p \in Processes : r \notin Missing(p)
    /\ db[r] # balance[r][head]

\* A balance only differs from an earlier one when it has changed in between.
Steady == \A r \in Rows : \A a, b \in 0 .. head :
            a <= b /\ (\A c \in a + 1 .. b : balance[r][c] = balance[r][c - 1])
                => balance[r][a] = balance[r][b]

Saved == cursor # NoStatus => \A r \in Rows : Stale(r) => Named(r, cursor - Margin)

Timely(p) == pc[p] # "idle" => head <= run[p].begun + Delay

\* A sync that has read the saved block will ask for the events of every stale row.
Located(p) == pc[p] = "located" => \A r \in Rows : Stale(r) => Named(r, run[p].from)

\* Once it has the events: the next sync will ask for those of the rows it does not hold.
NamedRows(p) ==
    pc[p] \in {"named", "ready", "writing"} =>
        /\ \A r \in DOMAIN run[p].read : Named(r, run[p].from)
        /\ \A r \in Rows \ DOMAIN run[p].read : Stale(r) => Named(r, run[p].to - Margin)

\* A Reliquary sync holds all rows of a user whose rows it deletes, and then those that
\* are not zero.
Whole(p) ==
    kind = "reliquary" =>
        /\ pc[p] \in {"named", "ready"} =>
                \A r \in DOMAIN run[p].read, x \in Rows :
                    UserOf(x) = UserOf(r) => x \in DOMAIN run[p].read
        /\ pc[p] = "writing" => \A r \in DOMAIN run[p].read : run[p].read[r] > 0

Fresh(p) ==
    pc[p] \in {"ready", "writing", "shares", "user"} =>
        \A r \in DOMAIN run[p].read : Had(r, run[p].read[r], run[p].begun - Lag)

RunInv(p) == Timely(p) /\ Located(p) /\ NamedRows(p) /\ Whole(p) /\ Fresh(p)

RereadInv == Steady /\ Saved /\ \A p \in Processes : RunInv(p)

-----------------------------------------------------------------------------
\* Facts about blocks.

LEMMA Shifted ==
    ASSUME NEW a \in Int, NEW b \in Int, NEW m \in Nat, a <= b
    PROVE  a - m <= b - m /\ a - m \in Int /\ b - m \in Int
  OBVIOUS

LEMMA NamedEarlier ==
    ASSUME NEW r, NEW m \in Int, NEW n \in Int, n <= m, head \in Nat, Named(r, m)
    PROVE  Named(r, n)
  BY DEF Named

LEMMA TouchedNamed ==
    ASSUME head \in Nat, NEW r, NEW n \in Int
    PROVE  Touched(r, n .. head) <=> Named(r, n)
<1>1. Touched(r, n .. head) <=> \E b \in (n .. head) \cap (0 .. head) : Event(r, b)
  BY DEF Touched, Event
<1>2. \A b : b \in (n .. head) \cap (0 .. head) <=> b \in 0 .. head /\ b >= n
  OBVIOUS
<1> QED
  BY <1>1, <1>2 DEF Named

\* A change of the row itself is an event that names it, or is one without.
LEMMA ChangeIsEvent ==
    ASSUME NEW r \in Rows, NEW b, Changed(r, b)
    PROVE  Event(r, b) \/ <<b, UserOf(r)>> \in silent
  BY RowsFacts DEF Event

LEMMA UnseenHidden ==
    ASSUME head \in Nat, NEW r
    PROVE  Unseen(r) <=> Hidden(r)
<1>1. \A b \in 1 .. head : Touched(r, b + 1 .. head) <=> Named(r, b + 1)
  BY TouchedNamed
<1> QED
  BY <1>1 DEF Unseen, Hidden

\* A balance of block n or a later one is the chain's, or has an event after it.
LEMMA OldIsNamed ==
    ASSUME TypeInv, Steady, NEW r \in Rows, NEW n \in Int, NEW v, Had(r, v, n),
           v # balance[r][head], ~Hidden(r)
    PROVE  Named(r, n + 1)
<1>1. head \in Nat
  BY DEF TypeInv, TypeOK
<1>2. PICK b \in 0 .. head : b >= n /\ v = balance[r][b]
  BY DEF Had
<1>3. \E c \in b + 1 .. head : balance[r][c] # balance[r][c - 1]
  <2>1. b <= head /\ head \in 0 .. head
    BY <1>1
  <2> QED
    BY <1>2, <2>1, Zenon DEF Steady
<1>4. PICK c \in b + 1 .. head : balance[r][c] # balance[r][c - 1]
  BY <1>3
<1>5. c \in 1 .. head /\ c \in 0 .. head /\ c > 0 /\ c >= n + 1 /\ c + 1 >= n + 1
        /\ c + 1 \in Int
  BY <1>1, <1>2
<1>6. CASE Event(r, c)
  BY <1>5, <1>6 DEF Named
<1>7. CASE <<c, UserOf(r)>> \in silent
  <2>1. Named(r, c + 1)
    BY <1>5, <1>7 DEF Hidden
  <2>2. n + 1 \in Int
    OBVIOUS
  <2> QED
    BY <1>1, <1>5, <2>1, <2>2, NamedEarlier
<1> QED
  BY <1>4, <1>5, <1>6, <1>7, ChangeIsEvent DEF Changed

\* What a run holds is not older than the margin.
LEMMA HeldIsNamed ==
    ASSUME MarginSuffices, TypeInv, Steady, NEW p \in Processes, Timely(p), Fresh(p),
           pc[p] \in {"ready", "writing", "shares", "user"},
           NEW r \in DOMAIN run[p].read, run[p].read[r] # balance[r][head], ~Hidden(r)
    PROVE  Named(r, head - Margin)
<1>1. r \in Rows /\ head \in Nat /\ run[p].begun \in 0 .. head
  BY DEF TypeInv, TypeOK
<1>2. Had(r, run[p].read[r], run[p].begun - Lag) /\ head <= run[p].begun + Delay
  BY DEF Fresh, Timely
<1>3. run[p].begun - Lag \in Int
  BY <1>1, Numbers
<1>4. Named(r, run[p].begun - Lag + 1)
  BY <1>1, <1>2, <1>3, OldIsNamed
<1>5. head - Margin <= run[p].begun - Lag + 1 /\ head - Margin \in Int
        /\ run[p].begun - Lag + 1 \in Int
  BY <1>1, <1>2, Numbers DEF MarginSuffices
<1> QED
  BY <1>1, <1>4, <1>5, NamedEarlier

\* While the chain stands still.
LEMMA StaleIsSeen ==
    ASSUME kind' = kind, UNCHANGED chainVars, NEW r, Stale(r)'
    PROVE  ~Hidden(r)
<1>1. head' = head /\ balance' = balance /\ silent' = silent
  BY DEF chainVars
<1>2. \A n : Named(r, n)' <=> Named(r, n)
  BY <1>1 DEF Named, Event, Changed
<1>3. Hidden(r)' <=> Hidden(r)
  BY <1>1, <1>2 DEF Hidden
<1> QED
  BY <1>3 DEF Stale

-----------------------------------------------------------------------------
\* What a step must do to keep the invariant of another run, and of the saved block.

\* Rows only become stale when the next sync will see an event of the margin.
Covered == \A r \in Rows : Stale(r)' => Stale(r) \/ Named(r, head - Margin)

LEMMA KeepsSaved ==
    ASSUME TypeInv, Saved, Covered, kind' = kind, UNCHANGED <<chainVars, cursor>>
    PROVE  Saved'
<1>1. head' = head /\ balance' = balance /\ silent' = silent /\ cursor' = cursor
  BY DEF chainVars
<1> SUFFICES ASSUME cursor # NoStatus, NEW r \in Rows, Stale(r)'
             PROVE  Named(r, cursor - Margin)'
  BY <1>1 DEF Saved
<1>2. head \in Nat /\ cursor \in Int /\ cursor <= head
  BY DEF TypeInv, TypeOK, NoStatus
<1>3. cursor - Margin <= head - Margin /\ cursor - Margin \in Int /\ head - Margin \in Int
  BY <1>2, Numbers
<1>4. Stale(r) \/ Named(r, head - Margin)
  BY DEF Covered
<1>5. Named(r, cursor - Margin)
  BY <1>2, <1>3, <1>4, NamedEarlier DEF Saved
<1> QED
  BY <1>1, <1>5 DEF Named, Event, Changed

LEMMA KeepsOther ==
    ASSUME TypeInv, Covered, kind' = kind, UNCHANGED chainVars,
           NEW q \in Processes, RunInv(q), run'[q] = run[q], pc'[q] = pc[q]
    PROVE  RunInv(q)'
<1>1. head' = head /\ balance' = balance /\ silent' = silent
  BY DEF chainVars
<1>2. Timely(q)' /\ Whole(q)' /\ Fresh(q)'
  BY <1>1 DEF RunInv, Timely, Whole, Fresh, Had
<1>3. head \in Nat /\ Placed(pc[q], run[q]) /\ head - Margin \in Int
  BY Numbers DEF TypeInv, TypeOK
<1>4. ASSUME NEW r, NEW n, Named(r, n) PROVE Named(r, n)'
  BY <1>1, <1>4 DEF Named, Event, Changed
<1>5. Located(q)'
  <2> SUFFICES ASSUME pc[q] = "located", NEW r \in Rows, Stale(r)'
               PROVE  Named(r, run[q].from)'
    BY DEF Located
  <2>1. run[q].from <= head - Margin /\ run[q].from \in Int
    BY <1>3, Numbers DEF Placed
  <2>2. Stale(r) \/ Named(r, head - Margin)
    BY DEF Covered
  <2>3. Named(r, run[q].from)
    BY <1>3, <2>1, <2>2, NamedEarlier DEF RunInv, Located
  <2> QED
    BY <1>4, <2>3
<1>6. NamedRows(q)'
  <2>1. ASSUME pc[q] \in {"named", "ready", "writing"}, NEW r \in DOMAIN run[q].read
        PROVE  Named(r, run[q].from)'
    <3>1. Named(r, run[q].from)
      BY <2>1 DEF RunInv, NamedRows
    <3> QED
      BY <1>4, <3>1
  <2>2. ASSUME pc[q] \in {"named", "ready", "writing"}, NEW r \in Rows \ DOMAIN run[q].read,
               Stale(r)'
        PROVE  Named(r, run[q].to - Margin)'
    <3>1. run[q].to - Margin <= head - Margin /\ run[q].to - Margin \in Int
      BY <1>3, <2>2, Numbers DEF Placed
    <3>2. Stale(r) \/ Named(r, head - Margin)
      BY <2>2 DEF Covered
    <3>3. Named(r, run[q].to - Margin)
      BY <1>3, <2>2, <3>1, <3>2, NamedEarlier DEF RunInv, NamedRows
    <3> QED
      BY <1>4, <3>3
  <2> QED
    BY <2>1, <2>2 DEF NamedRows
<1> QED
  BY <1>2, <1>5, <1>6 DEF RunInv

\* A step of run p that does not move the chain.
LEMMA KeepsRereadInv ==
    ASSUME TypeInv, RereadInv, NEW p \in Processes, Others(p), Covered,
           kind' = kind, UNCHANGED chainVars, Saved', RunInv(p)'
    PROVE  RereadInv'
<1>1. ASSUME NEW q \in Processes PROVE RunInv(q)'
  <2>1. CASE q = p
    BY <2>1
  <2>2. CASE q # p
    BY <2>2, KeepsOther DEF Others, RereadInv
  <2> QED
    BY <2>1, <2>2
<1>2. Steady'
  BY DEF RereadInv, Steady, chainVars
<1> QED
  BY <1>1, <1>2 DEF RereadInv

\* A run that has returned.
LEMMA IdleInv == ASSUME NEW p \in Processes, pc'[p] = "idle" PROVE RunInv(p)'
  BY DEF RunInv, Timely, Located, NamedRows, Whole, Fresh

\* Steps that leave the database alone and in which nothing that was missing is given up.
LEMMA QuietCovers ==
    ASSUME TypeInv, NEW p \in Processes, Others(p), kind' = kind,
           UNCHANGED <<chainVars, dbVars>>, lost \subseteq lost', Missing(p) \subseteq Missing(p)'
    PROVE  \A r \in Rows : Stale(r)' => Stale(r)
<1>1. head' = head /\ balance' = balance /\ silent' = silent /\ db' = db /\ farms' = farms /\ since' = since
  BY DEF chainVars, dbVars
<1> SUFFICES ASSUME NEW r \in Rows, Stale(r)' PROVE Stale(r)
  OBVIOUS
<1>2. ASSUME NEW q \in Processes PROVE r \notin Missing(q)
  <2>1. CASE q = p
    BY <2>1 DEF Stale
  <2>2. CASE q # p
    <3>1. Missing(q)' = Missing(q)
      BY <2>2 DEF Missing, Others
    <3> QED
      BY <3>1 DEF Stale
  <2> QED
    BY <2>1, <2>2
<1>3. /\ kind = "gauge" => FarmOf(r) \in farms
      /\ since[FarmOf(r)] = AtStart \/ Named(r, since[FarmOf(r)] + 1)
      /\ UserOf(r) \notin lost /\ ~Hidden(r) /\ db[r] # balance[r][head]
  BY <1>1 DEF Stale, Hidden, Named, Event, Changed
<1> QED
  BY <1>2, <1>3 DEF Stale

-----------------------------------------------------------------------------
\* The steps.

LEMMA RereadByReadStatus ==
    ASSUME MarginSuffices, TypeInv, RereadInv, NEW p \in Processes, ReadStatus(p)
    PROVE  RereadInv'
<1>1. /\ Others(p) /\ pc'[p] = "located" /\ cursor # NoStatus
      /\ run'[p].begun = head /\ run'[p].from = cursor - Margin
      /\ kind' = kind /\ UNCHANGED <<chainVars, dbVars, lost>> /\ pc[p] = "idle"
  BY ReadStatusStep DEF ReadStatus, Goto
<1>2. head' = head /\ balance' = balance /\ silent' = silent /\ cursor' = cursor /\ head \in Nat
  BY <1>1 DEF chainVars, dbVars, TypeInv, TypeOK
<1>3. \A r \in Rows : Stale(r)' => Stale(r)
  <2>1. Missing(p) = {}
    BY <1>1 DEF Missing
  <2> QED
    BY <1>1, <2>1, QuietCovers
<1>4. Covered
  BY <1>3 DEF Covered
<1>5. Saved'
  BY <1>1, <1>2, <1>4, KeepsSaved DEF RereadInv
<1>6. Timely(p)' /\ NamedRows(p)' /\ Whole(p)' /\ Fresh(p)'
  BY <1>1, <1>2, Numbers DEF Timely, NamedRows, Whole, Fresh
<1>7. Located(p)'
  BY <1>1, <1>2, <1>5 DEF Located, Saved
<1> QED
  BY <1>1, <1>4, <1>5, <1>6, <1>7, KeepsRereadInv DEF RunInv

\* The logs that are read are none of before the range.
LEMMA LogsHave ==
    ASSUME NEW from \in Int, NEW to \in Int, NEW S \in LogBlocks(from, to), NEW b \in S
    PROVE  b >= from
<1>1. CASE S = from .. to
  BY <1>1
<1>2. CASE S \subseteq Scanned(from, to, RpcRange)
  <2>1. NumBatches(from, to, RpcRange) \in Int
    BY Numbers DEF NumBatches
  <2>2. PICK i \in 0 .. NumBatches(from, to, RpcRange) - 1 : b \in Batch(from, to, RpcRange, i)
    BY <1>2 DEF Scanned
  <2>3. i \in Nat /\ RpcRange \in Nat
    BY <2>1, <2>2, Numbers
  <2>4. i * RpcRange \in Nat
    BY <2>3
  <2>5. BatchFrom(from, RpcRange, i) \in Int /\ BatchFrom(from, RpcRange, i) >= from
    BY <2>4 DEF BatchFrom
  <2> QED
    BY <2>2, <2>5 DEF Batch
<1> QED
  BY <1>1, <1>2, Zenon DEF LogBlocks

LEMMA RereadByReadLogs ==
    ASSUME MarginSuffices, TypeInv, RereadInv, NEW p \in Processes, ReadLogs(p)
    PROVE  RereadInv'
<1>1. /\ TypeInv' /\ Others(p) /\ pc[p] = "located"
      /\ kind' = kind /\ UNCHANGED <<chainVars, dbVars>>
      /\ \/ pc'[p] = "idle" /\ lost' = lost
         \/ /\ pc'[p] = "named"
            /\ run'[p].begun = run[p].begun /\ run'[p].from = run[p].from
            /\ \E S \in LogBlocks(run[p].from, run'[p].to), skipped \in SUBSET Users :
               LogsRead(p, S, skipped)
            /\ run'[p].to >= 0
  BY ReadLogsStep DEF MarginSuffices
<1>2. /\ head' = head /\ balance' = balance /\ silent' = silent /\ cursor' = cursor /\ farms' = farms
      /\ head \in Nat /\ Missing(p) = {} /\ run[p].from \in Int
  BY <1>1 DEF chainVars, dbVars, Missing, TypeInv, TypeOK
<1>3. \A r \in Rows : Stale(r)' => Stale(r)
  <2>1. lost \subseteq lost'
    BY <1>1 DEF LogsRead
  <2> QED
    BY <1>1, <1>2, <2>1, QuietCovers
<1>4. Covered /\ Saved'
  <2>1. Covered
    BY <1>3 DEF Covered
  <2> QED
    BY <1>1, <1>2, <2>1, KeepsSaved DEF RereadInv
<1>5. CASE pc'[p] = "idle"
  BY <1>1, <1>4, <1>5, IdleInv, KeepsRereadInv
<1>6. CASE pc'[p] # "idle"
  <2>1. pc'[p] = "named" /\ run'[p].begun = run[p].begun /\ run'[p].from = run[p].from
    BY <1>1, <1>6
  <2>2. PICK S \in LogBlocks(run[p].from, run'[p].to), skipped \in SUBSET Users :
            LogsRead(p, S, skipped)
    BY <1>1, <1>6
  <2>3. run'[p].to \in Int /\ run'[p].to <= head
    BY <1>1, <1>2, <2>1 DEF TypeInv, Placed
  <2>4. \A r : Touched(r, S) <=> \E b \in 0 .. head : b \in S /\ Event(r, b)
    BY DEF Touched, Event
  <2>5. \A b \in S : b >= run[p].from
    BY <1>2, <2>3, LogsHave
  <2>6. \A r \in DOMAIN run'[p].read : Named(r, run[p].from)
    BY <2>2, <2>4, <2>5 DEF Named, LogsRead
  <2>7. ASSUME NEW r \in Rows \ DOMAIN run'[p].read, Stale(r)'
        PROVE  Named(r, run'[p].to - Margin)
    <3>1. Stale(r) /\ UserOf(r) \notin lost'
      BY <1>3, <2>7 DEF Stale
    <3>2. PICK b \in 0 .. head : b >= run[p].from /\ Event(r, b)
      BY <1>1, <3>1 DEF RereadInv, RunInv, Located, Named
    <3>3. FarmOf(r) \in Listened
      BY <3>1, RowsFacts DEF Stale, Listened
    <3>4. ~Touched(r, run[p].from .. run'[p].to - Margin - 1)
      BY <2>2, <2>7, <3>1, <3>3 DEF LogsRead
    <3>5. ~(b <= run'[p].to - Margin - 1)
      <4>1. run'[p].to - Margin - 1 \in Int
        BY <2>3, Numbers
      <4> QED
        BY <1>2, <3>2, <3>4, <4>1 DEF Touched, Event
    <3>6. b >= run'[p].to - Margin
      BY <2>3, <3>5, Numbers
    <3> QED
      BY <3>2, <3>6 DEF Named
  <2>8. NamedRows(p)'
    <3>1. \A r, n : Named(r, n) => Named(r, n)'
      BY <1>1, <1>2 DEF Named, Event, Changed
    <3> QED
      BY <2>1, <2>6, <2>7, <3>1 DEF NamedRows
  <2>9. Whole(p)'
    <3> SUFFICES ASSUME kind = "reliquary", NEW r \in DOMAIN run'[p].read, NEW x \in Rows,
                        UserOf(x) = UserOf(r)
                 PROVE  x \in DOMAIN run'[p].read
      BY <1>1, <2>1 DEF Whole
    <3>1. Touched(r, S) /\ UserOf(r) \notin skipped
      BY <2>2 DEF LogsRead
    <3>2. Touched(x, S)
      BY <3>1 DEF Touched
    <3>3. FarmOf(x) \in Listened
      BY RowsFacts DEF Listened
    <3> QED
      BY <2>2, <3>1, <3>2, <3>3 DEF LogsRead
  <2>10. Timely(p)' /\ Located(p)' /\ Fresh(p)'
    <3>1. Timely(p)
      BY DEF RereadInv, RunInv
    <3> QED
      BY <1>1, <1>2, <2>1, <3>1 DEF Timely, Located, Fresh
  <2> QED
    BY <1>1, <1>4, <2>8, <2>9, <2>10, KeepsRereadInv DEF RunInv
<1> QED
  BY <1>5, <1>6

LEMMA RereadByReadBalances ==
    ASSUME MarginSuffices, TypeInv, RereadInv, NEW p \in Processes, ReadBalances(p)
    PROVE  RereadInv'
<1>1. /\ Others(p) /\ pc[p] = "named" /\ pc'[p] = "ready"
      /\ kind' = kind /\ UNCHANGED <<chainVars, dbVars, lost>>
      /\ run'[p].begun = run[p].begun /\ run'[p].from = run[p].from
      /\ run'[p].to = run[p].to /\ DOMAIN run'[p].read = DOMAIN run[p].read
      /\ \A r \in DOMAIN run'[p].read :
           \E b \in 0 .. head : b >= head - Lag /\ run'[p].read[r] = balance[r][b]
  BY ReadBalancesStep
<1>2. /\ head' = head /\ balance' = balance /\ silent' = silent /\ cursor' = cursor
      /\ head \in Nat /\ Missing(p) = {} /\ run[p].begun \in 0 .. head
  BY <1>1 DEF chainVars, dbVars, Missing, TypeInv, TypeOK
<1>3. \A r \in Rows : Stale(r)' => Stale(r)
  BY <1>1, <1>2, QuietCovers
<1>4. Covered /\ Saved'
  <2>1. Covered
    BY <1>3 DEF Covered
  <2> QED
    BY <1>1, <1>2, <2>1, KeepsSaved DEF RereadInv
<1>5. Timely(p) /\ NamedRows(p) /\ Whole(p)
  BY DEF RereadInv, RunInv
<1>6. NamedRows(p)'
  <2>1. \A r, n : Named(r, n) => Named(r, n)'
    BY <1>1, <1>2 DEF Named, Event, Changed
  <2> QED
    BY <1>1, <1>3, <1>5, <2>1 DEF NamedRows
<1>7. Fresh(p)'
  <2>1. ASSUME NEW r \in DOMAIN run'[p].read
        PROVE  \E b \in 0 .. head : b >= run[p].begun - Lag /\ run'[p].read[r] = balance[r][b]
    <3>1. PICK b \in 0 .. head : b >= head - Lag /\ run'[p].read[r] = balance[r][b]
      BY <1>1
    <3>2. b >= run[p].begun - Lag
      BY <1>2, <3>1, Numbers
    <3> QED
      BY <3>1, <3>2
  <2> QED
    BY <1>1, <1>2, <2>1 DEF Fresh, Had
<1>8. Timely(p)' /\ Located(p)' /\ Whole(p)'
  BY <1>1, <1>2, <1>5 DEF Timely, Located, Whole
<1> QED
  BY <1>1, <1>4, <1>6, <1>7, <1>8, KeepsRereadInv DEF RunInv

\* The mutations read what a node of now answers.
LEMMA RereadByMutation ==
    ASSUME MarginSuffices, TypeInv, RereadInv, NEW p \in Processes, InitRead(p) \/ ReadUser(p)
    PROVE  RereadInv'
<1>1. /\ Others(p) /\ pc[p] = "idle" /\ pc'[p] \in {"shares", "user"}
      /\ kind' = kind /\ UNCHANGED <<chainVars, dbVars, lost>>
      /\ run'[p].begun = head
      /\ \A r \in DOMAIN run'[p].read :
           \E b \in 0 .. head : b >= head - Lag /\ run'[p].read[r] = balance[r][b]
  BY InitReadStep, ReadUserStep
<1>2. /\ head' = head /\ balance' = balance /\ silent' = silent /\ cursor' = cursor
      /\ head \in Nat /\ Missing(p) = {}
  BY <1>1 DEF chainVars, dbVars, Missing, TypeInv, TypeOK
<1>3. Covered /\ Saved'
  <2>1. Covered
    BY <1>1, <1>2, QuietCovers DEF Covered
  <2> QED
    BY <1>1, <1>2, <2>1, KeepsSaved DEF RereadInv
<1>4. Fresh(p)'
  BY <1>1, <1>2 DEF Fresh, Had
<1>5. Timely(p)' /\ Located(p)' /\ NamedRows(p)' /\ Whole(p)'
  BY <1>1, <1>2, Numbers DEF Timely, Located, NamedRows, Whole
<1> QED
  BY <1>1, <1>3, <1>4, <1>5, KeepsRereadInv DEF RunInv

\* A transaction stores what the run has read, and leaves the other rows alone.
LEMMA StoredRows ==
    ASSUME TypeInv, NEW p \in Processes, Whole(p), pc[p] \in {"ready", "writing"},
           NEW S \in SUBSET Pending(p), Stored(p, S), NEW r \in Rows
    PROVE  /\ r \notin DOMAIN run[p].read => db'[r] = db[r]
           /\ r \in DOMAIN run[p].read /\ r \notin Pending(p) \ S => db'[r] = run[p].read[r]
           /\ r \in Pending(p) \ S /\ kind # "reliquary" => db'[r] = db[r]
<1>1. db'[r] = IF r \in S THEN run[p].read[r] ELSE IF r \in Deleted(p) THEN 0 ELSE db[r]
  BY DEF Stored
<1>2. S \subseteq DOMAIN run[p].read
  BY DEF Pending
<1>3. ASSUME r \notin DOMAIN run[p].read PROVE db'[r] = db[r]
  <2>1. r \notin Deleted(p)
    BY <1>3 DEF Deleted, Whole
  <2> QED
    BY <1>1, <1>2, <1>3, <2>1
<1>4. ASSUME r \in DOMAIN run[p].read, r \notin Pending(p) \ S
      PROVE  db'[r] = run[p].read[r]
  <2>1. CASE r \in S
    BY <1>1, <2>1
  <2>2. CASE r \notin S
    <3>1. kind = "reliquary" /\ ~(run[p].read[r] > 0)
      BY <1>4, <2>2 DEF Pending
    <3>2. run[p].read[r] = 0
      <4>1. run[p].read[r] \in Nat
        BY <1>4, SetsAssumption DEF TypeInv, TypeOK
      <4> QED
        BY <3>1, <4>1
    <3>3. pc[p] = "ready"
      BY <1>4, <3>1 DEF Whole
    <3>4. r \in Deleted(p)
      BY <1>4, <3>1, <3>3 DEF Deleted
    <3> QED
      BY <1>1, <2>2, <3>2, <3>4
  <2> QED
    BY <2>1, <2>2
<1>5. kind # "reliquary" => Deleted(p) = {}
  BY DEF Deleted
<1> QED
  BY <1>1, <1>3, <1>4, <1>5

LEMMA WriteCovers ==
    ASSUME MarginSuffices, TypeInv, RereadInv, NEW p \in Processes, Others(p),
           pc[p] \in {"ready", "writing"}, kind' = kind,
           UNCHANGED <<chainVars, farms, since, lost>>,
           NEW S \in SUBSET Pending(p), Stored(p, S),
           \/ Pending(p) \ S = {}
           \/ pc'[p] = "writing" /\ DOMAIN run'[p].read = Pending(p) \ S
    PROVE  Covered /\ \A r \in Rows \ DOMAIN run[p].read : Stale(r)' => Stale(r)
<1>1. /\ head' = head /\ balance' = balance /\ silent' = silent
      /\ Steady /\ Timely(p) /\ Fresh(p) /\ Whole(p)
      /\ DOMAIN run[p].read \subseteq Rows
  BY DEF chainVars, RereadInv, RunInv, TypeInv, TypeOK
<1>2. ASSUME NEW r \in Rows, Stale(r)', r \notin Missing(p), db'[r] = db[r]
      PROVE  Stale(r)
  <2>1. ASSUME NEW q \in Processes PROVE r \notin Missing(q)
    <3>1. CASE q = p
      BY <1>2, <3>1
    <3>2. CASE q # p
      <4>1. Missing(q)' = Missing(q)
        BY <3>2 DEF Missing, Others
      <4> QED
        BY <1>2, <4>1 DEF Stale
    <3> QED
      BY <3>1, <3>2
  <2>2. /\ kind = "gauge" => FarmOf(r) \in farms
        /\ since[FarmOf(r)] = AtStart \/ Named(r, since[FarmOf(r)] + 1)
        /\ UserOf(r) \notin lost /\ ~Hidden(r) /\ db[r] # balance[r][head]
    BY <1>1, <1>2 DEF Stale, Hidden, Named, Event, Changed
  <2> QED
    BY <2>1, <2>2 DEF Stale
<1>3. ASSUME NEW r \in Rows \ DOMAIN run[p].read, Stale(r)' PROVE Stale(r)
  <2>1. r \notin Missing(p)
    BY <1>3 DEF Missing
  <2>2. db'[r] = db[r]
    BY <1>1, <1>3, StoredRows
  <2> QED
    BY <1>2, <1>3, <2>1, <2>2
<1>4. ASSUME NEW r \in DOMAIN run[p].read, Stale(r)', r \in Pending(p) \ S PROVE Stale(r)
  <2>1. pc'[p] = "writing" /\ r \in DOMAIN run'[p].read
    BY <1>4
  <2>2. kind # "reliquary"
    BY <1>4, <2>1 DEF Stale, Missing
  <2>3. r \notin Missing(p) /\ db'[r] = db[r]
    BY <1>1, <1>4, <2>2, StoredRows DEF Missing
  <2> QED
    BY <1>1, <1>2, <1>4, <2>3
<1>5. ASSUME NEW r \in DOMAIN run[p].read, Stale(r)', r \notin Pending(p) \ S
      PROVE  Named(r, head - Margin)
  <2>1. db'[r] = run[p].read[r]
    BY <1>1, <1>5, StoredRows
  <2>2. run[p].read[r] # balance[r][head]
    BY <1>1, <1>5, <2>1 DEF Stale
  <2> QED
    BY <1>1, <2>2, <1>5, HeldIsNamed, StaleIsSeen
<1> QED
  BY <1>1, <1>3, <1>4, <1>5 DEF Covered

LEMMA RereadByWriteChunk ==
    ASSUME MarginSuffices, TypeInv, RereadInv, NEW p \in Processes, WriteChunk(p)
    PROVE  RereadInv'
<1>1. /\ Others(p) /\ pc[p] \in {"ready", "writing"} /\ pc'[p] = "writing"
      /\ kind' = kind /\ UNCHANGED <<chainVars, farms, since, cursor, lost>>
      /\ run'[p].begun = run[p].begun /\ run'[p].from = run[p].from
      /\ run'[p].to = run[p].to
  BY WriteChunkStep
<1>2. PICK S \in SUBSET Pending(p) :
        /\ Stored(p, S)
        /\ DOMAIN run'[p].read = Pending(p) \ S
        /\ \A r \in DOMAIN run'[p].read : run'[p].read[r] = run[p].read[r]
  BY WriteChunkStep
<1>3. /\ head' = head /\ balance' = balance /\ silent' = silent
      /\ Steady /\ Timely(p) /\ Fresh(p) /\ Whole(p) /\ NamedRows(p) /\ Saved
      /\ head \in Nat /\ Placed(pc[p], run[p])
  BY <1>1 DEF chainVars, RereadInv, RunInv, TypeInv, TypeOK
<1>4. Covered /\ \A r \in Rows \ DOMAIN run[p].read : Stale(r)' => Stale(r)
  BY <1>1, <1>2, WriteCovers
<1>5. Saved'
  BY <1>1, <1>3, <1>4, KeepsSaved
<1>6. \A r, n : Named(r, n) => Named(r, n)'
  BY <1>1, <1>3 DEF Named, Event, Changed
<1>7. DOMAIN run'[p].read \subseteq DOMAIN run[p].read
  BY <1>2 DEF Pending
<1>8. NamedRows(p)'
  <2>1. ASSUME NEW r \in Rows \ DOMAIN run'[p].read, Stale(r)'
        PROVE  Named(r, run[p].to - Margin)
    <3>1. CASE r \notin DOMAIN run[p].read
      BY <1>1, <1>3, <1>4, <2>1, <3>1 DEF NamedRows
    <3>2. CASE r \in DOMAIN run[p].read
      <4>1. db'[r] = run[p].read[r]
        BY <1>1, <1>2, <1>3, <2>1, <3>2, StoredRows
      <4>2. run[p].read[r] # balance[r][head]
        BY <1>3, <2>1, <4>1 DEF Stale
      <4>3. Named(r, head - Margin)
        BY <1>1, <1>3, <3>2, <4>2, <2>1, HeldIsNamed, StaleIsSeen
      <4>4. run[p].to - Margin <= head - Margin /\ run[p].to - Margin \in Int
              /\ head - Margin \in Int
        BY <1>1, <1>3, Numbers DEF Placed
      <4> QED
        BY <1>3, <4>3, <4>4, NamedEarlier
    <3> QED
      BY <3>1, <3>2
  <2>2. \A r \in DOMAIN run'[p].read : Named(r, run[p].from)
    BY <1>1, <1>3, <1>7 DEF NamedRows
  <2> QED
    BY <1>1, <1>6, <2>1, <2>2 DEF NamedRows
<1>9. Whole(p)'
  BY <1>1, <1>2 DEF Whole, Pending
<1>10. Fresh(p)'
  BY <1>1, <1>2, <1>3, <1>7 DEF Fresh, Had
<1>11. Timely(p)' /\ Located(p)'
  BY <1>1, <1>3 DEF Timely, Located
<1> QED
  BY <1>1, <1>4, <1>5, <1>8, <1>9, <1>10, <1>11, KeepsRereadInv DEF RunInv

LEMMA RereadByWriteStatus ==
    ASSUME MarginSuffices, TypeInv, RereadInv, NEW p \in Processes, WriteStatus(p)
    PROVE  RereadInv'
<1>1. /\ Others(p) /\ pc[p] \in {"ready", "writing"} /\ pc'[p] = "idle"
      /\ kind' = kind /\ UNCHANGED <<chainVars, farms, since, lost>>
      /\ cursor' = run[p].to /\ Stored(p, Pending(p))
  BY WriteStatusStep
<1>2. /\ head' = head /\ balance' = balance /\ silent' = silent
      /\ Steady /\ Timely(p) /\ Fresh(p) /\ Whole(p) /\ NamedRows(p)
      /\ head \in Nat /\ Placed(pc[p], run[p])
  BY <1>1 DEF chainVars, RereadInv, RunInv, TypeInv, TypeOK
<1>3. Pending(p) \in SUBSET Pending(p) /\ Pending(p) \ Pending(p) = {}
  OBVIOUS
<1>4. Covered /\ \A r \in Rows \ DOMAIN run[p].read : Stale(r)' => Stale(r)
  BY <1>1, <1>3, WriteCovers
<1>5. ASSUME NEW r \in Rows, Stale(r)' PROVE Named(r, run[p].to - Margin)
  <2>1. CASE r \notin DOMAIN run[p].read
    BY <1>1, <1>2, <1>4, <1>5, <2>1 DEF NamedRows
  <2>2. CASE r \in DOMAIN run[p].read
    <3>1. db'[r] = run[p].read[r]
      BY <1>1, <1>2, <1>3, <2>2, StoredRows
    <3>2. run[p].read[r] # balance[r][head]
      BY <1>2, <1>5, <3>1 DEF Stale
    <3>3. Named(r, head - Margin)
      BY <1>1, <1>2, <2>2, <3>2, <1>5, HeldIsNamed, StaleIsSeen
    <3>4. run[p].to - Margin <= head - Margin /\ run[p].to - Margin \in Int
            /\ head - Margin \in Int
      BY <1>1, <1>2, Numbers DEF Placed
    <3> QED
      BY <1>2, <3>3, <3>4, NamedEarlier
  <2> QED
    BY <2>1, <2>2
<1>6. Saved'
  <2>1. \A r, n : Named(r, n) => Named(r, n)'
    BY <1>1, <1>2 DEF Named, Event, Changed
  <2> QED
    BY <1>1, <1>5, <2>1 DEF Saved
<1> QED
  BY <1>1, <1>4, <1>6, IdleInv, KeepsRereadInv

LEMMA RereadByInitWrite ==
    ASSUME MarginSuffices, TypeInv, RereadInv, NEW p \in Processes, InitWrite(p)
    PROVE  RereadInv'
<1>1. /\ Others(p) /\ pc[p] = "shares" /\ pc'[p] = "idle"
      /\ kind' = kind /\ UNCHANGED <<chainVars, farms>>
      /\ db' = run[p].read /\ DOMAIN run[p].read = Rows
      /\ cursor' \in 0 .. head
  BY InitWriteStep
<1>2. /\ head' = head /\ balance' = balance /\ silent' = silent /\ Steady /\ Timely(p) /\ Fresh(p) /\ head \in Nat
  BY <1>1 DEF chainVars, RereadInv, RunInv, TypeInv, TypeOK
<1>3. ASSUME NEW r \in Rows, Stale(r)' PROVE Named(r, head - Margin)
  <2>1. run[p].read[r] # balance[r][head]
    BY <1>1, <1>2, <1>3 DEF Stale
  <2> QED
    BY <1>1, <1>2, <2>1, <1>3, HeldIsNamed, StaleIsSeen
<1>4. Covered
  BY <1>3 DEF Covered
<1>5. Saved'
  <2>1. cursor' - Margin <= head - Margin /\ cursor' - Margin \in Int /\ head - Margin \in Int
    <3>1. cursor' \in 0 .. head /\ head \in Nat /\ Margin \in Nat
      BY <1>1, <1>2, Numbers
    <3>2. cursor' \in Int /\ head \in Int /\ cursor' <= head
      BY <3>1
    <3> QED
      BY <3>1, <3>2, Shifted
  <2>2. \A r \in Rows : Stale(r)' => Named(r, cursor' - Margin)
    BY <1>2, <1>3, <2>1, NamedEarlier
  <2>3. \A r, n : Named(r, n) => Named(r, n)'
    BY <1>1, <1>2 DEF Named, Event, Changed
  <2> QED
    BY <2>2, <2>3 DEF Saved
<1> QED
  BY <1>1, <1>4, <1>5, IdleInv, KeepsRereadInv

LEMMA RereadByWriteUser ==
    ASSUME MarginSuffices, TypeInv, RereadInv, NEW p \in Processes, WriteUser(p)
    PROVE  RereadInv'
<1>1. /\ Others(p) /\ pc[p] = "user" /\ pc'[p] = "idle"
      /\ kind' = kind /\ UNCHANGED <<chainVars, farms, since, cursor, lost>>
      /\ \A r \in Rows : db'[r] = IF r \in DOMAIN run[p].read
                                  THEN run[p].read[r] ELSE db[r]
  BY WriteUserStep
<1>2. /\ head' = head /\ balance' = balance /\ silent' = silent /\ Steady /\ Timely(p) /\ Fresh(p) /\ Saved
  BY <1>1 DEF chainVars, RereadInv, RunInv
<1>3. ASSUME NEW r \in Rows, Stale(r)' PROVE Stale(r) \/ Named(r, head - Margin)
  <2>1. CASE r \in DOMAIN run[p].read
    <3>1. run[p].read[r] # balance[r][head]
      BY <1>1, <1>2, <1>3, <2>1 DEF Stale
    <3> QED
      BY <1>1, <1>2, <2>1, <3>1, <1>3, HeldIsNamed, StaleIsSeen
  <2>2. CASE r \notin DOMAIN run[p].read
    <3>1. ASSUME NEW q \in Processes PROVE r \notin Missing(q)
      <4>1. CASE q = p
        BY <1>1, <4>1 DEF Missing
      <4>2. CASE q # p
        <5>1. Missing(q)' = Missing(q)
          BY <1>1, <4>2 DEF Missing, Others
        <5> QED
          BY <1>3, <5>1 DEF Stale
      <4> QED
        BY <4>1, <4>2
    <3>2. /\ kind = "gauge" => FarmOf(r) \in farms
          /\ since[FarmOf(r)] = AtStart \/ Named(r, since[FarmOf(r)] + 1)
          /\ UserOf(r) \notin lost
      BY <1>1, <1>2, <1>3 DEF Stale, Named, Event, Changed
    <3>3. db[r] # balance[r][head]
      BY <1>1, <1>2, <1>3, <2>2 DEF Stale
    <3>4. ~Hidden(r)
      BY <1>1, <1>3, StaleIsSeen
    <3> QED
      BY <3>1, <3>2, <3>3, <3>4 DEF Stale
  <2> QED
    BY <2>1, <2>2
<1>4. Covered
  BY <1>3 DEF Covered
<1>5. Saved'
  BY <1>1, <1>2, <1>4, KeepsSaved
<1> QED
  BY <1>1, <1>4, <1>5, IdleInv, KeepsRereadInv

\* A sync that fails between its transactions: the rows it has deleted are read again, or
\* their users are lost.
LEMMA RereadByAbort ==
    ASSUME MarginSuffices, TypeInv, RereadInv, NEW p \in Processes, Abort(p)
    PROVE  RereadInv'
<1>1. /\ TypeInv' /\ Others(p) /\ pc[p] # "idle" /\ pc'[p] = "idle"
      /\ kind' = kind /\ UNCHANGED <<chainVars, dbVars>>
      /\ lost \subseteq lost'
      /\ \/ {UserOf(r) : r \in Missing(p)} \subseteq lost'
         \/ /\ cursor = run[p].from + Margin
            /\ \A q \in Processes \ {p} : pc[q] = "idle"
  BY AbortStep
<1>2. /\ head' = head /\ balance' = balance /\ silent' = silent /\ cursor' = cursor /\ db' = db
      /\ farms' = farms /\ since' = since /\ Saved /\ NamedRows(p)
      /\ run[p].from \in Int /\ head \in Nat
  BY <1>1 DEF chainVars, dbVars, RereadInv, RunInv, TypeInv, TypeOK
<1>3. ASSUME NEW r \in Rows, Stale(r)', r \notin Missing(p) PROVE Stale(r)
  <2>1. ASSUME NEW q \in Processes PROVE r \notin Missing(q)
    <3>1. CASE q = p
      BY <1>3, <3>1
    <3>2. CASE q # p
      <4>1. Missing(q)' = Missing(q)
        BY <1>1, <3>2 DEF Missing, Others
      <4> QED
        BY <1>3, <4>1 DEF Stale
    <3> QED
      BY <3>1, <3>2
  <2>2. /\ kind = "gauge" => FarmOf(r) \in farms
        /\ since[FarmOf(r)] = AtStart \/ Named(r, since[FarmOf(r)] + 1)
        /\ UserOf(r) \notin lost /\ ~Hidden(r) /\ db[r] # balance[r][head]
    BY <1>1, <1>2, <1>3 DEF Stale, Hidden, Named, Event, Changed
  <2> QED
    BY <2>1, <2>2 DEF Stale
<1>4. CASE {UserOf(r) : r \in Missing(p)} \subseteq lost'
  <2>1. Covered
    BY <1>3, <1>4 DEF Covered, Stale
  <2>2. Saved'
    BY <1>1, <1>2, <2>1, KeepsSaved
  <2> QED
    BY <1>1, <2>1, <2>2, IdleInv, KeepsRereadInv
<1>5. CASE /\ cursor = run[p].from + Margin
           /\ \A q \in Processes \ {p} : pc[q] = "idle"
  <2>1. Saved'
    <3> SUFFICES ASSUME cursor # NoStatus, NEW r \in Rows, Stale(r)'
                 PROVE  Named(r, cursor - Margin)'
      BY <1>2 DEF Saved
    <3>1. Named(r, cursor - Margin)
      <4>1. CASE r \notin Missing(p)
        BY <1>2, <1>3, <4>1 DEF Saved
      <4>2. CASE r \in Missing(p)
        <5>1. cursor - Margin = run[p].from
          BY <1>2, <1>5, Numbers
        <5> QED
          BY <1>2, <4>2, <5>1 DEF Missing, NamedRows
      <4> QED
        BY <4>1, <4>2
    <3> QED
      BY <1>1, <1>2, <3>1 DEF Named, Event, Changed
  <2>2. ASSUME NEW q \in Processes PROVE RunInv(q)'
    <3>1. pc'[q] = "idle"
      BY <1>1, <1>5 DEF Others
    <3> QED
      BY <3>1, IdleInv
  <2>3. Steady'
    BY <1>2 DEF RereadInv, Steady
  <2> QED
    BY <2>1, <2>2, <2>3 DEF RereadInv
<1> QED
  BY <1>1, <1>4, <1>5

LEMMA RereadByFarms ==
    ASSUME TypeInv, RereadInv, AddFarm \/ DeleteStaking
    PROVE  RereadInv'
<1>1. /\ kind' = kind /\ UNCHANGED <<chainVars, cursor, pc, run, lost>>
      /\ \/ db' = db /\ farms' = farms /\ since' = since
         \/ /\ db' = db /\ kind # "gauge" /\ since' = since
         \/ /\ db' = db /\ kind = "gauge"
            /\ \E f \in Farms \ farms : farms' = farms \cup {f}
                                        /\ since' = [since EXCEPT ![f] = head]
         \/ \A f \in Farms : since'[f] = head
  BY FarmsStep
<1>2. /\ head' = head /\ balance' = balance /\ silent' = silent /\ pc' = pc /\ run' = run /\ lost' = lost
      /\ head \in Nat /\ since \in [Farms -> -1 .. head]
  BY <1>1 DEF chainVars, TypeInv, TypeOK
<1>3. \A r, n : Named(r, n)' <=> Named(r, n)
  BY <1>1, <1>2 DEF Named, Event, Changed
<1>4. \A r : ~Named(r, head + 1) /\ head # AtStart
  BY <1>2 DEF Named, AtStart
<1>5. ASSUME NEW r \in Rows, Stale(r)' PROVE Stale(r)
  <2>1. \A p \in Processes : r \notin Missing(p)
    BY <1>1, <1>2, <1>5 DEF Stale, Missing
  <2>2. /\ kind = "gauge" => FarmOf(r) \in farms'
        /\ since'[FarmOf(r)] = AtStart \/ Named(r, since'[FarmOf(r)] + 1)
        /\ UserOf(r) \notin lost /\ ~Hidden(r) /\ db'[r] # balance[r][head]
    BY <1>1, <1>2, <1>3, <1>5 DEF Stale, Hidden
  <2>3. FarmOf(r) \in Farms
    BY RowsFacts
  <2>4. since'[FarmOf(r)] # head
    BY <1>4, <2>2
  <2>5. db' = db /\ since'[FarmOf(r)] = since[FarmOf(r)]
          /\ (kind = "gauge" => FarmOf(r) \in farms)
    BY <1>1, <1>2, <2>2, <2>3, <2>4
  <2> QED
    BY <2>1, <2>2, <2>5 DEF Stale
<1>6. Covered
  BY <1>5 DEF Covered
<1>7. Saved'
  BY <1>1, <1>6, KeepsSaved DEF RereadInv
<1>8. ASSUME NEW q \in Processes PROVE RunInv(q)'
  BY <1>1, <1>2, <1>6, KeepsOther DEF RereadInv
<1>9. Steady'
  BY <1>2 DEF RereadInv, Steady
<1> QED
  BY <1>7, <1>8, <1>9 DEF RereadInv

\* A new block leaves a balance as it was, or has an event of its own.
LEMMA SteadyBlock ==
    ASSUME TypeInv, Steady, NewBlock
    PROVE  Steady'
<1>1. head \in Nat /\ head' = head + 1
      /\ \A r \in Rows : \A b \in 0 .. head : balance'[r][b] = balance[r][b]
  BY ChainStep DEF TypeInv, TypeOK
<1> SUFFICES ASSUME NEW r \in Rows, NEW a \in 0 .. head', NEW b \in 0 .. head', a <= b,
                    \A c \in a + 1 .. b : balance'[r][c] = balance'[r][c - 1]
             PROVE  balance'[r][a] = balance'[r][b]
  BY Zenon DEF Steady
<1>2. ASSUME NEW d \in 0 .. head, a <= d, d <= b
      PROVE  balance'[r][a] = balance'[r][d]
  <2>1. a \in 0 .. head
    BY <1>1, <1>2
  <2>2. \A c \in a + 1 .. d : c \in a + 1 .. b /\ c \in 0 .. head /\ c - 1 \in 0 .. head
    BY <1>1, <1>2
  <2>3. \A c \in a + 1 .. d : balance[r][c] = balance[r][c - 1]
    BY <1>1, <2>2
  <2>4. balance[r][a] = balance[r][d]
    BY <1>2, <2>1, <2>3, Zenon DEF Steady
  <2> QED
    BY <1>1, <2>1, <2>4
<1>3. CASE b <= head
  BY <1>1, <1>2, <1>3
<1>4. CASE b = head + 1 /\ a <= head
  <2>1. balance'[r][b] = balance'[r][b - 1] /\ b - 1 = head
    BY <1>1, <1>4
  <2>2. balance'[r][a] = balance'[r][head]
    BY <1>1, <1>2, <1>4
  <2> QED
    BY <2>1, <2>2
<1> QED
  BY <1>1, <1>3, <1>4

LEMMA RereadByBlock ==
    ASSUME MarginSuffices, TypeInv, RereadInv, NewBlock
    PROVE  RereadInv'
<1>1. /\ kind' = kind /\ db' = db /\ farms' = farms /\ since' = since /\ cursor' = cursor
      /\ pc' = pc /\ run' = run /\ lost' = lost /\ head' = head + 1
      /\ \A r \in Rows : \A b \in 0 .. head : balance'[r][b] = balance[r][b]
      /\ \A b \in 0 .. head : \A u : <<b, u>> \in silent' <=> <<b, u>> \in silent
  BY ChainStep DEF dbVars
<1>2. /\ head \in Nat /\ cursor \in Int /\ cursor <= head
      /\ since \in [Farms -> -1 .. head] /\ \A p \in Processes : Placed(pc[p], run[p])
  BY DEF TypeInv, TypeOK, NoStatus
<1>3. ASSUME NEW r \in Rows, NEW b \in 0 .. head PROVE Event(r, b)' <=> Event(r, b)
  <2>1. \A x \in Rows : Changed(x, b)' <=> Changed(x, b)
    <3>1. b > 0 => b - 1 \in 0 .. head
      BY <1>2
    <3> QED
      BY <1>1, <3>1 DEF Changed
  <2>2. CASE kind = "reliquary"
    <3>1. \A f \in Farms : Changed(<<f, UserOf(r)>>, b)' <=> Changed(<<f, UserOf(r)>>, b)
      BY <2>1, RowsFacts
    <3>2. <<b, UserOf(r)>> \in silent' <=> <<b, UserOf(r)>> \in silent
      BY <1>1
    <3> QED
      BY <1>1, <2>2, <3>1, <3>2, Zenon DEF Event
  <2>3. CASE kind # "reliquary"
    BY <1>1, <2>1, <2>3 DEF Event
  <2> QED
    BY <2>2, <2>3
<1> DEFINE Now(r, n) == \E b \in 0 .. head' : b >= n /\ Event(r, b)'
<1>4. ASSUME NEW r \in Rows, NEW n \in Int
      PROVE  /\ Named(r, n) => Now(r, n)
             /\ Now(r, n) => Named(r, n) \/ Event(r, head)'
             /\ Event(r, head)' /\ n <= head + 1 => Now(r, n)
  <2>1. \A b : b \in 0 .. head' <=> b \in 0 .. head \/ b = head + 1
    BY <1>1, <1>2
  <2> QED
    BY <1>1, <1>2, <1>3, <2>1 DEF Named
\* A row that is stale now was so before, or is named by the new block.
<1>5. ASSUME NEW r \in Rows, Stale(r)', ~Event(r, head)'
      PROVE  Stale(r)
  <2>1. FarmOf(r) \in Farms /\ since[FarmOf(r)] + 1 \in Int
    BY <1>2, RowsFacts
  <2>2. since[FarmOf(r)] = AtStart \/ Named(r, since[FarmOf(r)] + 1)
    <3>1. since[FarmOf(r)] = AtStart \/ Now(r, since[FarmOf(r)] + 1)
      BY <1>1, <1>5 DEF Stale, Named
    <3> HIDE DEF Now
    <3> QED
      BY <1>4, <1>5, <2>1, <3>1
  <2>3. balance'[r][head + 1] = balance'[r][head]
    <3>1. ~Changed(r, head)'
      <4> SUFFICES ASSUME Changed(r, head)' PROVE FALSE
        OBVIOUS
      <4>1. Event(r, head)' \/ <<head', UserOf(r)>> \in silent'
        BY RowsFacts DEF Event
      <4>2. ~Named(r, head + 1)' /\ head' \in 1 .. head'
        BY <1>1, <1>2 DEF Named
      <4> QED
        BY <1>5, <4>1, <4>2 DEF Stale, Hidden
    <3> QED
      BY <1>1, <1>2, <3>1 DEF Changed
  <2>4. balance'[r][head] = balance[r][head]
    BY <1>1, <1>2
  <2>5. db[r] # balance[r][head]
    BY <1>1, <1>5, <2>3, <2>4 DEF Stale
  <2>6. \A p \in Processes : r \notin Missing(p)
    BY <1>1, <1>5 DEF Stale, Missing
  <2>7. ASSUME Hidden(r) PROVE FALSE
    <3>1. PICK b \in 1 .. head : <<b, UserOf(r)>> \in silent /\ ~Named(r, b + 1)
      BY <2>7 DEF Hidden
    <3>2. b \in 0 .. head /\ b \in 1 .. head' /\ b + 1 \in Int
      BY <1>1, <1>2
    <3>3. <<b, UserOf(r)>> \in silent'
      BY <1>1, <3>1, <3>2
    <3>4. ~Now(r, b + 1)
      <4> HIDE DEF Now
      <4> QED
        BY <1>4, <1>5, <3>1, <3>2
    <3>5. ~Named(r, b + 1)'
      BY <3>4 DEF Named
    <3>6. Hidden(r)'
      BY <3>2, <3>3, <3>5 DEF Hidden
    <3> QED
      BY <1>5, <3>6 DEF Stale
  <2>8. /\ kind = "gauge" => FarmOf(r) \in farms
        /\ UserOf(r) \notin lost
    BY <1>1, <1>5 DEF Stale
  <2> HIDE DEF Now
  <2> QED
    BY <2>2, <2>5, <2>6, <2>7, <2>8 DEF Stale
<1>6. Saved'
  <2> SUFFICES ASSUME cursor # NoStatus, NEW r \in Rows, Stale(r)'
               PROVE  Now(r, cursor - Margin)
    BY <1>1 DEF Saved, Named
  <2>1. cursor - Margin \in Int /\ cursor - Margin <= head + 1
    BY <1>2, Numbers
  <2> HIDE DEF Now
  <2> QED
    BY <1>4, <1>5, <2>1 DEF RereadInv, Saved
<1>7. ASSUME NEW p \in Processes PROVE RunInv(p)'
  <2>1. Timely(p) /\ Located(p) /\ NamedRows(p) /\ Whole(p) /\ Fresh(p)
    BY DEF RereadInv, RunInv
  <2>2. run[p].begun \in 0 .. head /\ DOMAIN run[p].read \subseteq Rows
    BY DEF TypeInv, TypeOK
  <2>3. Timely(p)'
    <3>1. pc[p] # "idle" => head < run[p].begun + Delay
      BY DEF NewBlock, InTime
    <3> QED
      BY <1>1, <1>2, <2>2, <3>1, Numbers DEF Timely
  <2>4. Located(p)'
    <3> SUFFICES ASSUME pc[p] = "located", NEW r \in Rows, Stale(r)'
                 PROVE  Now(r, run[p].from)
      BY <1>1 DEF Located, Named
    <3>1. run[p].from \in Int /\ run[p].from <= head + 1
      BY <1>2, Numbers DEF Placed
    <3> HIDE DEF Now
    <3> QED
      BY <1>4, <1>5, <2>1, <3>1 DEF Located
  <2>5. NamedRows(p)'
    <3>1. ASSUME pc[p] \in {"named", "ready", "writing"}
          PROVE  /\ run[p].from \in Int /\ run[p].to - Margin \in Int
                 /\ run[p].to - Margin <= head + 1
      <4>1. run[p].from \in -Margin .. head - Margin /\ run[p].to \in 0 .. head
        BY <1>2, <3>1 DEF Placed
      <4> QED
        BY <1>2, <4>1, Numbers
    <3>2. ASSUME pc[p] \in {"named", "ready", "writing"}, NEW r \in DOMAIN run[p].read
          PROVE  Now(r, run[p].from)
      <4> HIDE DEF Now
      <4> QED
        BY <1>4, <2>1, <2>2, <3>1, <3>2 DEF NamedRows
    <3>3. ASSUME pc[p] \in {"named", "ready", "writing"}, NEW r \in Rows \ DOMAIN run[p].read,
                 Stale(r)'
          PROVE  Now(r, run[p].to - Margin)
      <4> HIDE DEF Now
      <4> QED
        BY <1>4, <1>5, <2>1, <3>1, <3>3 DEF NamedRows
    <3> QED
      BY <1>1, <3>2, <3>3 DEF NamedRows, Named
  <2>6. Whole(p)'
    BY <1>1, <2>1 DEF Whole
  <2>7. Fresh(p)'
    <3> SUFFICES ASSUME pc[p] \in {"ready", "writing", "shares", "user"},
                        NEW r \in DOMAIN run[p].read
                 PROVE  \E b \in 0 .. head' : b >= run[p].begun - Lag
                                              /\ run[p].read[r] = balance'[r][b]
      BY <1>1 DEF Fresh, Had
    <3>1. PICK b \in 0 .. head : b >= run[p].begun - Lag /\ run[p].read[r] = balance[r][b]
      BY <2>1 DEF Fresh, Had
    <3>2. b \in 0 .. head' /\ balance'[r][b] = balance[r][b]
      BY <1>1, <1>2, <2>2
    <3> QED
      BY <3>1, <3>2
  <2> QED
    BY <2>3, <2>4, <2>5, <2>6, <2>7 DEF RunInv
<1>8. Steady'
  BY SteadyBlock DEF RereadInv
<1> QED
  BY <1>6, <1>7, <1>8 DEF RereadInv

LEMMA RereadInit == Init => RereadInv
<1> SUFFICES ASSUME Init PROVE RereadInv
  OBVIOUS
<1>1. head = 0 /\ 0 .. head = {0} /\ cursor = NoStatus /\ \A p \in Processes : pc[p] = "idle"
  BY DEF Init
<1>2. Steady
  BY <1>1 DEF Steady
<1>3. \A p \in Processes : RunInv(p)
  BY <1>1 DEF RunInv, Timely, Located, NamedRows, Whole, Fresh
<1> QED
  BY <1>1, <1>2, <1>3 DEF RereadInv, Saved

LEMMA RereadStep == MarginSuffices /\ TypeInv /\ RereadInv /\ [Next]_vars => RereadInv'
<1> SUFFICES ASSUME MarginSuffices, TypeInv, RereadInv, [Next]_vars PROVE RereadInv'
  OBVIOUS
<1>1. CASE NewBlock
  BY <1>1, RereadByBlock
<1>2. CASE AddFarm \/ DeleteStaking
  BY <1>2, RereadByFarms
<1>3. ASSUME NEW p \in Processes,
             \/ ReadStatus(p) \/ ReadLogs(p) \/ ReadBalances(p) \/ WriteChunk(p)
             \/ WriteStatus(p)
      PROVE  RereadInv'
  BY <1>3, RereadByReadStatus, RereadByReadLogs, RereadByReadBalances, RereadByWriteChunk,
     RereadByWriteStatus
<1>4. ASSUME NEW p \in Processes,
             InitRead(p) \/ InitWrite(p) \/ ReadUser(p) \/ WriteUser(p) \/ Abort(p)
      PROVE  RereadInv'
  BY <1>4, RereadByMutation, RereadByInitWrite, RereadByWriteUser, RereadByAbort
<1>5. CASE UNCHANGED vars
  <2>1. /\ kind' = kind /\ head' = head /\ balance' = balance /\ silent' = silent /\ farms' = farms
        /\ since' = since /\ db' = db /\ cursor' = cursor /\ pc' = pc /\ run' = run
        /\ lost' = lost
    BY <1>5 DEF vars, chainVars, dbVars
  <2>2. Covered
    BY <2>1 DEF Covered, Stale, Hidden, Missing, Named, Event, Changed
  <2>3. Saved'
    BY <2>1, <2>2, KeepsSaved DEF RereadInv, chainVars
  <2>4. \A q \in Processes : RunInv(q)'
    BY <2>1, <2>2, KeepsOther DEF RereadInv, chainVars
  <2>5. Steady'
    BY <2>1 DEF RereadInv, Steady
  <2> QED
    BY <2>3, <2>4, <2>5 DEF RereadInv
<1> QED
  BY <1>1, <1>2, <1>3, <1>4, <1>5 DEF Next

\* What the invariant says of the stored balances.
LEMMA RereadIsStaleIsReread == TypeInv /\ RereadInv => StaleIsReread
<1> SUFFICES ASSUME TypeInv, RereadInv, NEW r \in Rows, Behind(r), ~Incomplete(r), ~Unseen(r)
             PROVE  Touched(r, cursor - Margin .. head)
  BY DEF StaleIsReread, Reread
<1>1. /\ head \in Nat /\ cursor - Margin \in Int
      /\ FarmOf(r) \in Farms /\ since[FarmOf(r)] + 1 \in Int
  BY Numbers, RowsFacts DEF TypeInv, TypeOK, NoStatus, Behind
<1>2. since[FarmOf(r)] = AtStart \/ Named(r, since[FarmOf(r)] + 1)
  BY <1>1, TouchedNamed DEF Behind, Followed
<1>3. Stale(r)
  BY <1>1, <1>2, UnseenHidden DEF Stale, Behind, Followed, Incomplete
<1>4. Named(r, cursor - Margin)
  BY <1>3 DEF RereadInv, Saved, Behind
<1> QED
  BY <1>1, <1>4, TouchedNamed

(* A stored balance that is not the chain's is named by an event that the next sync reads, *)
(* for any users, farms and overlapping runs, for nodes that are behind, transactions of   *)
(* several chunks, failures between them, and mutations in between: as long as the margin  *)
(* covers the blocks a run may see and the lag of the nodes together, less one. It is      *)
(* about users all of whose changes have been named by an event (a later one is enough),   *)
(* and whom no sync has passed over: a Reliquary sync by an error of ownerOf, or a gauge   *)
(* sync by a block that its retries have left out.                                         *)
THEOREM StaleIsRereadCorrect ==
    ASSUME MarginSuffices
    PROVE  Spec => []StaleIsReread
<1>1. TypeInv /\ RereadInv /\ [Next]_vars => RereadInv'
  BY RereadStep
<1>2. RangeSuffices
  BY DEF MarginSuffices
<1>3. Spec => []TypeInv
  BY <1>2, TypeInvCorrect
<1> QED
  BY <1>1, <1>3, RereadInit, RereadIsStaleIsReread, PTL DEF Spec
=============================================================================
