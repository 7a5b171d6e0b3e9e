------------------------- MODULE BptBalances_proofs -------------------------
(***************************************************************************)
(* Proofs about the copy of the wallet balances: its types, that no stored *)
(* balance gets older than what the next sync reads again, and that a pool *)
(* that is added starts with all its balances.                             *)
(***************************************************************************)
EXTENDS BptBalances, TLAPS

Reads == UNION {[S -> Amounts] : S \in SUBSET Rows}

Locals == [kind : {"none", "sync", "init", "user"}, pools : SUBSET Pools,
           begun : Int, end : Int, from : Int, read : Reads]

TypeInv == TypeOK /\ run \in [Processes -> Locals]

\* What TypeOK says of the locals of one run.
Fits(l) == l.pools \subseteq known /\ l.begun \in 0 .. head /\ l.end \in 0 .. head

-----------------------------------------------------------------------------
(***************************************************************************)
(* Types.                                                                  *)
(***************************************************************************)

LEMMA ReadsHave == ASSUME NEW f \in Reads
                   PROVE  DOMAIN f \subseteq Rows /\ \A r \in DOMAIN f : f[r] \in Amounts
  BY Zenon DEF Reads

LEMMA ReadsMade == ASSUME NEW S \in SUBSET Rows, NEW f \in [S -> Amounts]
                   PROVE  f \in Reads
  BY Zenon DEF Reads

LEMMA NoRunTyped == NoRun \in Locals
<1>1. [r \in {} |-> 0] \in [{} -> Amounts]
  OBVIOUS
<1>2. [r \in {} |-> 0] \in Reads
  BY <1>1, ReadsMade
<1> QED
  BY <1>2 DEF NoRun, Locals

\* A step that changes the locals of one run, or none, and whatever else keeps its type.
LEMMA RunsTyped ==
    ASSUME TypeInv, NEW p \in Processes, NEW l \in Locals,
           run' = [run EXCEPT ![p] = l],
           head' = head, known \subseteq known',
           l.pools \subseteq known', l.begun \in 0 .. head, l.end \in 0 .. head
    PROVE  /\ run' \in [Processes -> Locals]
           /\ \A q \in Processes :
                /\ run'[q].kind \in {"none", "sync", "init", "user"}
                /\ run'[q].pools \subseteq known'
                /\ run'[q].begun \in 0 .. head'
                /\ run'[q].end \in 0 .. head'
                /\ run'[q].from \in Int
                /\ DOMAIN run'[q].read \subseteq Rows
                /\ \A r \in DOMAIN run'[q].read : run'[q].read[r] \in Amounts
<1>1. run \in [Processes -> Locals]
  BY DEF TypeInv
<1>2. run' \in [Processes -> Locals]
  BY <1>1
<1>3. \A q \in Processes : run'[q] = IF q = p THEN l ELSE run[q]
  BY <1>1
<1>4. SUFFICES ASSUME NEW q \in Processes
               PROVE  /\ run'[q].pools \subseteq known'
                      /\ run'[q].begun \in 0 .. head'
                      /\ run'[q].end \in 0 .. head'
  <2> SUFFICES ASSUME NEW q \in Processes
               PROVE  /\ run'[q].kind \in {"none", "sync", "init", "user"}
                      /\ run'[q].from \in Int
                      /\ DOMAIN run'[q].read \subseteq Rows
                      /\ \A r \in DOMAIN run'[q].read : run'[q].read[r] \in Amounts
    BY <1>2, <1>4
  <2>1. run'[q] \in Locals
    BY <1>2
  <2>2. run'[q].read \in Reads /\ run'[q].kind \in {"none", "sync", "init", "user"}
            /\ run'[q].from \in Int
    BY <2>1 DEF Locals
  <2> QED
    BY <2>2, ReadsHave
<1>5. CASE q = p
  BY <1>3, <1>5
<1>6. CASE q # p
  BY <1>3, <1>6 DEF TypeInv, TypeOK
<1> QED
  BY <1>5, <1>6

LEMMA WithEnd ==
    ASSUME NEW l \in Locals, NEW x \in Int, NEW m, m = [l EXCEPT !.end = x]
    PROVE  /\ m \in Locals
           /\ m.kind = l.kind /\ m.pools = l.pools /\ m.begun = l.begun
           /\ m.end = x /\ m.from = l.from /\ m.read = l.read
<1>1. m \in Locals
  BY Zenon DEF Locals
<1> QED
  BY <1>1 DEF Locals

LEMMA WithFrom ==
    ASSUME NEW l \in Locals, NEW x \in Int, NEW m, m = [l EXCEPT !.from = x]
    PROVE  /\ m \in Locals
           /\ m.kind = l.kind /\ m.pools = l.pools /\ m.begun = l.begun
           /\ m.end = l.end /\ m.from = x /\ m.read = l.read
<1>1. m \in Locals
  BY Zenon DEF Locals
<1> QED
  BY <1>1 DEF Locals

LEMMA WithRead ==
    ASSUME NEW l \in Locals, NEW x \in Reads, NEW m, m = [l EXCEPT !.read = x]
    PROVE  /\ m \in Locals
           /\ m.kind = l.kind /\ m.pools = l.pools /\ m.begun = l.begun
           /\ m.end = l.end /\ m.from = l.from /\ m.read = x
<1>1. m \in Locals
  BY Zenon DEF Locals
<1> QED
  BY <1>1 DEF Locals

\* The balances that a run has read.
LEMMA SharesTyped ==
    ASSUME TypeInv, NEW S \in SUBSET Rows, NEW n \in [Rows -> 0 .. head]
    PROVE  [r \in S |-> balance[r][n[r]]] \in Reads
<1>1. \A r \in S : balance[r][n[r]] \in Amounts
  BY DEF TypeInv, TypeOK
<1>2. [r \in S |-> balance[r][n[r]]] \in [S -> Amounts]
  BY <1>1
<1> QED
  BY <1>2, ReadsMade

-----------------------------------------------------------------------------
(***************************************************************************)
(* What each step does to the types and to the locals of the runs.         *)
(***************************************************************************)

Steps == {"idle", "metadata", "cursor", "shares", "rpc", "rpcCursor", "logs", "commit"}

\* The other runs are where they were.
Others(p) == \A q \in Processes \ {p} : run'[q] = run[q] /\ pc'[q] = pc[q]

\* Run p goes to step c with locals l; what it stores has its type.
LEMMA Ran ==
    ASSUME TypeInv, NEW p \in Processes, NEW l \in Locals, NEW c \in Steps,
           pc' = [pc EXCEPT ![p] = c], run' = [run EXCEPT ![p] = l],
           l.pools \subseteq known', l.begun \in 0 .. head, l.end \in 0 .. head,
           UNCHANGED chainVars, known \subseteq known', known' \subseteq Pools,
           db' \in [Rows -> Amounts], cursor' \in 0 .. head, loaded' \in [Pools -> Int]
    PROVE  TypeInv' /\ Others(p) /\ run'[p] = l /\ pc'[p] = c
<1>1. head' = head /\ subgraph' = subgraph /\ balance' = balance
  BY DEF chainVars
<1>2. pc' \in [Processes -> Steps] /\ run \in [Processes -> Locals]
            /\ pc \in [Processes -> Steps]
  BY DEF TypeInv, TypeOK, Steps
<1>3. Others(p) /\ run'[p] = l /\ pc'[p] = c
  BY <1>2 DEF Others
<1>4. TypeInv'
  BY <1>1, <1>2, RunsTyped DEF TypeInv, TypeOK, Steps
<1> QED
  BY <1>3, <1>4

\* The same for a step that leaves the database alone.
LEMMA RanOn ==
    ASSUME TypeInv, NEW p \in Processes, NEW l \in Locals, NEW c \in Steps,
           pc' = [pc EXCEPT ![p] = c], run' = [run EXCEPT ![p] = l], Fits(l),
           UNCHANGED <<chainVars, dbVars>>
    PROVE  TypeInv' /\ Others(p) /\ run'[p] = l /\ pc'[p] = c
<1>1. /\ known' = known /\ known \subseteq Pools /\ head' = head
      /\ db' \in [Rows -> Amounts] /\ cursor' \in 0 .. head /\ loaded' \in [Pools -> Int]
  BY DEF chainVars, dbVars, TypeInv, TypeOK
<1> QED
  BY <1>1, Ran DEF Fits

LEMMA Returned ==
    ASSUME TypeInv, NEW p \in Processes, Return(p), UNCHANGED <<chainVars, dbVars>>
    PROVE  TypeInv' /\ Others(p) /\ pc'[p] = "idle"
<1>1. NoRun \in Locals /\ Fits(NoRun)
  BY NoRunTyped DEF NoRun, Fits, TypeInv, TypeOK
<1> QED
  BY <1>1, RanOn DEF Return, Steps

LEMMA BeginSyncStep ==
    ASSUME TypeInv, NEW p \in Processes, BeginSync(p)
    PROVE  /\ TypeInv' /\ Others(p)
           /\ pc'[p] = "metadata" /\ run'[p].kind = "sync"
           /\ run'[p].pools = known /\ run'[p].begun = head
<1> DEFINE l == [NoRun EXCEPT !.kind = "sync", !.pools = known, !.begun = head]
<1>1. known \in SUBSET Pools /\ head \in Nat
  BY DEF TypeInv, TypeOK
<1>2. /\ l \in Locals /\ l.kind = "sync" /\ l.pools = known /\ l.begun = head
      /\ l.end = 0
  <2>1. NoRun \in Locals /\ NoRun.end = 0 /\ head \in Int
    BY <1>1, NoRunTyped DEF NoRun
  <2>2. l \in Locals
    BY <1>1, <2>1, Zenon DEF Locals
  <2> QED
    BY <2>1, <2>2 DEF Locals
<1>3. Fits(l)
  BY <1>1, <1>2 DEF Fits
<1>4. /\ pc' = [pc EXCEPT ![p] = "metadata"] /\ run' = [run EXCEPT ![p] = l]
      /\ UNCHANGED <<chainVars, dbVars>>
  BY DEF BeginSync, Goto
<1> HIDE DEF l
<1> QED
  BY <1>2, <1>3, <1>4, RanOn DEF Steps

LEMMA BeginInitStep ==
    ASSUME TypeInv, NEW p \in Processes, BeginInit(p)
    PROVE  /\ TypeInv' /\ Others(p)
           /\ pc'[p] = "metadata" /\ run'[p].kind = "init"
           /\ run'[p].begun = head /\ run'[p].pools \cap known = {}
<1>1. PICK q \in Pools \ known :
        /\ known' = known \cup {q}
        /\ run' = [run EXCEPT ![p] = [NoRun EXCEPT
                    !.kind = "init", !.pools = {q}, !.begun = head]]
  BY DEF BeginInit
<1> DEFINE l == [NoRun EXCEPT !.kind = "init", !.pools = {q}, !.begun = head]
<1>2. known \in SUBSET Pools /\ head \in Nat /\ {q} \in SUBSET Pools
  BY DEF TypeInv, TypeOK
<1>3. /\ l \in Locals /\ l.kind = "init" /\ l.pools = {q} /\ l.begun = head
      /\ l.end = 0
  <2>1. NoRun \in Locals /\ NoRun.end = 0 /\ head \in Int
    BY <1>2, NoRunTyped DEF NoRun
  <2>2. l \in Locals
    BY <1>2, <2>1, Zenon DEF Locals
  <2> QED
    BY <2>1, <2>2 DEF Locals
<1>4. /\ pc' = [pc EXCEPT ![p] = "metadata"]
      /\ UNCHANGED <<chainVars, db, cursor, loaded>>
  BY DEF BeginInit, Goto
<1>5. l.pools \subseteq known' /\ l.begun \in 0 .. head /\ l.end \in 0 .. head
  <2> HIDE DEF l
  <2> QED
    BY <1>1, <1>2, <1>3
<1>6. run' = [run EXCEPT ![p] = l]
  BY <1>1
<1>7. db' \in [Rows -> Amounts] /\ cursor' \in 0 .. head /\ loaded' \in [Pools -> Int]
            /\ known \subseteq known' /\ known' \subseteq Pools
  BY <1>1, <1>2, <1>4 DEF TypeInv, TypeOK
<1> HIDE DEF l
<1>8. TypeInv' /\ Others(p) /\ run'[p] = l /\ pc'[p] = "metadata"
  BY <1>3, <1>4, <1>5, <1>6, <1>7, Ran DEF Steps
<1> QED
  BY <1>3, <1>8

LEMMA MetadataStep ==
    ASSUME TypeInv, NEW p \in Processes, Metadata(p)
    PROVE  /\ TypeInv' /\ Others(p) /\ pc[p] = "metadata"
           /\ pc'[p] = "cursor" /\ run'[p].kind = run[p].kind
           /\ run'[p].pools = run[p].pools /\ run'[p].begun = run[p].begun
           /\ run'[p].end = subgraph
<1> DEFINE l == [run[p] EXCEPT !.end = subgraph]
<1>1. run[p] \in Locals /\ subgraph \in 0 .. head /\ head \in Nat /\ Fits(run[p])
  BY DEF TypeInv, TypeOK, Fits
<1>2. /\ l \in Locals /\ l.kind = run[p].kind /\ l.pools = run[p].pools
      /\ l.begun = run[p].begun /\ l.end = subgraph
  BY <1>1, WithEnd
<1>3. Fits(l)
  BY <1>1, <1>2 DEF Fits
<1>4. /\ pc[p] = "metadata" /\ pc' = [pc EXCEPT ![p] = "cursor"]
      /\ run' = [run EXCEPT ![p] = l] /\ UNCHANGED <<chainVars, dbVars>>
  BY DEF Metadata, Goto
<1> HIDE DEF l
<1> QED
  BY <1>2, <1>3, <1>4, RanOn DEF Steps

LEMMA ReadCursorStep ==
    ASSUME TypeInv, NEW p \in Processes, ReadCursor(p)
    PROVE  /\ TypeInv' /\ Others(p) /\ pc[p] = "cursor"
           /\ pc'[p] = "shares" /\ run'[p].kind = run[p].kind
           /\ run'[p].pools = run[p].pools /\ run'[p].begun = run[p].begun
           /\ run'[p].end = run[p].end /\ run'[p].from = SubgraphStart(p)
<1> DEFINE l == [run[p] EXCEPT !.from = SubgraphStart(p)]
<1>1. run[p] \in Locals /\ Fits(run[p])
  BY DEF TypeInv, TypeOK, Fits
<1>2. SubgraphStart(p) \in Int
  BY NumbersAssumption DEF TypeInv, TypeOK, SubgraphStart
<1>3. /\ l \in Locals /\ l.kind = run[p].kind /\ l.pools = run[p].pools
      /\ l.begun = run[p].begun /\ l.end = run[p].end /\ l.from = SubgraphStart(p)
  BY <1>1, <1>2, WithFrom
<1>4. Fits(l)
  BY <1>1, <1>3 DEF Fits
<1>5. /\ pc[p] = "cursor" /\ pc' = [pc EXCEPT ![p] = "shares"]
      /\ run' = [run EXCEPT ![p] = l] /\ UNCHANGED <<chainVars, dbVars>>
  BY DEF ReadCursor, Goto
<1> HIDE DEF l
<1> QED
  BY <1>3, <1>4, <1>5, RanOn DEF Steps

\* One of the two blocks at which a row may be read.
LEMMA ReadSharesStep ==
    ASSUME TypeInv, NEW p \in Processes, ReadShares(p)
    PROVE  /\ TypeInv' /\ Others(p) /\ pc[p] = "shares"
           /\ pc'[p] = "commit" /\ run'[p].kind = run[p].kind
           /\ run'[p].pools = run[p].pools /\ run'[p].begun = run[p].begun
           /\ run'[p].end = run[p].end
           /\ \E late \in SUBSET Rows :
                /\ DOMAIN run'[p].read
                        = (Changed(run[p].pools, run[p].from, run[p].end) \ late)
                            \cup (Changed(run[p].pools, run[p].from, subgraph) \cap late)
                /\ \A r \in DOMAIN run'[p].read :
                        run'[p].read[r] = balance[r][IF r \in late THEN subgraph ELSE run[p].end]
<1>1. run[p] \in Locals /\ Fits(run[p]) /\ subgraph \in 0 .. head
  BY DEF TypeInv, TypeOK, Fits
<1>2. PICK late \in SUBSET Rows :
        run' = [run EXCEPT ![p].read =
            [r \in (Changed(run[p].pools, run[p].from, run[p].end) \ late)
                        \cup (Changed(run[p].pools, run[p].from, subgraph) \cap late) |->
                    balance[r][IF r \in late THEN subgraph ELSE run[p].end]]]
  BY DEF ReadShares
<1> DEFINE S == (Changed(run[p].pools, run[p].from, run[p].end) \ late)
                    \cup (Changed(run[p].pools, run[p].from, subgraph) \cap late)
           n == [r \in Rows |-> IF r \in late THEN subgraph ELSE run[p].end]
           f == [r \in S |-> balance[r][IF r \in late THEN subgraph ELSE run[p].end]]
           l == [run[p] EXCEPT !.read = f]
<1>3. S \in SUBSET Rows
  BY DEF Changed
<1>4. n \in [Rows -> 0 .. head]
  BY <1>1 DEF Fits
<1>5. f = [r \in S |-> balance[r][n[r]]]
  BY <1>3
<1>6. f \in Reads
  <2> HIDE DEF S, n, f
  <2> QED
    BY <1>3, <1>4, <1>5, SharesTyped
<1>7. /\ l \in Locals /\ l.kind = run[p].kind /\ l.pools = run[p].pools
      /\ l.begun = run[p].begun /\ l.end = run[p].end /\ l.read = f
  <2> HIDE DEF f
  <2> QED
    BY <1>1, <1>6, WithRead
<1>8. /\ pc[p] = "shares" /\ pc' = [pc EXCEPT ![p] = "commit"]
      /\ run' = [run EXCEPT ![p] = l] /\ UNCHANGED <<chainVars, dbVars>>
  BY <1>2 DEF ReadShares, Goto
<1>9. DOMAIN f = S /\ \A r \in S : f[r] = balance[r][IF r \in late THEN subgraph ELSE run[p].end]
  OBVIOUS
<1>10. Fits(l)
  <2> HIDE DEF l
  <2> QED
    BY <1>1, <1>7 DEF Fits
<1>11. TypeInv' /\ Others(p) /\ run'[p] = l /\ pc'[p] = "commit"
  <2> HIDE DEF l
  <2> QED
    BY <1>7, <1>8, <1>10, RanOn DEF Steps
<1> HIDE DEF l, f, n
<1> QED
  BY <1>7, <1>8, <1>9, <1>11

LEMMA GiveUpSubgraphStep ==
    ASSUME TypeInv, NEW p \in Processes, GiveUpSubgraph(p)
    PROVE  /\ TypeInv' /\ Others(p) /\ pc[p] \in {"metadata", "cursor", "shares"}
           /\ \/ pc'[p] = "idle"
              \/ pc'[p] = "rpc" /\ run'[p] = run[p] /\ run[p].kind = "sync"
<1>1. CASE run[p].kind # "sync"
  <2>1. Return(p) /\ UNCHANGED <<chainVars, dbVars>>
    BY <1>1 DEF GiveUpSubgraph
  <2> QED
    BY <2>1, Returned DEF GiveUpSubgraph
<1>2. CASE run[p].kind = "sync"
  <2>1. /\ pc' = [pc EXCEPT ![p] = "rpc"] /\ run' = run
        /\ UNCHANGED <<chainVars, dbVars>>
    BY <1>2 DEF GiveUpSubgraph
  <2>2. run[p] \in Locals /\ Fits(run[p]) /\ run' = [run EXCEPT ![p] = run[p]]
    BY <2>1 DEF TypeInv, TypeOK, Fits
  <2> QED
    BY <1>2, <2>1, <2>2, RanOn DEF GiveUpSubgraph, Steps
<1> QED
  BY <1>1, <1>2

LEMMA RpcHeadStep ==
    ASSUME TypeInv, NEW p \in Processes, RpcHead(p)
    PROVE  /\ TypeInv' /\ Others(p) /\ pc[p] = "rpc"
           /\ pc'[p] = "rpcCursor" /\ run'[p].kind = run[p].kind
           /\ run'[p].pools = run[p].pools /\ run'[p].begun = run[p].begun
           /\ run'[p].end = head
<1> DEFINE l == [run[p] EXCEPT !.end = head]
<1>1. run[p] \in Locals /\ head \in Nat /\ Fits(run[p])
  BY DEF TypeInv, TypeOK, Fits
<1>2. /\ l \in Locals /\ l.kind = run[p].kind /\ l.pools = run[p].pools
      /\ l.begun = run[p].begun /\ l.end = head
  BY <1>1, WithEnd
<1>3. Fits(l)
  BY <1>1, <1>2 DEF Fits
<1>4. /\ pc[p] = "rpc" /\ pc' = [pc EXCEPT ![p] = "rpcCursor"]
      /\ run' = [run EXCEPT ![p] = l] /\ UNCHANGED <<chainVars, dbVars>>
  BY DEF RpcHead, Goto
<1> HIDE DEF l
<1> QED
  BY <1>2, <1>3, <1>4, RanOn DEF Steps

LEMMA RpcCursorStep ==
    ASSUME TypeInv, NEW p \in Processes, RpcCursor(p)
    PROVE  /\ TypeInv' /\ Others(p) /\ pc[p] = "rpcCursor"
           /\ \/ pc'[p] = "idle"
              \/ /\ pc'[p] = "logs" /\ run'[p].kind = run[p].kind
                 /\ run'[p].pools = run[p].pools /\ run'[p].begun = run[p].begun
                 /\ run'[p].end = run[p].end /\ run'[p].from = cursor - RpcMargin
                 /\ cursor # 0 /\ run'[p].from <= run[p].end
<1>1. CASE cursor = 0 \/ cursor - RpcMargin > run[p].end
  <2>1. Return(p) /\ UNCHANGED <<chainVars, dbVars>>
    BY <1>1 DEF RpcCursor
  <2> QED
    BY <2>1, Returned DEF RpcCursor
<1>2. CASE ~(cursor = 0 \/ cursor - RpcMargin > run[p].end)
  <2> DEFINE l == [run[p] EXCEPT !.from = cursor - RpcMargin]
  <2>1. run[p] \in Locals /\ Fits(run[p]) /\ cursor - RpcMargin \in Int
    BY NumbersAssumption DEF TypeInv, TypeOK, Fits
  <2>2. /\ l \in Locals /\ l.kind = run[p].kind /\ l.pools = run[p].pools
        /\ l.begun = run[p].begun /\ l.end = run[p].end /\ l.from = cursor - RpcMargin
    BY <2>1, WithFrom
  <2>3. Fits(l)
    BY <2>1, <2>2 DEF Fits
  <2>4. /\ pc[p] = "rpcCursor" /\ pc' = [pc EXCEPT ![p] = "logs"]
        /\ run' = [run EXCEPT ![p] = l] /\ UNCHANGED <<chainVars, dbVars>>
    BY <1>2 DEF RpcCursor
  <2>5. cursor # 0 /\ cursor - RpcMargin <= run[p].end
    BY <1>2, <2>1 DEF Fits, TypeInv, TypeOK
  <2> HIDE DEF l
  <2>6. TypeInv' /\ Others(p) /\ run'[p] = l /\ pc'[p] = "logs"
    BY <2>2, <2>3, <2>4, RanOn DEF Steps
  <2> QED
    BY <2>2, <2>4, <2>5, <2>6
<1> QED
  BY <1>1, <1>2

LEMMA ReadLogsStep ==
    ASSUME TypeInv, NEW p \in Processes, ReadLogs(p)
    PROVE  /\ TypeInv' /\ Others(p) /\ pc[p] = "logs"
           /\ pc'[p] = "commit" /\ run'[p].kind = run[p].kind
           /\ run'[p].pools = run[p].pools /\ run'[p].begun = run[p].begun
           /\ run'[p].end = run[p].end
           /\ DOMAIN run'[p].read
                    = IF run[p].from = ToBlock(p) THEN {}
                      ELSE Changed(run[p].pools, run[p].from, ToBlock(p))
           /\ \A r \in DOMAIN run'[p].read : run'[p].read[r] = balance[r][head]
<1> DEFINE S == IF run[p].from = ToBlock(p) THEN {}
                ELSE Changed(run[p].pools, run[p].from, ToBlock(p))
           n == [r \in Rows |-> head]
           f == [r \in S |-> balance[r][head]]
           l == [run[p] EXCEPT !.read = f]
<1>1. run[p] \in Locals /\ Fits(run[p]) /\ head \in Nat
  BY DEF TypeInv, TypeOK, Fits
<1>2. S \in SUBSET Rows
  BY DEF Changed
<1>3. n \in [Rows -> 0 .. head]
  BY <1>1
<1>4. f = [r \in S |-> balance[r][n[r]]]
  BY <1>2
<1>5. f \in Reads
  <2> HIDE DEF S, n, f
  <2> QED
    BY <1>2, <1>3, <1>4, SharesTyped
<1>6. /\ l \in Locals /\ l.kind = run[p].kind /\ l.pools = run[p].pools
      /\ l.begun = run[p].begun /\ l.end = run[p].end /\ l.read = f
  <2> HIDE DEF f
  <2> QED
    BY <1>1, <1>5, WithRead
<1>7. /\ pc[p] = "logs" /\ pc' = [pc EXCEPT ![p] = "commit"]
      /\ run' = [run EXCEPT ![p] = l] /\ UNCHANGED <<chainVars, dbVars>>
  BY DEF ReadLogs, Goto
<1>8. DOMAIN f = S /\ \A r \in S : f[r] = balance[r][head]
  OBVIOUS
<1>9. Fits(l)
  <2> HIDE DEF l
  <2> QED
    BY <1>1, <1>6 DEF Fits
<1>10. TypeInv' /\ Others(p) /\ run'[p] = l /\ pc'[p] = "commit"
  <2> HIDE DEF l
  <2> QED
    BY <1>6, <1>7, <1>9, RanOn DEF Steps
<1> HIDE DEF l, f, n
<1> QED
  BY <1>6, <1>7, <1>8, <1>10

LEMMA ReadUserStep ==
    ASSUME TypeInv, NEW p \in Processes, ReadUser(p)
    PROVE  /\ TypeInv' /\ Others(p)
           /\ pc'[p] = "commit" /\ run'[p].kind = "user" /\ run'[p].begun = head
           /\ \A r \in DOMAIN run'[p].read :
                    r \in Rows /\ run'[p].read[r] = balance[r][head]
<1>1. PICK r \in {x \in Rows : PoolOf[x] \in known} :
        run' = [run EXCEPT ![p] = [NoRun EXCEPT
                    !.kind = "user", !.begun = head, !.read = [x \in {r} |-> balance[r][head]]]]
  BY DEF ReadUser
<1> DEFINE f == [x \in {r} |-> balance[r][head]]
           l == [NoRun EXCEPT !.kind = "user", !.begun = head, !.read = f]
<1>2. f \in Reads
  <2>1. head \in 0 .. head /\ {r} \in SUBSET Rows
    BY DEF TypeInv, TypeOK
  <2>2. balance[r][head] \in Amounts
    BY <2>1 DEF TypeInv, TypeOK
  <2>3. f \in [{r} -> Amounts]
    BY <2>2
  <2> HIDE DEF f
  <2> QED
    BY <2>1, <2>3, ReadsMade
<1>3. /\ l \in Locals /\ l.kind = "user" /\ l.pools = {} /\ l.begun = head
      /\ l.end = 0 /\ l.read = f
  <2>1. NoRun \in Locals /\ NoRun.end = 0 /\ NoRun.pools = {} /\ head \in Int
    BY NoRunTyped DEF NoRun, TypeInv, TypeOK
  <2> HIDE DEF f
  <2>2. l \in Locals
    BY <1>2, <2>1, Zenon DEF Locals
  <2> QED
    BY <2>1, <2>2 DEF Locals
<1>4. DOMAIN f = {r} /\ f[r] = balance[r][head]
  OBVIOUS
<1>5. /\ pc' = [pc EXCEPT ![p] = "commit"] /\ run' = [run EXCEPT ![p] = l]
      /\ UNCHANGED <<chainVars, dbVars>>
  BY <1>1 DEF ReadUser, Goto
<1>6. Fits(l)
  <2> HIDE DEF l
  <2> QED
    BY <1>3 DEF Fits, TypeInv, TypeOK
<1> HIDE DEF l
<1>7. TypeInv' /\ Others(p) /\ run'[p] = l /\ pc'[p] = "commit"
  BY <1>3, <1>5, <1>6, RanOn DEF Steps
<1> HIDE DEF f
<1> QED
  BY <1>3, <1>4, <1>7

LEMMA CommitStep ==
    ASSUME TypeInv, NEW p \in Processes, Commit(p)
    PROVE  /\ TypeInv' /\ Others(p) /\ pc[p] = "commit" /\ pc'[p] = "idle"
           /\ UNCHANGED <<chainVars, known>> /\ cursor' = CursorAfter(p)
           /\ \A r \in Rows : db'[r] = IF r \in DOMAIN run[p].read THEN run[p].read[r] ELSE db[r]
<1>1. run[p] \in Locals /\ Fits(run[p])
  BY DEF TypeInv, TypeOK, Fits
<1>2. \A r \in DOMAIN run[p].read : run[p].read[r] \in Amounts
  BY DEF TypeInv, TypeOK
<1>3. db' \in [Rows -> Amounts]
  BY <1>2 DEF Commit, TypeInv, TypeOK
<1>4. cursor' \in 0 .. head
  BY <1>1 DEF Commit, CursorAfter, Fits, TypeInv, TypeOK
<1>5. loaded' \in [Pools -> Int]
  BY <1>1 DEF Commit, Locals, TypeInv, TypeOK
<1>6. NoRun \in Locals /\ NoRun.pools = {} /\ NoRun.begun = 0 /\ NoRun.end = 0
  BY NoRunTyped DEF NoRun
<1>7. pc' = [pc EXCEPT ![p] = "idle"] /\ run' = [run EXCEPT ![p] = NoRun]
        /\ UNCHANGED <<chainVars, known>> /\ known \in SUBSET Pools /\ head \in Nat
  BY DEF Commit, Return, TypeInv, TypeOK
<1>8. NoRun.pools \subseteq known' /\ NoRun.begun \in 0 .. head /\ NoRun.end \in 0 .. head
        /\ known \subseteq known' /\ known' \subseteq Pools
  BY <1>6, <1>7
<1>9. TypeInv' /\ Others(p) /\ pc'[p] = "idle"
  BY <1>3, <1>4, <1>5, <1>6, <1>7, <1>8, Ran DEF Steps
<1> QED
  BY <1>7, <1>9 DEF Commit

\* A step of the chain or of the subgraph leaves the database and the runs alone.
LEMMA ChainStep ==
    ASSUME TypeInv, NewBlock \/ SubgraphIndexes
    PROVE  /\ TypeInv' /\ UNCHANGED <<dbVars, pc, run>>
           /\ head' \in Nat /\ head <= head' /\ subgraph <= subgraph'
           /\ \A r \in Rows : \A b \in 0 .. head : balance'[r][b] = balance[r][b]
<1>1. /\ head \in Nat /\ subgraph \in 0 .. head
      /\ balance \in [Rows -> [0 .. head -> Amounts]]
  BY DEF TypeInv, TypeOK
<1>2. UNCHANGED <<dbVars, pc, run>>
  BY DEF NewBlock, SubgraphIndexes
<1>3. /\ head' \in Nat /\ head <= head' /\ subgraph <= subgraph' /\ subgraph' \in 0 .. head'
  BY <1>1 DEF NewBlock, SubgraphIndexes
<1>4. balance' \in [Rows -> [0 .. head' -> Amounts]]
      /\ \A r \in Rows : \A b \in 0 .. head : balance'[r][b] = balance[r][b]
  <2>1. CASE SubgraphIndexes
    BY <1>1, <2>1 DEF SubgraphIndexes
  <2>2. CASE NewBlock
    <3>1. PICK new \in [Rows -> Amounts] :
            balance' = [r \in Rows |-> [b \in 0 .. head + 1 |->
                            IF b <= head THEN balance[r][b] ELSE new[r]]]
      BY <2>2 DEF NewBlock
    <3>2. head' = head + 1
      BY <2>2 DEF NewBlock
    <3>3. ASSUME NEW r \in Rows
          PROVE  /\ balance'[r] \in [0 .. head' -> Amounts]
                 /\ \A b \in 0 .. head : balance'[r][b] = balance[r][b]
      <4>1. balance'[r] = [b \in 0 .. head + 1 |-> IF b <= head THEN balance[r][b] ELSE new[r]]
        BY <3>1
      <4>2. \A b \in 0 .. head + 1 : b <= head => b \in 0 .. head
        BY <1>1
      <4> QED
        BY <1>1, <3>2, <4>1, <4>2
    <3>4. balance' = [r \in Rows |-> balance'[r]]
      BY <3>1
    <3> HIDE DEF NewBlock
    <3> QED
      BY <3>3, <3>4
  <2> QED
    BY <2>1, <2>2
<1>5. known' = known /\ db' = db /\ cursor' = cursor /\ loaded' = loaded
        /\ pc' = pc /\ run' = run
  BY <1>2 DEF dbVars
<1>6. TypeInv'
  <2>1. run' \in [Processes -> Locals] /\ cursor' \in 0 .. head'
    BY <1>1, <1>3, <1>5 DEF TypeInv, TypeOK
  <2>2. \A q \in Processes : run'[q].begun \in 0 .. head' /\ run'[q].end \in 0 .. head'
    BY <1>1, <1>3, <1>5 DEF TypeInv, TypeOK
  <2> QED
    BY <1>3, <1>4, <1>5, <2>1, <2>2 DEF TypeInv, TypeOK
<1> QED
  BY <1>2, <1>3, <1>4, <1>6

LEMMA AbortStep ==
    ASSUME TypeInv, NEW p \in Processes, Abort(p)
    PROVE  TypeInv' /\ Others(p) /\ pc'[p] = "idle" /\ UNCHANGED <<chainVars, dbVars>>
  BY Returned DEF Abort

LEMMA TypeInit == Init => TypeInv
<1> SUFFICES ASSUME Init PROVE TypeInv
  OBVIOUS
<1>1. NoRun \in Locals /\ DOMAIN NoRun.read = {} /\ NoRun.kind = "none"
        /\ NoRun.pools = {} /\ NoRun.begun = 0 /\ NoRun.end = 0 /\ NoRun.from = 0
  BY NoRunTyped DEF NoRun
<1>2. /\ head = 0 /\ subgraph = 0 /\ cursor = 0 /\ known = OldPools
      /\ balance \in [Rows -> [0 .. head -> Amounts]]
      /\ db \in [Rows -> Amounts] /\ loaded \in [Pools -> Int]
      /\ pc \in [Processes -> {"idle", "metadata", "cursor", "shares",
                               "rpc", "rpcCursor", "logs", "commit"}]
  <2>1. 0 .. 0 = {0}
    OBVIOUS
  <2> QED
    BY <2>1, RowsAssumption DEF Init
<1>3. run \in [Processes -> Locals] /\ \A p \in Processes : run[p] = NoRun
  BY <1>1 DEF Init
<1> QED
  BY <1>1, <1>2, <1>3, RowsAssumption DEF TypeInv, TypeOK

LEMMA TypeStep == TypeInv /\ [Next]_vars => TypeInv'
<1> SUFFICES ASSUME TypeInv, [Next]_vars PROVE TypeInv'
  OBVIOUS
<1>1. CASE NewBlock \/ SubgraphIndexes
  BY <1>1, ChainStep
<1>2. ASSUME NEW p \in Syncers, BeginSync(p) PROVE TypeInv'
  BY <1>2, BeginSyncStep, RowsAssumption
<1>3. ASSUME NEW p \in Processes,
             \/ BeginInit(p) \/ Metadata(p) \/ ReadCursor(p) \/ ReadShares(p) \/ ReadUser(p)
             \/ GiveUpSubgraph(p) \/ RpcHead(p) \/ RpcCursor(p) \/ ReadLogs(p)
             \/ Commit(p) \/ Abort(p)
      PROVE  TypeInv'
  BY <1>3, BeginInitStep, MetadataStep, ReadCursorStep, ReadSharesStep, ReadUserStep,
     GiveUpSubgraphStep, RpcHeadStep, RpcCursorStep, ReadLogsStep, CommitStep, AbortStep
<1>4. CASE UNCHANGED vars
  BY <1>4 DEF vars, chainVars, dbVars, TypeInv, TypeOK
<1> QED
  BY <1>1, <1>2, <1>3, <1>4 DEF Next

LEMMA TypeInvCorrect == Spec => []TypeInv
  BY TypeInit, TypeStep, PTL DEF Spec

(* Whatever runs overlap, lag, fall back and fail: a run never holds a block that the *)
(* chain has not reached, nor pools that are not in the database; the saved block is  *)
(* never ahead of the chain.                                                          *)
THEOREM TypeCorrect == Spec => []TypeOK
<1>1. TypeInv => TypeOK
  BY DEF TypeInv
<1> QED
  BY <1>1, TypeInvCorrect, PTL

-----------------------------------------------------------------------------
(***************************************************************************)
(* NothingMissed.                                                          *)
(***************************************************************************)

\* What is read again at least: from the block cursor - Reread + 1 on.
Reread == RpcMargin + 1

\* Only one process syncs.
OneSyncer == \A p, q \in Syncers : p = q

\* What the margins have to cover: no run sees more blocks than the RPC fallback reads again,
\* the margin of the subgraph is not the smaller one, five block ranges reach the head; and
\* the blocks of a run and the ones the subgraph may lag fit into that margin together,
\* unless only one process syncs.
MarginsSuffice ==
    /\ Delay <= Reread
    /\ RpcMargin <= Margin
    /\ MaxBlock + RpcMargin <= Chunks
    /\ OneSyncer \/ Delay + MaxLag <= Reread

\* The balance v is one that r had at block n, or later.
Had(r, v, n) == \E b \in 0 .. head : b >= n /\ v = balance[r][b]

Old == {r \in Rows : PoolOf[r] \in OldPools}

\* No transfer, no change.
Steady ==
    \A r \in Rows : \A a, b \in 0 .. head :
        a <= b /\ (\A c \in a + 1 .. b : balance[r][c] = balance[r][c - 1])
            => balance[r][a] = balance[r][b]

\* What a run in progress is: a sync of all old pools, the load of a new pool, or a user.
Kinds(p) ==
    /\ pc[p] \in {"metadata", "cursor", "shares"} => run[p].kind \in {"sync", "init"}
    /\ pc[p] \in {"rpc", "rpcCursor", "logs"} => run[p].kind = "sync"
    /\ pc[p] = "commit" => run[p].kind \in {"sync", "init", "user"}
    /\ pc[p] # "idle" /\ run[p].kind = "sync" => p \in Syncers /\ OldPools \subseteq run[p].pools
    /\ pc[p] # "idle" /\ run[p].kind = "init" => run[p].pools \cap OldPools = {}

\* The block a run will save is neither too old nor ahead of what it reads.
Ends(p) ==
    /\ pc[p] # "idle" => head <= run[p].begun + Delay
    /\ pc[p] \in {"cursor", "shares"} => run[p].end <= subgraph
    /\ pc[p] \in {"cursor", "shares", "rpcCursor", "logs", "commit"} /\ run[p].kind = "sync" =>
            run[p].begun - MaxLag <= run[p].end

\* No stored balance is older than the blocks a sync will ask for.
Starts(p) ==
    pc[p] \in {"shares", "logs"} /\ run[p].kind = "sync" =>
        /\ run[p].from <= 0 \/ run[p].from <= head - RpcMargin
        /\ pc[p] = "logs" => run[p].from <= run[p].end /\ 1 - RpcMargin <= run[p].from
        /\ \A r \in Old : HadSince(r, run[p].from - 1)

\* What a run has read is as new as the block it will save or as its start; and a stored
\* balance that a sync has not read is not much older.
Shares(p) ==
    pc[p] = "commit" =>
        /\ run[p].kind = "init" => DOMAIN run[p].read \cap Old = {}
        /\ run[p].kind = "user" =>
                \A r \in Old \cap DOMAIN run[p].read : Had(r, run[p].read[r], run[p].begun)
        /\ run[p].kind = "sync" =>
                /\ \A r \in Old \cap DOMAIN run[p].read : Had(r, run[p].read[r], run[p].end)
                /\ \A r \in Old \ DOMAIN run[p].read : HadSince(r, run[p].end - Reread)

MissedInv ==
    /\ OldPools \subseteq known
    /\ head <= MaxBlock
    /\ Steady
    /\ NothingMissed
    /\ \A p \in Processes : Kinds(p) /\ Ends(p) /\ Starts(p) /\ Shares(p)

-----------------------------------------------------------------------------

LEMMA HadLater ==
    ASSUME NEW r, NEW v, NEW m \in Int, NEW n \in Int, n <= m, head \in Nat, Had(r, v, m)
    PROVE  Had(r, v, n)
  BY DEF Had

\* A balance that was stored since the block before the range, and did not change in the
\* range, is also that at the end of the range.
LEMMA Unchanged ==
    ASSUME TypeInv, Steady, NEW r \in Rows, NEW S, PoolOf[r] \in S,
           NEW first \in Int, NEW last \in 0 .. head,
           r \notin Changed(S, first, last), NEW v, Had(r, v, first - 1)
    PROVE  Had(r, v, last)
<1>1. head \in Nat
  BY DEF TypeInv, TypeOK
<1>2. PICK b \in 0 .. head : b >= first - 1 /\ v = balance[r][b]
  BY DEF Had
<1>3. CASE b >= last
  BY <1>1, <1>2, <1>3 DEF Had
<1>4. CASE b < last
  <2>1. \A c \in first .. last : c > 0 => balance[r][c] = balance[r][c - 1]
    BY DEF Changed
  <2>2. \A c \in b + 1 .. last : c \in first .. last /\ c > 0
    BY <1>1, <1>2
  <2>3. \A c \in b + 1 .. last : balance[r][c] = balance[r][c - 1]
    BY <2>1, <2>2
  <2>4. b <= last
    BY <1>1, <1>4
  <2>5. balance[r][b] = balance[r][last]
    BY <2>3, <2>4, Zenon DEF Steady
  <2> QED
    BY <1>1, <1>2, <2>5 DEF Had
<1> QED
  BY <1>1, <1>3, <1>4

LEMMA NothingMissedHad ==
    ASSUME NothingMissed, NEW r \in Old
    PROVE  Had(r, db[r], cursor - RpcMargin - 1)
  BY DEF NothingMissed, Old, HadSince, Had

\* A step of run p that leaves the chain and the stored balances alone.
LEMMA KeepsMissedInv ==
    ASSUME TypeInv, MissedInv, NEW p \in Processes, Others(p),
           UNCHANGED <<chainVars, db, cursor>>, known \subseteq known',
           Kinds(p)', Ends(p)', Starts(p)', Shares(p)'
    PROVE  MissedInv'
<1>1. /\ head' = head /\ subgraph' = subgraph /\ balance' = balance
      /\ db' = db /\ cursor' = cursor
  BY DEF chainVars
<1>2. Steady' /\ NothingMissed' /\ head' <= MaxBlock /\ OldPools \subseteq known'
  BY <1>1 DEF MissedInv, Steady, NothingMissed, HadSince
<1>3. ASSUME NEW q \in Processes, q # p
      PROVE  Kinds(q)' /\ Ends(q)' /\ Starts(q)' /\ Shares(q)'
  <2>1. pc'[q] = pc[q] /\ run'[q] = run[q]
    BY <1>3 DEF Others
  <2>2. Kinds(q) /\ Ends(q) /\ Starts(q) /\ Shares(q)
    BY DEF MissedInv
  <2>3. Kinds(q)'
    BY <2>1, <2>2 DEF Kinds
  <2>4. Ends(q)'
    BY <1>1, <2>1, <2>2 DEF Ends
  <2>5. Starts(q)'
    BY <1>1, <2>1, <2>2 DEF Starts, HadSince
  <2>6. Shares(q)'
    BY <1>1, <2>1, <2>2 DEF Shares, Had, HadSince
  <2> QED
    BY <2>3, <2>4, <2>5, <2>6
<1> QED
  BY <1>2, <1>3 DEF MissedInv

\* Beginnings, and what a run reads before the balances.
LEMMA MissedByBegin ==
    ASSUME TypeInv, MissedInv, NEW p \in Processes,
           (p \in Syncers /\ BeginSync(p)) \/ BeginInit(p)
    PROVE  MissedInv'
<1>1. /\ Others(p) /\ pc'[p] = "metadata" /\ run'[p].kind \in {"sync", "init"}
      /\ run'[p].begun = head
      /\ run'[p].kind = "sync" => p \in Syncers /\ run'[p].pools = known
      /\ run'[p].kind = "init" => run'[p].pools \cap known = {}
  BY BeginSyncStep, BeginInitStep
<1>2. UNCHANGED <<chainVars, db, cursor>> /\ known \subseteq known'
  BY DEF BeginSync, BeginInit, dbVars
<1>3. OldPools \subseteq known /\ head \in Nat /\ head' = head
  BY <1>2 DEF MissedInv, TypeInv, TypeOK, chainVars
<1>4. Kinds(p)'
  BY <1>1, <1>3 DEF Kinds
<1>5. Ends(p)'
  BY <1>1, <1>3, NumbersAssumption DEF Ends
<1>6. Starts(p)' /\ Shares(p)'
  BY <1>1 DEF Starts, Shares
<1> QED
  BY <1>1, <1>2, <1>4, <1>5, <1>6, KeepsMissedInv

LEMMA MissedByMetadata ==
    ASSUME TypeInv, MissedInv, NEW p \in Processes, Metadata(p)
    PROVE  MissedInv'
<1>1. Kinds(p) /\ Ends(p)
  BY DEF MissedInv
<1>2. UNCHANGED <<chainVars, db, cursor>> /\ known' = known
  BY DEF Metadata, dbVars
<1>3. /\ head \in Nat /\ head' = head /\ subgraph' = subgraph /\ subgraph \in 0 .. head
      /\ run[p].begun \in 0 .. head /\ head - subgraph <= MaxLag
  BY <1>2 DEF TypeInv, TypeOK, chainVars, Metadata
<1>4. Kinds(p)'
  BY <1>1, MetadataStep DEF Kinds
<1>5. Ends(p)'
  BY <1>1, <1>3, MetadataStep, NumbersAssumption DEF Ends
<1>6. Starts(p)' /\ Shares(p)'
  BY MetadataStep DEF Starts, Shares
<1> QED
  BY <1>2, <1>4, <1>5, <1>6, KeepsMissedInv, MetadataStep

LEMMA MissedByReadCursor ==
    ASSUME MarginsSuffice, TypeInv, MissedInv, NEW p \in Processes, ReadCursor(p)
    PROVE  MissedInv'
<1>1. Kinds(p) /\ Ends(p) /\ NothingMissed
  BY DEF MissedInv
<1>2. UNCHANGED <<chainVars, db, cursor>> /\ known' = known
  BY DEF ReadCursor, dbVars
<1>3. /\ head \in Nat /\ head' = head /\ subgraph' = subgraph /\ cursor \in 0 .. head
      /\ balance' = balance /\ db' = db
  BY <1>2 DEF TypeInv, TypeOK, chainVars
<1>4. Kinds(p)'
  BY <1>1, ReadCursorStep DEF Kinds
<1>5. Ends(p)'
  BY <1>1, <1>3, ReadCursorStep DEF Ends
<1>6. Starts(p)'
  <2> SUFFICES ASSUME run[p].kind = "sync"
               PROVE  /\ SubgraphStart(p) <= 0 \/ SubgraphStart(p) <= head - RpcMargin
                      /\ \A r \in Old : Had(r, db[r], SubgraphStart(p) - 1)
    BY <1>3, ReadCursorStep DEF Starts, HadSince, Had
  <2>1. CASE cursor > Margin
    <3>1. SubgraphStart(p) = cursor - Margin
      BY <2>1 DEF SubgraphStart
    <3>2. /\ SubgraphStart(p) <= head - RpcMargin
          /\ SubgraphStart(p) - 1 <= cursor - RpcMargin - 1
          /\ SubgraphStart(p) - 1 \in Int /\ cursor - RpcMargin - 1 \in Int
      BY <1>3, <3>1, NumbersAssumption DEF MarginsSuffice
    <3> QED
      BY <1>1, <1>3, <3>2, HadLater, NothingMissedHad
  <2>2. CASE ~(cursor > Margin)
    <3>1. SubgraphStart(p) = 0
      BY <2>2 DEF SubgraphStart
    <3>2. \A r \in Old : Had(r, db[r], cursor - RpcMargin - 1)
      BY <1>1, NothingMissedHad
    <3> QED
      BY <1>3, <3>1, <3>2 DEF Had
  <2> QED
    BY <2>1, <2>2
<1>7. Shares(p)'
  BY ReadCursorStep DEF Shares
<1> QED
  BY <1>2, <1>4, <1>5, <1>6, <1>7, KeepsMissedInv, ReadCursorStep

\* Reading the balances.
LEMMA MissedByReadShares ==
    ASSUME TypeInv, MissedInv, NEW p \in Processes, ReadShares(p)
    PROVE  MissedInv'
<1>1. Kinds(p) /\ Ends(p) /\ Starts(p) /\ Steady
  BY DEF MissedInv
<1>2. UNCHANGED <<chainVars, db, cursor>> /\ known' = known
  BY DEF ReadShares, dbVars
<1>3. /\ head \in Nat /\ head' = head /\ subgraph' = subgraph /\ balance' = balance
      /\ db' = db /\ subgraph \in 0 .. head /\ run[p].end \in 0 .. head
      /\ run[p].from \in Int
  BY <1>2 DEF TypeInv, TypeOK, chainVars
<1>4. Kinds(p)'
  BY <1>1, ReadSharesStep DEF Kinds
<1>5. Ends(p)'
  BY <1>1, <1>3, ReadSharesStep DEF Ends
<1>6. Starts(p)'
  BY ReadSharesStep DEF Starts
<1>7. PICK late \in SUBSET Rows :
        /\ DOMAIN run'[p].read
                = (Changed(run[p].pools, run[p].from, run[p].end) \ late)
                    \cup (Changed(run[p].pools, run[p].from, subgraph) \cap late)
        /\ \A r \in DOMAIN run'[p].read :
                run'[p].read[r] = balance[r][IF r \in late THEN subgraph ELSE run[p].end]
  BY ReadSharesStep
<1>8. run[p].end <= subgraph
  BY <1>1, ReadSharesStep DEF Ends
<1>9. Changed(run[p].pools, run[p].from, run[p].end)
            \subseteq Changed(run[p].pools, run[p].from, subgraph)
  BY <1>3, <1>8 DEF Changed
<1>10. Changed(run[p].pools, run[p].from, run[p].end) \subseteq DOMAIN run'[p].read
  BY <1>7, <1>9
<1>11. ASSUME run[p].kind = "init"
       PROVE  DOMAIN run'[p].read \cap Old = {}
  <2>1. run[p].pools \cap OldPools = {}
    BY <1>1, <1>11, ReadSharesStep DEF Kinds
  <2>2. \A r \in DOMAIN run'[p].read : PoolOf[r] \in run[p].pools
    BY <1>7 DEF Changed
  <2> QED
    BY <2>1, <2>2 DEF Old
<1>12. ASSUME run[p].kind = "sync"
       PROVE  /\ \A r \in Old \cap DOMAIN run'[p].read : Had(r, run'[p].read[r], run[p].end)
              /\ \A r \in Old \ DOMAIN run'[p].read : Had(r, db[r], run[p].end - Reread)
  <2>1. OldPools \subseteq run[p].pools /\ \A r \in Old : Had(r, db[r], run[p].from - 1)
    BY <1>1, <1>12, ReadSharesStep DEF Kinds, Starts, HadSince, Had
  <2>2. ASSUME NEW r \in Old \cap DOMAIN run'[p].read
        PROVE  Had(r, run'[p].read[r], run[p].end)
    <3>1. run'[p].read[r] = balance[r][subgraph] \/ run'[p].read[r] = balance[r][run[p].end]
      BY <1>7
    <3> QED
      BY <1>3, <1>8, <3>1 DEF Had
  <2>3. ASSUME NEW r \in Old \ DOMAIN run'[p].read
        PROVE  Had(r, db[r], run[p].end - Reread)
    <3>1. r \in Rows /\ PoolOf[r] \in run[p].pools
              /\ r \notin Changed(run[p].pools, run[p].from, run[p].end)
      BY <1>10, <2>1 DEF Old
    <3>2. Had(r, db[r], run[p].end)
      BY <1>1, <1>3, <2>1, <3>1, Unchanged
    <3>3. run[p].end - Reread \in Int /\ run[p].end \in Int /\ run[p].end - Reread <= run[p].end
      BY <1>3, NumbersAssumption DEF Reread
    <3> QED
      BY <1>3, <3>2, <3>3, HadLater
  <2> QED
    BY <2>2, <2>3
<1>13. Shares(p)'
  <2>1. pc'[p] = "commit" /\ run'[p].kind = run[p].kind /\ run'[p].end = run[p].end
            /\ run[p].kind # "user"
    BY <1>1, ReadSharesStep DEF Kinds
  <2> QED
    BY <1>3, <1>11, <1>12, <2>1 DEF Shares, Had, HadSince
<1> QED
  BY <1>2, <1>4, <1>5, <1>6, <1>13, KeepsMissedInv, ReadSharesStep

LEMMA MissedByRpc ==
    ASSUME MarginsSuffice, TypeInv, MissedInv, NEW p \in Processes,
           GiveUpSubgraph(p) \/ RpcHead(p) \/ RpcCursor(p)
    PROVE  MissedInv'
<1>1. Kinds(p) /\ Ends(p) /\ NothingMissed
  BY DEF MissedInv
<1>2. UNCHANGED <<chainVars, db, cursor>> /\ known' = known
  BY DEF GiveUpSubgraph, RpcHead, RpcCursor, dbVars
<1>3. /\ head \in Nat /\ head' = head /\ subgraph' = subgraph /\ balance' = balance
      /\ db' = db /\ cursor \in 0 .. head /\ run[p].begun \in 0 .. head
  BY <1>2 DEF TypeInv, TypeOK, chainVars
<1>4. Others(p) /\ pc'[p] \in {"idle", "rpc", "rpcCursor", "logs"}
  BY GiveUpSubgraphStep, RpcHeadStep, RpcCursorStep
<1>5. Shares(p)'
  BY <1>4 DEF Shares
<1>6. CASE pc'[p] = "idle"
  BY <1>2, <1>4, <1>5, <1>6, KeepsMissedInv DEF Kinds, Ends, Starts
<1>7. CASE GiveUpSubgraph(p) /\ pc'[p] # "idle"
  <2>1. pc'[p] = "rpc" /\ run'[p] = run[p] /\ run[p].kind = "sync" /\ pc[p] # "idle"
    BY <1>7, GiveUpSubgraphStep
  <2>2. Kinds(p)' /\ Ends(p)' /\ Starts(p)'
    BY <1>1, <1>3, <2>1 DEF Kinds, Ends, Starts
  <2> QED
    BY <1>2, <1>4, <1>5, <2>2, KeepsMissedInv
<1>8. CASE RpcHead(p)
  <2>1. Kinds(p)' /\ Ends(p)' /\ Starts(p)'
    BY <1>1, <1>3, <1>8, RpcHeadStep, NumbersAssumption DEF Kinds, Ends, Starts
  <2> QED
    BY <1>2, <1>4, <1>5, <2>1, KeepsMissedInv
<1>9. CASE RpcCursor(p) /\ pc'[p] # "idle"
  <2>1. /\ pc[p] = "rpcCursor" /\ pc'[p] = "logs" /\ run'[p].kind = run[p].kind
        /\ run'[p].pools = run[p].pools /\ run'[p].begun = run[p].begun
        /\ run'[p].end = run[p].end /\ run'[p].from = cursor - RpcMargin
        /\ cursor # 0 /\ run'[p].from <= run[p].end
    BY <1>9, RpcCursorStep
  <2>2. Kinds(p)' /\ Ends(p)'
    BY <1>1, <1>3, <2>1 DEF Kinds, Ends
  <2>3. \A r \in Old : Had(r, db[r], run'[p].from - 1)
    BY <1>1, <2>1, NothingMissedHad
  <2>4. run'[p].from <= head - RpcMargin /\ 1 - RpcMargin <= run'[p].from
    BY <1>3, <2>1, NumbersAssumption
  <2>5. Starts(p)'
    BY <1>3, <2>1, <2>3, <2>4 DEF Starts, HadSince, Had
  <2> QED
    BY <1>2, <1>4, <1>5, <2>2, <2>5, KeepsMissedInv
<1> QED
  BY <1>6, <1>7, <1>8, <1>9

LEMMA MissedByReadLogs ==
    ASSUME MarginsSuffice, TypeInv, MissedInv, NEW p \in Processes, ReadLogs(p)
    PROVE  MissedInv'
<1>1. Kinds(p) /\ Ends(p) /\ Starts(p) /\ Steady /\ head <= MaxBlock
  BY DEF MissedInv
<1>2. UNCHANGED <<chainVars, db, cursor>> /\ known' = known
  BY DEF ReadLogs, dbVars
<1>3. /\ head \in Nat /\ head' = head /\ subgraph' = subgraph /\ balance' = balance
      /\ db' = db /\ run[p].end \in 0 .. head /\ run[p].from \in Int
  BY <1>2 DEF TypeInv, TypeOK, chainVars
<1>4. pc[p] = "logs" /\ run[p].kind = "sync" /\ OldPools \subseteq run[p].pools
  BY <1>1, ReadLogsStep DEF Kinds
<1>5. Kinds(p)'
  BY <1>1, <1>4, ReadLogsStep DEF Kinds
<1>6. Ends(p)'
  BY <1>1, <1>3, <1>4, ReadLogsStep DEF Ends
<1>7. Starts(p)'
  BY ReadLogsStep DEF Starts
<1>8. ToBlock(p) = run[p].end
  <2>1. 1 - RpcMargin <= run[p].from
    BY <1>1, <1>4 DEF Starts
  <2> QED
    BY <1>1, <1>3, <2>1, NumbersAssumption DEF MarginsSuffice, ToBlock
<1>9. \A r \in Old : Had(r, db[r], run[p].from - 1)
  BY <1>1, <1>4 DEF Starts, HadSince, Had
<1>10. ASSUME NEW r \in Old \cap DOMAIN run'[p].read
       PROVE  Had(r, run'[p].read[r], run[p].end)
  BY <1>3, ReadLogsStep DEF Had
<1>11. ASSUME NEW r \in Old \ DOMAIN run'[p].read
       PROVE  Had(r, db[r], run[p].end - Reread)
  <2>1. run[p].end - Reread \in Int /\ run[p].end \in Int /\ run[p].from - 1 \in Int
            /\ run[p].end - Reread <= run[p].end - 1 /\ run[p].end - Reread <= run[p].end
    BY <1>3, NumbersAssumption DEF Reread
  <2>2. CASE run[p].from = ToBlock(p)
    BY <1>3, <1>8, <1>9, <2>1, <2>2, HadLater
  <2>3. CASE run[p].from # ToBlock(p)
    <3>1. r \in Rows /\ PoolOf[r] \in run[p].pools
              /\ r \notin Changed(run[p].pools, run[p].from, run[p].end)
      BY <1>4, <1>8, <2>3, ReadLogsStep DEF Old
    <3>2. Had(r, db[r], run[p].end)
      BY <1>1, <1>3, <1>9, <3>1, Unchanged
    <3> QED
      BY <1>3, <2>1, <3>2, HadLater
  <2> QED
    BY <2>2, <2>3
<1>12. Shares(p)'
  BY <1>3, <1>4, <1>10, <1>11, ReadLogsStep DEF Shares, Had, HadSince
<1> QED
  BY <1>2, <1>5, <1>6, <1>7, <1>12, KeepsMissedInv, ReadLogsStep

LEMMA MissedByReadUser ==
    ASSUME TypeInv, MissedInv, NEW p \in Processes, ReadUser(p)
    PROVE  MissedInv'
<1>1. UNCHANGED <<chainVars, db, cursor>> /\ known' = known
  BY DEF ReadUser, dbVars
<1>2. head \in Nat /\ head' = head /\ balance' = balance
  BY <1>1 DEF TypeInv, TypeOK, chainVars
<1>3. Kinds(p)' /\ Starts(p)'
  BY ReadUserStep DEF Kinds, Starts
<1>4. Ends(p)'
  BY <1>2, ReadUserStep, NumbersAssumption DEF Ends
<1>5. \A r \in DOMAIN run'[p].read : Had(r, run'[p].read[r], head)
  BY <1>2, ReadUserStep DEF Had
<1>6. Shares(p)'
  BY <1>2, <1>5, ReadUserStep DEF Shares, Had
<1> QED
  BY <1>1, <1>3, <1>4, <1>6, KeepsMissedInv, ReadUserStep

\* Writing: what a run stores while another one syncs is not older than that one's margin.
LEMMA StoresFresh ==
    ASSUME MarginsSuffice, TypeInv, MissedInv, NEW p \in Processes, NEW q \in Processes,
           p # q, pc[p] = "commit", pc[q] # "idle", run[q].kind = "sync",
           NEW r \in Old \cap DOMAIN run[p].read
    PROVE  Had(r, run[p].read[r], head - Reread)
<1>1. Kinds(p) /\ Ends(p) /\ Shares(p) /\ Kinds(q)
  BY DEF MissedInv
<1>2. head \in Nat /\ run[p].begun \in 0 .. head /\ run[p].end \in 0 .. head
  BY DEF TypeInv, TypeOK
<1>3. head <= run[p].begun + Delay
  BY <1>1 DEF Ends
<1>4. CASE run[p].kind = "user"
  <2>1. Had(r, run[p].read[r], run[p].begun)
    BY <1>1, <1>4 DEF Shares
  <2>2. head - Reread <= run[p].begun /\ head - Reread \in Int /\ run[p].begun \in Int
    BY <1>2, <1>3, NumbersAssumption DEF MarginsSuffice, Reread
  <2> QED
    BY <1>2, <2>1, <2>2, HadLater
<1>5. CASE run[p].kind = "sync"
  <2>1. Had(r, run[p].read[r], run[p].end) /\ run[p].begun - MaxLag <= run[p].end
    BY <1>1, <1>5 DEF Shares, Ends
  <2>2. Delay + MaxLag <= Reread
    BY <1>1, <1>5 DEF Kinds, MarginsSuffice, OneSyncer
  <2>3. head - Reread <= run[p].end /\ head - Reread \in Int /\ run[p].end \in Int
    BY <1>2, <1>3, <2>1, <2>2, NumbersAssumption DEF Reread
  <2> QED
    BY <1>2, <2>1, <2>3, HadLater
<1>6. CASE run[p].kind = "init"
  BY <1>1, <1>6 DEF Shares
<1> QED
  BY <1>1, <1>4, <1>5, <1>6 DEF Kinds

LEMMA MissedByCommit ==
    ASSUME MarginsSuffice, TypeInv, MissedInv, NEW p \in Processes, Commit(p)
    PROVE  MissedInv'
<1>1. Kinds(p) /\ Ends(p) /\ Shares(p) /\ NothingMissed
  BY DEF MissedInv
<1>2. /\ head' = head /\ subgraph' = subgraph /\ balance' = balance /\ known' = known
      /\ Others(p) /\ pc[p] = "commit" /\ pc'[p] = "idle" /\ cursor' = CursorAfter(p)
      /\ \A r \in Rows :
            db'[r] = IF r \in DOMAIN run[p].read THEN run[p].read[r] ELSE db[r]
  BY CommitStep DEF chainVars
<1>3. /\ head \in Nat /\ cursor \in 0 .. head
      /\ run[p].begun \in 0 .. head /\ run[p].end \in 0 .. head
  BY DEF TypeInv, TypeOK
<1>4. Old \subseteq Rows
  BY DEF Old
<1>5. \A r \in Old : Had(r, db'[r], cursor' - RpcMargin - 1)
  <2>1. CASE run[p].kind = "sync" /\ DOMAIN run[p].read # {}
    <3>1. cursor' = run[p].end
      BY <1>2, <2>1 DEF CursorAfter
    <3>2. run[p].end - Reread = cursor' - RpcMargin - 1 /\ run[p].end - Reread <= run[p].end
              /\ run[p].end - Reread \in Int /\ run[p].end \in Int
      BY <1>3, <3>1, NumbersAssumption DEF Reread
    <3>3. ASSUME NEW r \in Old, r \in DOMAIN run[p].read
          PROVE  Had(r, run[p].read[r], run[p].end - Reread)
      <4>1. Had(r, run[p].read[r], run[p].end)
        BY <1>1, <1>2, <2>1, <3>3 DEF Shares
      <4> QED
        BY <1>3, <3>2, <4>1, HadLater
    <3>4. ASSUME NEW r \in Old, r \notin DOMAIN run[p].read
          PROVE  Had(r, db[r], run[p].end - Reread)
      BY <1>1, <1>2, <2>1, <3>4 DEF Shares, HadSince, Had
    <3> QED
      BY <1>2, <1>4, <3>2, <3>3, <3>4
  <2>2. CASE ~(run[p].kind = "sync" /\ DOMAIN run[p].read # {})
    <3>1. cursor' = cursor
      BY <1>2, <2>2 DEF CursorAfter
    <3>2. ASSUME NEW r \in Old, r \in DOMAIN run[p].read
          PROVE  Had(r, run[p].read[r], cursor - RpcMargin - 1)
      <4>1. run[p].kind = "user"
        BY <1>1, <1>2, <2>2, <3>2 DEF Kinds, Shares
      <4>2. Had(r, run[p].read[r], run[p].begun) /\ head <= run[p].begun + Delay
        BY <1>1, <1>2, <3>2, <4>1 DEF Shares, Ends
      <4>3. cursor - RpcMargin - 1 <= run[p].begun /\ run[p].begun \in Int
                /\ cursor - RpcMargin - 1 \in Int
        BY <1>3, <4>2, NumbersAssumption DEF MarginsSuffice, Reread
      <4> QED
        BY <1>3, <4>2, <4>3, HadLater
    <3> QED
      BY <1>1, <1>2, <1>4, <3>1, <3>2, NothingMissedHad
  <2> QED
    BY <2>1, <2>2
<1>6. NothingMissed'
  BY <1>2, <1>5 DEF NothingMissed, HadSince, Had, Old
<1>7. ASSUME NEW q \in Processes, q # p
      PROVE  Kinds(q)' /\ Ends(q)' /\ Starts(q)' /\ Shares(q)'
  <2>1. pc'[q] = pc[q] /\ run'[q] = run[q]
    BY <1>2, <1>7 DEF Others
  <2>2. Kinds(q) /\ Ends(q) /\ Starts(q) /\ Shares(q)
    BY DEF MissedInv
  <2>3. run[q].end \in 0 .. head /\ run[q].from \in Int
    BY DEF TypeInv, TypeOK
  <2>4. Kinds(q)' /\ Ends(q)'
    BY <1>2, <2>1, <2>2 DEF Kinds, Ends
  <2>5. ASSUME pc[q] # "idle", run[q].kind = "sync", NEW r \in Old, NEW n \in Int,
               Had(r, db[r], n), n <= head - Reread \/ n <= 0
        PROVE  Had(r, db'[r], n)
    <3>1. CASE r \in DOMAIN run[p].read
      <4>1. Had(r, run[p].read[r], head - Reread) /\ head - Reread \in Int
        BY <1>2, <1>3, <1>7, <2>5, <3>1, StoresFresh, NumbersAssumption DEF Reread
      <4>2. CASE n <= head - Reread
        BY <1>2, <1>3, <1>4, <3>1, <4>1, <4>2, HadLater
      <4>3. CASE n <= 0
        BY <1>2, <1>3, <1>4, <3>1, <4>1, <4>3 DEF Had
      <4> QED
        BY <2>5, <4>2, <4>3
    <3>2. CASE r \notin DOMAIN run[p].read
      BY <1>2, <1>4, <2>5, <3>2
    <3> QED
      BY <3>1, <3>2
  <2>6. Starts(q)'
    <3> SUFFICES ASSUME pc[q] \in {"shares", "logs"}, run[q].kind = "sync", NEW r \in Old
                 PROVE  Had(r, db'[r], run[q].from - 1)
      BY <1>2, <2>1, <2>2 DEF Starts, HadSince, Had
    <3>1. Had(r, db[r], run[q].from - 1)
      BY <2>2 DEF Starts, HadSince, Had
    <3>2. run[q].from - 1 \in Int
            /\ (run[q].from - 1 <= head - Reread \/ run[q].from - 1 <= 0)
      BY <1>3, <2>2, <2>3, NumbersAssumption DEF Starts, Reread
    <3> QED
      BY <2>5, <3>1, <3>2
  <2>7. Shares(q)'
    <3> SUFFICES ASSUME pc[q] = "commit", run[q].kind = "sync",
                        NEW r \in Old \ DOMAIN run[q].read
                 PROVE  Had(r, db'[r], run[q].end - Reread)
      BY <1>2, <2>1, <2>2 DEF Shares, HadSince, Had
    <3>1. Had(r, db[r], run[q].end - Reread)
      BY <2>2 DEF Shares, HadSince, Had
    <3>2. run[q].end - Reread \in Int /\ run[q].end - Reread <= head - Reread
      BY <1>3, <2>3, NumbersAssumption DEF Reread
    <3> QED
      BY <2>5, <3>1, <3>2
  <2> QED
    BY <2>4, <2>6, <2>7
<1>8. Kinds(p)' /\ Ends(p)' /\ Starts(p)' /\ Shares(p)'
  BY <1>2 DEF Kinds, Ends, Starts, Shares
<1>9. Steady' /\ head' <= MaxBlock /\ OldPools \subseteq known'
  <2>1. Steady /\ head <= MaxBlock /\ OldPools \subseteq known
    BY DEF MissedInv
  <2> QED
    BY <1>2, <2>1 DEF Steady
<1> QED
  BY <1>6, <1>7, <1>8, <1>9 DEF MissedInv

LEMMA MissedByAbort ==
    ASSUME TypeInv, MissedInv, NEW p \in Processes, Abort(p)
    PROVE  MissedInv'
<1>1. pc'[p] = "idle" /\ Others(p) /\ UNCHANGED <<chainVars, db, cursor>> /\ known' = known
  BY AbortStep DEF dbVars
<1>2. Kinds(p)' /\ Ends(p)' /\ Starts(p)' /\ Shares(p)'
  BY <1>1 DEF Kinds, Ends, Starts, Shares
<1> QED
  BY <1>1, <1>2, KeepsMissedInv

\* A new block leaves a row as it was, or is a transfer of its own.
LEMMA SteadyChain ==
    ASSUME TypeInv, Steady, NewBlock \/ SubgraphIndexes
    PROVE  Steady'
<1>1. head \in Nat
  BY DEF TypeInv, TypeOK
<1>2. CASE SubgraphIndexes
  BY <1>2 DEF SubgraphIndexes, Steady
<1>3. CASE NewBlock
  <2>1. head' = head + 1
    BY <1>3 DEF NewBlock
  <2>2. \A r \in Rows : \A b \in 0 .. head : balance'[r][b] = balance[r][b]
    BY ChainStep
  <2> SUFFICES ASSUME NEW r \in Rows, NEW a \in 0 .. head + 1, NEW b \in 0 .. head + 1, a <= b,
                      \A c \in a + 1 .. b : balance'[r][c] = balance'[r][c - 1]
               PROVE  balance'[r][a] = balance'[r][b]
    BY <2>1 DEF Steady
  <2>3. ASSUME NEW d \in 0 .. head, a <= d, d <= b
        PROVE  balance'[r][a] = balance'[r][d]
    <3>1. a \in 0 .. head
      BY <1>1, <2>3
    <3>2. \A c \in a + 1 .. d : c \in a + 1 .. b /\ c \in 0 .. head /\ c - 1 \in 0 .. head
      BY <1>1, <2>3
    <3>3. \A c \in a + 1 .. d : balance[r][c] = balance[r][c - 1]
      BY <2>2, <3>2
    <3>4. balance[r][a] = balance[r][d]
      BY <2>3, <3>1, <3>3, Zenon DEF Steady
    <3> QED
      BY <2>2, <3>1, <3>4
  <2>4. CASE b <= head
    BY <1>1, <2>3, <2>4
  <2>5. CASE b = head + 1 /\ a <= head
    <3>1. balance'[r][b] = balance'[r][b - 1] /\ b - 1 = head
      BY <1>1, <2>5
    <3>2. balance'[r][a] = balance'[r][head]
      BY <1>1, <2>3, <2>5
    <3> QED
      BY <3>1, <3>2
  <2> QED
    BY <1>1, <2>4, <2>5
<1> QED
  BY <1>2, <1>3

LEMMA MissedByChain ==
    ASSUME TypeInv, MissedInv, NewBlock \/ SubgraphIndexes
    PROVE  MissedInv'
<1>1. /\ db' = db /\ cursor' = cursor /\ known' = known /\ pc' = pc /\ run' = run
      /\ head' \in Nat /\ head <= head' /\ subgraph <= subgraph'
      /\ \A r \in Rows : \A b \in 0 .. head : balance'[r][b] = balance[r][b]
  BY ChainStep DEF dbVars
<1>2. head \in Nat /\ subgraph \in 0 .. head /\ subgraph' \in 0 .. head'
  BY ChainStep DEF TypeInv, TypeOK
<1>3. \A r \in Rows : \A v, n : Had(r, v, n) => Had(r, v, n)'
  <2> SUFFICES ASSUME NEW r \in Rows, NEW v, NEW n, Had(r, v, n) PROVE Had(r, v, n)'
    OBVIOUS
  <2>1. PICK b \in 0 .. head : b >= n /\ v = balance[r][b]
    BY DEF Had
  <2>2. b \in 0 .. head' /\ v = balance'[r][b]
    BY <1>1, <1>2, <2>1
  <2> QED
    BY <2>1, <2>2 DEF Had
<1>4. Old \subseteq Rows
  BY DEF Old
<1>5. NothingMissed'
  <2>1. \A r \in Old : Had(r, db[r], cursor - RpcMargin - 1)
    BY NothingMissedHad DEF MissedInv
  <2>2. ASSUME NEW r \in Old
        PROVE  \E b \in 0 .. head' : b >= cursor - RpcMargin - 1 /\ db[r] = balance'[r][b]
    <3>1. PICK b \in 0 .. head : b >= cursor - RpcMargin - 1 /\ db[r] = balance[r][b]
      BY <2>1 DEF Had
    <3>2. b \in 0 .. head' /\ balance'[r][b] = balance[r][b]
      BY <1>1, <1>2, <1>4, <3>1
    <3> QED
      BY <3>1, <3>2
  <2> QED
    BY <1>1, <2>2 DEF NothingMissed, HadSince, Old
<1>6. head' <= MaxBlock
  <2>1. head <= MaxBlock
    BY DEF MissedInv
  <2> QED
    BY <1>2, <2>1, NumbersAssumption DEF NewBlock, SubgraphIndexes
<1>7. ASSUME NEW p \in Processes
      PROVE  Kinds(p)' /\ Ends(p)' /\ Starts(p)' /\ Shares(p)'
  <2>1. Kinds(p) /\ Ends(p) /\ Starts(p) /\ Shares(p)
    BY DEF MissedInv
  <2>2. run[p].begun \in 0 .. head /\ run[p].end \in 0 .. head /\ run[p].from \in Int
    BY DEF TypeInv, TypeOK
  <2>3. Kinds(p)'
    BY <1>1, <2>1 DEF Kinds
  <2>4. pc[p] # "idle" => head' <= run[p].begun + Delay
    <3>1. CASE NewBlock
      <4>1. head' = head + 1 /\ (pc[p] # "idle" => head < run[p].begun + Delay)
        BY <3>1 DEF NewBlock, InTime
      <4> QED
        BY <1>2, <2>2, <4>1, NumbersAssumption
    <3>2. CASE SubgraphIndexes
      <4>1. head' = head /\ (pc[p] # "idle" => head <= run[p].begun + Delay)
        BY <2>1, <3>2 DEF SubgraphIndexes, Ends
      <4> QED
        BY <4>1
    <3> QED
      BY <3>1, <3>2
  <2>5. Ends(p)'
    BY <1>1, <1>2, <2>1, <2>2, <2>4 DEF Ends
  <2>6. Starts(p)'
    <3>1. \A n : \A r \in Old : HadSince(r, n) => HadSince(r, n)'
      BY <1>1, <1>3, <1>4 DEF HadSince, Had
    <3>2. run[p].from <= head - RpcMargin => run[p].from <= head' - RpcMargin
      BY <1>1, <1>2, <2>2, NumbersAssumption
    <3> QED
      BY <1>1, <2>1, <3>1, <3>2 DEF Starts
  <2>7. Shares(p)'
    <3>1. \A n : \A r \in Old : HadSince(r, n) => HadSince(r, n)'
      BY <1>1, <1>3, <1>4 DEF HadSince, Had
    <3> QED
      BY <1>1, <1>3, <1>4, <2>1, <3>1 DEF Shares
  <2> QED
    BY <2>3, <2>5, <2>6, <2>7
<1>8. Steady'
  BY SteadyChain DEF MissedInv
<1> QED
  BY <1>1, <1>5, <1>6, <1>7, <1>8 DEF MissedInv

LEMMA MissedInit == Init => MissedInv
<1> SUFFICES ASSUME Init PROVE MissedInv
  OBVIOUS
<1>1. head = 0 /\ 0 .. head = {0} /\ cursor = 0 /\ known = OldPools
        /\ \A p \in Processes : pc[p] = "idle"
  BY DEF Init
<1>2. Steady
  BY <1>1 DEF Steady
<1>3. \A r \in Rows : db[r] = balance[r][0]
  BY <1>1 DEF Init
<1>4. NothingMissed
  BY <1>1, <1>3, NumbersAssumption DEF NothingMissed, HadSince
<1>5. \A p \in Processes : Kinds(p) /\ Ends(p) /\ Starts(p) /\ Shares(p)
  BY <1>1 DEF Kinds, Ends, Starts, Shares
<1> QED
  BY <1>1, <1>2, <1>4, <1>5, NumbersAssumption DEF MissedInv

LEMMA MissedStep == MarginsSuffice /\ TypeInv /\ MissedInv /\ [Next]_vars => MissedInv'
<1> SUFFICES ASSUME MarginsSuffice, TypeInv, MissedInv, [Next]_vars PROVE MissedInv'
  OBVIOUS
<1>1. CASE NewBlock \/ SubgraphIndexes
  BY <1>1, MissedByChain
<1>2. ASSUME NEW p \in Syncers, BeginSync(p) PROVE MissedInv'
  BY <1>2, MissedByBegin, RowsAssumption
<1>3. ASSUME NEW p \in Processes,
             BeginInit(p) \/ Metadata(p) \/ ReadCursor(p) \/ ReadShares(p)
      PROVE  MissedInv'
  BY <1>3, MissedByBegin, MissedByMetadata, MissedByReadCursor, MissedByReadShares
<1>4. ASSUME NEW p \in Processes,
             \/ GiveUpSubgraph(p) \/ RpcHead(p) \/ RpcCursor(p) \/ ReadLogs(p)
             \/ ReadUser(p) \/ Commit(p) \/ Abort(p)
      PROVE  MissedInv'
  BY <1>4, MissedByRpc, MissedByReadLogs, MissedByReadUser, MissedByCommit, MissedByAbort
<1>5. CASE UNCHANGED vars
  BY <1>5 DEF vars, chainVars, dbVars, MissedInv, Steady, NothingMissed, HadSince, Had,
     Kinds, Ends, Starts, Shares
<1> QED
  BY <1>1, <1>2, <1>3, <1>4, <1>5 DEF Next

(* No stored balance gets older than what the next sync reads again, for any users, pools,  *)
(* overlapping runs, failures and fall-backs, if no run sees more blocks than the margin of *)
(* the fall-back covers, which has to cover the lag of the subgraph as well when two        *)
(* processes sync; and as long as five block ranges reach the head.                         *)
THEOREM NothingMissedCorrect ==
    ASSUME MarginsSuffice
    PROVE  Spec => []NothingMissed
<1>1. MissedInv => NothingMissed
  BY DEF MissedInv
<1>2. TypeInv /\ MissedInv /\ [Next]_vars => MissedInv'
  BY MissedStep
<1> QED
  BY <1>1, <1>2, MissedInit, TypeInvCorrect, PTL DEF Spec

-----------------------------------------------------------------------------
(***************************************************************************)
(* NewPoolsLoaded.                                                         *)
(***************************************************************************)

\* The rows of the pools that have been loaded.
LoadedRows == {r \in Rows : loaded[PoolOf[r]] >= 0}

\* The balance v is not older than block n, or than the load.
Good(r, v, n) == Had(r, v, n) \/ Had(r, v, loaded[PoolOf[r]])

RowsOf(p) == {r \in Rows : PoolOf[r] \in run[p].pools}

\* The rows that a run may write.
Writes(p) == IF run[p].kind = "user" THEN DOMAIN run[p].read ELSE RowsOf(p)

Syncing(p) == pc[p] # "idle" /\ run[p].kind = "sync"

\* What a run has read.
Held(p) ==
    pc[p] = "commit" =>
        /\ DOMAIN run[p].read \subseteq Writes(p)
        /\ \A r \in DOMAIN run[p].read :
                Had(r, run[p].read[r], IF run[p].kind = "user" THEN run[p].begun ELSE run[p].end)

\* A load asks for everything.
Loads(p) ==
    run[p].kind = "init" =>
        /\ pc[p] = "shares" => run[p].from = 0
        /\ pc[p] = "commit" => Changed(run[p].pools, 0, run[p].end) \subseteq DOMAIN run[p].read

\* Starts and Shares, of the loaded pools that the sync reads.
LoadedStarts(p) ==
    pc[p] \in {"shares", "logs"} /\ run[p].kind = "sync" =>
        \A r \in LoadedRows \cap RowsOf(p) : Good(r, db[r], run[p].from - 1)

LoadedShares(p) ==
    pc[p] = "commit" /\ run[p].kind = "sync" =>
        \A r \in (LoadedRows \cap RowsOf(p)) \ DOMAIN run[p].read :
            Good(r, db[r], run[p].end - Reread)

\* A pool that a sync does not have among its pools was added after it began.
Added(p) ==
    Syncing(p) =>
        \A r \in LoadedRows \ RowsOf(p) : Good(r, db[r], run[p].begun + Delay - Reread)

\* So did a run that writes to it.
Order(p, q) ==
    Syncing(p) /\ pc[q] # "idle" /\ run[q].kind \in {"user", "sync"}
        /\ ~(Writes(q) \subseteq RowsOf(p))
            => run[p].begun <= run[q].begun

Known(p) ==
    pc[p] # "idle" /\ run[p].kind = "user" =>
        \A r \in DOMAIN run[p].read : PoolOf[r] \in known

LoadInv(p) == Held(p) /\ Loads(p) /\ LoadedStarts(p) /\ LoadedShares(p) /\ Added(p) /\ Known(p)

LoadedInv ==
    /\ \A r \in Rows : Had(r, db[r], 0)
    /\ \A r \in LoadedRows : PoolOf[r] \in known
    /\ \A r \in LoadedRows : Good(r, db[r], cursor - Reread)
    /\ \A p \in Processes : LoadInv(p)
    /\ \A p, q \in Processes : Order(p, q)

-----------------------------------------------------------------------------

LEMMA GoodLater ==
    ASSUME NEW r, NEW v, NEW m \in Int, NEW n \in Int, n <= m, head \in Nat, Good(r, v, m)
    PROVE  Good(r, v, n)
  BY HadLater DEF Good

\* A step of run p that leaves the chain and the stored balances alone.
LEMMA KeepsLoadedInv ==
    ASSUME TypeInv, LoadedInv, NEW p \in Processes, Others(p),
           UNCHANGED <<chainVars, db, cursor, loaded>>, known \subseteq known',
           LoadInv(p)', \A q \in Processes : Order(p, q)' /\ Order(q, p)'
    PROVE  LoadedInv'
<1>1. /\ head' = head /\ subgraph' = subgraph /\ balance' = balance
      /\ db' = db /\ cursor' = cursor /\ loaded' = loaded
  BY DEF chainVars
<1>2. /\ \A r \in Rows : Had(r, db[r], 0)'
      /\ \A r \in LoadedRows' : PoolOf[r] \in known'
      /\ \A r \in LoadedRows' : Good(r, db[r], cursor - Reread)'
  <2>1. /\ \A r \in Rows : Had(r, db[r], 0)
        /\ \A r \in LoadedRows : PoolOf[r] \in known
        /\ \A r \in LoadedRows : Good(r, db[r], cursor - Reread)
    BY DEF LoadedInv
  <2> QED
    BY <1>1, <2>1 DEF Had, Good, LoadedRows
<1>3. ASSUME NEW q \in Processes, q # p
      PROVE  LoadInv(q)'
  <2>1. pc'[q] = pc[q] /\ run'[q] = run[q]
    BY <1>3 DEF Others
  <2>2. Held(q) /\ Loads(q) /\ LoadedStarts(q) /\ LoadedShares(q) /\ Added(q) /\ Known(q)
    BY DEF LoadedInv, LoadInv
  <2>3. Held(q)' /\ Loads(q)'
    BY <1>1, <2>1, <2>2 DEF Held, Loads, Had, Writes, RowsOf, Changed
  <2>4. LoadedStarts(q)' /\ LoadedShares(q)'
    BY <1>1, <2>1, <2>2 DEF LoadedStarts, LoadedShares, LoadedRows, RowsOf, Good, Had
  <2>5. Added(q)' /\ Known(q)'
    BY <1>1, <2>1, <2>2 DEF Added, Known, Syncing, LoadedRows, RowsOf, Good, Had
  <2> QED
    BY <2>3, <2>4, <2>5 DEF LoadInv
<1>4. ASSUME NEW q \in Processes, NEW s \in Processes, q # p, s # p
      PROVE  Order(q, s)'
  <2>1. pc'[q] = pc[q] /\ run'[q] = run[q] /\ pc'[s] = pc[s] /\ run'[s] = run[s]
    BY <1>4 DEF Others
  <2>2. Order(q, s)
    BY DEF LoadedInv
  <2> QED
    BY <2>1, <2>2 DEF Order, Syncing, Writes, RowsOf
<1>5. \A q \in Processes : LoadInv(q)'
  BY <1>3
<1>6. \A q, s \in Processes : Order(q, s)'
  BY <1>4
<1> QED
  BY <1>2, <1>5, <1>6, Zenon DEF LoadedInv

\* A run that is over.
LEMMA LoadedByReturn ==
    ASSUME TypeInv, LoadedInv, NEW p \in Processes, Others(p), pc'[p] = "idle",
           UNCHANGED <<chainVars, dbVars>>
    PROVE  LoadedInv'
<1>1. LoadInv(p)'
  BY DEF LoadInv, Held, Loads, LoadedStarts, LoadedShares, Added, Known, Syncing
<1>2. \A q \in Processes : Order(p, q)' /\ Order(q, p)'
  BY DEF Order, Syncing
<1>3. UNCHANGED <<chainVars, db, cursor, loaded>> /\ known' = known
  BY DEF dbVars
<1> QED
  BY <1>1, <1>2, <1>3, KeepsLoadedInv

\* A run of the sync or of the load that goes on.
LEMMA LoadedByGoingOn ==
    ASSUME TypeInv, LoadedInv, NEW p \in Processes, Others(p), UNCHANGED <<chainVars, dbVars>>,
           pc[p] # "idle", run[p].kind # "user", run'[p].kind = run[p].kind,
           run'[p].pools = run[p].pools, run'[p].begun = run[p].begun,
           Held(p)', Loads(p)', LoadedStarts(p)', LoadedShares(p)'
    PROVE  LoadedInv'
<1>1. /\ head' = head /\ balance' = balance /\ db' = db /\ loaded' = loaded /\ known' = known
      /\ cursor' = cursor /\ run[p].kind # "user"
  BY DEF chainVars, dbVars
<1>2. Added(p) /\ \A q \in Processes : Order(p, q) /\ Order(q, p)
  BY DEF LoadedInv, LoadInv
<1>3. Added(p)'
  BY <1>1, <1>2 DEF Added, Syncing, LoadedRows, RowsOf, Good, Had
<1>4. Known(p)'
  BY <1>1 DEF Known
<1>5. ASSUME NEW q \in Processes
      PROVE  Order(p, q)' /\ Order(q, p)'
  <2>1. CASE q = p
    <3>1. run[p].begun <= run[p].begun
      BY DEF TypeInv, TypeOK
    <3> QED
      BY <2>1, <3>1 DEF Order
  <2>2. CASE q # p
    <3>1. pc'[q] = pc[q] /\ run'[q] = run[q]
      BY <2>2 DEF Others
    <3> QED
      BY <1>1, <1>2, <3>1 DEF Order, Syncing, Writes, RowsOf
  <2> QED
    BY <2>1, <2>2
<1> QED
  BY <1>1, <1>3, <1>4, <1>5, KeepsLoadedInv DEF LoadInv

LEMMA LoadedByBegin ==
    ASSUME TypeInv, LoadedInv, NEW p \in Processes, BeginSync(p) \/ BeginInit(p)
    PROVE  LoadedInv'
<1>1. UNCHANGED <<chainVars, db, cursor, loaded>> /\ known \subseteq known'
  BY DEF BeginSync, BeginInit, dbVars
<1>2. /\ head' = head /\ loaded' = loaded
      /\ \A q \in Processes : run[q].begun \in 0 .. head /\ run[q].pools \subseteq known
  BY <1>1 DEF chainVars, TypeInv, TypeOK
<1>3. /\ Others(p) /\ pc'[p] = "metadata" /\ run'[p].kind \in {"sync", "init"}
      /\ run'[p].begun = head
      /\ run'[p].kind = "sync" => run'[p].pools = known
  BY BeginSyncStep, BeginInitStep
<1>4. \A r \in LoadedRows : PoolOf[r] \in known
  BY DEF LoadedInv
<1>5. Added(p)'
  BY <1>2, <1>3, <1>4 DEF Added, LoadedRows, RowsOf, Syncing
<1>6. LoadInv(p)'
  BY <1>3, <1>5 DEF LoadInv, Held, Loads, LoadedStarts, LoadedShares, Known
<1>7. ASSUME NEW q \in Processes
      PROVE  Order(p, q)' /\ Order(q, p)'
  <2>1. CASE q = p
    <3>1. head <= head
      BY DEF TypeInv, TypeOK
    <3> QED
      BY <1>3, <2>1, <3>1 DEF Order
  <2>2. CASE q # p
    <3>1. pc'[q] = pc[q] /\ run'[q] = run[q] /\ Known(q)
      BY <1>3, <2>2 DEF Others, LoadedInv, LoadInv
    <3>2. Order(q, p)'
      <4>1. run[q].begun <= head
        BY <1>2
      <4> QED
        BY <1>3, <3>1, <4>1 DEF Order
    <3>3. ASSUME run'[p].kind = "sync", pc[q] # "idle"
          PROVE  Writes(q)' \subseteq RowsOf(p)'
      <4>1. DOMAIN run[q].read \subseteq Rows
        BY DEF TypeInv, TypeOK
      <4> QED
        BY <1>2, <1>3, <3>1, <3>3, <4>1 DEF Writes, RowsOf, Known
    <3> QED
      BY <3>1, <3>2, <3>3 DEF Order, Syncing
  <2> QED
    BY <2>1, <2>2
<1> QED
  BY <1>1, <1>3, <1>6, <1>7, KeepsLoadedInv

LEMMA LoadedByMetadata ==
    ASSUME TypeInv, MissedInv, LoadedInv, NEW p \in Processes, Metadata(p)
    PROVE  LoadedInv'
<1>1. UNCHANGED <<chainVars, dbVars>>
  BY DEF Metadata
<1>2. run[p].kind # "user"
  BY MetadataStep DEF MissedInv, Kinds
<1>3. Held(p)' /\ Loads(p)' /\ LoadedStarts(p)' /\ LoadedShares(p)'
  BY MetadataStep DEF Held, Loads, LoadedStarts, LoadedShares
<1> QED
  BY <1>1, <1>2, <1>3, LoadedByGoingOn, MetadataStep

LEMMA LoadedByReadCursor ==
    ASSUME MarginsSuffice, TypeInv, MissedInv, LoadedInv, NEW p \in Processes, ReadCursor(p)
    PROVE  LoadedInv'
<1>1. UNCHANGED <<chainVars, dbVars>>
  BY DEF ReadCursor
<1>2. /\ head \in Nat /\ head' = head /\ cursor \in 0 .. head
      /\ balance' = balance /\ db' = db /\ loaded' = loaded
  BY <1>1 DEF TypeInv, TypeOK, chainVars, dbVars
<1>3. run[p].kind # "user"
  BY ReadCursorStep DEF MissedInv, Kinds
<1>4. Held(p)' /\ LoadedShares(p)'
  BY ReadCursorStep DEF Held, LoadedShares
<1>5. Loads(p)'
  BY ReadCursorStep DEF Loads, SubgraphStart
<1>6. \A r \in LoadedRows : Good(r, db[r], SubgraphStart(p) - 1)
  <2> SUFFICES ASSUME NEW r \in LoadedRows PROVE Good(r, db[r], SubgraphStart(p) - 1)
    OBVIOUS
  <2>1. CASE run[p].kind = "sync" /\ cursor > Margin
    <3>1. SubgraphStart(p) = cursor - Margin
      BY <2>1 DEF SubgraphStart
    <3>2. /\ SubgraphStart(p) - 1 <= cursor - Reread
          /\ SubgraphStart(p) - 1 \in Int /\ cursor - Reread \in Int
      BY <1>2, <3>1, NumbersAssumption DEF MarginsSuffice, Reread
    <3>3. Good(r, db[r], cursor - Reread)
      BY DEF LoadedInv
    <3> QED
      BY <1>2, <3>2, <3>3, GoodLater
  <2>2. CASE ~(run[p].kind = "sync" /\ cursor > Margin)
    <3>1. SubgraphStart(p) = 0
      BY <2>2 DEF SubgraphStart
    <3>2. Had(r, db[r], 0)
      BY DEF LoadedInv, LoadedRows
    <3>3. Had(r, db[r], 0 - 1)
      BY <1>2, <3>2, HadLater
    <3> QED
      BY <3>1, <3>3 DEF Good
  <2> QED
    BY <2>1, <2>2
<1>7. LoadedStarts(p)'
  BY <1>2, <1>6, ReadCursorStep DEF LoadedStarts, LoadedRows, Good, Had
<1> QED
  BY <1>1, <1>3, <1>4, <1>5, <1>7, LoadedByGoingOn, ReadCursorStep

\* A balance that is good since the block before the range and did not change in the range.
LEMMA GoodUnchanged ==
    ASSUME TypeInv, Steady, NEW r \in Rows, NEW S, PoolOf[r] \in S,
           NEW first \in Int, NEW last \in 0 .. head,
           r \notin Changed(S, first, last), NEW v, Good(r, v, first - 1)
    PROVE  Good(r, v, last - Reread)
<1>1. head \in Nat
  BY DEF TypeInv, TypeOK
<1>2. CASE Had(r, v, first - 1)
  <2>1. Had(r, v, last)
    BY <1>2, Unchanged
  <2>2. last \in Int /\ last - Reread \in Int /\ last - Reread <= last
    BY <1>1, NumbersAssumption DEF Reread
  <2> QED
    BY <1>1, <2>1, <2>2, HadLater DEF Good
<1> QED
  BY <1>2 DEF Good

LEMMA LoadedByReadShares ==
    ASSUME TypeInv, MissedInv, LoadedInv, NEW p \in Processes, ReadShares(p)
    PROVE  LoadedInv'
<1>1. UNCHANGED <<chainVars, dbVars>> /\ Steady
  BY DEF ReadShares, MissedInv
<1>2. /\ head \in Nat /\ head' = head /\ balance' = balance /\ db' = db /\ loaded' = loaded
      /\ subgraph \in 0 .. head /\ run[p].end \in 0 .. head /\ run[p].from \in Int
  BY <1>1 DEF TypeInv, TypeOK, chainVars, dbVars
<1>3. run[p].kind \in {"sync", "init"} /\ run[p].end <= subgraph
  BY ReadSharesStep DEF MissedInv, Kinds, Ends
<1>4. PICK late \in SUBSET Rows :
        /\ DOMAIN run'[p].read
                = (Changed(run[p].pools, run[p].from, run[p].end) \ late)
                    \cup (Changed(run[p].pools, run[p].from, subgraph) \cap late)
        /\ \A r \in DOMAIN run'[p].read :
                run'[p].read[r] = balance[r][IF r \in late THEN subgraph ELSE run[p].end]
  BY ReadSharesStep
<1>5. Changed(run[p].pools, run[p].from, run[p].end)
            \subseteq Changed(run[p].pools, run[p].from, subgraph)
  BY <1>2, <1>3 DEF Changed
<1>6. Changed(run[p].pools, run[p].from, run[p].end) \subseteq DOMAIN run'[p].read
  BY <1>4, <1>5
<1>7. /\ pc'[p] = "commit" /\ run'[p].kind = run[p].kind /\ run'[p].pools = run[p].pools
      /\ run'[p].end = run[p].end /\ pc[p] = "shares"
  BY ReadSharesStep
<1>8. Held(p)'
  <2>1. DOMAIN run'[p].read \subseteq RowsOf(p)'
    BY <1>4, <1>7 DEF Changed, RowsOf
  <2>2. \A r \in DOMAIN run'[p].read : Had(r, run'[p].read[r], run[p].end)
    BY <1>2, <1>3, <1>4 DEF Had
  <2> QED
    BY <1>2, <1>3, <1>7, <2>1, <2>2 DEF Held, Writes, Had
<1>9. Loads(p)'
  <2>1. run[p].kind = "init" => run[p].from = 0
    BY <1>7 DEF LoadedInv, LoadInv, Loads
  <2> QED
    BY <1>2, <1>6, <1>7, <2>1 DEF Loads, Changed
<1>10. LoadedStarts(p)'
  BY <1>7 DEF LoadedStarts
<1>11. LoadedShares(p)'
  <2> SUFFICES ASSUME run[p].kind = "sync",
                      NEW r \in (LoadedRows \cap RowsOf(p)) \ DOMAIN run'[p].read
               PROVE  Good(r, db[r], run[p].end - Reread)
    BY <1>2, <1>7 DEF LoadedShares, LoadedRows, RowsOf, Good, Had
  <2>1. Good(r, db[r], run[p].from - 1)
    BY <1>7 DEF LoadedInv, LoadInv, LoadedStarts
  <2>2. r \in Rows /\ PoolOf[r] \in run[p].pools
            /\ r \notin Changed(run[p].pools, run[p].from, run[p].end)
    BY <1>6 DEF RowsOf
  <2> QED
    BY <1>1, <1>2, <2>1, <2>2, GoodUnchanged
<1> QED
  BY <1>1, <1>3, <1>7, <1>8, <1>9, <1>10, <1>11, LoadedByGoingOn, ReadSharesStep

LEMMA LoadedByRpc ==
    ASSUME TypeInv, MissedInv, LoadedInv, NEW p \in Processes,
           GiveUpSubgraph(p) \/ RpcHead(p) \/ RpcCursor(p)
    PROVE  LoadedInv'
<1>1. UNCHANGED <<chainVars, dbVars>>
  BY DEF GiveUpSubgraph, RpcHead, RpcCursor
<1>2. /\ head \in Nat /\ head' = head /\ cursor \in 0 .. head
      /\ balance' = balance /\ db' = db /\ loaded' = loaded
  BY <1>1 DEF TypeInv, TypeOK, chainVars, dbVars
<1>3. Others(p) /\ pc[p] # "idle" /\ run[p].kind # "user"
        /\ pc'[p] \in {"idle", "rpc", "rpcCursor", "logs"}
  BY GiveUpSubgraphStep, RpcHeadStep, RpcCursorStep DEF MissedInv, Kinds
<1>4. CASE pc'[p] = "idle"
  BY <1>1, <1>3, <1>4, LoadedByReturn
<1>5. CASE pc'[p] # "idle"
  <2>1. /\ run'[p].kind = run[p].kind /\ run'[p].pools = run[p].pools
        /\ run'[p].begun = run[p].begun
        /\ pc'[p] = "logs" => run'[p].from = cursor - RpcMargin
    BY <1>5, GiveUpSubgraphStep, RpcHeadStep, RpcCursorStep
  <2>2. Held(p)' /\ Loads(p)' /\ LoadedShares(p)'
    BY <1>3 DEF Held, Loads, LoadedShares
  <2>3. LoadedStarts(p)'
    <3>1. \A r \in LoadedRows : Good(r, db[r], cursor - Reread)
      BY DEF LoadedInv
    <3>2. cursor - Reread = (cursor - RpcMargin) - 1
      BY <1>2, NumbersAssumption DEF Reread
    <3>3. \A r \in LoadedRows : Good(r, db[r], (cursor - RpcMargin) - 1)
      BY <3>1, <3>2
    <3> QED
      BY <1>2, <1>3, <2>1, <3>3 DEF LoadedStarts, LoadedRows, Good, Had
  <2> QED
    BY <1>1, <1>3, <2>1, <2>2, <2>3, LoadedByGoingOn
<1> QED
  BY <1>4, <1>5

LEMMA LoadedByReadLogs ==
    ASSUME MarginsSuffice, TypeInv, MissedInv, LoadedInv, NEW p \in Processes, ReadLogs(p)
    PROVE  LoadedInv'
<1>1. UNCHANGED <<chainVars, dbVars>> /\ Steady
  BY DEF ReadLogs, MissedInv
<1>2. /\ head \in Nat /\ head' = head /\ balance' = balance /\ db' = db /\ loaded' = loaded
      /\ run[p].end \in 0 .. head /\ run[p].from \in Int
  BY <1>1 DEF TypeInv, TypeOK, chainVars, dbVars
<1>3. /\ pc[p] = "logs" /\ run[p].kind = "sync" /\ pc'[p] = "commit" /\ Others(p)
      /\ run'[p].kind = run[p].kind /\ run'[p].pools = run[p].pools
      /\ run'[p].begun = run[p].begun /\ run'[p].end = run[p].end
  BY ReadLogsStep DEF MissedInv, Kinds
<1>4. ToBlock(p) = run[p].end
  <2>1. 1 - RpcMargin <= run[p].from /\ head <= MaxBlock
    BY <1>3 DEF MissedInv, Starts
  <2> QED
    BY <1>2, <2>1, NumbersAssumption DEF MarginsSuffice, ToBlock
<1>5. /\ DOMAIN run'[p].read = IF run[p].from = ToBlock(p) THEN {}
                               ELSE Changed(run[p].pools, run[p].from, ToBlock(p))
      /\ \A r \in DOMAIN run'[p].read : run'[p].read[r] = balance[r][head]
  BY ReadLogsStep
<1>6. Held(p)'
  <2>1. DOMAIN run'[p].read \subseteq RowsOf(p)'
    BY <1>3, <1>5 DEF Changed, RowsOf
  <2>2. \A r \in DOMAIN run'[p].read : Had(r, run'[p].read[r], run[p].end)
    BY <1>2, <1>5 DEF Had
  <2> QED
    BY <1>2, <1>3, <2>1, <2>2 DEF Held, Writes, Had
<1>7. Loads(p)' /\ LoadedStarts(p)'
  BY <1>3 DEF Loads, LoadedStarts
<1>8. LoadedShares(p)'
  <2> SUFFICES ASSUME NEW r \in (LoadedRows \cap RowsOf(p)) \ DOMAIN run'[p].read
               PROVE  Good(r, db[r], run[p].end - Reread)
    BY <1>2, <1>3 DEF LoadedShares, LoadedRows, RowsOf, Good, Had
  <2>1. Good(r, db[r], run[p].from - 1)
    BY <1>3 DEF LoadedInv, LoadInv, LoadedStarts
  <2>2. CASE run[p].from = ToBlock(p)
    <3>1. run[p].end - Reread <= run[p].from - 1 /\ run[p].end - Reread \in Int
      BY <1>2, <1>4, <2>2, NumbersAssumption DEF Reread
    <3> QED
      BY <1>2, <2>1, <3>1, GoodLater
  <2>3. CASE run[p].from # ToBlock(p)
    <3>1. r \in Rows /\ PoolOf[r] \in run[p].pools
              /\ r \notin Changed(run[p].pools, run[p].from, run[p].end)
      BY <1>4, <1>5, <2>3 DEF RowsOf
    <3> QED
      BY <1>1, <1>2, <2>1, <3>1, GoodUnchanged
  <2> QED
    BY <2>2, <2>3
<1> QED
  BY <1>1, <1>3, <1>6, <1>7, <1>8, LoadedByGoingOn

LEMMA LoadedByReadUser ==
    ASSUME TypeInv, LoadedInv, NEW p \in Processes, ReadUser(p)
    PROVE  LoadedInv'
<1>1. UNCHANGED <<chainVars, db, cursor, loaded>> /\ known' = known
  BY DEF ReadUser, dbVars
<1>2. /\ head \in Nat /\ head' = head /\ balance' = balance
      /\ \A q \in Processes : run[q].begun \in 0 .. head
  BY <1>1 DEF TypeInv, TypeOK, chainVars
<1>3. Others(p) /\ pc'[p] = "commit" /\ run'[p].kind = "user" /\ run'[p].begun = head
        /\ \A r \in DOMAIN run'[p].read : r \in Rows /\ run'[p].read[r] = balance[r][head]
  BY ReadUserStep
<1>4. \A r \in DOMAIN run'[p].read : PoolOf[r] \in known
  <2>1. PICK r \in {x \in Rows : PoolOf[x] \in known} :
          run' = [run EXCEPT ![p] = [NoRun EXCEPT
                    !.kind = "user", !.begun = head, !.read = [x \in {r} |-> balance[x][head]]]]
    BY DEF ReadUser
  <2>2. DOMAIN run'[p].read = {r}
    BY <2>1 DEF NoRun, TypeInv
  <2> QED
    BY <2>2
<1>5. Held(p)'
  BY <1>2, <1>3 DEF Held, Writes, Had
<1>6. Loads(p)' /\ LoadedStarts(p)' /\ LoadedShares(p)' /\ Added(p)' /\ Known(p)'
  BY <1>1, <1>3, <1>4 DEF Loads, LoadedStarts, LoadedShares, Added, Known, Syncing
<1>7. ASSUME NEW q \in Processes
      PROVE  Order(p, q)' /\ Order(q, p)'
  <2>1. Order(p, q)'
    BY <1>3 DEF Order, Syncing
  <2>2. CASE q = p
    BY <2>1, <2>2
  <2>3. CASE q # p
    <3>1. run'[q] = run[q] /\ run[q].begun <= head
      BY <1>2, <1>3, <2>3 DEF Others
    <3> QED
      BY <1>3, <2>1, <3>1 DEF Order
  <2> QED
    BY <2>2, <2>3
<1> QED
  BY <1>1, <1>3, <1>5, <1>6, <1>7, KeepsLoadedInv DEF LoadInv

\* What a run stores while another one syncs is not older than that one's margin, and not
\* than that one itself where it has not the pool.
LEMMA StoresLoaded ==
    ASSUME MarginsSuffice, TypeInv, MissedInv, LoadedInv,
           NEW p \in Processes, NEW q \in Processes, p # q,
           pc[p] = "commit", run[p].kind \in {"user", "sync"}, Syncing(q),
           NEW r \in DOMAIN run[p].read
    PROVE  /\ Had(r, run[p].read[r], head - Reread)
           /\ r \notin RowsOf(q) => Had(r, run[p].read[r], run[q].begun + Delay - Reread)
<1>1. /\ Kinds(p) /\ Kinds(q) /\ Ends(p) /\ Held(p) /\ Order(q, p)
  BY DEF MissedInv, LoadedInv, LoadInv
<1>2. /\ head \in Nat /\ run[p].begun \in 0 .. head /\ run[p].end \in 0 .. head
      /\ run[q].begun \in 0 .. head
  BY DEF TypeInv, TypeOK
<1>3. head <= run[p].begun + Delay
  BY <1>1 DEF Ends
<1>4. r \notin RowsOf(q) => run[q].begun <= run[p].begun
  BY <1>1 DEF Held, Order
<1>5. /\ head - Reread \in Int /\ run[q].begun + Delay - Reread \in Int
      /\ run[p].begun \in Int /\ run[p].end \in Int
  BY <1>2, NumbersAssumption DEF Reread
<1>6. CASE run[p].kind = "user"
  <2>1. Had(r, run[p].read[r], run[p].begun)
    BY <1>1, <1>6 DEF Held
  <2>2. /\ head - Reread <= run[p].begun
        /\ r \notin RowsOf(q) => run[q].begun + Delay - Reread <= run[p].begun
    BY <1>2, <1>3, <1>4, NumbersAssumption DEF MarginsSuffice, Reread
  <2> QED
    BY <1>2, <1>5, <2>1, <2>2, HadLater
<1>7. CASE run[p].kind = "sync"
  <2>1. Had(r, run[p].read[r], run[p].end) /\ run[p].begun - MaxLag <= run[p].end
    BY <1>1, <1>7 DEF Held, Ends
  <2>2. Delay + MaxLag <= Reread
    BY <1>1, <1>7 DEF Kinds, Syncing, MarginsSuffice, OneSyncer
  <2>3. /\ head - Reread <= run[p].end
        /\ r \notin RowsOf(q) => run[q].begun + Delay - Reread <= run[p].end
    BY <1>2, <1>3, <1>4, <2>1, <2>2, NumbersAssumption DEF Reread
  <2> QED
    BY <1>2, <1>5, <2>1, <2>3, HadLater
<1> QED
  BY <1>6, <1>7

\* A run that stores what it has read, and is over.
LEMMA LoadedByWrite ==
    ASSUME TypeInv, LoadedInv, NEW p \in Processes, Others(p), pc'[p] = "idle",
           UNCHANGED <<chainVars, known>>,
           \A r \in Rows : Had(r, db[r], 0)',
           \A r \in LoadedRows' : PoolOf[r] \in known /\ Good(r, db[r], cursor - Reread)',
           \A q \in Processes \ {p} : LoadedStarts(q)' /\ LoadedShares(q)' /\ Added(q)'
    PROVE  LoadedInv'
<1>1. head' = head /\ balance' = balance /\ known' = known
  BY DEF chainVars
<1>2. ASSUME NEW q \in Processes
      PROVE  LoadInv(q)'
  <2>1. CASE q = p
    BY <2>1 DEF LoadInv, Held, Loads, LoadedStarts, LoadedShares, Added, Known, Syncing
  <2>2. CASE q # p
    <3>1. pc'[q] = pc[q] /\ run'[q] = run[q] /\ Held(q) /\ Loads(q) /\ Known(q)
      BY <2>2 DEF Others, LoadedInv, LoadInv
    <3>2. Held(q)' /\ Loads(q)' /\ Known(q)'
      BY <1>1, <3>1 DEF Held, Loads, Known, Had, Writes, RowsOf, Changed
    <3> QED
      BY <2>2, <3>2 DEF LoadInv
  <2> QED
    BY <2>1, <2>2
<1>3. ASSUME NEW q \in Processes, NEW s \in Processes
      PROVE  Order(q, s)'
  <2>1. CASE q = p \/ s = p
    BY <2>1 DEF Order, Syncing
  <2>2. CASE q # p /\ s # p
    <3>1. /\ pc'[q] = pc[q] /\ run'[q] = run[q] /\ pc'[s] = pc[s] /\ run'[s] = run[s]
          /\ Order(q, s)
      BY <2>2 DEF Others, LoadedInv
    <3> QED
      BY <3>1 DEF Order, Syncing, Writes, RowsOf
  <2> QED
    BY <2>1, <2>2
<1>4. \A r \in LoadedRows' : PoolOf[r] \in known'
  BY <1>1
<1> QED
  BY <1>2, <1>3, <1>4, Zenon DEF LoadedInv

\* The load of a pool: afterwards all its balances are those of the block of the load.
LEMMA LoadedByCommitLoad ==
    ASSUME TypeInv, MissedInv, LoadedInv, NEW p \in Processes, Commit(p), run[p].kind = "init"
    PROVE  LoadedInv'
<1> DEFINE NewGood(r, n) == Had(r, db'[r], n) \/ Had(r, db'[r], loaded'[PoolOf[r]])
<1>1. /\ head' = head /\ balance' = balance /\ known' = known /\ cursor' = cursor
      /\ Others(p) /\ pc[p] = "commit" /\ pc'[p] = "idle" /\ UNCHANGED <<chainVars, known>>
      /\ \A r \in Rows :
            db'[r] = IF r \in DOMAIN run[p].read THEN run[p].read[r] ELSE db[r]
  BY CommitStep DEF chainVars, CursorAfter
<1>2. /\ head \in Nat /\ run[p].end \in 0 .. head /\ run[p].pools \subseteq known
      /\ Steady /\ Held(p) /\ Loads(p) /\ \A r \in Rows : PoolOf[r] \in Pools
  BY RowsAssumption DEF TypeInv, TypeOK, MissedInv, LoadedInv, LoadInv
<1>3. \A r \in Rows :
        loaded'[PoolOf[r]] = IF r \in RowsOf(p) THEN run[p].end ELSE loaded[PoolOf[r]]
  BY <1>2 DEF Commit, RowsOf
<1>4. ASSUME NEW r \in RowsOf(p)
      PROVE  Had(r, db'[r], run[p].end)
  <2>1. r \in Rows /\ PoolOf[r] \in run[p].pools
    BY DEF RowsOf
  <2>2. CASE r \in DOMAIN run[p].read
    <3>1. Had(r, run[p].read[r], run[p].end)
      BY <1>1, <1>2, <2>2 DEF Held
    <3> QED
      BY <1>1, <2>1, <2>2, <3>1
  <2>3. CASE r \notin DOMAIN run[p].read
    <3>1. r \notin Changed(run[p].pools, 0, run[p].end)
      BY <1>1, <1>2, <2>3 DEF Loads
    <3>2. PICK first \in Int : first = 0
      OBVIOUS
    <3>3. Had(r, db[r], 0) /\ first - 1 <= 0 /\ first - 1 \in Int
      BY <2>1, <3>2 DEF LoadedInv
    <3>4. Had(r, db[r], first - 1)
      BY <1>2, <3>3, HadLater
    <3>5. r \notin Changed(run[p].pools, first, run[p].end)
      BY <3>1, <3>2
    <3>6. Had(r, db[r], run[p].end)
      BY <1>2, <2>1, <3>4, <3>5, Unchanged
    <3> QED
      BY <1>1, <2>1, <2>3, <3>6
  <2> QED
    BY <2>2, <2>3
<1>5. \A r \in Rows \ RowsOf(p) : db'[r] = db[r]
  BY <1>1, <1>2 DEF Held, Writes
<1>6. ASSUME NEW r \in LoadedRows', NEW n, r \in LoadedRows => Good(r, db[r], n)
      PROVE  NewGood(r, n)
  <2>1. r \in Rows
    BY DEF LoadedRows
  <2>2. CASE r \in RowsOf(p)
    BY <1>3, <1>4, <2>1, <2>2
  <2>3. CASE r \notin RowsOf(p)
    BY <1>3, <1>5, <1>6, <2>1, <2>3 DEF LoadedRows, Good
  <2> QED
    BY <2>2, <2>3
<1>7. ASSUME NEW r \in Rows
      PROVE  Had(r, db'[r], 0)
  <2>1. CASE r \in RowsOf(p)
    BY <1>2, <1>4, <2>1, HadLater
  <2>2. CASE r \notin RowsOf(p)
    BY <1>5, <2>2 DEF LoadedInv
  <2> QED
    BY <2>1, <2>2
<1>8. ASSUME NEW r \in LoadedRows'
      PROVE  PoolOf[r] \in known /\ NewGood(r, cursor - Reread)
  <2>1. r \in Rows
    BY DEF LoadedRows
  <2>2. r \in LoadedRows => PoolOf[r] \in known /\ Good(r, db[r], cursor - Reread)
    BY DEF LoadedInv
  <2>3. NewGood(r, cursor - Reread)
    BY <1>6, <2>2
  <2>4. CASE r \in RowsOf(p)
    BY <1>2, <2>3, <2>4 DEF RowsOf
  <2>5. CASE r \notin RowsOf(p)
    BY <1>3, <2>1, <2>2, <2>3, <2>5 DEF LoadedRows
  <2> QED
    BY <2>4, <2>5
<1>9. ASSUME NEW q \in Processes \ {p}
      PROVE  LoadedStarts(q)' /\ LoadedShares(q)' /\ Added(q)'
  <2>1. pc'[q] = pc[q] /\ run'[q] = run[q] /\ RowsOf(q)' = RowsOf(q)
    BY <1>1 DEF Others, RowsOf
  <2>2. LoadedStarts(q) /\ LoadedShares(q) /\ Added(q)
    BY DEF LoadedInv, LoadInv
  <2>3. LoadedStarts(q)'
    <3> SUFFICES ASSUME pc[q] \in {"shares", "logs"}, run[q].kind = "sync",
                        NEW r \in LoadedRows' \cap RowsOf(q)
                 PROVE  NewGood(r, run[q].from - 1)
      BY <1>1, <2>1 DEF LoadedStarts, Good, Had
    <3> QED
      BY <1>6, <2>2 DEF LoadedStarts
  <2>4. LoadedShares(q)'
    <3> SUFFICES ASSUME pc[q] = "commit", run[q].kind = "sync",
                        NEW r \in (LoadedRows' \cap RowsOf(q)) \ DOMAIN run[q].read
                 PROVE  NewGood(r, run[q].end - Reread)
      BY <1>1, <2>1 DEF LoadedShares, Good, Had
    <3> QED
      BY <1>6, <2>2 DEF LoadedShares
  <2>5. Added(q)'
    <3> SUFFICES ASSUME Syncing(q), NEW r \in LoadedRows' \ RowsOf(q)
                 PROVE  NewGood(r, run[q].begun + Delay - Reread)
      BY <1>1, <2>1 DEF Added, Syncing, Good, Had
    <3> QED
      BY <1>6, <2>2 DEF Added
  <2> QED
    BY <2>3, <2>4, <2>5
<1>10. \A r \in Rows : Had(r, db[r], 0)'
  BY <1>1, <1>7 DEF Had
<1>11. \A r \in LoadedRows' : PoolOf[r] \in known /\ Good(r, db[r], cursor - Reread)'
  BY <1>1, <1>8 DEF Good, Had
<1> QED
  BY <1>1, <1>9, <1>10, <1>11, LoadedByWrite

LEMMA LoadedByCommitRun ==
    ASSUME MarginsSuffice, TypeInv, MissedInv, LoadedInv, NEW p \in Processes, Commit(p),
           run[p].kind # "init"
    PROVE  LoadedInv'
<1>1. /\ head' = head /\ balance' = balance /\ known' = known /\ cursor' = CursorAfter(p)
      /\ Others(p) /\ pc[p] = "commit" /\ pc'[p] = "idle" /\ UNCHANGED <<chainVars, known>>
      /\ \A r \in Rows :
            db'[r] = IF r \in DOMAIN run[p].read THEN run[p].read[r] ELSE db[r]
  BY CommitStep DEF chainVars
<1>2. /\ head \in Nat /\ cursor \in 0 .. head
      /\ run[p].begun \in 0 .. head /\ run[p].end \in 0 .. head
      /\ \A r \in Rows : PoolOf[r] \in Pools
  BY RowsAssumption DEF TypeInv, TypeOK
<1>3. /\ run[p].kind \in {"user", "sync"} /\ head <= run[p].begun + Delay
      /\ Held(p) /\ LoadedShares(p) /\ Added(p)
  BY <1>1 DEF MissedInv, Kinds, Ends, LoadedInv, LoadInv
<1>4. \A r \in Rows : loaded'[PoolOf[r]] = loaded[PoolOf[r]]
  BY <1>2 DEF Commit
<1>5. LoadedRows' = LoadedRows /\ LoadedRows \subseteq Rows
  BY <1>4 DEF LoadedRows
<1> DEFINE New(r, n) == Good(r, db'[r], n)
<1>6. ASSUME NEW r \in Rows
      PROVE  Had(r, db'[r], 0)
  <2>1. CASE r \in DOMAIN run[p].read
    <3>1. Had(r, run[p].read[r], 0)
      BY <1>1, <1>2, <1>3, <2>1, HadLater DEF Held
    <3> QED
      BY <1>1, <2>1, <3>1
  <2>2. CASE r \notin DOMAIN run[p].read
    BY <1>1, <2>2 DEF LoadedInv
  <2> QED
    BY <2>1, <2>2
<1>7. ASSUME NEW r \in LoadedRows
      PROVE  New(r, cursor' - Reread)
  <2>1. CASE run[p].kind = "sync" /\ DOMAIN run[p].read # {}
    <3>1. cursor' = run[p].end
      BY <1>1, <2>1 DEF CursorAfter
    <3>2. /\ run[p].end - Reread <= run[p].end
          /\ run[p].end - Reread <= run[p].begun + Delay - Reread
          /\ run[p].end - Reread \in Int /\ run[p].end \in Int
          /\ run[p].begun + Delay - Reread \in Int
      BY <1>2, <1>3, NumbersAssumption DEF Reread
    <3>3. CASE r \in DOMAIN run[p].read
      <4>1. Had(r, run[p].read[r], run[p].end)
        BY <1>1, <1>3, <2>1, <3>3 DEF Held
      <4>2. Had(r, run[p].read[r], run[p].end - Reread)
        BY <1>2, <3>2, <4>1, HadLater
      <4> QED
        BY <1>1, <1>5, <3>1, <3>3, <4>2 DEF Good
    <3>4. CASE r \notin DOMAIN run[p].read
      <4>1. CASE r \in RowsOf(p)
        BY <1>1, <1>3, <1>5, <2>1, <3>1, <3>4, <4>1 DEF LoadedShares
      <4>2. CASE r \notin RowsOf(p)
        <5>1. Good(r, db[r], run[p].begun + Delay - Reread)
          BY <1>1, <1>3, <2>1, <4>2 DEF Added, Syncing
        <5>2. Good(r, db[r], run[p].end - Reread)
          BY <1>2, <3>2, <5>1, GoodLater
        <5> QED
          BY <1>1, <1>5, <3>1, <3>4, <5>2
      <4> QED
        BY <4>1, <4>2
    <3> QED
      BY <3>3, <3>4
  <2>2. CASE ~(run[p].kind = "sync" /\ DOMAIN run[p].read # {})
    <3>1. cursor' = cursor
      BY <1>1, <2>2 DEF CursorAfter
    <3>2. CASE r \in DOMAIN run[p].read
      <4>1. Had(r, run[p].read[r], run[p].begun)
        BY <1>1, <1>3, <2>2, <3>2 DEF Held
      <4>2. cursor - Reread <= run[p].begun /\ run[p].begun \in Int /\ cursor - Reread \in Int
        BY <1>2, <1>3, NumbersAssumption DEF MarginsSuffice, Reread
      <4>3. Had(r, run[p].read[r], cursor - Reread)
        BY <1>2, <4>1, <4>2, HadLater
      <4> QED
        BY <1>1, <1>5, <3>1, <3>2, <4>3 DEF Good
    <3>3. CASE r \notin DOMAIN run[p].read
      <4>1. Good(r, db[r], cursor - Reread)
        BY DEF LoadedInv
      <4> QED
        BY <1>1, <1>5, <3>1, <3>3, <4>1
    <3> QED
      BY <3>2, <3>3
  <2> QED
    BY <2>1, <2>2
<1>8. ASSUME NEW q \in Processes \ {p}, Syncing(q), NEW r \in LoadedRows,
             NEW n \in Int, Good(r, db[r], n),
             \/ n <= head - Reread \/ n <= 0
             \/ r \notin RowsOf(q) /\ n = run[q].begun + Delay - Reread
      PROVE  New(r, n)
  <2>1. CASE r \in DOMAIN run[p].read
    <3>1. /\ Had(r, run[p].read[r], head - Reread)
          /\ r \notin RowsOf(q) => Had(r, run[p].read[r], run[q].begun + Delay - Reread)
          /\ Had(r, run[p].read[r], 0)
      BY <1>1, <1>3, <1>5, <1>6, <1>8, <2>1, StoresLoaded
    <3>2. head - Reread \in Int
      BY <1>2, NumbersAssumption DEF Reread
    <3>3. Had(r, run[p].read[r], n)
      BY <1>2, <1>8, <3>1, <3>2, HadLater
    <3> QED
      BY <1>1, <1>5, <2>1, <3>3 DEF Good
  <2>2. CASE r \notin DOMAIN run[p].read
    BY <1>1, <1>5, <1>8, <2>2
  <2> QED
    BY <2>1, <2>2
<1>9. ASSUME NEW q \in Processes \ {p}
      PROVE  LoadedStarts(q)' /\ LoadedShares(q)' /\ Added(q)'
  <2>1. pc'[q] = pc[q] /\ run'[q] = run[q] /\ RowsOf(q)' = RowsOf(q)
    BY <1>1 DEF Others, RowsOf
  <2>2. LoadedStarts(q) /\ LoadedShares(q) /\ Added(q) /\ Starts(q)
    BY DEF LoadedInv, LoadInv, MissedInv
  <2>3. run[q].end \in 0 .. head /\ run[q].from \in Int /\ run[q].begun \in 0 .. head
    BY DEF TypeInv, TypeOK
  <2>4. LoadedStarts(q)'
    <3> SUFFICES ASSUME pc[q] \in {"shares", "logs"}, run[q].kind = "sync",
                        NEW r \in LoadedRows \cap RowsOf(q)
                 PROVE  New(r, run[q].from - 1)
      BY <1>1, <1>4, <1>5, <2>1 DEF LoadedStarts, Good, Had
    <3>1. Good(r, db[r], run[q].from - 1) /\ Syncing(q)
      BY <2>2 DEF LoadedStarts, Syncing
    <3>2. run[q].from - 1 \in Int
            /\ (run[q].from - 1 <= head - Reread \/ run[q].from - 1 <= 0)
      BY <1>2, <2>2, <2>3, NumbersAssumption DEF Starts, Reread
    <3> QED
      BY <1>8, <3>1, <3>2
  <2>5. LoadedShares(q)'
    <3> SUFFICES ASSUME pc[q] = "commit", run[q].kind = "sync",
                        NEW r \in (LoadedRows \cap RowsOf(q)) \ DOMAIN run[q].read
                 PROVE  New(r, run[q].end - Reread)
      BY <1>1, <1>4, <1>5, <2>1 DEF LoadedShares, Good, Had
    <3>1. Good(r, db[r], run[q].end - Reread) /\ Syncing(q)
      BY <2>2 DEF LoadedShares, Syncing
    <3>2. run[q].end - Reread \in Int /\ run[q].end - Reread <= head - Reread
      BY <1>2, <2>3, NumbersAssumption DEF Reread
    <3> QED
      BY <1>8, <3>1, <3>2
  <2>6. Added(q)'
    <3> SUFFICES ASSUME Syncing(q), NEW r \in LoadedRows \ RowsOf(q)
                 PROVE  New(r, run[q].begun + Delay - Reread)
      BY <1>1, <1>4, <1>5, <2>1 DEF Added, Syncing, Good, Had
    <3>1. Good(r, db[r], run[q].begun + Delay - Reread)
      BY <2>2 DEF Added
    <3>2. run[q].begun + Delay - Reread \in Int
      BY <1>2, <2>3, NumbersAssumption DEF Reread
    <3> QED
      BY <1>8, <3>1, <3>2
  <2> QED
    BY <2>4, <2>5, <2>6
<1>10. \A r \in Rows : Had(r, db[r], 0)'
  BY <1>1, <1>6 DEF Had
<1>11. \A r \in LoadedRows' : PoolOf[r] \in known /\ Good(r, db[r], cursor - Reread)'
  <2>1. \A r \in LoadedRows : PoolOf[r] \in known
    BY DEF LoadedInv
  <2> QED
    BY <1>1, <1>4, <1>5, <1>7, <2>1 DEF Good, Had
<1> QED
  BY <1>1, <1>9, <1>10, <1>11, LoadedByWrite

LEMMA LoadedByChain ==
    ASSUME TypeInv, LoadedInv, NewBlock \/ SubgraphIndexes
    PROVE  LoadedInv'
<1>1. /\ db' = db /\ cursor' = cursor /\ known' = known /\ loaded' = loaded
      /\ pc' = pc /\ run' = run
      /\ head \in Nat /\ head' \in Nat /\ head <= head'
      /\ \A r \in Rows : \A b \in 0 .. head : balance'[r][b] = balance[r][b]
  BY ChainStep DEF dbVars, TypeInv, TypeOK
<1>2. \A r \in Rows : \A v, n : Had(r, v, n) => Had(r, v, n)'
  <2> SUFFICES ASSUME NEW r \in Rows, NEW v, NEW n, Had(r, v, n) PROVE Had(r, v, n)'
    OBVIOUS
  <2>1. PICK b \in 0 .. head : b >= n /\ v = balance[r][b]
    BY DEF Had
  <2>2. b \in 0 .. head' /\ v = balance'[r][b]
    BY <1>1, <2>1
  <2> QED
    BY <2>1, <2>2 DEF Had
<1>3. \A r \in LoadedRows : \A v, n : Good(r, v, n) => Good(r, v, n)'
  BY <1>1, <1>2 DEF Good, LoadedRows
<1>4. LoadedRows' = LoadedRows /\ LoadedRows \subseteq Rows
  BY <1>1 DEF LoadedRows
<1>5. ASSUME NEW p \in Processes
      PROVE  LoadInv(p)'
  <2>1. Held(p) /\ Loads(p) /\ LoadedStarts(p) /\ LoadedShares(p) /\ Added(p) /\ Known(p)
    BY DEF LoadedInv, LoadInv
  <2>2. DOMAIN run[p].read \subseteq Rows /\ run[p].end \in 0 .. head
    BY DEF TypeInv, TypeOK
  <2>3. Held(p)'
    BY <1>1, <1>2, <2>1, <2>2 DEF Held, Writes, RowsOf
  <2>4. Loads(p)'
    <3>1. Changed(run[p].pools, 0, run[p].end)' = Changed(run[p].pools, 0, run[p].end)
      BY <1>1, <2>2 DEF Changed
    <3> QED
      BY <1>1, <2>1, <3>1 DEF Loads
  <2>5. LoadedStarts(p)'
    BY <1>1, <1>3, <1>4, <2>1 DEF LoadedStarts, RowsOf
  <2>6. LoadedShares(p)'
    BY <1>1, <1>3, <1>4, <2>1 DEF LoadedShares, RowsOf
  <2>7. Added(p)'
    BY <1>1, <1>3, <1>4, <2>1 DEF Added, RowsOf, Syncing
  <2>8. Known(p)'
    BY <1>1, <2>1 DEF Known
  <2> QED
    BY <2>3, <2>4, <2>5, <2>6, <2>7, <2>8 DEF LoadInv
<1>6. \A p, q \in Processes : Order(p, q)'
  BY <1>1 DEF LoadedInv, Order, Syncing, Writes, RowsOf
<1>7. /\ \A r \in Rows : Had(r, db[r], 0)'
      /\ \A r \in LoadedRows' : PoolOf[r] \in known'
      /\ \A r \in LoadedRows' : Good(r, db[r], cursor - Reread)'
  BY <1>1, <1>2, <1>3, <1>4 DEF LoadedInv
<1> QED
  BY <1>5, <1>6, <1>7, Zenon DEF LoadedInv

LEMMA LoadedInit == Init => LoadedInv
<1> SUFFICES ASSUME Init PROVE LoadedInv
  OBVIOUS
<1>1. /\ head = 0 /\ 0 .. head = {0} /\ \A p \in Processes : pc[p] = "idle" /\ run[p].kind = "none"
      /\ \A r \in Rows : db[r] = balance[r][0]
  BY DEF Init, NoRun
<1>2. LoadedRows = {}
  BY RowsAssumption DEF LoadedRows, Init
<1>3. ASSUME NEW r \in Rows
      PROVE  Had(r, db[r], 0)
  <2>1. 0 \in 0 .. head /\ 0 >= 0 /\ db[r] = balance[r][0]
    BY <1>1
  <2> QED
    BY <2>1, Zenon DEF Had
<1>4. \A p \in Processes : LoadInv(p)
  BY <1>1 DEF LoadInv, Held, Loads, LoadedStarts, LoadedShares, Added, Known, Syncing
<1>5. \A p, q \in Processes : Order(p, q)
  BY <1>1 DEF Order, Syncing
<1> QED
  BY <1>2, <1>3, <1>4, <1>5 DEF LoadedInv

LEMMA LoadedStep ==
    MarginsSuffice /\ TypeInv /\ MissedInv /\ LoadedInv /\ [Next]_vars => LoadedInv'
<1> SUFFICES ASSUME MarginsSuffice, TypeInv, MissedInv, LoadedInv, [Next]_vars PROVE LoadedInv'
  OBVIOUS
<1>1. CASE NewBlock \/ SubgraphIndexes
  BY <1>1, LoadedByChain
<1>2. ASSUME NEW p \in Syncers, BeginSync(p) PROVE LoadedInv'
  BY <1>2, LoadedByBegin, RowsAssumption
<1>3. ASSUME NEW p \in Processes,
             BeginInit(p) \/ Metadata(p) \/ ReadCursor(p) \/ ReadShares(p)
      PROVE  LoadedInv'
  BY <1>3, LoadedByBegin, LoadedByMetadata, LoadedByReadCursor, LoadedByReadShares
<1>4. ASSUME NEW p \in Processes,
             GiveUpSubgraph(p) \/ RpcHead(p) \/ RpcCursor(p) \/ ReadLogs(p) \/ ReadUser(p)
      PROVE  LoadedInv'
  BY <1>4, LoadedByRpc, LoadedByReadLogs, LoadedByReadUser
<1>5. ASSUME NEW p \in Processes, Commit(p) PROVE LoadedInv'
  BY <1>5, LoadedByCommitLoad, LoadedByCommitRun
<1>6. ASSUME NEW p \in Processes, Abort(p) PROVE LoadedInv'
  BY <1>6, AbortStep, LoadedByReturn
<1>7. CASE UNCHANGED vars
  <2>1. /\ head' = head /\ balance' = balance /\ db' = db /\ cursor' = cursor
        /\ known' = known /\ loaded' = loaded /\ pc' = pc /\ run' = run
    BY <1>7 DEF vars, chainVars, dbVars
  <2>2. \A p \in Processes : LoadInv(p)'
    BY <2>1 DEF LoadedInv, LoadInv, Held, Loads, LoadedStarts, LoadedShares, Added, Known,
       Syncing, Writes, RowsOf, LoadedRows, Good, Had, Changed
  <2>3. \A p, q \in Processes : Order(p, q)'
    BY <2>1 DEF LoadedInv, Order, Syncing, Writes, RowsOf
  <2>4. /\ \A r \in Rows : Had(r, db[r], 0)'
        /\ \A r \in LoadedRows' : PoolOf[r] \in known' /\ Good(r, db[r], cursor - Reread)'
    BY <2>1 DEF LoadedInv, LoadedRows, Good, Had
  <2> QED
    BY <2>2, <2>3, <2>4, Zenon DEF LoadedInv
<1> QED
  BY <1>1, <1>2, <1>3, <1>4, <1>5, <1>6, <1>7 DEF Next

(* A pool that was added never has a balance from before its load, unless the next sync    *)
(* reads it again: for any runs that overlap, also those that began before the pool was    *)
(* known and save their block after it was loaded, under the conditions of NothingMissed.  *)
THEOREM NewPoolsLoadedCorrect ==
    ASSUME MarginsSuffice
    PROVE  Spec => []NewPoolsLoaded
<1>1. TypeInv /\ LoadedInv => NewPoolsLoaded
  <2> SUFFICES ASSUME TypeInv, LoadedInv, NEW r \in Rows, loaded[PoolOf[r]] >= 0
               PROVE  \/ HadSince(r, loaded[PoolOf[r]])
                      \/ HadSince(r, cursor - RpcMargin - 1)
    BY DEF NewPoolsLoaded
  <2>1. Good(r, db[r], cursor - Reread)
    BY DEF LoadedInv, LoadedRows
  <2>2. cursor - Reread = cursor - RpcMargin - 1
    BY NumbersAssumption DEF Reread, TypeInv, TypeOK
  <2> QED
    BY <2>1, <2>2 DEF Good, Had, HadSince
<1>2. TypeInv /\ MissedInv /\ [Next]_vars => MissedInv'
  BY MissedStep
<1>3. TypeInv /\ MissedInv /\ LoadedInv /\ [Next]_vars => LoadedInv'
  BY LoadedStep
<1> QED
  BY <1>1, <1>2, <1>3, MissedInit, LoadedInit, TypeInvCorrect, PTL DEF Spec
=============================================================================
