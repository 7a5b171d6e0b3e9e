------------------------- MODULE ChangedPools_proofs ------------------------
(***************************************************************************)
(* The stored state of the V3 and CoW AMM pools lacks nothing but what     *)
(* happened between its own read and write, for every number of pools and  *)
(* blocks, every limit of the node and every overlap with other jobs; and  *)
(* with its margin V3 finds that again as well.                            *)
(***************************************************************************)
EXTENDS ChangedPools, LogBatches_proofs

USE PoolsAssumption, NumbersAssumption

-----------------------------------------------------------------------------
(***************************************************************************)
(* Types.                                                                  *)
(***************************************************************************)

\* Locals that were possible are possible with a longer chain.
LEMMA TypeOfChain ==
    ASSUME TypeOK, NewBlock
    PROVE  TypeOK'
<1>1. /\ head' = head + 1
      /\ head \in Nat
      /\ head' \in Nat
      /\ First \in Nat
      /\ First <= head'
      /\ UNCHANGED <<subgraph, known, db, cursor, failed, window, pc, run>>
    BY SMT DEF TypeOK, NewBlock, First, dbVars
<1>2. changes' \in [Pools -> SUBSET (First + 1 .. head')]
    <2>1. PICK touched \in SUBSET Pools :
            changes' = [q \in Pools |-> IF q \in touched THEN changes[q] \cup {head + 1}
                                                         ELSE changes[q]]
        BY DEF NewBlock
    <2>2. ASSUME NEW q \in Pools
          PROVE  (IF q \in touched THEN changes[q] \cup {head + 1} ELSE changes[q])
                    \subseteq First + 1 .. head'
        BY <1>1, SMT DEF TypeOK
    <2> QED BY <2>1, <2>2
<1>3. db' \in [Pools -> First .. head']
    BY <1>1, SMT DEF TypeOK
<1>4. window' \in [Pools -> SUBSET (First + 1 .. head')]
    <2>1. First + 1 .. head \subseteq First + 1 .. head'
        BY <1>1, SMT
    <2> QED BY <1>1, <2>1 DEF TypeOK
<1>5. run' \in [Jobs -> Locals']
    <2>1. Locals \subseteq Locals'
        BY <1>1, SMT DEF Locals, First
    <2> QED BY <1>1, <2>1 DEF TypeOK
<1>6. subgraph' \in First .. head' /\ cursor' \in 1 .. head'
    BY <1>1, SMT DEF TypeOK
<1>7. known' \in SUBSET Pools /\ failed' \in SUBSET known' /\ pc' \in [Jobs -> Steps]
    BY <1>1 DEF TypeOK
<1> QED BY <1>1, <1>2, <1>3, <1>4, <1>5, <1>6, <1>7 DEF TypeOK, First

\* What a step of a job leaves alone.
LEMMA TypeOfJobStep ==
    ASSUME TypeOK, UNCHANGED <<chainVars, dbVars>>,
           pc' \in [Jobs -> Steps], run' \in [Jobs -> Locals]
    PROVE  TypeOK'
BY DEF TypeOK, chainVars, dbVars, Locals, Steps, First

\* A job gets new locals.
LEMMA TypeOfRun ==
    ASSUME TypeOK, NEW j \in Jobs, NEW r \in Locals, run' = [run EXCEPT ![j] = r]
    PROVE  run' \in [Jobs -> Locals]
BY DEF TypeOK

\* What the locals of a job are.
LEMMA TypeOfLocals ==
    ASSUME TypeOK, NEW j \in Jobs
    PROVE  /\ run[j] \in Locals
           /\ run[j].begun \in First .. head
           /\ run[j].from \in 1 .. head + 1
           /\ run[j].end \in First .. head
           /\ run[j].pools \in SUBSET Pools
           /\ run[j].at \in First .. head
           /\ head \in Nat
           /\ First \in Nat
<1>1. run[j] \in Locals
    BY DEF TypeOK
<1>2. head \in Nat /\ First \in Nat
    BY SMT DEF TypeOK, First
<1> QED BY <1>1, <1>2 DEF Locals

\* The locals of a job at the start of its run, as each job sets them.
LEMMA TypeOfNoRun ==
    ASSUME TypeOK, NEW pools \in SUBSET Pools
    PROVE  /\ NoRun \in Locals
           /\ [NoRun EXCEPT !.begun = head] \in Locals
           /\ [NoRun EXCEPT !.begun = head, !.pools = pools] \in Locals
           /\ head \in First .. head
<1>1. head \in Nat /\ First \in Nat /\ First <= head /\ 1 <= First
    BY SMT DEF TypeOK, First
<1>2. NoRun \in Locals
    BY <1>1, SMT DEF NoRun, Locals
<1>3. head \in First .. head
    BY <1>1, SMT
<1>4. [NoRun EXCEPT !.begun = head] \in Locals
    BY <1>2, <1>3, Zenon DEF Locals
<1>5. [NoRun EXCEPT !.begun = head, !.pools = pools] \in Locals
    BY <1>2, <1>3, Zenon DEF Locals
<1> QED BY <1>2, <1>3, <1>4, <1>5

\* The end of a run.
LEMMA TypeOfReturn ==
    ASSUME TypeOK, NEW j \in Jobs, Return(j)
    PROVE  pc' \in [Jobs -> Steps] /\ run' \in [Jobs -> Locals]
<1>1. NoRun \in Locals
    BY TypeOfNoRun DEF TypeOK
<1>2. run' \in [Jobs -> Locals]
    BY <1>1, TypeOfRun DEF Return
<1> QED BY <1>2 DEF TypeOK, Return, Steps

\* The sync moves to one of its steps.
LEMMA TypeOfSyncStep ==
    ASSUME TypeOK, NEW step, SyncStep(step)
    PROVE  /\ "sync" \in Jobs
           /\ pc["sync"] = step
           /\ pc' \in [Jobs -> Steps]
BY SMT DEF TypeOK, SyncStep, SyncSteps, Steps

\* The steps of the sync keep the types.
LEMMA TypeOfSync ==
    ASSUME TypeOK, BeginSync \/ ReadCursor \/ ReadBlock \/ UpToDate \/ ReadPools \/ Scan
    PROVE  TypeOK'
<1>1. CASE BeginSync
    <2>1. pc' \in [Jobs -> Steps]
        BY <1>1, SMT DEF TypeOK, BeginSync, SyncSteps, Steps
    <2>2. [NoRun EXCEPT !.begun = head] \in Locals
        BY TypeOfNoRun DEF TypeOK
    <2>3. run' \in [Jobs -> Locals]
        BY <1>1, <2>2, TypeOfRun DEF BeginSync
    <2> QED BY <1>1, <2>1, <2>3, TypeOfJobStep DEF BeginSync
<1>2. CASE ReadCursor
    <2>1. StartBlock \in 1 .. head + 1
        BY SMT DEF TypeOK, StartBlock
    <2>2. "sync" \in Jobs /\ pc' \in [Jobs -> Steps]
        BY <1>2, TypeOfSyncStep DEF ReadCursor
    <2>3. [run["sync"] EXCEPT !.from = StartBlock] \in Locals
        BY <2>1, <2>2, TypeOfLocals, Zenon DEF Locals
    <2>4. run' = [run EXCEPT !["sync"] = [run["sync"] EXCEPT !.from = StartBlock]]
        BY <1>2 DEF ReadCursor
    <2>5. run' \in [Jobs -> Locals]
        BY <2>2, <2>3, <2>4, TypeOfRun
    <2> QED BY <1>2, <2>2, <2>5, TypeOfJobStep DEF ReadCursor
<1>3. CASE ReadBlock
    <2> DEFINE latest == IF Kind = "v3" THEN subgraph ELSE head
    <2>1. latest \in First .. head
        BY SMT DEF TypeOK
    <2>2. "sync" \in Jobs /\ pc' \in [Jobs -> Steps]
        BY <1>3, TypeOfSyncStep DEF ReadBlock
    <2>3. run' = [run EXCEPT !["sync"] = [run["sync"] EXCEPT !.end = latest, !.at = latest]]
        BY <1>3 DEF ReadBlock
    <2> HIDE DEF latest
    <2>4. [run["sync"] EXCEPT !.end = latest, !.at = latest] \in Locals
        BY <2>1, <2>2, TypeOfLocals, Zenon DEF Locals
    <2>5. run' \in [Jobs -> Locals]
        BY <2>2, <2>3, <2>4, TypeOfRun
    <2> QED BY <1>3, <2>2, <2>5, TypeOfJobStep DEF ReadBlock
<1>4. CASE UpToDate
    BY <1>4, TypeOfReturn, TypeOfJobStep DEF UpToDate
<1>5. CASE ReadPools
    <2> DEFINE pools == IF Kind = "v2" THEN run["sync"].pools \cap known ELSE known
               at == IF Kind = "v2" THEN head ELSE run["sync"].at
    <2>1. "sync" \in Jobs /\ pc' \in [Jobs -> Steps]
        BY <1>5, TypeOfSyncStep DEF ReadPools
    <2>2. pools \in SUBSET Pools /\ at \in First .. head
        BY <2>1, TypeOfLocals, TypeOfNoRun DEF TypeOK
    <2>3. run' = [run EXCEPT !["sync"] = [run["sync"] EXCEPT !.pools = pools, !.at = at]]
        BY <1>5 DEF ReadPools
    <2> HIDE DEF pools, at
    <2>4. [run["sync"] EXCEPT !.pools = pools, !.at = at] \in Locals
        BY <2>1, <2>2, TypeOfLocals, Zenon DEF Locals
    <2>5. run' \in [Jobs -> Locals]
        BY <2>1, <2>3, <2>4, TypeOfRun
    <2> QED BY <1>5, <2>1, <2>5, TypeOfJobStep DEF ReadPools
<1>6. CASE Scan
    <2> DEFINE changed == ChangedIn(ScannedBlocks)
               pools == IF Kind = "v2" THEN changed \cup Lbps ELSE changed \cap run["sync"].pools
    <2>0. "sync" \in Jobs /\ UNCHANGED <<chainVars, dbVars>>
        BY <1>6, Zenon DEF Scan
    <2>1. CASE pc["sync"] = "scan" /\ Return("sync")
        BY <2>0, <2>1, TypeOfReturn, TypeOfJobStep
    <2>2. CASE SyncStep("scan") /\ run' = [run EXCEPT !["sync"].pools = pools]
        <3>1. pools \in SUBSET Pools
            BY DEF ChangedIn
        <3>2. run' = [run EXCEPT !["sync"] = [run["sync"] EXCEPT !.pools = pools]]
            BY <2>2
        <3> HIDE DEF pools
        <3>3. [run["sync"] EXCEPT !.pools = pools] \in Locals
            BY <2>0, <3>1, TypeOfLocals, Zenon DEF Locals
        <3>4. run' \in [Jobs -> Locals]
            BY <2>0, <3>2, <3>3, TypeOfRun
        <3> QED BY <2>0, <2>2, <3>4, TypeOfJobStep, TypeOfSyncStep
    <2> QED BY <1>6, <2>1, <2>2 DEF Scan
<1> QED BY <1>1, <1>2, <1>3, <1>4, <1>5, <1>6

\* Adding, loading and reloading, up to the writes.
LEMMA TypeOfBegin ==
    ASSUME TypeOK, BeginAdd \/ \E j \in {"load", "reload"} : BeginLoad(j)
    PROVE  TypeOK'
<1>0. head \in First .. head /\ First \in First .. head
    BY SMT DEF TypeOK, First
<1>1. CASE BeginAdd
    <2>1. PICK q \in Pools \ known :
            run' = [run EXCEPT !["add"] = [NoRun EXCEPT !.begun = head, !.pools = {q}]]
        BY <1>1 DEF BeginAdd
    <2>2. "add" \in Jobs /\ pc' \in [Jobs -> Steps] /\ UNCHANGED <<chainVars, dbVars>>
        BY <1>1 DEF TypeOK, BeginAdd, Steps
    <2>3. [NoRun EXCEPT !.begun = head, !.pools = {q}] \in Locals
        BY <1>0, TypeOfNoRun
    <2>4. run' \in [Jobs -> Locals]
        BY <2>1, <2>2, <2>3, TypeOfRun
    <2> QED BY <2>2, <2>4, TypeOfJobStep
<1>2. ASSUME NEW j \in {"load", "reload"}, BeginLoad(j) PROVE TypeOK'
    <2>1. PICK pools \in SUBSET Pools :
            run' = [run EXCEPT ![j] = [NoRun EXCEPT !.begun = head, !.pools = pools]]
        <3>1. PICK new \in SUBSET (Pools \ known) :
                run' = [run EXCEPT ![j] = [NoRun EXCEPT
                            !.begun = head, !.pools = known \cup new]]
            BY <1>2 DEF BeginLoad
        <3>2. known \cup new \in SUBSET Pools
            BY DEF TypeOK
        <3> QED BY <3>1, <3>2
    <2>2. j \in Jobs /\ pc' \in [Jobs -> Steps] /\ UNCHANGED <<chainVars, dbVars>>
        BY <1>2 DEF TypeOK, BeginLoad, Steps
    <2>3. [NoRun EXCEPT !.begun = head, !.pools = pools] \in Locals
        BY <1>0, TypeOfNoRun
    <2>4. run' \in [Jobs -> Locals]
        BY <2>1, <2>2, <2>3, TypeOfRun
    <2> QED BY <2>2, <2>4, TypeOfJobStep
<1> QED BY <1>1, <1>2

LEMMA TypeOfReadState ==
    ASSUME TypeOK, NEW j \in Jobs, ReadState(j)
    PROVE  TypeOK'
<1>1. PICK at \in First .. head : run' = [run EXCEPT ![j] = [run[j] EXCEPT !.at = at]]
    <2> DEFINE at == IF Kind = "v2" /\ j = "add" THEN subgraph ELSE head
    <2>1. head \in First .. head /\ subgraph \in First .. head
        BY SMT DEF TypeOK
    <2>2. at \in First .. head
        BY <2>1
    <2>3. run' = [run EXCEPT ![j] = [run[j] EXCEPT !.at = at]]
        BY DEF ReadState
    <2> QED BY <2>2, <2>3
<1>2. run[j] \in Locals
    BY TypeOfLocals
<1>3. [run[j] EXCEPT !.at = at] \in Locals
    BY <1>2, Zenon DEF Locals
<1>4. run' \in [Jobs -> Locals]
    BY <1>1, <1>3, TypeOfRun
<1>5. pc' \in [Jobs -> Steps] /\ UNCHANGED <<chainVars, dbVars>>
    BY DEF TypeOK, ReadState, Steps
<1> QED BY <1>4, <1>5, TypeOfJobStep

\* A pool is done.
LEMMA TypeOfDone ==
    ASSUME TypeOK, NEW j \in Jobs, NEW q,
           run' = [run EXCEPT ![j].pools = @ \ {q}]
    PROVE  run' \in [Jobs -> Locals]
<1>1. [run[j] EXCEPT !.pools = run[j].pools \ {q}] \in Locals
    BY TypeOfLocals, Zenon DEF Locals
<1>2. run' = [run EXCEPT ![j] = [run[j] EXCEPT !.pools = run[j].pools \ {q}]]
    OBVIOUS
<1> QED BY <1>1, <1>2, TypeOfRun

\* Writing.
LEMMA TypeOfWrite ==
    ASSUME TypeOK, NEW j \in Jobs, Write(j) \/ WriteFails(j) \/ SaveCursor(j) \/ Abort(j)
    PROVE  TypeOK'
<1>1. CASE Write(j)
    <2>1. PICK q \in run[j].pools :
            /\ known' = known \cup {q}
            /\ db' = [db EXCEPT ![q] = run[j].at]
            /\ window' = [window EXCEPT ![q] = {b \in changes[q] : run[j].at < b}]
            /\ failed' = failed \ {q}
            /\ run' = [run EXCEPT ![j].pools = @ \ {q}]
        BY <1>1 DEF Write
    <2>2. run[j].at \in First .. head /\ q \in Pools /\ First \in Nat
        BY TypeOfLocals
    <2>3. UNCHANGED <<head, subgraph, changes, cursor, pc, Locals>>
        BY <1>1 DEF Write, chainVars, Locals, First
    <2>4. run' \in [Jobs -> Locals]
        BY <2>1, TypeOfDone
    <2>5. db' \in [Pools -> First .. head]
        BY <2>1, <2>2 DEF TypeOK
    <2>6. {b \in changes[q] : run[j].at < b} \subseteq First + 1 .. head
        BY <2>2 DEF TypeOK
    <2>7. window' \in [Pools -> SUBSET (First + 1 .. head)]
        BY <2>1, <2>2, <2>6 DEF TypeOK
    <2>8. known' \in SUBSET Pools /\ failed' \in SUBSET known'
        BY <2>1, <2>2 DEF TypeOK
    <2> QED BY <2>3, <2>4, <2>5, <2>7, <2>8 DEF TypeOK, First
<1>2. CASE WriteFails(j)
    <2>1. PICK q \in run[j].pools :
            /\ failed' = IF SavesBlock(j) THEN failed \cup ({q} \cap known) ELSE failed
            /\ run' = [run EXCEPT ![j].pools = @ \ {q}]
        BY <1>2 DEF WriteFails
    <2>2. UNCHANGED <<head, subgraph, changes, known, db, cursor, window, pc, Locals>>
        BY <1>2 DEF WriteFails, chainVars, Locals, First
    <2>3. run' \in [Jobs -> Locals]
        BY <2>1, TypeOfDone
    <2>4. failed' \in SUBSET known
        BY <2>1 DEF TypeOK
    <2> QED BY <2>2, <2>3, <2>4 DEF TypeOK, First
<1>3. CASE SaveCursor(j)
    <2>1. CursorAfter(j) \in 1 .. head
        <3>1. run[j].end \in First .. head /\ run[j].at \in First .. head /\ cursor \in 1 .. head
              /\ head \in Nat
            BY TypeOfLocals DEF TypeOK
        <3> QED BY <3>1, SMT DEF CursorAfter, First
    <2>2. UNCHANGED <<head, subgraph, changes, known, db, failed, window, Locals>>
        BY <1>3 DEF SaveCursor, chainVars, Locals, First
    <2>3. cursor' = CursorAfter(j) /\ pc' \in [Jobs -> Steps] /\ run' \in [Jobs -> Locals]
        BY <1>3, TypeOfReturn DEF SaveCursor
    <2> QED BY <2>1, <2>2, <2>3 DEF TypeOK, First
<1>4. CASE Abort(j)
    BY <1>4, TypeOfReturn, TypeOfJobStep DEF Abort
<1> QED BY <1>1, <1>2, <1>3, <1>4

\* Every step keeps the types.
LEMMA TypeStep ==
    ASSUME TypeOK, [Next]_vars
    PROVE  TypeOK'
<1>1. CASE NewBlock
    BY <1>1, TypeOfChain
<1>2. CASE SubgraphIndexes
    <2>1. First \in Nat
        BY SMT DEF First
    <2>2. subgraph' \in First .. head
        BY <1>2, <2>1, SMT DEF TypeOK, SubgraphIndexes
    <2>3. UNCHANGED <<head, changes, known, db, cursor, failed, window, pc, run, Locals>>
        BY <1>2 DEF SubgraphIndexes, dbVars, Locals, First
    <2> QED BY <2>2, <2>3 DEF TypeOK, First
<1>3. CASE BeginSync \/ ReadCursor \/ ReadBlock \/ UpToDate \/ ReadPools \/ Scan
    BY <1>3, TypeOfSync
<1>4. CASE BeginAdd \/ \E j \in {"load", "reload"} : BeginLoad(j)
    BY <1>4, TypeOfBegin
<1>5. CASE \E j \in Jobs : Write(j) \/ WriteFails(j) \/ SaveCursor(j) \/ Abort(j)
    BY <1>5, TypeOfWrite
<1>6. CASE \E j \in Jobs \ {"sync"} : ReadState(j)
    BY <1>6, TypeOfReadState
<1>7. CASE UNCHANGED vars
    BY <1>7 DEF TypeOK, vars, chainVars, dbVars, Locals, First
<1> QED BY <1>1, <1>2, <1>3, <1>4, <1>5, <1>6, <1>7 DEF Next

\* Every variable keeps its type: no block that is saved is ahead of the chain, or before
\* its beginning, and no pool is failed without being known.
THEOREM TypeCorrect == Spec => []TypeOK
<1>1. Init => TypeOK
    BY SMT DEF Init, TypeOK, First, NoRun, Locals, Steps
<1>2. TypeOK /\ [Next]_vars => TypeOK'
    BY TypeStep
<1> QED BY <1>1, <1>2, PTL DEF Spec

-----------------------------------------------------------------------------
(***************************************************************************)
(* The inductive invariant.  A change that is missing from the stored      *)
(* state of a pool, and was not mined between its read and its write, is   *)
(* still ahead: of the saved block, of the blocks that a running sync      *)
(* looks at, and, once a job that saves a block has dealt with the pool,   *)
(* of the block that it saves.  And a reload that has listed the pools has *)
(* listed those in the database.                                           *)
(***************************************************************************)

Good == known \ failed

Lacking == [q \in Pools |-> {b \in changes[q] : db[q] < b /\ b \notin window[q]}]

CursorBehind == \A q \in Good : \A b \in Lacking[q] : StartBlock <= b

StartBehind ==
    "sync" \in Jobs /\ pc["sync"] \in {"block", "pools", "scan", "write"}
        => \A q \in Good : \A b \in Lacking[q] : run["sync"].from <= b

ReadAtEnd ==
    "sync" \in Jobs => /\ run["sync"].end = run["sync"].at
                       /\ Kind = "v3" => run["sync"].at <= subgraph

Reached ==
    \A j \in Jobs : SavesBlock(j) /\ pc[j] \in {"scan", "write"}
        => \A q \in Good \ run[j].pools : \A b \in Lacking[q] : run[j].at < b

Listed ==
    /\ \A j \in Jobs \cap {"sync", "load"} : run[j].pools \subseteq known
    /\ Kind = "v3" /\ "reload" \in Jobs /\ pc["reload"] = "listed"
        => known \subseteq run["reload"].pools

MissedInv == CursorBehind /\ StartBehind /\ ReadAtEnd /\ Reached /\ Listed

\* A reload of V3 lists the pools before it reads the block that it saves: a pool that the
\* add job writes in between is not reloaded, and its changes up to that block are lost.
ReloadsAlone == Kind = "v3" => ~({"add", "reload"} \subseteq Jobs)

\* A write leaves nothing to miss: the state that is stored and the window make up the
\* chain.
LEMMA WrittenLacksNothing ==
    ASSUME TypeOK, NEW q \in Pools, NEW at \in Nat, UNCHANGED changes,
           db' = [db EXCEPT ![q] = at],
           window' = [window EXCEPT ![q] = {b \in changes[q] : at < b}]
    PROVE  /\ Lacking'[q] = {}
           /\ \A p \in Pools \ {q} : Lacking'[p] = Lacking[p]
<1>1. db'[q] = at /\ window'[q] = {b \in changes[q] : at < b}
    BY DEF TypeOK
<1>2. Lacking'[q] = {}
    BY <1>1 DEF Lacking
<1>3. \A p \in Pools \ {q} : Lacking'[p] = Lacking[p]
    BY DEF Lacking, TypeOK
<1> QED BY <1>2, <1>3

\* A step adds to what is missing only the block that it mines.
LEMMA LackingStep ==
    ASSUME TypeOK, [Next]_vars, NEW q \in Good', NEW b \in Lacking'[q]
    PROVE  (q \in Good /\ b \in Lacking[q]) \/ head < b
<1>t. TypeOK' /\ q \in Pools
    <2>1. TypeOK'
        BY TypeStep
    <2> QED BY <2>1 DEF TypeOK, Good
<1>1. CASE NewBlock
    <2>1. PICK touched \in SUBSET Pools :
            changes' = [p \in Pools |-> IF p \in touched THEN changes[p] \cup {head + 1}
                                                         ELSE changes[p]]
        BY <1>1 DEF NewBlock
    <2>2. UNCHANGED <<known, db, failed, window>>
        BY <1>1 DEF NewBlock, dbVars
    <2>3. b \in changes[q] \/ b = head + 1
        BY <1>t, <2>1 DEF Lacking
    <2>4. head < head + 1
        BY SMT DEF TypeOK
    <2> QED BY <1>t, <2>2, <2>3, <2>4 DEF Lacking, Good
<1>2. ASSUME NEW j \in Jobs, Write(j) PROVE (q \in Good /\ b \in Lacking[q]) \/ head < b
    <2>1. PICK p \in run[j].pools :
            /\ known' = known \cup {p}
            /\ db' = [db EXCEPT ![p] = run[j].at]
            /\ window' = [window EXCEPT ![p] = {c \in changes[p] : run[j].at < c}]
            /\ failed' = failed \ {p}
        BY <1>2 DEF Write
    <2>2. run[j].at \in Nat /\ p \in Pools /\ UNCHANGED <<head, changes>>
        <3>1. UNCHANGED <<head, changes>>
            BY <1>2 DEF Write, chainVars
        <3> QED BY <3>1, TypeOfLocals, SMT
    <2>3. Lacking'[p] = {} /\ \A o \in Pools \ {p} : Lacking'[o] = Lacking[o]
        BY <2>1, <2>2, WrittenLacksNothing
    <2> QED BY <1>t, <2>1, <2>3 DEF Good
<1>3. ASSUME UNCHANGED <<changes, known, db, window>>, failed \subseteq failed'
      PROVE  q \in Good /\ b \in Lacking[q]
    BY <1>3 DEF Good, Lacking
<1>4. ASSUME UNCHANGED <<chainVars, dbVars>>
      PROVE  q \in Good /\ b \in Lacking[q]
    BY <1>3, <1>4 DEF chainVars, dbVars
<1>5. CASE SubgraphIndexes
    BY <1>3, <1>5 DEF SubgraphIndexes, dbVars
<1>6. CASE BeginSync \/ ReadCursor \/ ReadBlock \/ UpToDate \/ ReadPools \/ Scan
    BY <1>4, <1>6, Zenon DEF BeginSync, ReadCursor, ReadBlock, UpToDate, ReadPools, Scan
<1>7. CASE BeginAdd \/ \E j \in {"load", "reload"} : BeginLoad(j)
    BY <1>4, <1>7, Zenon DEF BeginAdd, BeginLoad
<1>8. ASSUME NEW j \in Jobs, WriteFails(j) \/ SaveCursor(j) \/ Abort(j)
      PROVE  q \in Good /\ b \in Lacking[q]
    <2>1. UNCHANGED <<changes, known, db, window>>
        BY <1>8 DEF WriteFails, SaveCursor, Abort, chainVars, dbVars
    <2>2. failed \subseteq failed'
        BY <1>8 DEF WriteFails, SaveCursor, Abort, dbVars
    <2> QED BY <1>3, <2>1, <2>2
<1>9. ASSUME NEW j \in Jobs \ {"sync"}, ReadState(j) PROVE q \in Good /\ b \in Lacking[q]
    BY <1>4, <1>9 DEF ReadState
<1>10. CASE UNCHANGED vars
    BY <1>4, <1>10 DEF vars
<1> QED BY <1>1, <1>2, <1>5, <1>6, <1>7, <1>8, <1>9, <1>10 DEF Next

\* So what is missing stays ahead of every block that is on the chain, or next.
LEMMA StaysAhead ==
    ASSUME TypeOK, [Next]_vars, NEW n \in Int, n <= head + 1, NEW q \in Good',
           q \in Good => \A b \in Lacking[q] : n <= b
    PROVE  \A b \in Lacking'[q] : n <= b
<1> SUFFICES ASSUME NEW b \in Lacking'[q] PROVE n <= b
    OBVIOUS
<1>1. CASE q \in Good /\ b \in Lacking[q]
    BY <1>1
<1>2. CASE head < b
    <2>1. b \in First + 1 .. head' /\ head' \in Nat /\ First \in Nat
        <3>1. TypeOK' /\ q \in Pools
            <4>1. TypeOK'
                BY TypeStep
            <4> QED BY <4>1 DEF TypeOK, Good
        <3> QED BY <3>1, SMT DEF TypeOK, Lacking, First
    <2> QED BY <1>2, <2>1, SMT DEF TypeOK
<1> QED BY <1>1, <1>2, LackingStep

\* A step that does not save a block keeps CursorBehind.
LEMMA CursorStays ==
    ASSUME TypeOK, [Next]_vars, CursorBehind, UNCHANGED cursor
    PROVE  CursorBehind'
<1>1. StartBlock \in Int /\ StartBlock <= head + 1 /\ StartBlock' = StartBlock
    BY SMT DEF TypeOK, StartBlock
<1> QED BY <1>1, StaysAhead DEF CursorBehind

\* A job that goes on, or has fewer pools left, keeps what its own blocks are good for.
LEMMA StartStays ==
    ASSUME TypeOK, [Next]_vars, StartBehind, "sync" \in Jobs,
           pc'["sync"] \in {"block", "pools", "scan", "write"},
           pc["sync"] \in {"block", "pools", "scan", "write"},
           run'["sync"].from = run["sync"].from
    PROVE  \A q \in Good' : \A b \in Lacking'[q] : run'["sync"].from <= b
<1>1. run["sync"].from \in Int /\ run["sync"].from <= head + 1
    BY TypeOfLocals, SMT
<1> QED BY <1>1, StaysAhead DEF StartBehind

LEMMA ReachedStays ==
    ASSUME TypeOK, [Next]_vars, NEW j \in Jobs, NEW q \in Good', run'[j].at = run[j].at,
           q \in Good => \A b \in Lacking[q] : run[j].at < b
    PROVE  \A b \in Lacking'[q] : run'[j].at < b
<1> DEFINE n == run[j].at + 1
<1>1. run[j].at \in Int /\ n \in Int /\ n <= head + 1
    BY TypeOfLocals, SMT
<1>2. ASSUME NEW b \in Int PROVE n <= b <=> run[j].at < b
    BY <1>1, SMT
<1>3. TypeOK' /\ q \in Pools
    <2>1. TypeOK'
        BY TypeStep
    <2> QED BY <2>1 DEF TypeOK, Good
<1>4. \A b \in Lacking'[q] : b \in Int
    BY <1>3, SMT DEF TypeOK, Lacking, First
<1>5. \A p \in Pools : \A b \in Lacking[p] : b \in Int
    BY SMT DEF TypeOK, Lacking, First
<1> HIDE DEF n
<1>6. q \in Good => \A b \in Lacking[q] : n <= b
    BY <1>2, <1>3, <1>5
<1>7. \A b \in Lacking'[q] : n <= b
    BY <1>1, <1>6, StaysAhead
<1> QED BY <1>2, <1>4, <1>7

\* Steps of the chain and the subgraph keep the invariant.
LEMMA MissedByChain ==
    ASSUME TypeOK, [Next]_vars, MissedInv, UNCHANGED <<known, cursor, pc, run>>,
           subgraph' \in Nat, subgraph <= subgraph'
    PROVE  MissedInv'
<1>1. CursorBehind'
    BY CursorStays DEF MissedInv
<1>2. StartBehind'
    BY StartStays DEF MissedInv, StartBehind
<1>3. ReadAtEnd'
    <2> SUFFICES ASSUME "sync" \in Jobs, Kind = "v3"
                 PROVE  run["sync"].at <= subgraph'
        BY DEF MissedInv, ReadAtEnd
    <2>1. run["sync"].at \in Int /\ subgraph \in Int
        BY TypeOfLocals, SMT DEF TypeOK
    <2>2. run["sync"].at <= subgraph
        BY DEF MissedInv, ReadAtEnd
    <2> QED BY <2>1, <2>2, SMT
<1>4. Reached'
    <2> SUFFICES ASSUME NEW j \in Jobs, SavesBlock(j), pc[j] \in {"scan", "write"},
                        NEW q \in Good' \ run[j].pools
                 PROVE  \A b \in Lacking'[q] : run[j].at < b
        BY DEF Reached, SavesBlock
    <2> QED BY ReachedStays DEF MissedInv, Reached
<1>5. Listed'
    BY DEF MissedInv, Listed
<1> QED BY <1>1, <1>2, <1>3, <1>4, <1>5 DEF MissedInv

\* So do the steps of a job that changes its own locals only, if it keeps what is said
\* about them.
LEMMA MissedByJob ==
    ASSUME TypeOK, [Next]_vars, MissedInv, UNCHANGED <<chainVars, dbVars>>,
           NEW j \in Jobs,
           \A k \in Jobs \ {j} : pc'[k] = pc[k] /\ run'[k] = run[k],
           j = "sync" => StartBehind' /\ ReadAtEnd',
           SavesBlock(j) /\ pc'[j] \in {"scan", "write"}
              => \A q \in Good \ run'[j].pools : \A b \in Lacking[q] : run'[j].at < b,
           j \in {"sync", "load"} => run'[j].pools \subseteq known,
           j = "reload" /\ pc'[j] = "listed" => known \subseteq run'[j].pools
    PROVE  MissedInv'
<1>1. UNCHANGED <<subgraph, known, cursor, Good, Lacking>>
    BY DEF chainVars, dbVars, Good, Lacking
<1>2. CursorBehind'
    BY <1>1, CursorStays DEF MissedInv
<1>3. StartBehind' /\ ReadAtEnd'
    BY <1>1 DEF MissedInv, StartBehind, ReadAtEnd
<1>4. Reached'
    BY <1>1 DEF MissedInv, Reached, SavesBlock
<1>5. Listed'
    BY <1>1 DEF MissedInv, Listed
<1> QED BY <1>2, <1>3, <1>4, <1>5 DEF MissedInv

\* The end of a run keeps the invariant: nothing is said of an idle job.
LEMMA MissedByReturn ==
    ASSUME TypeOK, [Next]_vars, MissedInv, NEW j \in Jobs, Return(j),
           UNCHANGED <<subgraph, known, db, changes, failed, window>>, CursorBehind'
    PROVE  MissedInv'
<1>1. /\ pc'[j] = "idle" /\ run'[j] = NoRun
      /\ \A k \in Jobs \ {j} : pc'[k] = pc[k] /\ run'[k] = run[k]
    BY DEF TypeOK, Return
<1>2. UNCHANGED <<Good, Lacking>>
    BY DEF Good, Lacking
<1>3. StartBehind'
    BY <1>1, <1>2 DEF MissedInv, StartBehind
<1>4. ReadAtEnd'
    <2>1. First <= subgraph /\ First \in Nat
        BY SMT DEF TypeOK, First
    <2>2. UNCHANGED First
        BY DEF First
    <2>3. CASE j = "sync"
        BY <1>1, <2>1, <2>3 DEF ReadAtEnd, NoRun
    <2>4. CASE j # "sync"
        BY <1>1, <2>4 DEF MissedInv, ReadAtEnd
    <2> QED BY <2>3, <2>4
<1>5. Reached'
    BY <1>1, <1>2 DEF MissedInv, Reached, SavesBlock
<1>6. Listed'
    BY <1>1 DEF MissedInv, Listed, NoRun
<1> QED BY <1>3, <1>4, <1>5, <1>6 DEF MissedInv

\* The order of the steps of the sync, in the kinds that have one order.
LEMMA SyncOrder ==
    ASSUME TypeOK, Kind # "v2", NEW step, SyncStep(step)
    PROVE  /\ pc["sync"] = step
           /\ step = "cursor" => pc'["sync"] = "block"
           /\ step = "block" => pc'["sync"] = "pools"
           /\ step = "pools" => pc'["sync"] = "scan"
           /\ step = "scan" => pc'["sync"] = "write"
           /\ \A k \in Jobs \ {"sync"} : pc'[k] = pc[k]
BY SMT DEF TypeOK, SyncStep, SyncSteps

\* What the sync looks at holds the blocks from its start to its end.
LEMMA ScanHoldsRange ==
    ASSUME TypeOK, Kind # "v2", "sync" \in Jobs, HasBlocks, ReadAtEnd,
           NEW b \in Int, run["sync"].from <= b, b <= run["sync"].end,
           run["sync"].from # run["sync"].end \/ Kind = "v3"
    PROVE  b \in ScannedBlocks
<1>1. /\ run["sync"].from \in Int /\ run["sync"].end \in Int /\ subgraph \in Int
      /\ Range \in Nat \ {0}
    BY TypeOfLocals, SMT DEF TypeOK
<1>2. CASE Kind = "v3"
    BY <1>1, <1>2, SMT DEF ScannedBlocks, ReadAtEnd
<1>3. CASE Kind # "v3"
    <2>1. run["sync"].from < run["sync"].end
        BY <1>1, <1>3, SMT DEF HasBlocks
    <2>2. ScannedBlocks = run["sync"].from .. run["sync"].end
        BY <1>1, <1>3, <2>1, BatchesCover DEF ScannedBlocks
    <2> QED BY <1>1, <2>2, SMT
<1> QED BY <1>2, <1>3

\* Every step of the sync keeps the invariant.
LEMMA MissedBySync ==
    ASSUME TypeOK, [Next]_vars, MissedInv, Kind # "v2",
           BeginSync \/ ReadCursor \/ ReadBlock \/ UpToDate \/ ReadPools \/ Scan
    PROVE  MissedInv'
<1>1. CASE UpToDate
    <2>1. Return("sync") /\ "sync" \in Jobs /\ UNCHANGED <<chainVars, dbVars>>
        BY <1>1 DEF UpToDate
    <2>2. CursorBehind'
        BY <2>1, CursorStays DEF MissedInv, dbVars
    <2> QED BY <2>1, <2>2, MissedByReturn DEF chainVars, dbVars
<1>2. CASE BeginSync
    <2>1. /\ "sync" \in Jobs /\ UNCHANGED <<chainVars, dbVars>>
          /\ pc'["sync"] = "cursor"
          /\ run'["sync"] = [NoRun EXCEPT !.begun = head]
          /\ \A k \in Jobs \ {"sync"} : pc'[k] = pc[k] /\ run'[k] = run[k]
        BY <1>2 DEF TypeOK, BeginSync, SyncSteps
    <2>2. run'["sync"].end = First /\ run'["sync"].at = First /\ run'["sync"].pools = {}
        BY <2>1 DEF NoRun
    <2>3. First <= subgraph
        BY SMT DEF TypeOK, First
    <2>4. StartBehind' /\ ReadAtEnd'
        BY <2>1, <2>2, <2>3 DEF StartBehind, ReadAtEnd, chainVars, First
    <2> QED BY <2>1, <2>2, <2>4, MissedByJob
<1>3. CASE ReadCursor
    <2>1. SyncStep("cursor") /\ "sync" \in Jobs /\ UNCHANGED <<chainVars, dbVars>>
        BY <1>3, TypeOfSyncStep DEF ReadCursor
    <2>2. /\ pc'["sync"] = "block"
          /\ \A k \in Jobs \ {"sync"} : pc'[k] = pc[k]
        BY <2>1, SyncOrder
    <2>3. /\ run'["sync"] = [run["sync"] EXCEPT !.from = StartBlock]
          /\ \A k \in Jobs \ {"sync"} : run'[k] = run[k]
        BY <1>3, <2>1 DEF ReadCursor, TypeOK
    <2>4. run["sync"] \in Locals
        BY <2>1, TypeOfLocals
    <2>5. /\ run'["sync"].from = StartBlock
          /\ run'["sync"].end = run["sync"].end
          /\ run'["sync"].at = run["sync"].at
          /\ run'["sync"].pools = run["sync"].pools
        BY <2>3, <2>4, SMT DEF Locals
    <2>6. UNCHANGED <<subgraph, cursor, Good, Lacking>>
        BY <2>1 DEF chainVars, dbVars, Good, Lacking
    <2>7. StartBehind' /\ ReadAtEnd'
        BY <2>5, <2>6 DEF MissedInv, CursorBehind, StartBehind, ReadAtEnd
    <2>8. run'["sync"].pools \subseteq known
        BY <2>1, <2>5 DEF MissedInv, Listed
    <2> QED BY <2>1, <2>2, <2>3, <2>7, <2>8, MissedByJob
<1>4. CASE ReadBlock
    <2> DEFINE latest == IF Kind = "v3" THEN subgraph ELSE head
    <2>1. SyncStep("block") /\ "sync" \in Jobs /\ UNCHANGED <<chainVars, dbVars>>
        BY <1>4, TypeOfSyncStep DEF ReadBlock
    <2>2. /\ pc["sync"] = "block" /\ pc'["sync"] = "pools"
          /\ \A k \in Jobs \ {"sync"} : pc'[k] = pc[k]
        BY <2>1, SyncOrder
    <2>3. /\ run'["sync"] = [run["sync"] EXCEPT !.end = latest, !.at = latest]
          /\ \A k \in Jobs \ {"sync"} : run'[k] = run[k]
        BY <1>4, <2>1 DEF ReadBlock, TypeOK
    <2>4. run["sync"] \in Locals
        BY <2>1, TypeOfLocals
    <2>5. latest = IF Kind = "v3" THEN subgraph ELSE head
        OBVIOUS
    <2> HIDE DEF latest
    <2>6. /\ run'["sync"].from = run["sync"].from
          /\ run'["sync"].end = latest
          /\ run'["sync"].at = latest
          /\ run'["sync"].pools = run["sync"].pools
        BY <2>3, <2>4, Zenon DEF Locals
    <2>7. UNCHANGED <<subgraph, Good, Lacking>> /\ subgraph <= subgraph
        BY <2>1, SMT DEF chainVars, dbVars, Good, Lacking, TypeOK
    <2>8. StartBehind'
        BY <2>2, <2>6, <2>7 DEF MissedInv, StartBehind
    <2>9. ReadAtEnd'
        BY <2>5, <2>6, <2>7 DEF ReadAtEnd
    <2>10. run'["sync"].pools \subseteq known
        BY <2>1, <2>6 DEF MissedInv, Listed
    <2> QED BY <2>1, <2>2, <2>3, <2>8, <2>9, <2>10, MissedByJob
<1>5. CASE ReadPools
    <2>1. SyncStep("pools") /\ "sync" \in Jobs /\ UNCHANGED <<chainVars, dbVars>>
        BY <1>5, TypeOfSyncStep DEF ReadPools
    <2>2. /\ pc["sync"] = "pools" /\ pc'["sync"] = "scan"
          /\ \A k \in Jobs \ {"sync"} : pc'[k] = pc[k]
        BY <2>1, SyncOrder
    <2>3. /\ run'["sync"] = [run["sync"] EXCEPT !.pools = known, !.at = run["sync"].at]
          /\ \A k \in Jobs \ {"sync"} : run'[k] = run[k]
        BY <1>5, <2>1 DEF ReadPools, TypeOK
    <2>4. run["sync"] \in Locals
        BY <2>1, TypeOfLocals
    <2>5. /\ run'["sync"].from = run["sync"].from
          /\ run'["sync"].end = run["sync"].end
          /\ run'["sync"].at = run["sync"].at
          /\ run'["sync"].pools = known
        BY <2>3, <2>4, Zenon DEF Locals
    <2>6. UNCHANGED <<subgraph, Good, Lacking>>
        BY <2>1 DEF chainVars, dbVars, Good, Lacking
    <2>7. StartBehind' /\ ReadAtEnd'
        BY <2>2, <2>5, <2>6 DEF MissedInv, StartBehind, ReadAtEnd
    <2>8. Good \ run'["sync"].pools = {}
        BY <2>5 DEF Good
    <2> QED BY <2>1, <2>2, <2>3, <2>5, <2>7, <2>8, MissedByJob
<1>6. CASE Scan
    <2> DEFINE pools == ChangedIn(ScannedBlocks) \cap run["sync"].pools
    <2>1. "sync" \in Jobs /\ HasBlocks /\ UNCHANGED <<chainVars, dbVars>>
        BY <1>6, Zenon DEF Scan
    <2>2. CASE Return("sync")
        <3>1. CursorBehind'
            BY <2>1, CursorStays DEF MissedInv, dbVars
        <3> QED BY <2>1, <2>2, <3>1, MissedByReturn DEF chainVars, dbVars
    <2>3. CASE SyncStep("scan") /\ pools # {} /\ run' = [run EXCEPT !["sync"].pools = pools]
        <3>1. /\ pc["sync"] = "scan" /\ pc'["sync"] = "write"
              /\ \A k \in Jobs \ {"sync"} : pc'[k] = pc[k]
            BY <2>3, SyncOrder
        <3>2. /\ run'["sync"] = [run["sync"] EXCEPT !.pools = pools]
              /\ \A k \in Jobs \ {"sync"} : run'[k] = run[k]
            BY <2>1, <2>3 DEF TypeOK
        <3>3. run["sync"] \in Locals
            BY <2>1, TypeOfLocals
        <3>4. /\ run'["sync"].from = run["sync"].from
              /\ run'["sync"].end = run["sync"].end
              /\ run'["sync"].at = run["sync"].at
              /\ run'["sync"].pools = pools
            BY <3>2, <3>3, Zenon DEF Locals
        <3>5. UNCHANGED <<subgraph, Good, Lacking>>
            BY <2>1 DEF chainVars, dbVars, Good, Lacking
        <3>6. StartBehind' /\ ReadAtEnd'
            BY <3>1, <3>4, <3>5 DEF MissedInv, StartBehind, ReadAtEnd
        <3>7. run["sync"].from # run["sync"].end \/ Kind = "v3"
            <4>1. run["sync"].end \in Int /\ Range \in Nat \ {0}
                BY <2>1, TypeOfLocals, SMT
            <4>2. ASSUME run["sync"].from = run["sync"].end, Kind # "v3"
                  PROVE  pools = {}
                BY <4>1, <4>2, SingleBlockUnread DEF ScannedBlocks, ChangedIn
            <4> QED BY <2>3, <4>2
        <3>8. ASSUME NEW q \in Good \ pools, NEW b \in Lacking[q]
              PROVE  run["sync"].at < b
            <4>1. CASE q \in run["sync"].pools
                <5>1. q \in Pools /\ b \in changes[q] /\ b \in Int
                    BY SMT DEF TypeOK, Good, Lacking, First
                <5>2. b \notin ScannedBlocks
                    BY <3>8, <4>1, <5>1 DEF ChangedIn
                <5>3. run["sync"].from <= b
                    BY <2>1, <3>1 DEF MissedInv, StartBehind
                <5>4. ~(b <= run["sync"].end)
                    BY <2>1, <3>7, <5>1, <5>2, <5>3, ScanHoldsRange DEF MissedInv
                <5>5. run["sync"].end \in Int /\ run["sync"].at = run["sync"].end
                    BY <2>1, TypeOfLocals, SMT DEF MissedInv, ReadAtEnd
                <5> QED BY <5>1, <5>4, <5>5, SMT
            <4>2. CASE q \notin run["sync"].pools
                BY <2>1, <3>1, <4>2 DEF MissedInv, Reached, SavesBlock
            <4> QED BY <4>1, <4>2
        <3>9. SavesBlock("sync")
            BY DEF SavesBlock
        <3>10. run'["sync"].pools \subseteq known
            BY <2>1, <3>4 DEF MissedInv, Listed
        <3>11. /\ \A k \in Jobs \ {"sync"} : pc'[k] = pc[k] /\ run'[k] = run[k]
               /\ \A q \in Good \ run'["sync"].pools : \A b \in Lacking[q] : run'["sync"].at < b
            BY <3>1, <3>2, <3>4, <3>8
        <3> HIDE DEF pools
        <3> QED BY <2>1, <3>6, <3>10, <3>11, MissedByJob
    <2> QED BY <1>6, <2>2, <2>3 DEF Scan
<1> QED BY <1>1, <1>2, <1>3, <1>4, <1>5, <1>6

\* Listing the pools to add, to load or to reload keeps the invariant.
LEMMA MissedByBegin ==
    ASSUME TypeOK, [Next]_vars, MissedInv,
           BeginAdd \/ \E j \in {"load", "reload"} : BeginLoad(j)
    PROVE  MissedInv'
<1>1. CASE BeginAdd
    <2>1. /\ "add" \in Jobs /\ UNCHANGED <<chainVars, dbVars>>
          /\ \A k \in Jobs \ {"add"} : pc'[k] = pc[k] /\ run'[k] = run[k]
        BY <1>1 DEF BeginAdd, TypeOK
    <2>2. ~SavesBlock("add")
        BY DEF SavesBlock
    <2> QED BY <2>1, <2>2, MissedByJob
<1>2. ASSUME NEW j \in {"load", "reload"}, BeginLoad(j) PROVE MissedInv'
    <2>1. PICK new \in SUBSET (Pools \ known) :
            /\ j = "load" => new = {}
            /\ run' = [run EXCEPT ![j] = [NoRun EXCEPT
                            !.begun = head, !.pools = known \cup new]]
        BY <1>2 DEF BeginLoad
    <2>2. /\ j \in Jobs /\ UNCHANGED <<chainVars, dbVars>> /\ pc'[j] = "listed"
          /\ \A k \in Jobs \ {j} : pc'[k] = pc[k] /\ run'[k] = run[k]
        <3>1. j \in Jobs /\ UNCHANGED <<chainVars, dbVars>>
            BY <1>2 DEF BeginLoad
        <3>2. pc' = [pc EXCEPT ![j] = "listed"]
            BY <1>2 DEF BeginLoad
        <3>3. pc'[j] = "listed" /\ \A k \in Jobs \ {j} : pc'[k] = pc[k]
            BY <3>1, <3>2 DEF TypeOK
        <3>4. \A k \in Jobs \ {j} : run'[k] = run[k]
            BY <2>1, <3>1 DEF TypeOK
        <3> QED BY <3>1, <3>3, <3>4
    <2>3. run'[j] = [NoRun EXCEPT !.begun = head, !.pools = known \cup new]
        BY <2>1, <2>2 DEF TypeOK
    <2>4. run'[j].pools = known \cup new
        BY <2>3 DEF NoRun
    <2>5. run'[j].pools \subseteq known \/ j # "load"
        BY <2>1, <2>4
    <2>6. j # "sync" /\ known \subseteq run'[j].pools
        BY <2>4
    <2> QED BY <2>2, <2>5, <2>6, MissedByJob
<1> QED BY <1>1, <1>2

\* Reading the state of the listed pools keeps it: a reload that is going to save the block
\* has listed every pool.
LEMMA MissedByReadState ==
    ASSUME TypeOK, [Next]_vars, MissedInv, Kind # "v2", NEW j \in Jobs \ {"sync"}, ReadState(j)
    PROVE  MissedInv'
<1>1. /\ pc[j] = "listed" /\ pc'[j] = "write" /\ UNCHANGED <<chainVars, dbVars>>
      /\ run' = [run EXCEPT ![j] = [run[j] EXCEPT !.at = head]]
      /\ \A k \in Jobs \ {j} : pc'[k] = pc[k] /\ run'[k] = run[k]
    BY DEF ReadState, TypeOK
<1>2. run[j] \in Locals /\ run'[j] = [run[j] EXCEPT !.at = head]
    BY <1>1, TypeOfLocals DEF TypeOK
<1>3. run'[j].pools = run[j].pools
    BY <1>2, Zenon DEF Locals
<1>4. j \in {"sync", "load"} => run'[j].pools \subseteq known
    BY <1>3 DEF MissedInv, Listed
<1>5. SavesBlock(j) => Good \ run'[j].pools = {}
    BY <1>1, <1>3 DEF SavesBlock, MissedInv, Listed, Good
<1> QED BY <1>1, <1>4, <1>5, MissedByJob

\* A pool that is done leaves the other locals alone.
LEMMA LocalsOfDone ==
    ASSUME TypeOK, NEW j \in Jobs, NEW q, run' = [run EXCEPT ![j].pools = @ \ {q}]
    PROVE  /\ \A k \in Jobs : /\ run'[k].from = run[k].from
                              /\ run'[k].end = run[k].end
                              /\ run'[k].at = run[k].at
           /\ \A k \in Jobs \ {j} : run'[k].pools = run[k].pools
           /\ run'[j].pools = run[j].pools \ {q}
<1> DEFINE left == run[j].pools \ {q}
<1>1. /\ run'[j] = [run[j] EXCEPT !.pools = left]
      /\ \A k \in Jobs \ {j} : run'[k] = run[k]
    BY DEF TypeOK
<1>2. run[j] \in Locals /\ left = run[j].pools \ {q}
    BY TypeOfLocals
<1> HIDE DEF left
<1>3. ASSUME NEW r \in Locals
      PROVE  LET s == [r EXCEPT !.pools = left]
             IN  s.from = r.from /\ s.end = r.end /\ s.at = r.at /\ s.pools = left
    BY Zenon DEF Locals
<1>4. /\ run'[j].from = run[j].from
      /\ run'[j].end = run[j].end
      /\ run'[j].at = run[j].at
      /\ run'[j].pools = left
    BY <1>1, <1>2, <1>3
<1> QED BY <1>1, <1>2, <1>4

\* A pool that is written, or whose write fails, keeps the invariant: it lacks nothing
\* any more, or counts as failed.
LEMMA MissedByWrite ==
    ASSUME TypeOK, [Next]_vars, MissedInv, NEW j \in Jobs, NEW q \in run[j].pools,
           UNCHANGED <<subgraph, cursor, pc>>, run' = [run EXCEPT ![j].pools = @ \ {q}],
           q \in Good' => Lacking'[q] = {} \/ ~SavesBlock(j),
           pc[j] = "write", known' \in {known, known \cup {q}}, ReloadsAlone
    PROVE  MissedInv'
<1>1. /\ \A k \in Jobs : /\ run'[k].from = run[k].from
                         /\ run'[k].end = run[k].end
                         /\ run'[k].at = run[k].at
      /\ \A k \in Jobs \ {j} : run'[k].pools = run[k].pools
      /\ run'[j].pools = run[j].pools \ {q}
    BY LocalsOfDone
<1>2. CursorBehind'
    BY CursorStays DEF MissedInv
<1>3. StartBehind'
    BY <1>1, StartStays DEF MissedInv, StartBehind
<1>4. ReadAtEnd'
    BY <1>1 DEF MissedInv, ReadAtEnd
<1>5. ASSUME NEW k \in Jobs, SavesBlock(k), pc[k] \in {"scan", "write"},
             NEW p \in Good' \ run'[k].pools
      PROVE  \A b \in Lacking'[p] : run'[k].at < b
    <2>1. CASE k = j /\ p = q
        BY <1>5, <2>1
    <2>2. CASE ~(k = j /\ p = q)
        <3>1. p \notin run[k].pools
            BY <1>1, <1>5, <2>2
        <3>2. p \in Good => \A b \in Lacking[p] : run[k].at < b
            BY <1>5, <3>1 DEF MissedInv, Reached
        <3> QED BY <1>1, <3>2, ReachedStays
    <2> QED BY <2>1, <2>2
<1>6. Reached'
    BY <1>5 DEF Reached, SavesBlock
<1>7. Listed'
    <2>1. known \subseteq known' /\ \A k \in Jobs : run'[k].pools \subseteq run[k].pools
        BY <1>1
    <2>2. \A k \in Jobs \cap {"sync", "load"} : run'[k].pools \subseteq known'
        BY <2>1 DEF MissedInv, Listed
    <2>3. ASSUME Kind = "v3", "reload" \in Jobs, pc["reload"] = "listed"
          PROVE  known' \subseteq run'["reload"].pools
        <3>1. j # "reload" /\ j # "add"
            BY <2>3 DEF ReloadsAlone
        <3>2. j \in {"sync", "load"}
            BY <3>1
        <3>3. known' = known
            BY <3>2 DEF MissedInv, Listed
        <3>4. run'["reload"].pools = run["reload"].pools
            BY <1>1, <2>3, <3>1
        <3> QED BY <2>3, <3>3, <3>4 DEF MissedInv, Listed
    <2> QED BY <2>2, <2>3 DEF Listed
<1> QED BY <1>2, <1>3, <1>4, <1>6, <1>7 DEF MissedInv

\* A block that is saved has nothing missing before it.
LEMMA MissedBySave ==
    ASSUME TypeOK, [Next]_vars, MissedInv, Kind # "v2", NEW j \in Jobs, SaveCursor(j)
    PROVE  MissedInv'
<1>1. /\ pc[j] = "write" /\ run[j].pools = {} /\ Return(j) /\ cursor' = CursorAfter(j)
      /\ UNCHANGED <<subgraph, known, db, changes, failed, window>>
    BY DEF SaveCursor, chainVars
<1>2. CASE ~SavesBlock(j)
    <2>1. cursor' = cursor
        BY <1>1, <1>2 DEF CursorAfter, SavesBlock
    <2> QED BY <1>1, <2>1, CursorStays, MissedByReturn DEF MissedInv
<1>3. CASE SavesBlock(j)
    <2>1. UNCHANGED <<Good, Lacking>>
        BY <1>1 DEF Good, Lacking
    <2>2. \A q \in Good : \A b \in Lacking[q] : run[j].at < b
        BY <1>1, <1>3 DEF MissedInv, Reached
    <2>3. run[j].at \in Int /\ run[j].end \in Int /\ (j = "sync" => run[j].end = run[j].at)
        BY TypeOfLocals, SMT DEF MissedInv, ReadAtEnd
    <2>4. StartBlock' \in Int /\ StartBlock' <= run[j].at + 1
          /\ (Kind = "v3" => StartBlock' <= run[j].at)
        BY <1>1, <1>3, <2>3, SMT DEF StartBlock, CursorAfter, SavesBlock
    <2>5. \A q \in Good : \A b \in Lacking[q] : b \in Int
        BY SMT DEF TypeOK, Lacking, Good, First
    <2>6. CursorBehind'
        <3> SUFFICES ASSUME NEW q \in Good, NEW b \in Lacking[q] PROVE StartBlock' <= b
            BY <2>1 DEF CursorBehind
        <3>1. b \in Int /\ run[j].at < b
            BY <2>2, <2>5
        <3> QED BY <2>3, <2>4, <3>1, SMT
    <2> QED BY <1>1, <2>6, MissedByReturn
<1> QED BY <1>2, <1>3

\* Every step keeps the invariant.
LEMMA MissedStep ==
    ASSUME TypeOK, [Next]_vars, MissedInv, Kind # "v2", ReloadsAlone
    PROVE  MissedInv'
<1>1. CASE NewBlock \/ UNCHANGED vars
    <2>1. UNCHANGED <<subgraph, known, cursor, pc, run>>
        BY <1>1 DEF NewBlock, vars, chainVars, dbVars
    <2>2. subgraph' \in Nat /\ subgraph <= subgraph'
        BY <2>1, SMT DEF TypeOK, First
    <2> QED BY <2>1, <2>2, MissedByChain
<1>2. CASE SubgraphIndexes
    <2>1. UNCHANGED <<known, cursor, pc, run>> /\ subgraph' = subgraph + 1
        BY <1>2 DEF SubgraphIndexes, dbVars
    <2>2. subgraph' \in Nat /\ subgraph <= subgraph'
        BY <2>1, SMT DEF TypeOK, First
    <2> QED BY <2>1, <2>2, MissedByChain
<1>3. CASE BeginSync \/ ReadCursor \/ ReadBlock \/ UpToDate \/ ReadPools \/ Scan
    BY <1>3, MissedBySync
<1>4. CASE BeginAdd \/ \E j \in {"load", "reload"} : BeginLoad(j)
    BY <1>4, MissedByBegin
<1>5. ASSUME NEW j \in Jobs, Write(j) PROVE MissedInv'
    <2>1. PICK q \in run[j].pools :
            /\ known' = known \cup {q}
            /\ db' = [db EXCEPT ![q] = run[j].at]
            /\ window' = [window EXCEPT ![q] = {b \in changes[q] : run[j].at < b}]
            /\ run' = [run EXCEPT ![j].pools = @ \ {q}]
        BY <1>5 DEF Write
    <2>2. UNCHANGED <<changes, subgraph, cursor, pc>> /\ pc[j] = "write"
        BY <1>5 DEF Write, chainVars
    <2>3. q \in Pools /\ run[j].at \in Nat
        <3>1. run[j].pools \in SUBSET Pools /\ run[j].at \in First .. head /\ First \in Nat
            BY TypeOfLocals
        <3> QED BY <3>1, SMT
    <2>4. Lacking'[q] = {}
        BY <2>1, <2>2, <2>3, WrittenLacksNothing
    <2> QED BY <2>1, <2>2, <2>4, MissedByWrite
<1>6. ASSUME NEW j \in Jobs, WriteFails(j) PROVE MissedInv'
    <2>1. PICK q \in run[j].pools :
            /\ failed' = IF SavesBlock(j) THEN failed \cup ({q} \cap known) ELSE failed
            /\ run' = [run EXCEPT ![j].pools = @ \ {q}]
        BY <1>6 DEF WriteFails
    <2>2. UNCHANGED <<subgraph, known, cursor, pc>> /\ pc[j] = "write"
        BY <1>6 DEF WriteFails, chainVars
    <2>3. SavesBlock(j) => q \notin Good'
        BY <2>1, <2>2 DEF Good
    <2> QED BY <2>1, <2>2, <2>3, MissedByWrite
<1>7. ASSUME NEW j \in Jobs, SaveCursor(j) PROVE MissedInv'
    BY <1>7, MissedBySave
<1>8. ASSUME NEW j \in Jobs, Abort(j) PROVE MissedInv'
    <2>1. Return(j) /\ UNCHANGED <<subgraph, known, db, cursor, changes, failed, window>>
        BY <1>8 DEF Abort, chainVars, dbVars
    <2> QED BY <2>1, CursorStays, MissedByReturn DEF MissedInv
<1>9. ASSUME NEW j \in Jobs \ {"sync"}, ReadState(j) PROVE MissedInv'
    BY <1>9, MissedByReadState
<1> QED BY <1>1, <1>2, <1>3, <1>4, <1>5, <1>6, <1>7, <1>8, <1>9 DEF Next

\* The stored state of a V3 or CoW AMM pool misses only changes of blocks that came between
\* the read and the write of that very state (unless its write failed): for any pools, any
\* margin (none included), any batch size, however far the subgraph lags, whatever add, load
\* and reload jobs overlap with the sync (but not a V3 reload with the V3 add job), and
\* wherever a run is cut off.
THEOREM MissedCorrect ==
    ASSUME Kind # "v2", ReloadsAlone
    PROVE  Spec => []MissedOnlyWhileWriting
<1>1. Init => MissedInv
    <2> SUFFICES ASSUME Init PROVE MissedInv
        OBVIOUS
    <2>1. \A q \in Pools : Lacking[q] = {}
        BY DEF Init, Lacking
    <2>2. Good \subseteq Pools
        BY DEF Init, Good
    <2>3. \A j \in Jobs : pc[j] = "idle"
        BY DEF Init
    <2>4. "sync" \in Jobs => run["sync"].end = First /\ run["sync"].at = First
        BY DEF Init, NoRun
    <2>5. First <= subgraph
        BY SMT DEF Init, First
    <2>6. CursorBehind
        BY <2>1, <2>2 DEF CursorBehind
    <2>7. StartBehind
        BY <2>3 DEF StartBehind
    <2>8. ReadAtEnd
        BY <2>4, <2>5 DEF ReadAtEnd
    <2>9. Reached
        BY <2>3 DEF Reached
    <2>10. Listed
        BY <2>3 DEF Init, Listed, NoRun
    <2> QED BY <2>6, <2>7, <2>8, <2>9, <2>10 DEF MissedInv
<1>2. TypeOK /\ MissedInv /\ [Next]_vars => MissedInv'
    BY MissedStep
<1>3. TypeOK /\ MissedInv => MissedOnlyWhileWriting
    <2> SUFFICES ASSUME TypeOK, MissedInv, NEW q \in Good, NEW b \in Missed(q),
                        b \notin window[q]
                 PROVE  FALSE
        BY DEF MissedOnlyWhileWriting, Good
    <2>1. q \in Pools /\ b \in Int /\ StartBlock \in Int
        BY SMT DEF TypeOK, Good, Missed, StartBlock, First
    <2>2. b \in Lacking[q] /\ b < StartBlock
        BY <2>1 DEF Missed, Lacking
    <2>3. StartBlock <= b
        BY <2>2 DEF MissedInv, CursorBehind
    <2> QED BY <2>1, <2>2, <2>3, SMT
<1>4. Spec => []TypeOK
    BY TypeCorrect
<1> QED BY <1>1, <1>2, <1>3, <1>4, PTL DEF Spec

-----------------------------------------------------------------------------
(***************************************************************************)
(* V3 with its margin.  A run that takes no longer than the margin writes  *)
(* a state at most Margin + 1 blocks old, while the saved block is at      *)
(* least Margin blocks behind the head.  So what such a write loses is     *)
(* ahead of the saved block, as it is of the block that a running sync     *)
(* will save.                                                              *)
(***************************************************************************)

\* The changes that the stored state of a pool lacks.
Missing == [q \in Pools |-> {b \in changes[q] : db[q] < b}]

Saved == (cursor <= First \/ cursor <= head - Margin) /\ cursor <= subgraph

SavedBehind == \A q \in Good : \A b \in Missing[q] : cursor <= b

SyncStarts ==
    "sync" \in Jobs =>
        /\ pc["sync"] \in {"block", "pools", "scan", "write"} => run["sync"].from = cursor
        /\ pc["sync"] \in {"pools", "scan", "write"} => /\ cursor <= run["sync"].end
                                                        /\ run["sync"].end <= subgraph
                                                        /\ run["sync"].at = run["sync"].end

SyncReached ==
    "sync" \in Jobs /\ pc["sync"] \in {"scan", "write"}
        => \A q \in Good \ run["sync"].pools : \A b \in Missing[q] :
                run["sync"].end - Margin <= b

\* What is written was read after its run began, and no run sees more than Delay blocks.
Punctual ==
    \A j \in Jobs : /\ pc[j] # "idle" => head <= run[j].begun + Delay
                    /\ j # "sync" /\ pc[j] = "write" => run[j].begun <= run[j].at

KeptInv == Saved /\ SavedBehind /\ SyncStarts /\ SyncReached

\* The runs of V3 that lose nothing: no reload saves the head as the block to go on from.
MarginSuffices == Kind = "v3" /\ "reload" \notin Jobs /\ Delay <= Margin + 1

\* A job that begins, or whose run goes on, stays in time.
LEMMA PunctualByJob ==
    ASSUME TypeOK, Punctual, NEW j \in Jobs, UNCHANGED head,
           \A k \in Jobs \ {j} : pc'[k] = pc[k] /\ run'[k] = run[k],
           pc'[j] # "idle" => \/ run'[j].begun = head
                              \/ pc[j] # "idle" /\ run'[j].begun = run[j].begun,
           j # "sync" /\ pc'[j] = "write" => run'[j].begun <= run'[j].at
    PROVE  Punctual'
<1>1. head \in Nat /\ head <= head + Delay
    BY SMT DEF TypeOK
<1>2. ASSUME NEW k \in Jobs, pc'[k] # "idle" PROVE head' <= run'[k].begun + Delay
    <2>1. CASE k = j
        BY <1>1, <1>2, <2>1 DEF Punctual
    <2>2. CASE k # j
        BY <1>2, <2>2 DEF Punctual
    <2> QED BY <2>1, <2>2
<1>3. ASSUME NEW k \in Jobs, k # "sync", pc'[k] = "write" PROVE run'[k].begun <= run'[k].at
    BY <1>3 DEF Punctual
<1> QED BY <1>2, <1>3 DEF Punctual

\* A field of the locals of a job is set.
LEMMA FieldsOfRun ==
    ASSUME NEW r \in Locals, NEW x
    PROVE  /\ [r EXCEPT !.from = x].begun = r.begun
           /\ [r EXCEPT !.end = x, !.at = x].begun = r.begun
           /\ [r EXCEPT !.pools = x].begun = r.begun
           /\ [r EXCEPT !.pools = x].at = r.at
           /\ [r EXCEPT !.at = x].begun = r.begun
           /\ [r EXCEPT !.at = x].at = x
BY Zenon DEF Locals

LEMMA PunctualBySync ==
    ASSUME TypeOK, Punctual, Kind = "v3",
           BeginSync \/ ReadCursor \/ ReadBlock \/ UpToDate \/ ReadPools \/ Scan
    PROVE  Punctual'
<1>0. "sync" \in Jobs /\ UNCHANGED head
    BY TypeOfSyncStep, Zenon DEF BeginSync, ReadCursor, ReadBlock, UpToDate, ReadPools, Scan,
            chainVars
<1>1. run["sync"] \in Locals /\ run \in [Jobs -> Locals] /\ pc \in [Jobs -> Steps]
    BY <1>0, TypeOfLocals DEF TypeOK
<1>2. CASE BeginSync
    <2>1. /\ run'["sync"] = [NoRun EXCEPT !.begun = head]
          /\ \A k \in Jobs \ {"sync"} : pc'[k] = pc[k] /\ run'[k] = run[k]
        BY <1>0, <1>1, <1>2 DEF BeginSync
    <2>2. run'["sync"].begun = head
        BY <2>1 DEF NoRun
    <2> QED BY <1>0, <2>1, <2>2, PunctualByJob
<1>3. ASSUME NEW step, SyncStep(step), NEW r, run' = [run EXCEPT !["sync"] = r],
             r.begun = run["sync"].begun, step \in {"cursor", "block", "pools", "scan"}
      PROVE  Punctual'
    <2>1. pc["sync"] # "idle" /\ \A k \in Jobs \ {"sync"} : pc'[k] = pc[k]
        BY <1>3, SyncOrder
    <2>2. run'["sync"] = r /\ \A k \in Jobs \ {"sync"} : run'[k] = run[k]
        BY <1>0, <1>1, <1>3
    <2> QED BY <1>0, <1>3, <2>1, <2>2, PunctualByJob
<1>4. CASE ReadCursor
    <2>1. run' = [run EXCEPT !["sync"] = [run["sync"] EXCEPT !.from = StartBlock]]
        BY <1>4 DEF ReadCursor
    <2>2. [run["sync"] EXCEPT !.from = StartBlock].begun = run["sync"].begun
        BY <1>1, FieldsOfRun
    <2> QED BY <1>3, <1>4, <2>1, <2>2 DEF ReadCursor
<1>5. CASE ReadBlock
    <2>1. run' = [run EXCEPT !["sync"] = [run["sync"] EXCEPT !.end = subgraph, !.at = subgraph]]
        BY <1>5 DEF ReadBlock
    <2>2. [run["sync"] EXCEPT !.end = subgraph, !.at = subgraph].begun = run["sync"].begun
        BY <1>1, FieldsOfRun
    <2> QED BY <1>3, <1>5, <2>1, <2>2 DEF ReadBlock
<1>6. CASE ReadPools
    <2>1. run' = [run EXCEPT !["sync"] =
                    [run["sync"] EXCEPT !.pools = known, !.at = run["sync"].at]]
        BY <1>6 DEF ReadPools
    <2>2. [run["sync"] EXCEPT !.pools = known, !.at = run["sync"].at].begun = run["sync"].begun
        BY <1>1, Zenon DEF Locals
    <2> QED BY <1>3, <1>6, <2>1, <2>2 DEF ReadPools
<1>7. CASE Return("sync")
    <2>1. /\ pc'["sync"] = "idle"
          /\ \A k \in Jobs \ {"sync"} : pc'[k] = pc[k] /\ run'[k] = run[k]
        BY <1>0, <1>1, <1>7 DEF Return
    <2> QED BY <1>0, <2>1, PunctualByJob
<1>8. CASE Scan
    <2> DEFINE pools == ChangedIn(ScannedBlocks) \cap run["sync"].pools
    <2>1. \/ Return("sync")
          \/ SyncStep("scan") /\ run' = [run EXCEPT !["sync"] =
                                            [run["sync"] EXCEPT !.pools = pools]]
        BY <1>8 DEF Scan
    <2> HIDE DEF pools
    <2>2. [run["sync"] EXCEPT !.pools = pools].begun = run["sync"].begun
        BY <1>1, FieldsOfRun
    <2> QED BY <1>3, <1>7, <2>1, <2>2
<1> QED BY <1>2, <1>4, <1>5, <1>6, <1>7, <1>8 DEF UpToDate

\* Every step keeps the runs in time.
LEMMA PunctualStep ==
    ASSUME TypeOK, [Next]_vars, Punctual, Kind = "v3"
    PROVE  Punctual'
<1>0. run \in [Jobs -> Locals] /\ pc \in [Jobs -> Steps] /\ \A j \in Jobs : run[j] \in Locals
    BY DEF TypeOK
<1>1. CASE NewBlock
    <2>1. /\ head' = head + 1 /\ UNCHANGED <<pc, run>>
          /\ \A j \in Jobs : pc[j] # "idle" => head < run[j].begun + Delay
        BY <1>1 DEF NewBlock, InTime
    <2>2. ASSUME NEW j \in Jobs, pc[j] # "idle" PROVE head + 1 <= run[j].begun + Delay
        <3>1. head \in Nat /\ run[j].begun \in Int
            BY TypeOfLocals, SMT
        <3>2. head < run[j].begun + Delay
            BY <2>1, <2>2
        <3> QED BY <3>1, <3>2, SMT
    <2> QED BY <2>1, <2>2 DEF Punctual
<1>2. CASE SubgraphIndexes \/ UNCHANGED vars
    <2>1. UNCHANGED <<head, pc, run>>
        BY <1>2 DEF SubgraphIndexes, vars, chainVars
    <2> QED BY <2>1 DEF Punctual
<1>3. CASE BeginSync \/ ReadCursor \/ ReadBlock \/ UpToDate \/ ReadPools \/ Scan
    BY <1>3, PunctualBySync
<1>4. ASSUME NEW j \in Jobs, pc'[j] = "listed", UNCHANGED head,
             NEW pools, run' = [run EXCEPT ![j] = [NoRun EXCEPT
                                    !.begun = head, !.pools = pools]],
             \A k \in Jobs \ {j} : pc'[k] = pc[k]
      PROVE  Punctual'
    <2>1. /\ run'[j] = [NoRun EXCEPT !.begun = head, !.pools = pools]
          /\ \A k \in Jobs \ {j} : run'[k] = run[k]
        BY <1>0, <1>4
    <2>2. run'[j].begun = head
        BY <2>1 DEF NoRun
    <2> QED BY <1>4, <2>1, <2>2, PunctualByJob
<1>5. CASE BeginAdd
    <2>1. PICK q \in Pools \ known :
            run' = [run EXCEPT !["add"] = [NoRun EXCEPT !.begun = head, !.pools = {q}]]
        BY <1>5 DEF BeginAdd
    <2>2. /\ "add" \in Jobs /\ pc'["add"] = "listed" /\ UNCHANGED head
          /\ \A k \in Jobs \ {"add"} : pc'[k] = pc[k]
        BY <1>0, <1>5 DEF BeginAdd, chainVars
    <2> QED BY <1>4, <2>1, <2>2
<1>6. ASSUME NEW j \in {"load", "reload"}, BeginLoad(j) PROVE Punctual'
    <2>1. PICK new \in SUBSET (Pools \ known) :
            run' = [run EXCEPT ![j] = [NoRun EXCEPT !.begun = head, !.pools = known \cup new]]
        BY <1>6 DEF BeginLoad
    <2>2. /\ j \in Jobs /\ pc'[j] = "listed" /\ UNCHANGED head
          /\ \A k \in Jobs \ {j} : pc'[k] = pc[k]
        BY <1>0, <1>6 DEF BeginLoad, chainVars
    <2> QED BY <1>4, <2>1, <2>2
<1>7. ASSUME NEW j \in Jobs \ {"sync"}, ReadState(j) PROVE Punctual'
    <2>1. /\ pc[j] # "idle" /\ UNCHANGED head
          /\ run' = [run EXCEPT ![j] = [run[j] EXCEPT !.at = head]]
          /\ \A k \in Jobs \ {j} : pc'[k] = pc[k] /\ run'[k] = run[k]
        BY <1>0, <1>7 DEF ReadState, chainVars
    <2>2. run'[j] = [run[j] EXCEPT !.at = head]
        BY <1>0, <2>1
    <2>3. run'[j].begun = run[j].begun /\ run'[j].at = head
        BY <1>0, <2>2, FieldsOfRun
    <2>4. run[j].begun <= head
        BY TypeOfLocals, SMT
    <2> QED BY <2>1, <2>3, <2>4, PunctualByJob
<1>8. ASSUME NEW j \in Jobs, Write(j) \/ WriteFails(j) PROVE Punctual'
    <2>1. /\ pc[j] = "write" /\ UNCHANGED <<head, pc>>
          /\ \E pools : run' = [run EXCEPT ![j] = [run[j] EXCEPT !.pools = pools]]
        BY <1>8 DEF Write, WriteFails, chainVars
    <2>2. PICK pools : run' = [run EXCEPT ![j] = [run[j] EXCEPT !.pools = pools]]
        BY <2>1
    <2>3. /\ run'[j] = [run[j] EXCEPT !.pools = pools]
          /\ \A k \in Jobs \ {j} : run'[k] = run[k]
        BY <1>0, <2>2
    <2>4. run'[j].begun = run[j].begun /\ run'[j].at = run[j].at
        BY <1>0, <2>3, FieldsOfRun
    <2>5. j # "sync" => run[j].begun <= run[j].at
        BY <2>1 DEF Punctual
    <2> QED BY <2>1, <2>3, <2>4, <2>5, PunctualByJob
<1>9. ASSUME NEW j \in Jobs, SaveCursor(j) \/ Abort(j) PROVE Punctual'
    <2>1. /\ pc'[j] = "idle" /\ UNCHANGED head
          /\ \A k \in Jobs \ {j} : pc'[k] = pc[k] /\ run'[k] = run[k]
        BY <1>0, <1>9 DEF SaveCursor, Abort, Return, chainVars
    <2> QED BY <2>1, PunctualByJob
<1> QED BY <1>1, <1>2, <1>3, <1>5, <1>6, <1>7, <1>8, <1>9 DEF Next

\* A step adds to what is missing only blocks from the saved block on, and no earlier than
\* the block that a running sync will save.
LEMMA MissingStep ==
    ASSUME TypeOK, [Next]_vars, KeptInv, Punctual, MarginSuffices,
           NEW q \in Good', NEW b \in Missing'[q]
    PROVE  \/ q \in Good /\ b \in Missing[q]
           \/ cursor <= b /\ ("sync" \in Jobs => run["sync"].end - Margin <= b)
<1> DEFINE Late == cursor <= b /\ ("sync" \in Jobs => run["sync"].end - Margin <= b)
<1>t. /\ TypeOK' /\ q \in Pools /\ head \in Nat /\ First \in Nat /\ cursor \in Int
      /\ "sync" \in Jobs => run["sync"].end \in Int /\ run["sync"].end <= head
    <2>1. TypeOK'
        BY TypeStep
    <2>2. "sync" \in Jobs => run["sync"].end \in Int /\ run["sync"].end <= head
        BY TypeOfLocals, SMT
    <2>3. head \in Nat /\ First \in Nat /\ cursor \in Int
        BY SMT DEF TypeOK, First
    <2> QED BY <2>1, <2>2, <2>3 DEF TypeOK, Good
<1>b. b \in Int /\ First < b /\ b \in changes'[q] /\ db'[q] < b
    <2>1. b \in changes'[q] /\ changes'[q] \subseteq First' + 1 .. head' /\ db'[q] < b
        BY <1>t DEF TypeOK, Missing
    <2>2. First' = First
        BY DEF First
    <2> QED BY <1>t, <2>1, <2>2, SMT
<1>c. ASSUME head - Margin <= b PROVE Late
    <2>1. cursor <= First \/ cursor <= head - Margin
        BY DEF KeptInv, Saved
    <2> QED BY <1>t, <1>b, <1>c, <2>1, SMT
<1>1. CASE NewBlock
    <2>1. PICK touched \in SUBSET Pools :
            changes' = [p \in Pools |-> IF p \in touched THEN changes[p] \cup {head + 1}
                                                         ELSE changes[p]]
        BY <1>1 DEF NewBlock
    <2>2. UNCHANGED <<known, db, failed>>
        BY <1>1 DEF NewBlock, dbVars
    <2>3. b \in changes[q] \/ b = head + 1
        BY <1>t, <1>b, <2>1
    <2>4. head - Margin <= head + 1
        BY <1>t, SMT
    <2> QED BY <1>t, <1>b, <1>c, <2>2, <2>3, <2>4 DEF Missing, Good
<1>2. ASSUME NEW j \in Jobs, Write(j) PROVE (q \in Good /\ b \in Missing[q]) \/ Late
    <2>1. PICK p \in run[j].pools :
            /\ known' = known \cup {p}
            /\ db' = [db EXCEPT ![p] = run[j].at]
            /\ failed' = failed \ {p}
        BY <1>2 DEF Write
    <2>2. pc[j] = "write" /\ UNCHANGED changes
        BY <1>2 DEF Write, chainVars
    <2>3. CASE q # p
        <3>1. db'[q] = db[q] /\ q \in Good
            BY <1>t, <2>1, <2>3 DEF TypeOK, Good
        <3> QED BY <1>t, <1>b, <2>2, <3>1 DEF Missing
    <2>4. CASE q = p
        <3>1. run[j].at < b /\ run[j].at \in Int /\ run[j].begun \in Int
            <4>1. db'[q] = run[j].at
                BY <1>t, <2>1, <2>4 DEF TypeOK
            <4> QED BY <1>b, <4>1, TypeOfLocals, SMT
        <3>2. CASE j = "sync"
            <4>1. cursor <= run[j].end /\ run[j].at = run[j].end
                BY <2>2, <3>2 DEF KeptInv, SyncStarts
            <4> QED BY <1>t, <1>b, <3>1, <3>2, <4>1, SMT
        <3>3. CASE j # "sync"
            <4>1. head <= run[j].begun + Delay /\ run[j].begun <= run[j].at
                BY <2>2, <3>3 DEF Punctual
            <4>2. head - Margin <= b
                BY <1>t, <1>b, <3>1, <4>1, SMT DEF MarginSuffices
            <4> QED BY <1>c, <4>2
        <3> QED BY <3>2, <3>3
    <2> QED BY <2>3, <2>4
<1>3. ASSUME UNCHANGED <<changes, known, db>>, failed \subseteq failed'
      PROVE  q \in Good /\ b \in Missing[q]
    BY <1>3 DEF Good, Missing
<1>4. ASSUME UNCHANGED <<chainVars, dbVars>>
      PROVE  q \in Good /\ b \in Missing[q]
    BY <1>3, <1>4 DEF chainVars, dbVars
<1>5. CASE SubgraphIndexes
    BY <1>3, <1>5 DEF SubgraphIndexes, dbVars
<1>6. CASE BeginSync \/ ReadCursor \/ ReadBlock \/ UpToDate \/ ReadPools \/ Scan
    BY <1>4, <1>6, Zenon DEF BeginSync, ReadCursor, ReadBlock, UpToDate, ReadPools, Scan
<1>7. CASE BeginAdd \/ \E j \in {"load", "reload"} : BeginLoad(j)
    BY <1>4, <1>7, Zenon DEF BeginAdd, BeginLoad
<1>8. ASSUME NEW j \in Jobs, WriteFails(j) \/ SaveCursor(j) \/ Abort(j)
      PROVE  q \in Good /\ b \in Missing[q]
    <2>1. UNCHANGED <<changes, known, db>> /\ failed \subseteq failed'
        BY <1>8 DEF WriteFails, SaveCursor, Abort, chainVars, dbVars
    <2> QED BY <1>3, <2>1
<1>9. ASSUME NEW j \in Jobs \ {"sync"}, ReadState(j) PROVE q \in Good /\ b \in Missing[q]
    BY <1>4, <1>9 DEF ReadState
<1>10. CASE UNCHANGED vars
    BY <1>4, <1>10 DEF vars
<1> QED BY <1>1, <1>2, <1>5, <1>6, <1>7, <1>8, <1>9, <1>10 DEF Next

\* What is a margin behind stays behind it.
LEMMA BehindStays ==
    ASSUME NEW c \in Int, NEW h \in Int, NEW i \in Int, h <= i
    PROVE  (c <= h => c <= i) /\ (c <= h - Margin => c <= i - Margin)
BY SMT

\* A step that leaves the sync and the saved block alone keeps the invariant.
LEMMA KeptByOthers ==
    ASSUME TypeOK, [Next]_vars, KeptInv, Punctual, MarginSuffices, UNCHANGED cursor,
           head <= head', subgraph <= subgraph',
           "sync" \in Jobs => pc'["sync"] = pc["sync"] /\ run'["sync"] = run["sync"]
    PROVE  KeptInv'
<1>1. SavedBehind'
    BY MissingStep DEF KeptInv, SavedBehind
<1>2. Saved'
    <2>1. TypeOK' /\ First' = First
        BY TypeStep DEF First
    <2>2. head \in Int /\ head' \in Int /\ subgraph \in Int /\ subgraph' \in Int
          /\ cursor \in Int /\ First \in Int
        BY <2>1, SMT DEF TypeOK, First
    <2>3. (cursor <= First \/ cursor <= head - Margin) /\ cursor <= subgraph
        BY DEF KeptInv, Saved
    <2>4. (cursor <= First \/ cursor <= head' - Margin) /\ cursor <= subgraph'
        BY <2>2, <2>3, BehindStays, Zenon
    <2> QED BY <2>1, <2>4 DEF Saved
<1>3. SyncStarts'
    <2> SUFFICES ASSUME "sync" \in Jobs PROVE SyncStarts'
        BY DEF SyncStarts
    <2>1. run["sync"].end \in Int /\ subgraph \in Int /\ subgraph' \in Int
        <3>1. TypeOK'
            BY TypeStep
        <3>2. subgraph' \in Int
            BY <3>1, SMT DEF TypeOK, First
        <3> QED BY <3>2, TypeOfLocals, SMT DEF TypeOK
    <2>2. run["sync"].end <= subgraph => run["sync"].end <= subgraph'
        BY <2>1, SMT
    <2> QED BY <2>2 DEF KeptInv, SyncStarts
<1>4. SyncReached'
    <2> SUFFICES ASSUME "sync" \in Jobs, pc["sync"] \in {"scan", "write"},
                        NEW q \in Good' \ run["sync"].pools, NEW b \in Missing'[q]
                 PROVE  run["sync"].end - Margin <= b
        BY DEF SyncReached
    <2> QED BY MissingStep DEF KeptInv, SyncReached
<1> QED BY <1>1, <1>2, <1>3, <1>4 DEF KeptInv

\* The sync goes on: it keeps the invariant if what is said of its locals still holds.
LEMMA KeptBySyncStep ==
    ASSUME TypeOK, [Next]_vars, KeptInv, Punctual, MarginSuffices,
           UNCHANGED <<chainVars, dbVars>>, SyncStarts', SyncReached'
    PROVE  KeptInv'
<1>1. UNCHANGED <<head, subgraph, cursor, First, Good, Missing>>
    BY DEF chainVars, dbVars, First, Good, Missing
<1>2. Saved' /\ SavedBehind'
    BY <1>1 DEF KeptInv, Saved, SavedBehind
<1> QED BY <1>2 DEF KeptInv

\* Nothing is said of an idle sync.
LEMMA KeptByReturn ==
    ASSUME TypeOK, [Next]_vars, KeptInv, Punctual, MarginSuffices,
           UNCHANGED <<chainVars, dbVars>>, "sync" \in Jobs, Return("sync")
    PROVE  KeptInv'
<1>1. pc'["sync"] = "idle"
    BY DEF Return, TypeOK
<1>2. SyncStarts' /\ SyncReached'
    BY <1>1 DEF SyncStarts, SyncReached
<1> QED BY <1>2, KeptBySyncStep

LEMMA KeptBySync ==
    ASSUME TypeOK, [Next]_vars, KeptInv, Punctual, MarginSuffices,
           BeginSync \/ ReadCursor \/ ReadBlock \/ UpToDate \/ ReadPools \/ Scan
    PROVE  KeptInv'
<1>0. /\ "sync" \in Jobs /\ UNCHANGED <<chainVars, dbVars>>
      /\ UNCHANGED <<head, subgraph, cursor, Good, Missing>>
    <2>1. "sync" \in Jobs /\ UNCHANGED <<chainVars, dbVars>>
        BY TypeOfSyncStep, Zenon DEF BeginSync, ReadCursor, ReadBlock, UpToDate, ReadPools, Scan
    <2> QED BY <2>1 DEF chainVars, dbVars, Good, Missing
<1>1. run["sync"] \in Locals /\ run \in [Jobs -> Locals] /\ pc \in [Jobs -> Steps]
    BY <1>0, TypeOfLocals DEF TypeOK
<1>2. Kind = "v3"
    BY DEF MarginSuffices
<1>3. CASE BeginSync
    <2>1. pc'["sync"] = "cursor"
        BY <1>0, <1>1, <1>2, <1>3 DEF BeginSync, SyncSteps
    <2>2. SyncStarts' /\ SyncReached'
        BY <2>1 DEF SyncStarts, SyncReached
    <2> QED BY <1>0, <2>2, KeptBySyncStep
<1>4. CASE ReadCursor
    <2>1. pc'["sync"] = "block"
        BY <1>2, <1>4, SyncOrder DEF ReadCursor
    <2>2. run'["sync"] = [run["sync"] EXCEPT !.from = cursor]
        BY <1>0, <1>1, <1>2, <1>4 DEF ReadCursor, StartBlock
    <2>3. run'["sync"].from = cursor
        BY <1>1, <2>2, Zenon DEF Locals
    <2>4. SyncStarts' /\ SyncReached'
        BY <1>0, <2>1, <2>3 DEF SyncStarts, SyncReached
    <2> QED BY <1>0, <2>4, KeptBySyncStep
<1>5. CASE ReadBlock
    <2>1. pc["sync"] = "block" /\ pc'["sync"] = "pools"
        BY <1>2, <1>5, SyncOrder DEF ReadBlock
    <2>2. run'["sync"] = [run["sync"] EXCEPT !.end = subgraph, !.at = subgraph]
        BY <1>0, <1>1, <1>2, <1>5 DEF ReadBlock
    <2>3. /\ run'["sync"].from = run["sync"].from
          /\ run'["sync"].end = subgraph
          /\ run'["sync"].at = subgraph
        BY <1>1, <2>2, Zenon DEF Locals
    <2>4. run["sync"].from = cursor /\ cursor <= subgraph /\ subgraph <= subgraph
        <3>1. subgraph \in Int
            BY SMT DEF TypeOK, First
        <3>2. subgraph <= subgraph
            BY <3>1, SMT
        <3> QED BY <1>0, <2>1, <3>2 DEF KeptInv, Saved, SyncStarts
    <2>5. SyncStarts' /\ SyncReached'
        BY <1>0, <2>1, <2>3, <2>4 DEF SyncStarts, SyncReached
    <2> QED BY <1>0, <2>5, KeptBySyncStep
<1>6. CASE ReadPools
    <2>1. pc["sync"] = "pools" /\ pc'["sync"] = "scan"
        BY <1>2, <1>6, SyncOrder DEF ReadPools
    <2>2. run'["sync"] = [run["sync"] EXCEPT !.pools = known, !.at = run["sync"].at]
        BY <1>0, <1>1, <1>2, <1>6 DEF ReadPools
    <2>3. /\ run'["sync"].from = run["sync"].from
          /\ run'["sync"].end = run["sync"].end
          /\ run'["sync"].at = run["sync"].at
          /\ run'["sync"].pools = known
        BY <1>1, <2>2, Zenon DEF Locals
    <2>4. SyncStarts'
        BY <1>0, <2>1, <2>3 DEF KeptInv, SyncStarts
    <2>5. Good' \ run'["sync"].pools = {}
        BY <1>0, <2>3 DEF Good
    <2>6. SyncReached'
        BY <2>5 DEF SyncReached
    <2> QED BY <1>0, <2>4, <2>6, KeptBySyncStep
<1>7. CASE UpToDate
    BY <1>2, <1>7 DEF UpToDate
<1>8. CASE Scan
    <2> DEFINE pools == ChangedIn(ScannedBlocks) \cap run["sync"].pools
    <2>1. \/ Return("sync")
          \/ SyncStep("scan") /\ run' = [run EXCEPT !["sync"] =
                                            [run["sync"] EXCEPT !.pools = pools]]
        BY <1>2, <1>8 DEF Scan
    <2>2. CASE Return("sync")
        BY <1>0, <2>2, KeptByReturn
    <2>3. CASE SyncStep("scan") /\ run' = [run EXCEPT !["sync"] =
                                            [run["sync"] EXCEPT !.pools = pools]]
        <3>1. pc["sync"] = "scan" /\ pc'["sync"] = "write"
            BY <1>2, <2>3, SyncOrder
        <3>2. run'["sync"] = [run["sync"] EXCEPT !.pools = pools]
            BY <1>0, <1>1, <2>3
        <3>3. /\ run'["sync"].from = run["sync"].from
              /\ run'["sync"].end = run["sync"].end
              /\ run'["sync"].at = run["sync"].at
              /\ run'["sync"].pools = pools
            BY <1>1, <3>2, Zenon DEF Locals
        <3>4. /\ run["sync"].from = cursor
              /\ run["sync"].end <= subgraph
            BY <1>0, <3>1 DEF KeptInv, SyncStarts
        <3>5. ASSUME NEW q \in Good \ pools, NEW b \in Missing[q]
              PROVE  run["sync"].end - Margin <= b
            <4>1. CASE q \in run["sync"].pools
                <5>1. q \in Pools /\ b \in changes[q]
                    BY <3>5 DEF TypeOK, Good, Missing
                <5>2. b \in Int /\ subgraph \in Int /\ cursor \in Int
                    BY <5>1, SMT DEF TypeOK, First
                <5>3. b \notin cursor .. subgraph
                    <6>1. b \notin ScannedBlocks
                        BY <3>5, <4>1, <5>1 DEF ChangedIn
                    <6> QED BY <1>2, <3>4, <6>1 DEF ScannedBlocks
                <5>4. cursor <= b
                    BY <3>5 DEF KeptInv, SavedBehind
                <5>5. run["sync"].end \in Int
                    BY <1>0, TypeOfLocals, SMT
                <5> QED BY <3>4, <5>2, <5>3, <5>4, <5>5, SMT
            <4>2. CASE q \notin run["sync"].pools
                BY <1>0, <3>1, <3>5, <4>2 DEF KeptInv, SyncReached
            <4> QED BY <4>1, <4>2
        <3>6. SyncStarts'
            BY <1>0, <3>1, <3>3 DEF KeptInv, SyncStarts
        <3>7. SyncReached'
            BY <1>0, <3>3, <3>5 DEF SyncReached
        <3> QED BY <1>0, <3>6, <3>7, KeptBySyncStep
    <2> QED BY <2>1, <2>2, <2>3
<1> QED BY <1>3, <1>4, <1>5, <1>6, <1>7, <1>8

\* The sync is done with a pool: it has written it, or the pool counts as failed.
LEMMA KeptByWrite ==
    ASSUME TypeOK, [Next]_vars, KeptInv, Punctual, MarginSuffices, "sync" \in Jobs,
           pc["sync"] = "write", UNCHANGED <<head, subgraph, cursor, pc>>,
           NEW q \in run["sync"].pools, run' = [run EXCEPT !["sync"].pools = @ \ {q}],
           q \in Good' => \A b \in Missing'[q] : run["sync"].end - Margin <= b
    PROVE  KeptInv'
<1>1. /\ run'["sync"].from = run["sync"].from
      /\ run'["sync"].end = run["sync"].end
      /\ run'["sync"].at = run["sync"].at
      /\ run'["sync"].pools = run["sync"].pools \ {q}
    BY LocalsOfDone
<1>2. Saved' /\ SyncStarts'
    BY <1>1 DEF KeptInv, Saved, SyncStarts, First
<1>3. SavedBehind'
    BY MissingStep DEF KeptInv, SavedBehind
<1>4. ASSUME NEW p \in Good' \ run'["sync"].pools, NEW b \in Missing'[p]
      PROVE  run["sync"].end - Margin <= b
    <2>1. CASE p = q
        BY <1>4, <2>1
    <2>2. CASE p # q
        <3>1. p \notin run["sync"].pools
            BY <1>1, <1>4, <2>2
        <3>2. (p \in Good /\ b \in Missing[p]) \/ run["sync"].end - Margin <= b
            BY <1>4, MissingStep
        <3> QED BY <3>1, <3>2 DEF KeptInv, SyncReached
    <2> QED BY <2>1, <2>2
<1>5. SyncReached'
    BY <1>1, <1>4 DEF SyncReached
<1> QED BY <1>2, <1>3, <1>5 DEF KeptInv

\* The block that the sync saves has nothing missing before it.
LEMMA KeptBySave ==
    ASSUME TypeOK, [Next]_vars, KeptInv, Punctual, MarginSuffices, "sync" \in Jobs,
           SaveCursor("sync")
    PROVE  KeptInv'
<1>1. /\ pc["sync"] = "write" /\ pc'["sync"] = "idle" /\ run["sync"].pools = {}
      /\ cursor' = run["sync"].end - Margin
      /\ UNCHANGED <<head, subgraph, Good, Missing, First>>
    BY DEF SaveCursor, Return, CursorAfter, MarginSuffices, chainVars, Good, Missing, First,
            TypeOK
<1>2. \A q \in Good : \A b \in Missing[q] : run["sync"].end - Margin <= b
    BY <1>1 DEF KeptInv, SyncReached
<1>3. SavedBehind'
    BY <1>1, <1>2 DEF SavedBehind
<1>4. SyncStarts' /\ SyncReached'
    BY <1>1 DEF SyncStarts, SyncReached
<1>5. Saved'
    <2>1. run["sync"].end \in Int /\ run["sync"].end <= head /\ head \in Int
        BY TypeOfLocals, SMT
    <2>2. run["sync"].end <= subgraph /\ subgraph \in Int
        <3>1. subgraph \in Int
            BY SMT DEF TypeOK, First
        <3> QED BY <1>1, <3>1 DEF KeptInv, SyncStarts
    <2>3. run["sync"].end - Margin <= head - Margin
        BY <2>1, SMT
    <2>4. run["sync"].end - Margin <= subgraph
        BY <2>1, <2>2, SMT
    <2> QED BY <1>1, <2>3, <2>4 DEF Saved
<1> QED BY <1>3, <1>4, <1>5 DEF KeptInv

\* Every step keeps the invariant.
LEMMA KeptStep ==
    ASSUME TypeOK, [Next]_vars, KeptInv, Punctual, MarginSuffices
    PROVE  KeptInv'
<1>0. /\ head \in Int /\ subgraph \in Int /\ run \in [Jobs -> Locals] /\ pc \in [Jobs -> Steps]
      /\ head <= head /\ subgraph <= subgraph /\ head <= head + 1 /\ subgraph <= subgraph + 1
    <2>1. head \in Int /\ subgraph \in Int
        BY SMT DEF TypeOK, First
    <2> QED BY <2>1, SMT DEF TypeOK
<1>1. CASE NewBlock
    BY <1>0, <1>1, KeptByOthers DEF NewBlock, dbVars
<1>2. CASE SubgraphIndexes
    BY <1>0, <1>2, KeptByOthers DEF SubgraphIndexes, dbVars
<1>3. CASE UNCHANGED vars
    BY <1>0, <1>3, KeptByOthers DEF vars, chainVars, dbVars
<1>4. CASE BeginSync \/ ReadCursor \/ ReadBlock \/ UpToDate \/ ReadPools \/ Scan
    BY <1>4, KeptBySync
<1>5. ASSUME NEW j \in Jobs, j # "sync", UNCHANGED <<chainVars, cursor>>,
             \A k \in Jobs \ {j} : pc'[k] = pc[k] /\ run'[k] = run[k]
      PROVE  KeptInv'
    BY <1>0, <1>5, KeptByOthers DEF chainVars
<1>6. CASE BeginAdd
    <2>1. /\ "add" \in Jobs /\ UNCHANGED <<chainVars, cursor>>
          /\ \A k \in Jobs \ {"add"} : pc'[k] = pc[k] /\ run'[k] = run[k]
        BY <1>0, <1>6 DEF BeginAdd, dbVars
    <2> QED BY <1>5, <2>1
<1>7. ASSUME NEW j \in {"load", "reload"}, BeginLoad(j) PROVE KeptInv'
    <2>1. /\ j \in Jobs /\ UNCHANGED <<chainVars, cursor>>
          /\ \A k \in Jobs \ {j} : pc'[k] = pc[k] /\ run'[k] = run[k]
        BY <1>0, <1>7 DEF BeginLoad, dbVars
    <2> QED BY <1>5, <2>1
<1>8. ASSUME NEW j \in Jobs \ {"sync"}, ReadState(j) PROVE KeptInv'
    <2>1. /\ UNCHANGED <<chainVars, cursor>>
          /\ \A k \in Jobs \ {j} : pc'[k] = pc[k] /\ run'[k] = run[k]
        BY <1>0, <1>8 DEF ReadState, dbVars
    <2> QED BY <1>5, <1>8, <2>1
<1>9. ASSUME NEW j \in Jobs \ {"sync"}, Write(j) \/ WriteFails(j) \/ SaveCursor(j) \/ Abort(j)
      PROVE  KeptInv'
    <2>1. \A k \in Jobs \ {j} : pc'[k] = pc[k] /\ run'[k] = run[k]
        BY <1>0, <1>9 DEF Write, WriteFails, SaveCursor, Abort, Return
    <2>2. UNCHANGED chainVars
        BY <1>9 DEF Write, WriteFails, SaveCursor, Abort
    <2>3. cursor' = cursor
        <3>1. CursorAfter(j) = cursor
            BY <1>9 DEF CursorAfter, MarginSuffices
        <3> QED BY <1>9, <3>1 DEF Write, WriteFails, SaveCursor, Abort, dbVars
    <2> QED BY <1>5, <1>9, <2>1, <2>2, <2>3
<1>10. ASSUME "sync" \in Jobs, Write("sync") PROVE KeptInv'
    <2>1. PICK q \in run["sync"].pools :
            /\ db' = [db EXCEPT ![q] = run["sync"].at]
            /\ run' = [run EXCEPT !["sync"].pools = @ \ {q}]
        BY <1>10 DEF Write
    <2>2. UNCHANGED <<head, subgraph, cursor, pc, changes>> /\ pc["sync"] = "write"
        BY <1>10 DEF Write, chainVars
    <2>3. q \in Pools /\ run["sync"].at \in Int /\ run["sync"].at = run["sync"].end
        <3>1. run["sync"].at = run["sync"].end
            BY <1>10, <2>2 DEF KeptInv, SyncStarts
        <3> QED BY <1>10, <3>1, TypeOfLocals, SMT
    <2>4. ASSUME NEW b \in Missing'[q] PROVE run["sync"].end - Margin <= b
        <3>1. b \in changes[q] /\ run["sync"].at < b
            BY <2>1, <2>2, <2>3, <2>4 DEF Missing, TypeOK
        <3>2. b \in Int
            BY <2>3, <3>1, SMT DEF TypeOK, First
        <3> QED BY <2>3, <3>1, <3>2, SMT
    <2> QED BY <1>10, <2>1, <2>2, <2>4, KeptByWrite
<1>11. ASSUME "sync" \in Jobs, WriteFails("sync") PROVE KeptInv'
    <2>1. PICK q \in run["sync"].pools :
            /\ failed' = IF SavesBlock("sync") THEN failed \cup ({q} \cap known) ELSE failed
            /\ run' = [run EXCEPT !["sync"].pools = @ \ {q}]
        BY <1>11 DEF WriteFails
    <2>2. UNCHANGED <<head, subgraph, cursor, pc, known>> /\ pc["sync"] = "write"
        BY <1>11 DEF WriteFails, chainVars
    <2>3. q \notin Good'
        BY <2>1, <2>2 DEF Good, SavesBlock
    <2> QED BY <1>11, <2>1, <2>2, <2>3, KeptByWrite
<1>12. ASSUME "sync" \in Jobs, SaveCursor("sync") PROVE KeptInv'
    BY <1>12, KeptBySave
<1>13. ASSUME "sync" \in Jobs, Abort("sync") PROVE KeptInv'
    BY <1>13, KeptByReturn DEF Abort
<1> QED BY <1>1, <1>2, <1>3, <1>4, <1>6, <1>7, <1>8, <1>9, <1>10, <1>11, <1>12, <1>13 DEF Next

\* What V3 stores lacks nothing that the next sync will not look for (unless the write of
\* the pool failed), for any pools and blocks and any number of add and load jobs that
\* overlap with the sync, if no run sees more blocks than its margin of ten, and one, and if
\* no reload saves the head without a margin.
THEOREM NothingMissedCorrect ==
    ASSUME MarginSuffices
    PROVE  Spec => []NothingMissed
<1>1. Init => KeptInv /\ Punctual
    <2> SUFFICES ASSUME Init PROVE KeptInv /\ Punctual
        OBVIOUS
    <2>1. \A q \in Pools : Missing[q] = {}
        BY DEF Init, Missing
    <2>2. Good \subseteq Pools /\ \A j \in Jobs : pc[j] = "idle"
        BY DEF Init, Good
    <2>3. First <= First
        BY SMT DEF First
    <2>4. Saved /\ SavedBehind
        BY <2>1, <2>2, <2>3 DEF Init, Saved, SavedBehind
    <2>5. SyncStarts /\ SyncReached /\ Punctual
        BY <2>2 DEF SyncStarts, SyncReached, Punctual
    <2> QED BY <2>4, <2>5 DEF KeptInv
<1>2. TypeOK /\ KeptInv /\ Punctual /\ [Next]_vars => KeptInv' /\ Punctual'
    BY KeptStep, PunctualStep DEF MarginSuffices
<1>3. TypeOK /\ KeptInv => NothingMissed
    <2> SUFFICES ASSUME TypeOK, KeptInv, NEW q \in Good, NEW b \in Missed(q)
                 PROVE  FALSE
        BY DEF NothingMissed, Good
    <2>1. q \in Pools /\ b \in changes[q] /\ db[q] < b /\ b < cursor
        BY DEF TypeOK, Good, Missed, StartBlock, MarginSuffices
    <2>2. b \in Int /\ cursor \in Int
        BY <2>1, SMT DEF TypeOK, First
    <2>3. cursor <= b
        BY <2>1 DEF KeptInv, SavedBehind, Missing
    <2> QED BY <2>1, <2>2, <2>3, SMT
<1>4. Spec => []TypeOK
    BY TypeCorrect
<1> QED BY <1>1, <1>2, <1>3, <1>4, PTL DEF Spec

=============================================================================
