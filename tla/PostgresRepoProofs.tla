-------------------------- MODULE PostgresRepoProofs --------------------------
(* Proofs about PostgresRepo: it leaves no orphan, stores a step number once,
   and implements RunStore. *)
EXTENDS PostgresRepo, FiniteSetTheorems, TLAPS

-----------------------------------------------------------------------------
(* Existence of a run under the statements that write rows. *)

(* A status written to a row that is there keeps it there. *)
LEMMA UpdateKeepsRows ==
    ASSUME TypeOK, NEW r \in Run, NEW s \in Written, Exists(r),
           rows' = [rows EXCEPT ![r] = s]
    PROVE  \A q \in Run : /\ Exists(q) <=> Exists(q)'
                          /\ rows'[q] = "none" <=> rows[q] = "none"
BY RepoAssumption DEF TypeOK, Exists, Gone

LEMMA CreateKeepsRows ==
    ASSUME TypeOK, NEW r \in Run, rows[r] = "none",
           rows' = [rows EXCEPT ![r] = "PENDING"]
    PROVE  \A q \in Run : Exists(q) => Exists(q)'
BY DEF TypeOK, Exists, Gone

LEMMA BatchRowsRun ==
    ASSUME NEW r, NEW batch
    PROVE  /\ \A s \in RowsOf(r, batch) : s.run = r
           /\ (DOMAIN batch = {} => RowsOf(r, batch) = {})
BY DEF RowsOf

(* What the end of a transaction adds: nothing, or rows of a run that exists. *)
LEMMA CommitFindsRun ==
    ASSUME RepoInv, NEW c \in Caller, Open(c), ~More(c)
    PROVE  /\ tx[c].run \in Run
           /\ Exists(tx[c].run) \/ tx[c].items = <<>>
           /\ DOMAIN tx[c].items = {} \/ Exists(tx[c].run)
<1>1. /\ tx[c].run \in Run
      /\ tx[c].items \in Reports \cup Batches
      /\ tx[c].done \in 0..Len(tx[c].items)
    BY DEF RepoInv, TypeOK
<1>2. /\ Len(tx[c].items) \in Nat
      /\ DOMAIN tx[c].items = 1..Len(tx[c].items)
      /\ Len(tx[c].items) = 0 => tx[c].items = <<>>
    <2>1. tx[c].items \in Seq(Range(tx[c].items))
        BY <1>1, RepoAssumption
    <2> QED
        BY <2>1
<1>3. tx[c].done = Len(tx[c].items)
    BY <1>1, <1>2 DEF More
<1>4. CASE tx[c].done > 0
    BY <1>1, <1>4 DEF RepoInv, NoOrphans
<1>5. CASE tx[c].done = 0
    BY <1>1, <1>2, <1>3, <1>5
<1> QED
    BY <1>1, <1>2, <1>3, <1>4, <1>5

-----------------------------------------------------------------------------
LEMMA RepoInit == Init => RepoInv
<1> SUFFICES ASSUME Init
             PROVE  RepoInv
    OBVIOUS
<1>1. \A c \in Caller : ~Open(c)
    BY DEF Init, Open, NoTx
<1>2. TypeOK
    BY <1>1 DEF Init, TypeOK, Gone
<1>3. NoOrphans
    BY <1>1 DEF Init, NoOrphans
<1>4. TxKnown
    BY <1>1 DEF TxKnown
<1> QED
    BY <1>2, <1>3, <1>4 DEF RepoInv

(* Statements that write nothing. *)
LEMMA ReadsKeepInv ==
    ASSUME RepoInv, NEW c \in Caller, NEW found \in SUBSET Run, ~Open(c),
           UNCHANGED <<tables, tx>>, seen' = seen \/ Sees(c, found),
           NEW a, Says(c, a)
    PROVE  RepoInv'
<1> USE DEF tables, Open
<1>1. TypeOK'
    BY DEF RepoInv, TypeOK, Sees, Says
<1>2. NoOrphans'
    BY DEF RepoInv, NoOrphans, Exists
<1>3. TxKnown'
    BY DEF RepoInv, TypeOK, TxKnown, Sees, Drawn
<1> QED
    BY <1>1, <1>2, <1>3 DEF RepoInv

LEMMA KeepCreateRun ==
    ASSUME RepoInv, NEW c \in Caller, NEW r \in Run, NEW at \in 1..Cardinality(Run),
           CreateRun(c, r, at)
    PROVE  RepoInv'
<1> USE DEF CreateRun, Statement, Open
<1>0. TypeOK /\ rows[r] = "none" /\ rows' = [rows EXCEPT ![r] = "PENDING"]
    BY DEF RepoInv
<1>1. TypeOK'
    BY DEF RepoInv, TypeOK, Sees, Said, Says, Gone
<1>2. \A q \in Run : Exists(q) => Exists(q)'
    BY <1>0, CreateKeepsRows
<1>3. NoOrphans'
    BY <1>2 DEF RepoInv, TypeOK, NoOrphans
<1>4. TxKnown'
    BY <1>0 DEF RepoInv, TypeOK, TxKnown, Drawn, Sees
<1> QED
    BY <1>1, <1>3, <1>4 DEF RepoInv

LEMMA KeepUpdateRunStatus ==
    ASSUME RepoInv, NEW c \in Caller, NEW r \in Run, NEW s \in Written,
           UpdateRunStatus(c, r, s)
    PROVE  RepoInv'
<1> USE DEF UpdateRunStatus, Statement, Open
<1>1. TypeOK'
    BY DEF RepoInv, TypeOK, Said, Says
<1>2. \A q \in Run : Exists(q) <=> Exists(q)'
    <2>1. CASE Exists(r)
        BY <2>1, UpdateKeepsRows DEF RepoInv
    <2>2. CASE ~Exists(r)
        BY <2>2 DEF Exists
    <2> QED
        BY <2>1, <2>2
<1>3. \A q \in Run : rows'[q] = "none" <=> rows[q] = "none"
    <2>1. CASE Exists(r)
        BY <2>1, UpdateKeepsRows DEF RepoInv
    <2>2. CASE ~Exists(r)
        BY <2>2 DEF Exists
    <2> QED
        BY <2>1, <2>2
<1>4. NoOrphans'
    BY <1>2 DEF RepoInv, TypeOK, NoOrphans
<1>5. TxKnown'
    BY <1>3 DEF RepoInv, TypeOK, TxKnown, Drawn
<1> QED
    BY <1>1, <1>4, <1>5 DEF RepoInv

(* The run has no row in a transaction, so nothing is left behind that refers to it. *)
LEMMA KeepDeleteRun ==
    ASSUME RepoInv, NEW c \in Caller, NEW r \in Run, DeleteRun(c, r)
    PROVE  RepoInv'
<1> USE DEF DeleteRun, Statement, Open
<1>1. CASE ~Exists(r)
    <2>1. TypeOK'
        BY <1>1 DEF RepoInv, TypeOK, Said, Says
    <2>2. NoOrphans' /\ TxKnown'
        BY <1>1 DEF RepoInv, NoOrphans, TxKnown, Exists, Drawn
    <2> QED
        BY <2>1, <2>2 DEF RepoInv
<1>2. CASE Exists(r)
    <2>1. TypeOK'
        BY <1>2 DEF RepoInv, TypeOK, Said, Says, Gone
    <2>2. \A q \in Run \ {r} : Exists(q) => Exists(q)'
        BY <1>2 DEF RepoInv, TypeOK, Exists
    <2>3. \A d \in Caller : Open(d) /\ tx[d].done > 0 => tx[d].run # r
        BY DEF Holds
    <2>4. NoOrphans'
        BY <1>2, <2>2, <2>3 DEF RepoInv, TypeOK, NoOrphans
    <2>5. TxKnown'
        BY <1>2 DEF RepoInv, TypeOK, TxKnown, Drawn
    <2> QED
        BY <2>1, <2>4, <2>5 DEF RepoInv
<1> QED
    BY <1>1, <1>2

LEMMA KeepGetRun ==
    ASSUME RepoInv, NEW c \in Caller, NEW r \in Run, GetRun(c, r)
    PROVE  RepoInv'
<1>1. \E found \in SUBSET Run : Sees(c, found)
    <2>1. {r} \in SUBSET Run /\ {} \in SUBSET Run
        OBVIOUS
    <2> QED
        BY <2>1 DEF GetRun
<1>2. \E a : Says(c, a)
    BY DEF GetRun, Said
<1> QED
    BY <1>1, <1>2, ReadsKeepInv DEF GetRun, Statement

(* What a listing shows are runs. *)
LEMMA OrdersList ==
    ASSUME NEW S \in SUBSET Run, NEW list \in Orders(S)
    PROVE  /\ Range(list) \subseteq Run
           /\ list # <<>> => list[1] \in Run
<1>1. list \in [1..Cardinality(S) -> S]
    BY DEF Orders
<1>2. Range(list) \subseteq Run
    BY <1>1 DEF Range
<1>3. Cardinality(S) \in Nat
    BY RepoAssumption, FS_Subset, FS_CardinalityType
<1>4. CASE Cardinality(S) > 0
    BY <1>1, <1>2, <1>3, <1>4 DEF Range
<1>5. CASE Cardinality(S) = 0
    <2>1. DOMAIN list = {} /\ list = [i \in DOMAIN list |-> list[i]]
        BY <1>1, <1>5
    <2>2. list = <<>>
        BY <2>1
    <2> QED
        BY <1>2, <2>2
<1> QED
    BY <1>3, <1>4, <1>5

LEMMA KeepListRuns ==
    ASSUME RepoInv, NEW c \in Caller, NEW keep \in SUBSET Run, ListRuns(c, keep)
    PROVE  RepoInv'
<1>1. PICK list \in Listing(keep) :
          /\ Says(c, [Blank EXCEPT !.said = "ok", !.runs = list])
          /\ Sees(c, IF list = <<>> THEN {} ELSE {list[1]})
    BY DEF ListRuns
<1>2. list \in Orders({r \in keep : Exists(r)})
    BY DEF Listing
<1>3. {r \in keep : Exists(r)} \in SUBSET Run
    OBVIOUS
<1>4. (IF list = <<>> THEN {} ELSE {list[1]}) \in SUBSET Run
    BY <1>2, <1>3, OrdersList
<1> QED
    BY <1>1, <1>4, ReadsKeepInv DEF ListRuns, Statement

LEMMA KeepListActiveRuns ==
    ASSUME RepoInv, NEW c \in Caller, ListActiveRuns(c)
    PROVE  RepoInv'
<1>1. PICK list \in ActiveListing :
          /\ Says(c, [Blank EXCEPT !.said = "ok", !.runs = list])
          /\ Sees(c, Range(list))
    BY DEF ListActiveRuns
<1>2. list \in Orders({r \in Run : rows[r] \in Active})
    BY DEF ActiveListing
<1>3. {r \in Run : rows[r] \in Active} \in SUBSET Run
    OBVIOUS
<1>4. Range(list) \in SUBSET Run
    BY <1>2, <1>3, OrdersList
<1> QED
    BY <1>1, <1>4, ReadsKeepInv DEF ListActiveRuns, Statement

(* The statements that only answer. *)
LEMMA KeepAnswer ==
    ASSUME RepoInv, NEW c \in Caller, NEW r \in Run,
           ListSearchSteps(c, r) \/ ListMetrics(c, r) \/ StatementFails(c)
    PROVE  RepoInv'
<1>1. Statement(c) /\ UNCHANGED <<tables, seen>> /\ \E a : Says(c, a)
    BY DEF ListSearchSteps, ListMetrics, StatementFails, Said
<1>2. {} \in SUBSET Run
    OBVIOUS
<1> QED
    BY <1>1, <1>2, ReadsKeepInv DEF Statement

-----------------------------------------------------------------------------
(* Transactions. *)

LEMMA KeepBegin ==
    ASSUME RepoInv, NEW c \in Caller, NEW r \in Run, NEW items,
           \/ items \in Reports /\ SaveMetrics(c, r, items)
           \/ items \in Batches /\ SaveSearchSteps(c, r, items)
    PROVE  RepoInv'
<1>0. PICK kind \in {"metrics", "steps"} :
          /\ BeginTx(c, kind, r, items)
          /\ kind = "metrics" => items \in Reports /\ r \in seen[c]
          /\ kind = "steps" => items \in Batches /\ Drawn(r)
    BY DEF SaveMetrics, SaveSearchSteps
<1>1. /\ tx' = [tx EXCEPT ![c] = [kind |-> kind, run |-> r, items |-> items, done |-> 0]]
      /\ UNCHANGED <<tables, seen, reply>>
      /\ \/ kind = "metrics" /\ items \in Reports /\ r \in seen[c]
         \/ kind = "steps" /\ items \in Batches /\ Drawn(r)
    BY <1>0 DEF BeginTx
<1>2. 0 \in 0..Len(items)
    <2>1. items \in Seq(Range(items))
        BY RepoAssumption
    <2> QED
        BY <2>1
<1>3. TypeOK'
    BY <1>1, <1>2 DEF RepoInv, TypeOK, tables, Open
<1>4. NoOrphans'
    BY <1>1 DEF RepoInv, TypeOK, NoOrphans, Exists, tables, Open
<1>5. TxKnown'
    BY <1>1 DEF RepoInv, TypeOK, TxKnown, Drawn, tables, Open
<1> QED
    BY <1>3, <1>4, <1>5 DEF RepoInv

LEMMA KeepInsert ==
    ASSUME RepoInv, NEW c \in Caller, Insert(c)
    PROVE  RepoInv'
<1>1. /\ Open(c) /\ tx[c].done < Len(tx[c].items) /\ Exists(tx[c].run)
      /\ tx' = [tx EXCEPT ![c].done = @ + 1]
      /\ UNCHANGED <<tables, seen, reply>>
    BY DEF Insert, More
<1>2. /\ Len(tx[c].items) \in Nat
      /\ tx[c].done + 1 \in 0..Len(tx[c].items)
    <2>1. tx[c].items \in Reports \cup Batches /\ tx[c].done \in 0..Len(tx[c].items)
        BY <1>1 DEF RepoInv, TypeOK
    <2>2. tx[c].items \in Seq(Range(tx[c].items))
        BY <2>1, RepoAssumption
    <2> QED
        BY <1>1, <2>1, <2>2
<1>3. \A d \in Caller : /\ tx'[d].kind = tx[d].kind /\ tx'[d].run = tx[d].run
                        /\ tx'[d].items = tx[d].items
                        /\ d # c => tx'[d] = tx[d]
    BY <1>1 DEF RepoInv, TypeOK
<1>4. TypeOK'
    BY <1>1, <1>2, <1>3 DEF RepoInv, TypeOK, tables, Open
<1>5. NoOrphans'
    BY <1>1, <1>3 DEF RepoInv, NoOrphans, Exists, tables, Open
<1>6. TxKnown'
    BY <1>1, <1>3 DEF RepoInv, TxKnown, Drawn, tables, Open
<1> QED
    BY <1>4, <1>5, <1>6 DEF RepoInv

(* A transaction ends with nothing written. *)
LEMMA KeepEndTx ==
    ASSUME RepoInv, NEW c \in Caller, InsertRefused(c) \/ Rollback(c)
    PROVE  RepoInv'
<1>1. /\ tx' = [tx EXCEPT ![c] = NoTx]
      /\ UNCHANGED <<tables, seen>>
      /\ Said(c, "error")
    BY DEF InsertRefused, Rollback, EndTx
<1>2. ~Open(c)' /\ \A d \in Caller \ {c} : tx'[d] = tx[d]
    BY <1>1 DEF RepoInv, TypeOK, Open, NoTx
<1>3. TypeOK'
    BY <1>1, <1>2 DEF RepoInv, TypeOK, tables, Open, Said, Says
<1>4. NoOrphans'
    BY <1>1, <1>2 DEF RepoInv, NoOrphans, Exists, tables, Open
<1>5. TxKnown'
    BY <1>1, <1>2 DEF RepoInv, TxKnown, Drawn, tables, Open
<1> QED
    BY <1>3, <1>4, <1>5 DEF RepoInv

LEMMA KeepCommit ==
    ASSUME RepoInv, NEW c \in Caller, Commit(c)
    PROVE  RepoInv'
<1> DEFINE run == tx[c].run
           items == tx[c].items
<1>1. /\ Open(c) /\ ~More(c)
      /\ tx' = [tx EXCEPT ![c] = NoTx]
      /\ UNCHANGED <<rows, created, seen>>
      /\ Said(c, "ok")
    BY DEF Commit, EndTx
<1>2. run \in Run /\ (DOMAIN items = {} \/ Exists(run))
    BY <1>1, CommitFindsRun
<1>3. ~Open(c)' /\ \A d \in Caller \ {c} : tx'[d] = tx[d]
    BY <1>1 DEF RepoInv, TypeOK, Open, NoTx
<1>4. \/ points' = points \cup PointsOf(run, items) /\ UNCHANGED steps
      \/ items \in Batches /\ steps' = Upserted(steps, RowsOf(run, items)) /\ UNCHANGED points
    BY <1>1 DEF Commit, RepoInv, TypeOK
<1>5. \A p \in points' : p \in points \/ (p[1] = run /\ DOMAIN items # {})
    <2>1. \A p \in PointsOf(run, items) : p[1] = run /\ DOMAIN items # {}
        BY DEF PointsOf
    <2> QED
        BY <1>4, <2>1
<1>6. \A s \in steps' : s \in steps \/ (s.run = run /\ DOMAIN items # {})
    <2>1. \A s \in RowsOf(run, items) : s.run = run /\ DOMAIN items # {}
        BY BatchRowsRun
    <2> HIDE DEF items, run
    <2> QED
        BY <1>4, <2>1 DEF Upserted
<1>7. TypeOK'
    <2>1. (\A p \in points' : p[1] \in Run) /\ (\A s \in steps' : s.run \in Run)
        BY <1>2, <1>5, <1>6 DEF RepoInv, TypeOK
    <2>2. DOMAIN reply' = Caller /\ DOMAIN tx' = Caller
        BY <1>1 DEF RepoInv, TypeOK, Said, Says
    <2>3. \A d \in Caller : Open(d)' => d # c /\ tx'[d] = tx[d] /\ Open(d)
        BY <1>3 DEF Open
    <2> QED
        BY <1>1, <2>1, <2>2, <2>3 DEF RepoInv, TypeOK
<1>8. NoOrphans'
    <2>1. \A q : Exists(q)' <=> Exists(q)
        BY <1>1 DEF Exists
    <2>2. \A d \in Caller : Open(d)' => tx'[d] = tx[d] /\ Open(d)
        BY <1>3 DEF Open
    <2> QED
        BY <1>2, <1>5, <1>6, <2>1, <2>2 DEF RepoInv, NoOrphans
<1>9. TxKnown'
    BY <1>1, <1>3 DEF RepoInv, TxKnown, Drawn, Open
<1> QED
    BY <1>7, <1>8, <1>9 DEF RepoInv

LEMMA KeepRestart ==
    ASSUME RepoInv, Restart
    PROVE  RepoInv'
<1>1. \A c \in Caller : ~Open(c)'
    BY DEF Restart, Open, NoTx
<1>2. TypeOK'
    BY <1>1 DEF RepoInv, TypeOK, Restart, tables
<1>3. NoOrphans' /\ TxKnown'
    BY <1>1 DEF RepoInv, NoOrphans, TxKnown, Exists, Restart, tables
<1> QED
    BY <1>2, <1>3 DEF RepoInv

-----------------------------------------------------------------------------
LEMMA KeepCall ==
    ASSUME RepoInv, NEW c \in Caller, Call(c)
    PROVE  RepoInv'
<1>1. CASE \E r \in Run, at \in 1..Cardinality(Run) : CreateRun(c, r, at)
    BY <1>1, KeepCreateRun
<1>2. CASE \E r \in Run, s \in Written : UpdateRunStatus(c, r, s)
    BY <1>2, KeepUpdateRunStatus
<1>3. CASE \E r \in Run : GetRun(c, r)
    BY <1>3, KeepGetRun
<1>4. CASE \E r \in Run : DeleteRun(c, r)
    BY <1>4, KeepDeleteRun
<1>5. CASE \E r \in Run : ListSearchSteps(c, r) \/ ListMetrics(c, r)
    BY <1>5, KeepAnswer
<1>6. CASE \E r \in Run, report \in Reports : SaveMetrics(c, r, report)
    BY <1>6, KeepBegin
<1>7. CASE \E r \in Run, batch \in Batches : SaveSearchSteps(c, r, batch)
    BY <1>7, KeepBegin
<1>8. CASE \E keep \in Filters : ListRuns(c, keep)
    BY <1>8, KeepListRuns, RepoAssumption
<1>9. CASE ListActiveRuns(c)
    BY <1>9, KeepListActiveRuns
<1>10. CASE StatementFails(c)
    <2>1. CASE Run = {}
        <3>1. TypeOK' /\ NoOrphans' /\ TxKnown'
            BY <1>10, <2>1 DEF RepoInv, TypeOK, NoOrphans, TxKnown, Open,
                StatementFails, Statement, tables, Said, Says
        <3> QED
            BY <3>1 DEF RepoInv
    <2>2. CASE Run # {}
        BY <1>10, <2>2, KeepAnswer
    <2> QED
        BY <2>1, <2>2
<1> QED
    BY <1>1, <1>2, <1>3, <1>4, <1>5, <1>6, <1>7, <1>8, <1>9, <1>10 DEF Call

LEMMA RepoStep == RepoInv /\ [Next]_vars => RepoInv'
<1> SUFFICES ASSUME RepoInv, [Next]_vars
             PROVE  RepoInv'
    OBVIOUS
<1>1. CASE \E c \in Caller : Call(c)
    BY <1>1, KeepCall
<1>2. CASE \E c \in Caller : Work(c) \/ Rollback(c)
    BY <1>2, KeepInsert, KeepEndTx, KeepCommit DEF Work, AbortDeadlocked
<1>3. CASE Restart
    BY <1>3, KeepRestart
<1>4. CASE UNCHANGED vars
    BY <1>4 DEF vars, tables, RepoInv, TypeOK, NoOrphans, TxKnown,
        Open, Exists, Drawn
<1> QED
    BY <1>1, <1>2, <1>3, <1>4 DEF Next

(* The tables and the open transactions fit one another, always. *)
THEOREM RepoInductive == Spec => []RepoInv
BY RepoInit, RepoStep, PTL DEF Spec

(* Rows, answers and transactions are of the form repo.go gives them. *)
THEOREM RepoTypeCorrect == Spec => []TypeOK
BY RepoInductive, PTL DEF RepoInv

(* The cascade and the foreign keys leave no metric and no step of a run that is
   not there, whatever saves run beside DeleteRun (repo.go:134-207). *)
THEOREM RepoNoOrphans == Spec => []NoOrphans
BY RepoInductive, PTL DEF RepoInv

-----------------------------------------------------------------------------
(* The refinement: a statement is the call of its name, a transaction is that
   call when it commits, and a failed call when it ends otherwise. *)

LEMMA RefinesInit == Init => Store!Init
BY DEF Init, Store!Init, Blank, Store!Blank

LEMMA CardinalityAgrees == \A S : Cardinality(S) = Store!Cardinality(S)
BY DEF Cardinality, Store!Cardinality

LEMMA OrdersAgree == \A S : Orders(S) = Store!Orders(S)
BY CardinalityAgrees DEF Orders, Store!Orders

LEMMA StatementRefines ==
    ASSUME RepoInv, NEW c \in Caller, NEW r \in Run,
           \/ \E at \in 1..Cardinality(Run) : CreateRun(c, r, at)
           \/ \E s \in Written : UpdateRunStatus(c, r, s)
           \/ GetRun(c, r)
           \/ DeleteRun(c, r)
           \/ ListSearchSteps(c, r)
           \/ ListMetrics(c, r)
    PROVE  Store!Next
<1> USE DEF Says, Said, Sees, Exists, Gone, Blank, tables,
            Store!Says, Store!Said, Store!Sees, Store!Exists, Store!Gone, Store!Blank, Store!data
<1>1. ASSUME NEW at \in 1..Cardinality(Run), CreateRun(c, r, at)
      PROVE  Store!CreateRun(c, r, at)
    BY <1>1 DEF CreateRun, Store!CreateRun
<1>2. ASSUME NEW s \in Written, UpdateRunStatus(c, r, s)
      PROVE  Store!UpdateRunStatus(c, r, s)
    <2>1. CASE Exists(r)
        BY <1>2, <2>1 DEF UpdateRunStatus, Store!UpdateRunStatus
    <2>2. CASE ~Exists(r)
        BY <1>2, <2>2 DEF UpdateRunStatus, Store!UpdateRunStatus
    <2> QED
        BY <2>1, <2>2
<1>3. ASSUME GetRun(c, r)
      PROVE  Store!GetRun(c, r)
    BY <1>3 DEF GetRun, Store!GetRun
<1>4. ASSUME DeleteRun(c, r)
      PROVE  Store!DeleteRun(c, r)
    BY <1>4 DEF DeleteRun, Store!DeleteRun
<1>5. ASSUME ListSearchSteps(c, r)
      PROVE  Store!ListSearchSteps(c, r)
    BY <1>5 DEF ListSearchSteps, Store!ListSearchSteps
<1>6. ASSUME ListMetrics(c, r)
      PROVE  Store!ListMetrics(c, r)
    <2>1. {p \in points : p[1] = r /\ Exists(p[1])} = {p \in points : p[1] = r}
        BY DEF RepoInv, NoOrphans
    <2> QED
        BY <1>6, <2>1 DEF ListMetrics, Store!ListMetrics
<1> QED
    <2>1. ASSUME NEW at \in 1..Cardinality(Run), CreateRun(c, r, at)
          PROVE  Store!Next
        BY <2>1, <1>1, CardinalityAgrees DEF Store!Next
    <2>2. ASSUME NEW s \in Written, UpdateRunStatus(c, r, s)
          PROVE  Store!Next
        BY <2>2, <1>2 DEF Store!Next
    <2>3. ASSUME GetRun(c, r) \/ DeleteRun(c, r) \/ ListSearchSteps(c, r) \/ ListMetrics(c, r)
          PROVE  Store!Next
        BY <2>3, <1>3, <1>4, <1>5, <1>6 DEF Store!Next
    <2> QED
        BY <2>1, <2>2, <2>3

LEMMA ListingRefines ==
    ASSUME NEW c \in Caller,
           \/ \E keep \in Filters : ListRuns(c, keep)
           \/ ListActiveRuns(c)
           \/ StatementFails(c)
    PROVE  Store!Next
<1> USE DEF Says, Said, Sees, Exists, Gone, Blank, tables,
            Store!Says, Store!Said, Store!Sees, Store!Exists, Store!Gone, Store!Blank,
            Store!data
<1>1. ASSUME NEW keep \in Filters, ListRuns(c, keep)
      PROVE  Store!ListRuns(c, keep)
    <2>1. PICK list \in Listing(keep) :
              /\ Says(c, [Blank EXCEPT !.said = "ok", !.runs = list])
              /\ Sees(c, IF list = <<>> THEN {} ELSE {list[1]})
        BY <1>1 DEF ListRuns
    <2>2. /\ list \in Store!Orders({r \in keep : Store!Exists(r)})
          /\ \A i, j \in DOMAIN list : i < j => created[list[i]] >= created[list[j]]
        BY OrdersAgree DEF Listing
    <2>3. UNCHANGED Store!data
        BY <1>1 DEF ListRuns
    <2> QED
        BY <2>1, <2>2, <2>3 DEF Store!ListRuns
<1>2. ASSUME ListActiveRuns(c)
      PROVE  Store!ListActiveRuns(c)
    <2>1. PICK list \in ActiveListing :
              /\ Says(c, [Blank EXCEPT !.said = "ok", !.runs = list])
              /\ Sees(c, Range(list))
        BY <1>2 DEF ListActiveRuns
    <2>2. list \in Store!Orders({r \in Run : rows[r] \in Store!Active})
        BY OrdersAgree DEF ActiveListing, Active, Store!Active
    <2>3. UNCHANGED Store!data
        BY <1>2 DEF ListActiveRuns
    <2> QED
        BY <2>1, <2>2, <2>3 DEF Store!ListActiveRuns, Range, Store!Range
<1>3. ASSUME StatementFails(c)
      PROVE  Store!Fails(c)
    BY <1>3 DEF StatementFails, Store!Fails
<1> QED
    BY <1>1, <1>2, <1>3 DEF Store!Next

(* What a commit writes it writes about a run that is there: the foreign key has
   held since the first insert. *)
LEMMA CommitRefines ==
    ASSUME RepoInv, NEW c \in Caller, Commit(c)
    PROVE  Store!Next
<1> USE DEF Says, Said, Sees, Exists, Gone, Blank, tables,
            Store!Says, Store!Said, Store!Sees, Store!Exists, Store!Gone, Store!Blank, Store!data
<1> DEFINE run == tx[c].run
           items == tx[c].items
<1>1. run \in Run /\ (Exists(run) \/ items = <<>>)
    BY CommitFindsRun DEF Commit
<1>2. ASSUME tx[c].kind = "metrics"
      PROVE  items \in Reports /\ Store!SaveMetrics(c, run, items)
    BY <1>1, <1>2 DEF Commit, RepoInv, TypeOK, TxKnown, PointsOf,
        Store!SaveMetrics, Store!PointsOf
<1>3. ASSUME tx[c].kind # "metrics"
      PROVE  items \in Batches /\ Store!SaveSearchSteps(c, run, items)
    BY <1>1, <1>3 DEF Commit, RepoInv, TypeOK, TxKnown, Upserted, RowsOf, Drawn,
        Store!SaveSearchSteps, Store!Upserted, Store!RowsOf, Store!Drawn
<1> QED
    BY <1>1, <1>2, <1>3 DEF Store!Next

LEMMA StepRefines ==
    ASSUME RepoInv, [Next]_vars
    PROVE  [Store!Next]_(Store!vars)
<1> USE DEF Store!vars, Store!data
<1>1. CASE \E c \in Caller : Call(c)
    <2>1. PICK c \in Caller : Call(c)
        BY <1>1
    <2>2. CASE \E r \in Run : \/ \E report \in Reports : SaveMetrics(c, r, report)
                              \/ \E batch \in Batches : SaveSearchSteps(c, r, batch)
        BY <2>2 DEF SaveMetrics, SaveSearchSteps, BeginTx, tables
    <2>3. CASE ~\E r \in Run : \/ \E report \in Reports : SaveMetrics(c, r, report)
                               \/ \E batch \in Batches : SaveSearchSteps(c, r, batch)
        BY <2>1, <2>3, StatementRefines, ListingRefines DEF Call
    <2> QED
        BY <2>2, <2>3
<1>2. ASSUME NEW c \in Caller, InsertRefused(c) \/ Rollback(c)
      PROVE  Store!Next
    <2>1. Store!Fails(c)
        BY <1>2 DEF InsertRefused, Rollback, Said, Says, Blank, tables,
            Store!Fails, Store!Said, Store!Says, Store!Blank
    <2> QED
        BY <2>1 DEF Store!Next
<1>3. CASE \E c \in Caller : Work(c) \/ Rollback(c)
    <2>1. PICK c \in Caller : Work(c) \/ Rollback(c)
        BY <1>3
    <2>2. CASE Insert(c)
        BY <2>2 DEF Insert, tables
    <2>3. CASE Commit(c)
        BY <2>3, CommitRefines
    <2>4. CASE InsertRefused(c) \/ Rollback(c)
        BY <2>4, <1>2
    <2> QED
        BY <2>1, <2>2, <2>3, <2>4 DEF Work, AbortDeadlocked
<1>4. CASE Restart
    <2>1. Store!Restart
        BY <1>4 DEF Restart, tables, Blank, Store!Restart, Store!Blank
    <2> QED
        BY <2>1 DEF Store!Next
<1>5. CASE UNCHANGED vars
    BY <1>5 DEF vars, tables
<1> QED
    BY <1>1, <1>3, <1>4, <1>5 DEF Next

(* The Postgres repository keeps the promises of app.RunRepository: each call
   takes effect at one moment or not at all (repo.go:69-287). *)
THEOREM PostgresRefinesRunStore == Spec => RefinesRunStore
<1>1. RepoInv /\ [Next]_vars => [Store!Next]_(Store!vars)
    BY StepRefines
<1> QED
    BY RefinesInit, <1>1, RepoInductive, PTL DEF Spec, RefinesRunStore, Store!Spec
=============================================================================
