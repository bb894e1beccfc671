----------------------------- MODULE PostgresRepo -----------------------------
(***************************************************************************)
(* internal/adapters/postgres/repo.go.  A call is one SQL statement, but   *)
(* for the two saves: a transaction that inserts row by row.  What a       *)
(* transaction has inserted is seen by nobody before it commits; until     *)
(* then its rows are locked, and so is the run they refer to against       *)
(* deletion (the foreign keys of 001_init.up.sql).                         *)
(*                                                                         *)
(* The constants are those of RunStore, which this module implements.      *)
(***************************************************************************)
EXTENDS Naturals, Sequences, FiniteSets, Functions

CONSTANTS Run, Stray, Caller, Written, Filters, Reports, Batches, Deletable

ASSUME RepoAssumption ==
    /\ IsFiniteSet(Run)
    /\ Filters \subseteq SUBSET Run
    /\ Written \cap {"none", "deleted"} = {}
    /\ \A report \in Reports : report \in Seq(Range(report))
    /\ \A batch \in Batches : batch \in Seq(Range(batch))

VARIABLES rows, created, points, steps,   \* the committed tables
          seen, reply,                    \* as in RunStore
          tx                              \* the open transaction of a caller

tables == <<rows, created, points, steps>>
vars   == <<tables, seen, reply, tx>>

Active == {"PENDING", "RUNNING"}
Gone   == {"none", "deleted"}
Blank  == [said |-> "", status |-> "none", runs |-> <<>>, steps |-> {}, points |-> {}]

(* items: the rows to insert; done: how many of them are. *)
NoTx == [kind |-> "none", run |-> 0, items |-> <<>>, done |-> 0]

Init ==
    /\ rows = [r \in Run |-> "none"]
    /\ created = [r \in Run |-> 0]
    /\ points = {}
    /\ steps = {}
    /\ seen = [c \in Caller |-> {}]
    /\ reply = [c \in Caller |-> Blank]
    /\ tx = [c \in Caller |-> NoTx]

-----------------------------------------------------------------------------
Exists(r) == rows[r] \notin Gone
Drawn(r)  == rows[r] # "none" \/ r \in Stray
Open(c)   == tx[c].kind # "none"
Holds(c, r) == Open(c) /\ tx[c].run = r /\ tx[c].done > 0

Says(c, answer) == reply' = [reply EXCEPT ![c] = answer]
Said(c, word)   == Says(c, [Blank EXCEPT !.said = word])
Sees(c, found)  == seen' = [seen EXCEPT ![c] = found]

(* A statement of its own: the caller has no transaction open. *)
Statement(c) == ~Open(c) /\ UNCHANGED tx

Orders(S) == {s \in [1..Cardinality(S) -> S] : \A i, j \in DOMAIN s : s[i] = s[j] => i = j}

(* Seeded faults.  Each is a definition below it with one plausible mistake and
   is part of no specification: it shows that a property can fail. *)

(* Listing: the oldest run comes first. *)
ListingOldest(keep) ==
    {list \in Orders({r \in keep : Exists(r)}) :
        \A i, j \in DOMAIN list : i < j => created[list[i]] <= created[list[j]]}

(* CreateRun: the status is not among the columns. *)
CreateRunWithoutStatus(c, r, at) ==
    /\ Statement(c)
    /\ rows[r] = "none" /\ r \notin Stray
    /\ rows' = [rows EXCEPT ![r] = ""]
    /\ created' = [created EXCEPT ![r] = at]
    /\ Said(c, "ok")
    /\ Sees(c, {r})
    /\ UNCHANGED <<points, steps>>

(* DeleteRun: the schema does not cascade. *)
DeleteRunOnly(c, r) ==
    /\ Statement(c)
    /\ r \in Deletable /\ Exists(r)
    /\ rows' = [rows EXCEPT ![r] = "deleted"]
    /\ Said(c, "ok")
    /\ UNCHANGED <<created, points, steps, seen>>

(* select ... order by created_at desc; rows that tie come in any order. *)
Listing(keep) ==
    {list \in Orders({r \in keep : Exists(r)}) :
        \A i, j \in DOMAIN list : i < j => created[list[i]] >= created[list[j]]}

(* select ... order by created_at *)
ActiveListing ==
    {list \in Orders({r \in Run : rows[r] \in Active}) :
        \A i, j \in DOMAIN list : i < j => created[list[i]] <= created[list[j]]}

(* The rows of search_steps that upserting the batch in order leaves behind, and
   the table after an upsert by (run_id, step_number). *)
RowsOf(r, batch) ==
    {[run |-> r, number |-> batch[i].number, content |-> batch[i].content] :
        i \in {j \in DOMAIN batch :
                  \A k \in DOMAIN batch : k > j => batch[k].number # batch[j].number}}

Upserted(table, new) ==
    {s \in table : \A n \in new : n.run = s.run => n.number # s.number} \cup new

PointsOf(r, report) == {<<r, report[i]>> : i \in DOMAIN report}

-----------------------------------------------------------------------------
(* Statements. *)

CreateRun(c, r, at) ==
    /\ Statement(c)
    /\ rows[r] = "none" /\ r \notin Stray
    /\ rows' = [rows EXCEPT ![r] = "PENDING"]
    /\ created' = [created EXCEPT ![r] = at]
    /\ Said(c, "ok")
    /\ Sees(c, {r})
    /\ UNCHANGED <<points, steps>>

(* affectOne: an UPDATE or a DELETE of no row is ErrNotFound. *)
UpdateRunStatus(c, r, s) ==
    /\ Statement(c)
    /\ r \in seen[c]
    /\ rows' = IF Exists(r) THEN [rows EXCEPT ![r] = s] ELSE rows
    /\ Said(c, IF Exists(r) THEN "ok" ELSE "notfound")
    /\ UNCHANGED <<created, points, steps, seen>>

GetRun(c, r) ==
    /\ Statement(c)
    /\ IF Exists(r)
       THEN /\ Says(c, [Blank EXCEPT !.said = "ok", !.status = rows[r]])
            /\ Sees(c, {r})
       ELSE Said(c, "notfound") /\ Sees(c, {})
    /\ UNCHANGED tables

ListRuns(c, keep) ==
    /\ Statement(c)
    /\ \E list \in Listing(keep) :
          /\ Says(c, [Blank EXCEPT !.said = "ok", !.runs = list])
          /\ Sees(c, IF list = <<>> THEN {} ELSE {list[1]})
    /\ UNCHANGED tables

ListActiveRuns(c) ==
    /\ Statement(c)
    /\ \E list \in ActiveListing :
          /\ Says(c, [Blank EXCEPT !.said = "ok", !.runs = list])
          /\ Sees(c, Range(list))
    /\ UNCHANGED tables

(* on delete cascade; the row is locked while a transaction refers to it. *)
DeleteRun(c, r) ==
    /\ Statement(c)
    /\ r \in Deletable
    /\ \A d \in Caller : ~Holds(d, r)
    /\ IF Exists(r)
       THEN /\ rows' = [rows EXCEPT ![r] = "deleted"]
            /\ points' = {p \in points : p[1] # r}
            /\ steps' = {s \in steps : s.run # r}
            /\ Said(c, "ok")
       ELSE Said(c, "notfound") /\ UNCHANGED <<rows, points, steps>>
    /\ UNCHANGED <<created, seen>>

ListSearchSteps(c, r) ==
    /\ Statement(c)
    /\ r \in seen[c]
    /\ Says(c, [Blank EXCEPT !.said = "ok", !.steps = {s \in steps : s.run = r}])
    /\ UNCHANGED <<tables, seen>>

(* from metrics m join runs r *)
ListMetrics(c, r) ==
    /\ Statement(c)
    /\ r \in seen[c]
    /\ Says(c, [Blank EXCEPT !.said = "ok",
                             !.points = {p \in points : p[1] = r /\ Exists(p[1])}])
    /\ UNCHANGED <<tables, seen>>

StatementFails(c) ==
    /\ Statement(c)
    /\ Said(c, "error")
    /\ UNCHANGED <<tables, seen>>

-----------------------------------------------------------------------------
(* Transactions: BeginTx, an insert for each item, Commit. *)

BeginTx(c, kind, r, items) ==
    /\ ~Open(c)
    /\ tx' = [tx EXCEPT ![c] = [kind |-> kind, run |-> r, items |-> items, done |-> 0]]
    /\ UNCHANGED <<tables, seen, reply>>

SaveMetrics(c, r, report) == r \in seen[c] /\ BeginTx(c, "metrics", r, report)
SaveSearchSteps(c, r, batch) == Drawn(r) /\ BeginTx(c, "steps", r, batch)

More(c) == Open(c) /\ tx[c].done < Len(tx[c].items)

(* The key of the step c inserts next has been inserted by a transaction of d
   that is still open: c waits for its end. *)
WaitsFor(c, d) ==
    /\ c # d
    /\ More(c) /\ tx[c].kind = "steps"
    /\ Open(d) /\ tx[d].kind = "steps" /\ tx[d].run = tx[c].run
    /\ \E i \in 1..tx[d].done : tx[d].items[i].number = tx[c].items[tx[c].done + 1].number

(* Two seeded faults, as above: the inserts are in no transaction; a refused one
   does not end its transaction. *)
InsertAutocommits(c) ==
    /\ More(c)
    /\ Exists(tx[c].run)
    /\ tx' = [tx EXCEPT ![c].done = @ + 1]
    /\ LET item == tx[c].items[tx[c].done + 1]
       IN  IF tx[c].kind = "metrics"
           THEN points' = points \cup {<<tx[c].run, item>>} /\ UNCHANGED steps
           ELSE steps' = Upserted(steps, RowsOf(tx[c].run, <<item>>)) /\ UNCHANGED points
    /\ UNCHANGED <<rows, created, seen, reply>>

InsertRefusedKeepsTx(c) ==
    /\ More(c)
    /\ ~Exists(tx[c].run)
    /\ Said(c, "error")
    /\ UNCHANGED <<tables, seen, tx>>

Insert(c) ==
    /\ More(c)
    /\ Exists(tx[c].run)
    /\ \A d \in Caller : ~WaitsFor(c, d)
    /\ tx' = [tx EXCEPT ![c].done = @ + 1]
    /\ UNCHANGED <<tables, seen, reply>>

EndTx(c) == tx' = [tx EXCEPT ![c] = NoTx]

(* The foreign key is violated; the deferred Rollback ends the transaction. *)
InsertRefused(c) ==
    /\ More(c)
    /\ ~Exists(tx[c].run)
    /\ EndTx(c)
    /\ Said(c, "error")
    /\ UNCHANGED <<tables, seen>>

Commit(c) ==
    /\ Open(c) /\ ~More(c)
    /\ IF tx[c].kind = "metrics"
       THEN points' = points \cup PointsOf(tx[c].run, tx[c].items) /\ UNCHANGED steps
       ELSE steps' = Upserted(steps, RowsOf(tx[c].run, tx[c].items)) /\ UNCHANGED points
    /\ EndTx(c)
    /\ Said(c, "ok")
    /\ UNCHANGED <<rows, created, seen>>

(* The request's context is cancelled, or the connection is lost. *)
Rollback(c) ==
    /\ Open(c)
    /\ EndTx(c)
    /\ Said(c, "error")
    /\ UNCHANGED <<tables, seen>>

(* Transactions that wait for one another: Postgres aborts one of them. *)
Deadlocked(c) ==
    \E S \in SUBSET Caller : /\ c \in S
                             /\ \A d \in S : \E e \in S : WaitsFor(d, e)

AbortDeadlocked(c) == Deadlocked(c) /\ Rollback(c)

(* The daemon stops and is started again; the server rolls back. *)
Restart ==
    /\ tx' = [c \in Caller |-> NoTx]
    /\ seen' = [c \in Caller |-> {}]
    /\ reply' = [c \in Caller |-> Blank]
    /\ UNCHANGED tables

-----------------------------------------------------------------------------
Work(c) == Insert(c) \/ InsertRefused(c) \/ Commit(c) \/ AbortDeadlocked(c)

Call(c) ==
    \/ \E r \in Run : \/ \E at \in 1..Cardinality(Run) : CreateRun(c, r, at)
                      \/ \E s \in Written : UpdateRunStatus(c, r, s)
                      \/ GetRun(c, r) \/ DeleteRun(c, r)
                      \/ ListSearchSteps(c, r) \/ ListMetrics(c, r)
                      \/ \E report \in Reports : SaveMetrics(c, r, report)
                      \/ \E batch \in Batches : SaveSearchSteps(c, r, batch)
    \/ \E keep \in Filters : ListRuns(c, keep)
    \/ ListActiveRuns(c)
    \/ StatementFails(c)

Next == (\E c \in Caller : Call(c) \/ Work(c) \/ Rollback(c)) \/ Restart

Spec == Init /\ [][Next]_vars

(* A call that can go on does; a lock is granted in the order it was asked for,
   so that a wait for it ends, however often others take it. *)
FairSpec == Spec /\ \A c \in Caller : SF_vars(Work(c))

-----------------------------------------------------------------------------
TypeOK ==
    /\ rows \in [Run -> Gone \cup {"PENDING"} \cup Written]
    /\ created \in [Run -> Nat]
    /\ \A p \in points : p[1] \in Run
    /\ \A s \in steps : s.run \in Run
    /\ seen \in [Caller -> SUBSET Run]
    /\ DOMAIN reply = Caller /\ DOMAIN tx = Caller
    /\ \A c \in Caller : Open(c) =>
          /\ tx[c].run \in Run
          /\ \/ tx[c].kind = "metrics" /\ tx[c].items \in Reports
             \/ tx[c].kind = "steps" /\ tx[c].items \in Batches
          /\ tx[c].done \in 0..Len(tx[c].items)

(* No row refers to a run that is not there, and none will when the transactions
   now open commit: the cascade and the foreign keys leave no orphan although
   DeleteRun runs beside the saves (repo.go:134-207, 001_init.up.sql:17-37). *)
NoOrphans ==
    /\ \A p \in points : Exists(p[1])
    /\ \A s \in steps : Exists(s.run)
    /\ \A c \in Caller : Open(c) /\ tx[c].done > 0 => Exists(tx[c].run)

(* Every save ends, also when two upsert the same steps in opposite orders and
   wait for one another (repo.go:169-207). *)
SavesEnd == \A c \in Caller : Open(c) ~> ~Open(c)

(* What makes these inductive, with TypeOK: an open transaction is about a run
   its caller knows of, or that has been there. *)
TxKnown ==
    \A c \in Caller : Open(c) =>
        IF tx[c].kind = "metrics" THEN tx[c].run \in seen[c] ELSE Drawn(tx[c].run)

RepoInv == TypeOK /\ NoOrphans /\ TxKnown

Store == INSTANCE RunStore

RefinesRunStore == Store!Spec
=============================================================================
