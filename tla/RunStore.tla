------------------------------- MODULE RunStore -------------------------------
(***************************************************************************)
(* What the handlers may rely on in a repository (app.RunRepository of     *)
(* internal/app/service.go), whichever of the two it is: every call takes  *)
(* effect at one moment, a save as a whole or not at all, and an answer is *)
(* true of the moment it is given.  Modules PostgresRepo and MemoryRepo    *)
(* implement this.                                                         *)
(*                                                                         *)
(* Callers keep to what the handlers do: they work on a run only after     *)
(* they have created it, read it or found it in a list.  AcceptSearchSteps *)
(* alone saves without looking.                                            *)
(***************************************************************************)
EXTENDS Naturals, Sequences, FiniteSets, Functions

CONSTANTS Run,         \* run identifiers; numbers, as identifiers are compared
          Stray,       \* identifiers among them that newID never draws
          Caller,      \* goroutines calling the repository
          Written,     \* the statuses UpdateRunStatus is called with
          Filters,     \* sets of runs that a tenant, model or run filter lets through
          Reports,     \* lists of metric points SaveMetrics is called with
          Batches,     \* lists of steps SaveSearchSteps is called with
          Deletable    \* runs somebody calls DeleteRun for

VARIABLES rows,        \* runs.status, "none" before the row exists
          created,     \* runs.created_at
          points,      \* pairs of a run and a metric point
          steps,       \* rows of search_steps: run, number, content
          seen,        \* the runs a caller has found to exist
          reply        \* the answer to a caller's last call

data == <<rows, created, points, steps>>
vars == <<data, seen, reply>>

Active == {"PENDING", "RUNNING"}
Gone   == {"none", "deleted"}
Blank  == [said |-> "", status |-> "none", runs |-> <<>>, steps |-> {}, points |-> {}]

Init ==
    /\ rows = [r \in Run |-> "none"]
    /\ created = [r \in Run |-> 0]
    /\ points = {}
    /\ steps = {}
    /\ seen = [c \in Caller |-> {}]
    /\ reply = [c \in Caller |-> Blank]

-----------------------------------------------------------------------------
Exists(r) == rows[r] \notin Gone

(* An identifier somebody may post steps for. *)
Drawn(r) == rows[r] # "none" \/ r \in Stray

Says(c, answer) == reply' = [reply EXCEPT ![c] = answer]
Said(c, word)   == Says(c, [Blank EXCEPT !.said = word])
Sees(c, found)  == seen' = [seen EXCEPT ![c] = found]

(* The rows a batch leaves behind: of several steps with one number the last. *)
RowsOf(r, batch) ==
    {[run |-> r, number |-> batch[i].number, content |-> batch[i].content] :
        i \in {j \in DOMAIN batch :
                  \A k \in DOMAIN batch : k > j => batch[k].number # batch[j].number}}

Upserted(table, new) ==
    {s \in table : \A n \in new : n.run = s.run => n.number # s.number} \cup new

PointsOf(r, report) == {<<r, report[i]>> : i \in DOMAIN report}

(* Every order in which a set of runs can be listed. *)
Orders(S) == {s \in [1..Cardinality(S) -> S] : \A i, j \in DOMAIN s : s[i] = s[j] => i = j}

-----------------------------------------------------------------------------
(* An identifier is used once, and is known to nobody before.  The clock is read
   before the call, so rows may come in another order than their times, and times
   may be equal. *)
CreateRun(c, r, at) ==
    /\ rows[r] = "none" /\ r \notin Stray
    /\ rows' = [rows EXCEPT ![r] = "PENDING"]
    /\ created' = [created EXCEPT ![r] = at]
    /\ Said(c, "ok")
    /\ Sees(c, {r})
    /\ UNCHANGED <<points, steps>>

UpdateRunStatus(c, r, s) ==
    /\ r \in seen[c]
    /\ \/ /\ Exists(r)
          /\ rows' = [rows EXCEPT ![r] = s]
          /\ Said(c, "ok")
       \/ /\ ~Exists(r)
          /\ Said(c, "notfound")
          /\ UNCHANGED rows
    /\ UNCHANGED <<created, points, steps, seen>>

GetRun(c, r) ==
    /\ \/ /\ Exists(r)
          /\ Says(c, [Blank EXCEPT !.said = "ok", !.status = rows[r]])
          /\ Sees(c, {r})
       \/ /\ ~Exists(r)
          /\ Said(c, "notfound")
          /\ Sees(c, {})
    /\ UNCHANGED data

(* The newest run first; of two as new as one another either may come first. *)
ListRuns(c, keep) ==
    \E list \in Orders({r \in keep : Exists(r)}) :
        /\ \A i, j \in DOMAIN list : i < j => created[list[i]] >= created[list[j]]
        /\ Says(c, [Blank EXCEPT !.said = "ok", !.runs = list])
        /\ Sees(c, IF list = <<>> THEN {} ELSE {list[1]})
        /\ UNCHANGED data

ListActiveRuns(c) ==
    \E list \in Orders({r \in Run : rows[r] \in Active}) :
        /\ Says(c, [Blank EXCEPT !.said = "ok", !.runs = list])
        /\ Sees(c, Range(list))
        /\ UNCHANGED data

(* With its metrics and its steps. *)
DeleteRun(c, r) ==
    /\ r \in Deletable
    /\ \/ /\ Exists(r)
          /\ rows' = [rows EXCEPT ![r] = "deleted"]
          /\ points' = {p \in points : p[1] # r}
          /\ steps' = {s \in steps : s.run # r}
          /\ Said(c, "ok")
       \/ /\ ~Exists(r)
          /\ Said(c, "notfound")
          /\ UNCHANGED <<rows, points, steps>>
    /\ UNCHANGED <<created, seen>>

SaveMetrics(c, r, report) ==
    /\ r \in seen[c]
    /\ Exists(r) \/ report = <<>>
    /\ points' = points \cup PointsOf(r, report)
    /\ Said(c, "ok")
    /\ UNCHANGED <<rows, created, steps, seen>>

SaveSearchSteps(c, r, batch) ==
    /\ Drawn(r)
    /\ Exists(r) \/ batch = <<>>
    /\ steps' = Upserted(steps, RowsOf(r, batch))
    /\ Said(c, "ok")
    /\ UNCHANGED <<rows, created, points, seen>>

(* Steps of a run that does not exist are not to be seen, whatever is said. *)
SaveForNobody(c, r) ==
    /\ Drawn(r)
    /\ ~Exists(r)
    /\ Said(c, "ok")
    /\ UNCHANGED <<data, seen>>

ListSearchSteps(c, r) ==
    /\ r \in seen[c]
    /\ Says(c, [Blank EXCEPT !.said = "ok", !.steps = {s \in steps : s.run = r}])
    /\ UNCHANGED <<data, seen>>

ListMetrics(c, r) ==
    /\ r \in seen[c]
    /\ Says(c, [Blank EXCEPT !.said = "ok", !.points = {p \in points : p[1] = r}])
    /\ UNCHANGED <<data, seen>>

(* A call may fail without effect. *)
Fails(c) == Said(c, "error") /\ UNCHANGED <<data, seen>>

(* loadtestd is started again: what was saved stays, its goroutines are gone. *)
Restart ==
    /\ seen' = [c \in Caller |-> {}]
    /\ reply' = [c \in Caller |-> Blank]
    /\ UNCHANGED data

Next ==
    \/ \E c \in Caller :
          \/ \E r \in Run : \/ \E at \in 1..Cardinality(Run) : CreateRun(c, r, at)
                            \/ \E s \in Written : UpdateRunStatus(c, r, s)
                            \/ GetRun(c, r) \/ DeleteRun(c, r)
                            \/ \E report \in Reports : SaveMetrics(c, r, report)
                            \/ \E batch \in Batches : SaveSearchSteps(c, r, batch)
                            \/ SaveForNobody(c, r)
                            \/ ListSearchSteps(c, r) \/ ListMetrics(c, r)
          \/ \E keep \in Filters : ListRuns(c, keep)
          \/ ListActiveRuns(c)
          \/ Fails(c)
    \/ Restart

Spec == Init /\ [][Next]_vars
=============================================================================
