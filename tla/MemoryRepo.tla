------------------------------ MODULE MemoryRepo ------------------------------
(***************************************************************************)
(* internal/adapters/memory/repo.go, the repository of a loadtestd without *)
(* DATABASE_URL: maps and a slice under one lock.  A call is one section   *)
(* under the lock, but for ListMetrics, which takes it twice and may be    *)
(* overtaken in between.  Nothing survives the process.                    *)
(*                                                                         *)
(* The constants are those of RunStore, which this module implements.      *)
(***************************************************************************)
EXTENDS Naturals, Sequences, FiniteSets, Functions

CONSTANTS Run, Stray, Caller, Written, Filters, Reports, Batches, Deletable

CONSTANT MaxPoints           \* bound on the length of r.metrics

ASSUME MemoryAssumption ==
    /\ IsFiniteSet(Run)
    /\ Filters \subseteq SUBSET Run
    /\ Written \cap {"none", "deleted"} = {}
    /\ \A report \in Reports : report \in Seq(Range(report))
    /\ \A batch \in Batches : batch \in Seq(Range(batch))

VARIABLES runs, created,     \* r.runs: status and creation time; "none" without entry
          metrics,           \* r.metrics: runs and points, as they came
          steps,             \* r.steps: per run, as they came
          seen, reply,       \* as in RunStore
          allowed            \* ListMetrics between its sections: the runs it found

maps == <<runs, created, metrics, steps>>
vars == <<maps, seen, reply, allowed>>

Active == {"PENDING", "RUNNING"}
Gone   == {"none", "deleted"}
Blank  == [said |-> "", status |-> "none", runs |-> <<>>, steps |-> {}, points |-> {}]
NoList == [run |-> 0, found |-> {}]

Init ==
    /\ runs = [r \in Run |-> "none"]
    /\ created = [r \in Run |-> 0]
    /\ metrics = <<>>
    /\ steps = [r \in Run |-> <<>>]
    /\ seen = [c \in Caller |-> {}]
    /\ reply = [c \in Caller |-> Blank]
    /\ allowed = [c \in Caller |-> NoList]

-----------------------------------------------------------------------------
Has(r)   == runs[r] \notin Gone
Drawn(r) == runs[r] # "none" \/ r \in Stray

Says(c, answer) == reply' = [reply EXCEPT ![c] = answer]
Said(c, word)   == Says(c, [Blank EXCEPT !.said = word])
Sees(c, found)  == seen' = [seen EXCEPT ![c] = found]

(* The caller is not within a ListMetrics. *)
Free(c) == allowed[c] = NoList /\ UNCHANGED allowed

(* A seeded fault, as further below.  Before: the oldest run comes first. *)
BeforeOldest(q, r) == \/ created[q] < created[r]
                      \/ created[q] = created[r] /\ q > r

(* The order of ListRuns: the newest first, the larger identifier among equals. *)
Before(q, r) == \/ created[q] > created[r]
                \/ created[q] = created[r] /\ q > r

(* Ranging over a map: any order. *)
Orders(S) == {s \in [1..Cardinality(S) -> S] : \A i, j \in DOMAIN s : s[i] = s[j] => i = j}

(* slices.SortFunc: one list, no two runs being equal. *)
Listing(keep) ==
    {list \in Orders({r \in keep : Has(r)}) :
        \A i, j \in DOMAIN list : i < j => Before(list[i], list[j])}

(* Seeded faults, part of no specification; each is the definition below it with
   one plausible mistake.  Put: a step whose number is there is appended too. *)
PutAppends(list, step) == Append(list, step)

(* ListMetricsEnds: the run is not compared. *)
ListMetricsEndsUnfiltered(c) ==
    /\ allowed[c] # NoList
    /\ Says(c, [Blank EXCEPT !.said = "ok", !.points = Range(metrics)])
    /\ allowed' = [allowed EXCEPT ![c] = NoList]
    /\ UNCHANGED <<maps, seen>>

(* An iteration of SaveSearchSteps: replace the step of this number where it is,
   or append. *)
Put(list, step) ==
    IF \E i \in DOMAIN list : list[i].number = step.number
    THEN [i \in DOMAIN list |-> IF list[i].number = step.number THEN step ELSE list[i]]
    ELSE Append(list, step)

Puts(list, batch) ==
    LET put[n \in 0..Len(batch)] == IF n = 0 THEN list ELSE Put(put[n - 1], batch[n])
    IN  put[Len(batch)]

StepsOf(r) == {[run |-> r, number |-> s.number, content |-> s.content] : s \in Range(steps[r])}

-----------------------------------------------------------------------------
CreateRun(c, r, at) ==
    /\ Free(c)
    /\ runs[r] = "none" /\ r \notin Stray
    /\ runs' = [runs EXCEPT ![r] = "PENDING"]
    /\ created' = [created EXCEPT ![r] = at]
    /\ Said(c, "ok")
    /\ Sees(c, {r})
    /\ UNCHANGED <<metrics, steps>>

UpdateRunStatus(c, r, s) ==
    /\ Free(c)
    /\ r \in seen[c]
    /\ runs' = IF Has(r) THEN [runs EXCEPT ![r] = s] ELSE runs
    /\ Said(c, IF Has(r) THEN "ok" ELSE "notfound")
    /\ UNCHANGED <<created, metrics, steps, seen>>

GetRun(c, r) ==
    /\ Free(c)
    /\ IF Has(r)
       THEN /\ Says(c, [Blank EXCEPT !.said = "ok", !.status = runs[r]])
            /\ Sees(c, {r})
       ELSE Said(c, "notfound") /\ Sees(c, {})
    /\ UNCHANGED maps

ListRuns(c, keep) ==
    /\ Free(c)
    /\ \E list \in Listing(keep) :
          /\ Says(c, [Blank EXCEPT !.said = "ok", !.runs = list])
          /\ Sees(c, IF list = <<>> THEN {} ELSE {list[1]})
    /\ UNCHANGED maps

ListActiveRuns(c) ==
    /\ Free(c)
    /\ \E list \in Orders({r \in Run : runs[r] \in Active}) :
          /\ Says(c, [Blank EXCEPT !.said = "ok", !.runs = list])
          /\ Sees(c, Range(list))
    /\ UNCHANGED maps

DeleteRun(c, r) ==
    /\ Free(c)
    /\ r \in Deletable
    /\ IF Has(r)
       THEN /\ runs' = [runs EXCEPT ![r] = "deleted"]
            /\ steps' = [steps EXCEPT ![r] = <<>>]
            /\ metrics' = SelectSeq(metrics, LAMBDA m : m[1] # r)
            /\ Said(c, "ok")
       ELSE Said(c, "notfound") /\ UNCHANGED <<runs, metrics, steps>>
    /\ UNCHANGED <<created, seen>>

(* Whether the run exists is not looked at, here and in SaveSearchSteps. *)
SaveMetrics(c, r, report) ==
    /\ Free(c)
    /\ r \in seen[c]
    /\ Len(metrics) + Len(report) <= MaxPoints
    /\ metrics' = metrics \o [i \in DOMAIN report |-> <<r, report[i]>>]
    /\ Said(c, "ok")
    /\ UNCHANGED <<runs, created, steps, seen>>

SaveSearchSteps(c, r, batch) ==
    /\ Free(c)
    /\ Drawn(r)
    /\ steps' = [steps EXCEPT ![r] = Puts(@, batch)]
    /\ Said(c, "ok")
    /\ UNCHANGED <<runs, created, metrics, seen>>

ListSearchSteps(c, r) ==
    /\ Free(c)
    /\ r \in seen[c]
    /\ Says(c, [Blank EXCEPT !.said = "ok", !.steps = StepsOf(r)])
    /\ UNCHANGED <<maps, seen>>

(* ListMetrics: the runs that match the filter are listed under the lock, ... *)
ListMetrics(c, r) ==
    /\ allowed[c] = NoList
    /\ r \in seen[c]
    /\ allowed' = [allowed EXCEPT ![c] = [run |-> r, found |-> {q \in {r} : Has(q)}]]
    /\ UNCHANGED <<maps, seen, reply>>

(* ... and their metrics collected in another section; all metrics if no run
   matched. *)
ListMetricsEnds(c) ==
    /\ allowed[c] # NoList
    /\ LET found == allowed[c].found
       IN  Says(c, [Blank EXCEPT !.said = "ok",
               !.points = {m \in Range(metrics) : found = {} \/ m[1] \in found}])
    /\ allowed' = [allowed EXCEPT ![c] = NoList]
    /\ UNCHANGED <<maps, seen>>

-----------------------------------------------------------------------------
Next ==
    \E c \in Caller :
        \/ \E r \in Run : \/ \E at \in 1..Cardinality(Run) : CreateRun(c, r, at)
                          \/ \E s \in Written : UpdateRunStatus(c, r, s)
                          \/ GetRun(c, r) \/ DeleteRun(c, r)
                          \/ ListSearchSteps(c, r) \/ ListMetrics(c, r)
                          \/ \E report \in Reports : SaveMetrics(c, r, report)
                          \/ \E batch \in Batches : SaveSearchSteps(c, r, batch)
        \/ \E keep \in Filters : ListRuns(c, keep)
        \/ ListActiveRuns(c)
        \/ ListMetricsEnds(c)

Spec == Init /\ [][Next]_vars

-----------------------------------------------------------------------------
Posted  == UNION {Range(batch) : batch \in Batches}
Points  == UNION {Range(report) : report \in Reports}

TypeOK ==
    /\ runs \in [Run -> {"none", "PENDING", "deleted"} \cup Written]
    /\ created \in [Run -> Nat]
    /\ metrics \in Seq(Run \X Points)
    /\ steps \in [Run -> Seq(Posted)]
    /\ seen \in [Caller -> SUBSET Run]
    /\ allowed \in [Caller -> [run : Run \cup {0}, found : SUBSET Run]]

(* The steps of a run are listed once each, as Postgres has them by its unique key:
   however batches overlap, idx finds every number that is there
   (memory/repo.go:113-126, postgres/repo.go:182). *)
NumbersOnce ==
    \A r \in Run : \A i, j \in DOMAIN steps[r] :
        steps[r][i].number = steps[r][j].number => i = j

Stored == {r \in Run : Has(r)}

Store == INSTANCE RunStore WITH
    rows   <- runs,
    points <- {m \in Range(metrics) : m[1] \in Stored},
    steps  <- UNION {StepsOf(r) : r \in Stored}

(* For the calls the handlers make the memory repository cannot be told from
   Postgres, its missing checks and its two-section ListMetrics included: a run
   is looked up before its metrics are, and nothing deletes it
   (memory/repo.go:25-181). *)
RefinesRunStore == Store!Spec

-----------------------------------------------------------------------------
(* What the refinement rests on, as long as nothing is deleted: what a caller has
   found stays there, and nothing is kept of a run before it is created. *)
Lasting ==
    /\ \A c \in Caller : \A r \in seen[c] : Has(r)
    /\ \A m \in Range(metrics) : Has(m[1])
    /\ \A r \in Run : Has(r) => r \notin Stray
    /\ \A r \in Run : ~Drawn(r) => steps[r] = <<>>
    /\ \A r \in Run : runs[r] # "deleted"

(* The first section of ListMetrics has found the run that was asked for. *)
RunFound ==
    \A c \in Caller : allowed[c] # NoList =>
        allowed[c].run \in seen[c] /\ allowed[c].found = {allowed[c].run}

MemoryInv == TypeOK /\ NumbersOnce /\ Lasting /\ RunFound
=============================================================================
