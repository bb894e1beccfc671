------------------------------ MODULE SearchView ------------------------------
(***************************************************************************)
(* What a user is shown of a search: the executor (module ExecutorSearch)  *)
(* posts each step to loadtestd, which stores it by its number             *)
(* (AcceptSearchSteps, SaveSearchSteps) and sums the stored steps up in    *)
(* two places, getRun and the report page (internal/adapters/httpapi).     *)
(*                                                                         *)
(* A post may be lost, be handled late, or be handled twice because its    *)
(* answer was lost; the pod may be killed with its namespace at any time,  *)
(* and is so as soon as its report is accepted.                            *)
(***************************************************************************)
EXTENDS ExecutorSearch, FiniteSets, FiniteSetsExt

VARIABLES
    killed,      \* the pod is gone
    posts,       \* steps on their way to loadtestd
    table        \* the rows of search_steps of this run

viewVars == <<vars, killed, posts, table>>

ViewInit ==
    /\ Init
    /\ killed = FALSE
    /\ posts = {}
    /\ table = {}

-----------------------------------------------------------------------------
(* Seeded faults, part of no specification; each is a definition below it with
   one plausible mistake. *)

(* Post: the number of a step is that of its rate. *)
PostByRate(new) == posts' = posts \cup {[s EXCEPT !.number = s.rps] : s \in new}

(* Post: the step that is sent names twice the rate it was measured at. *)
PostDoubled(new) == posts' = posts \cup {[s EXCEPT !.rps = 2 * @] : s \in new}

(* Latest: every measurement of a rate counts. *)
LatestIsAll(rows) == rows

(* Stable: the outcome of a step is not looked at. *)
StableUnchecked(rows) == {s.rps : s \in rows}

(* Summarised: the step that stopped the doubling is counted in. *)
SummarisedToStop(rows) ==
    {s \in rows : \A t \in rows : t.outcome # "held" => s.number <= t.number}

(* Save: the row of the run is replaced, whatever its number. *)
SaveReplaces(s) == table' = {s}

-----------------------------------------------------------------------------
(* saveStep of the steps just recorded: nothing is sent once SEARCH_TIMEOUT has
   passed, and three attempts may fail before. *)
Post(new) == posts' = posts \cup new

Execute ==
    /\ ~killed
    /\ Next
    /\ \/ ~expired /\ Post(measured' \ measured)
       \/ UNCHANGED posts
    /\ UNCHANGED <<killed, table>>

(* With its namespace: by AcceptReport, CancelRun, FailRun or TimeoutSweep. *)
Kill ==
    /\ ~killed
    /\ killed' = TRUE
    /\ UNCHANGED <<vars, posts, table>>

(* SaveSearchSteps: insert, or replace the row with this number. *)
Save(s) == table' = {t \in table : t.number # s.number} \cup {s}

(* The post is handled; an attempt whose answer was lost is made again. *)
AcceptSearchSteps(s) ==
    /\ s \in posts
    /\ Save(s)
    /\ posts' \in {posts, posts \ {s}}
    /\ UNCHANGED <<vars, killed>>

ViewNext == Execute \/ Kill \/ \E s \in posts : AcceptSearchSteps(s)

ViewSpec == ViewInit /\ [][ViewNext]_viewVars

-----------------------------------------------------------------------------
(* buildReportPage: per rate the step with the highest number, in latestByRPS. *)
Latest(rows) == {s \in rows : \A t \in rows : t.rps = s.rps => t.number <= s.number}

(* searchStopText: "Max Stable" and the limit shown next to it. *)
Stable(rows)    == {s.rps : s \in {l \in Latest(rows) : l.outcome = "held"}}
Stopped(rows)   == {s.rps : s \in {l \in Latest(rows) : l.outcome # "held"}}
MaxStable(rows) == Max(Stable(rows) \cup {0})
StopRPS(rows)   == IF Stopped(rows) = {} THEN 0 ELSE Min(Stopped(rows))

(* getRun: the steps in the order of their numbers, up to the first that did
   not hold; its rate only if none before it held. *)
Summarised(rows) ==
    {s \in rows : \A t \in rows : t.outcome # "held" => s.number < t.number}
FirstStop(rows) ==
    {s \in rows : s.outcome # "held" /\ \A t \in rows : t.outcome # "held" => s.number <= t.number}

MaxRPS(rows) == LET shown == IF Summarised(rows) # {} THEN Summarised(rows) ELSE FirstStop(rows)
                IN  Max({s.rps : s \in shown} \cup {0})

-----------------------------------------------------------------------------
ViewTypeOK ==
    /\ killed \in BOOLEAN
    /\ posts \subseteq measured
    /\ table \subseteq measured

(* The two numbers the report page shows side by side never contradict each
   other, whichever steps are lost, late or sent twice, and whenever the pod is
   killed: the rate called stable is below the rate called the limit
   (server.go:433-455, 481-519). *)
PageIsConsistent ==
    MaxStable(table) > 0 /\ StopRPS(table) > 0 => MaxStable(table) < StopRPS(table)

(* Once every probe is stored, the report page calls stable the very rate of the
   report, although the pod is killed before it has posted its final step: it
   was a probe as well.  The exceptions are a final run that k6 broke after it
   had reported, and the warm-up rate, which is no probe (main.go:226-234,
   server.go:481-519, service.go:158). *)
ProbesStored == {s \in measured : ~s.final} \subseteq table

PageShowsReport ==
    /\ Searching /\ report > WarmupRPS /\ ProbesStored
    /\ \A s \in table : s.final => s.outcome = "held"
    => MaxStable(table) = report

(* Once every probe is stored, the max_rps that getRun takes from the steps does
   not exceed what held, unless the very first probe did not hold and is all
   there is (server.go:155-177). *)
SummaryHeld == ProbesStored => MaxRPS(table) <= low \/ MaxRPS(table) = InitialRPS

(* What has been shown is not taken back: a poller that asks again sees every
   step it has seen, although posts are repeated and come in any order
   (server.go:156, postgres/repo.go:182-194). *)
StepsKept == [][table \subseteq table']_viewVars

-----------------------------------------------------------------------------
(* What makes the invariants above inductive. *)

(* The rates that held are those up to low, the others lie above it; the final run
   measures low again, at last. *)
Sorted(s) ==
    /\ ~s.final => (s.outcome = "held" <=> s.rps <= low)
    /\ s.final => /\ s.rps = low /\ pc \in Ended
                  /\ \A t \in measured : t.number <= s.number

(* The first probe is that of the initial rate. *)
FirstProbe ==
    /\ \A s \in measured : ~s.final =>
          s.rps = InitialRPS \/ \E t \in measured : ~t.final /\ t.number < s.number
    /\ pc \in Unbounded /\ measured = {} => rps = InitialRPS
    /\ pc = "bisect" => measured # {}

(* A fixed run has no steps. *)
FixedIsPlain ==
    ~Searching => measured = {} /\ pc \in {"start", "wait", "fixed"} \cup Ended

ViewInv == /\ SearchInv /\ ViewTypeOK
           /\ \A s \in measured : Sorted(s)
           /\ FirstProbe /\ FixedIsPlain
=============================================================================
