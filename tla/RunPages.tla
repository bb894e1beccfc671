------------------------------- MODULE RunPages -------------------------------
(***************************************************************************)
(* What a poller and a visitor of the report page are told of a search     *)
(* (internal/adapters/httpapi/server.go: getRun, buildReportPage) while    *)
(* the search, its webhooks and the verdicts go on.  An answer is put      *)
(* together from three queries, each at a moment of its own: the run, its  *)
(* steps, its metrics.  AcceptReport in turn writes the metrics and the    *)
(* status one after the other.                                             *)
(*                                                                         *)
(* A query may fail.  Both pages go on without the steps, getRun also      *)
(* without the metrics; an answer that did so is not "whole".              *)
(***************************************************************************)
EXTENDS SearchView

CONSTANT Rate          \* what k6 may measure in the final run, in tenths of a RPS; 0: nothing

ASSUME RateAssumption == Rate \subseteq Nat

VARIABLES
    status,            \* of the run; PENDING and RUNNING are read alike: "ACTIVE"
    accepting,         \* the next call of AcceptReport
    rate,              \* http_reqs.rate of the report
    stored,            \* its metrics are in the database
    reader             \* the request being answered, and what it has read

runVars  == <<status, accepting, rate, stored>>
pageVars == <<viewVars, runVars, reader>>

(* some: there are steps; shown: the number they are summed up to. *)
Idle == [pc |-> "idle", kind |-> "none", status |-> "none", some |-> FALSE, shown |-> 0,
         metrics |-> FALSE, whole |-> TRUE]

PagesInit ==
    /\ ViewInit
    /\ status = "ACTIVE"
    /\ accepting = "report"
    /\ rate = 0
    /\ stored = FALSE
    /\ reader = Idle

-----------------------------------------------------------------------------
(* Seeded faults, part of no specification; each is a definition below it with
   one plausible mistake. *)

(* MarkSuccess: the status is written before the metrics. *)
MarkSuccessEarly ==
    /\ accepting = "metrics" /\ status # "SUCCESS"
    /\ status' = "SUCCESS"
    /\ UNCHANGED <<viewVars, accepting, rate, stored, reader>>

(* AcceptFails: an error of SaveMetrics is logged and forgotten. *)
AcceptFailsGoesOn ==
    /\ accepting = "metrics"
    /\ accepting' = "success"
    /\ UNCHANGED <<viewVars, status, rate, stored, reader>>

-----------------------------------------------------------------------------
(* Writers. *)

Search ==
    /\ Execute \/ \E s \in posts : AcceptSearchSteps(s)
    /\ UNCHANGED <<runVars, reader>>

(* The report arrives, if it does; the pod may have been killed meanwhile. *)
AcceptReport ==
    /\ report # 0 /\ accepting = "report"
    /\ accepting' = "metrics"
    /\ rate' \in Rate
    /\ UNCHANGED <<viewVars, status, stored, reader>>

SaveMetrics ==
    /\ accepting = "metrics"
    /\ stored' = TRUE
    /\ accepting' = "success"
    /\ UNCHANGED <<viewVars, status, rate, reader>>

MarkSuccess ==
    /\ accepting = "success"
    /\ status' = "SUCCESS"
    /\ accepting' = "release"
    /\ UNCHANGED <<viewVars, rate, stored, reader>>

(* Cleanup after SUCCESS.  That it fails, or kills the pod only later, is AcceptFails
   followed by Cleanup. *)
ReleaseRun ==
    /\ accepting = "release"
    /\ killed' = TRUE
    /\ accepting' = "done"
    /\ UNCHANGED <<vars, posts, table, status, rate, stored, reader>>

(* A call of AcceptReport fails; nobody sends the report again. *)
AcceptFails ==
    /\ accepting \in {"metrics", "success", "release"}
    /\ accepting' = "done"
    /\ UNCHANGED <<viewVars, status, rate, stored, reader>>

(* FailRun, CancelRun, TimeoutSweep: the namespace and then the status, whatever that is
   by then.  The two steps are independent: FailRun and CancelRun go on when Cleanup has
   failed, and the pod dies some time after the delete was accepted. *)
Cleanup == Kill /\ UNCHANGED <<runVars, reader>>

MarkFailed ==
    /\ status' = "FAILED"
    /\ UNCHANGED <<viewVars, accepting, rate, stored, reader>>

-----------------------------------------------------------------------------
(* Readers. *)

Reads(read) ==
    /\ reader' = read
    /\ UNCHANGED <<viewVars, runVars>>

(* getRun looks at the steps of a finished run only. *)
GetRun ==
    /\ reader.pc = "idle"
    /\ Reads([Idle EXCEPT !.kind = "run", !.status = status,
                          !.pc = IF status = "ACTIVE" THEN "reply" ELSE "steps"])

(* buildReportPage takes the run from a list. *)
ListRuns ==
    /\ reader.pc = "idle"
    /\ Reads([Idle EXCEPT !.kind = "page", !.status = status, !.pc = "steps"])

(* An error is logged, and is as good as no steps. *)
ListSearchSteps ==
    /\ reader.pc = "steps"
    /\ \E failed \in BOOLEAN :
          LET found == IF failed THEN {} ELSE table
          IN  Reads([reader EXCEPT
                !.some = found # {}, !.whole = ~failed,
                !.shown = IF reader.kind = "page" THEN MaxStable(found) ELSE MaxRPS(found),
                !.pc = IF reader.kind = "page" \/ (found # {} /\ reader.status = "SUCCESS")
                       THEN "metrics" ELSE "reply"])

(* getRun takes what k6 has measured in the final run, cut to an integer, for
   what the steps tell. *)
QueryMetrics ==
    /\ reader.pc = "metrics"
    /\ Reads([reader EXCEPT !.metrics = stored, !.pc = "reply",
                            !.shown = IF reader.kind = "run" /\ stored /\ rate > 0
                                      THEN rate \div 10 ELSE @])

(* getRun ignores an error; the report page is an error then. *)
QueryFails ==
    /\ reader.pc = "metrics"
    /\ Reads(IF reader.kind = "run" THEN [reader EXCEPT !.whole = FALSE, !.pc = "reply"]
                                    ELSE Idle)

Reply == reader.pc = "reply" /\ Reads(Idle)

-----------------------------------------------------------------------------
Writers == \/ Search \/ Cleanup
           \/ AcceptReport \/ SaveMetrics \/ MarkSuccess \/ ReleaseRun \/ AcceptFails
           \/ MarkFailed

Readers == \/ GetRun \/ ListRuns \/ ListSearchSteps \/ QueryMetrics \/ QueryFails
           \/ Reply

PagesNext == Writers \/ Readers

PagesSpec == PagesInit /\ [][PagesNext]_pageVars

-----------------------------------------------------------------------------
PagesTypeOK ==
    /\ status \in {"ACTIVE", "SUCCESS", "FAILED"}
    /\ accepting \in {"report", "metrics", "success", "release", "done"}
    /\ rate \in Rate \cup {0}
    /\ stored \in BOOLEAN
    /\ reader \in [pc : {"idle", "steps", "metrics", "reply"}, kind : {"none", "run", "page"},
                   status : {"none", "ACTIVE", "SUCCESS", "FAILED"},
                   some : BOOLEAN, metrics : BOOLEAN, whole : BOOLEAN,
                   shown : {0, rate \div 10} \cup {s.rps : s \in measured}]

Answers(kind) == reader.pc = "reply" /\ reader.kind = kind /\ reader.status = "SUCCESS"

(* A poller that is told SUCCESS is given what k6 measured in the final run, and
   not what the steps tell: the metrics were saved before the status and are read
   after it, however the two overlap (server.go:141-187, service.go:152-157). *)
AnswerShowsReport ==
    Answers("run") /\ reader.whole /\ reader.some /\ rate > 0 => reader.shown = rate \div 10

(* A report page that says SUCCESS has its metric sections
   (server.go:403-476, service.go:152-157). *)
SuccessPageHasMetrics == Answers("page") => reader.metrics

(* The rate that a SUCCESS page calls stable is at most the one that was
   reported, whichever steps are lost or come late: the search has ended before
   the status is read, and its steps are read after
   (server.go:403-456, main.go:222-237). *)
PageNotAboveReport == Answers("page") => reader.shown <= report

-----------------------------------------------------------------------------
(* What makes the invariants above inductive: AcceptReport goes from the report to
   the metrics to the status, whatever is done besides, and a reader goes the other
   way. *)
Accepted ==
    /\ accepting = "report" => rate = 0
    /\ accepting # "report" => report # 0
    /\ accepting \in {"success", "release"} => stored
    /\ stored => accepting \notin {"report", "metrics"}
    /\ status = "SUCCESS" => stored
    /\ reader.status = "SUCCESS" => stored

ReadsBelow ==
    reader.kind = "page" /\ reader.status = "SUCCESS" /\ reader.pc \in {"metrics", "reply"}
        => reader.shown <= report

PagesInv == /\ Accepted /\ ReadsBelow
            /\ AnswerShowsReport /\ SuccessPageHasMetrics
=============================================================================
