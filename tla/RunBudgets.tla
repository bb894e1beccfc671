------------------------------ MODULE RunBudgets ------------------------------
(***************************************************************************)
(* The time budgets of one run, which are set in five places and compared  *)
(* nowhere: how long StartTest waits for the inference service, how long   *)
(* the executor waits, searches and measures, after how long the sweep     *)
(* calls a run stuck, how often it looks, and how long the scripts poll.   *)
(*                                                                         *)
(* Time is counted from Run.CreatedAt in units of 30 seconds.  A phase of  *)
(* a run may end as soon as its work allows and goes on no longer than its *)
(* own budget; the clock does not tick past a deadline that is due.        *)
(***************************************************************************)
EXTENDS Naturals

CONSTANTS
    SubmitWait,        \* EnsureInference waits so long for the inference service
    SearchTimeout,     \* SEARCH_TIMEOUT
    ReadinessWait,     \* waitForModel: its attempts and the pauses between them
    Buffer,            \* baseBuffer of TimeoutSweep
    RunTimeout,        \* RUN_TIMEOUT
    SweepEvery,        \* SWEEP_EVERY
    Poll,              \* wait_test gives up
    PodStart,          \* from Create of the job to main of the executor; no code bounds it
    Grace,             \* the last sleep, kill or report of the executor
    SLOs,              \* what MAX_LATENCY_MS of an executor may default to; 0: none
    Durations          \* of requests that ask for one; 0: shorter than a unit

ASSUME BudgetAssumption ==
    /\ {SubmitWait, SearchTimeout, ReadinessWait, Buffer, RunTimeout, Poll, PodStart, Grace}
          \subseteq Nat
    /\ SLOs \subseteq Nat
    /\ SweepEvery \in Nat \ {0}
    /\ Durations \subseteq Nat

VARIABLES
    now,
    phase,
    due,               \* the phase is over by then, unless the run is stuck
    begun,             \* when the phase began
    fixed,             \* Run.Duration is not nil: the request has a duration
    duration,          \* and this one, in whole units as Postgres keeps whole seconds
    slo,               \* of its executor
    sweepIn            \* until the next tick of the sweep

vars == <<now, phase, due, begun, fixed, duration, slo, sweepIn>>

Healthy == {"submitting", "starting", "searching", "waiting", "measuring"}
Active  == Healthy \cup {"stuck"}
Over    == {"ended", "swept"}

-----------------------------------------------------------------------------
(* Seeded faults, part of no specification; each is a definition below it with
   one plausible mistake. *)

(* Timeout: a run without a duration gets the buffer alone. *)
TimeoutBufferOnly == IF duration + Buffer < RunTimeout THEN duration + Buffer ELSE RunTimeout

(* Timeout: a run has its duration and no more. *)
TimeoutUnbuffered == IF fixed /\ duration < RunTimeout THEN duration ELSE RunTimeout

(* SearchBudget: the context has no deadline. *)
NoSearchBudget == RunTimeout

(* Tick: nothing sweeps. *)
TickUnswept ==
    /\ phase \in Active
    /\ phase = "stuck" \/ now < due
    /\ now' = now + 1
    /\ sweepIn' = IF sweepIn = 0 THEN SweepEvery ELSE sweepIn - 1
    /\ UNCHANGED <<phase, due, begun, fixed, duration, slo>>

(* Sweep: the ticker starts again one tick too late. *)
SweepLate ==
    /\ sweepIn = 0 /\ phase \in Active
    /\ sweepIn' = SweepEvery + 1
    /\ UNCHANGED <<now, phase, due, begun, fixed, duration, slo>>

-----------------------------------------------------------------------------
(* After so long the sweep takes a run for stuck.  The code asks whether there is a
   duration, not how long it is: one below a second is 0 when Postgres returns it, and
   such a run has the buffer alone. *)
Timeout == IF fixed /\ duration + Buffer < RunTimeout THEN duration + Buffer ELSE RunTimeout

(* The executor searches whenever an SLO is set, duration or not; the orchestrator
   sets one only for requests with a latency, which have no duration. *)
Searching == ~fixed \/ slo > 0

SearchBudget == SearchTimeout + Grace

(* Without a duration 15 seconds, and 15 of the warm-up. *)
FinalDuration == IF fixed THEN duration ELSE 1

Enter(p, budget) ==
    /\ phase' = p
    /\ begun' = now
    /\ due' = now + budget

Init ==
    /\ now = 0
    /\ phase = "submitting"
    /\ due = SubmitWait
    /\ begun = 0
    /\ fixed \in BOOLEAN
    /\ duration \in IF fixed THEN Durations ELSE {0}
    /\ slo \in SLOs
    /\ sweepIn \in 0..SweepEvery

Submitted ==
    /\ phase = "submitting"
    /\ Enter("starting", PodStart)
    /\ UNCHANGED <<now, fixed, duration, slo, sweepIn>>

(* At any time: an error of the cluster, the deadline, or the end of the request's
   context, which the server's ReadTimeout may bring about. *)
SubmitFails ==
    /\ phase = "submitting"
    /\ Enter("ended", 0)
    /\ UNCHANGED <<now, fixed, duration, slo, sweepIn>>

PodStarts ==
    /\ phase = "starting"
    /\ \/ Searching /\ Enter("searching", SearchBudget)
       \/ ~Searching /\ Enter("waiting", ReadinessWait)
    /\ UNCHANGED <<now, fixed, duration, slo, sweepIn>>

ModelReady ==
    /\ phase = "waiting"
    /\ Enter("measuring", duration + Grace)
    /\ UNCHANGED <<now, fixed, duration, slo, sweepIn>>

(* Of the final validation, or of the fixed run. *)
Reports ==
    /\ \/ phase = "searching" /\ now >= begun + FinalDuration
       \/ phase = "measuring" /\ now >= begun + duration
    /\ Enter("ended", 0)
    /\ UNCHANGED <<now, fixed, duration, slo, sweepIn>>

(* reportFailure, for any error of the executor's, its deadline included. *)
ReportsFailure ==
    /\ phase \in {"searching", "waiting", "measuring"}
    /\ Enter("ended", 0)
    /\ UNCHANGED <<now, fixed, duration, slo, sweepIn>>

(* The pod is gone, or its last report is lost, and nobody will tell. *)
Vanishes ==
    /\ phase \in Healthy \ {"submitting"}
    /\ Enter("stuck", 0)
    /\ UNCHANGED <<now, fixed, duration, slo, sweepIn>>

Tick ==
    /\ phase \in Active
    /\ phase = "stuck" \/ now < due
    /\ sweepIn > 0
    /\ now' = now + 1
    /\ sweepIn' = sweepIn - 1
    /\ UNCHANGED <<phase, due, begun, fixed, duration, slo>>

(* A tick of the sweep; what happens when it fails is RunService's matter. *)
Sweep ==
    /\ sweepIn = 0 /\ phase \in Active
    /\ sweepIn' = SweepEvery
    /\ IF now > Timeout
       THEN Enter(IF phase = "stuck" THEN "ended" ELSE "swept", 0)
       ELSE UNCHANGED <<phase, begun, due>>
    /\ UNCHANGED <<now, fixed, duration, slo>>

Next == Submitted \/ SubmitFails \/ PodStarts \/ ModelReady \/ Reports \/ ReportsFailure
            \/ Vanishes \/ Tick \/ Sweep

Spec == Init /\ [][Next]_vars

-----------------------------------------------------------------------------
(* The sweep is never further away than its period, and a phase that goes on as it
   should is within its budget. *)
TypeOK ==
    /\ now \in Nat /\ due \in Nat /\ begun \in 0..now
    /\ phase \in Active \cup Over
    /\ fixed \in BOOLEAN
    /\ duration \in IF fixed THEN Durations ELSE {0}
    /\ slo \in SLOs
    /\ sweepIn \in 0..SweepEvery
    /\ phase \in Healthy => now <= due

(* The latest end of a search whose request, pod and probes use up their budgets. *)
SlowestSearch == SubmitWait + PodStart + SearchTimeout + Grace

(* However slow the cluster, the pod and the model were, TimeoutSweep takes a healthy
   search for stuck only if its request has a duration, and one that the buffer does not
   extend to what a search may take.  Those runs are at its mercy: with the default SLO
   every request is run as a search, and its budgets do not know of Duration. *)
SearchNotTimedOut ==
    Searching /\ phase = "swept" => fixed /\ duration + Buffer < SlowestSearch

(* Whatever becomes of the pod, a run is over soon after its timeout: at the first
   sweep that sees it passed. *)
EndsInTime == phase \in Active => now <= Timeout + SweepEvery

(* Whoever started a run and polls it as wait_test does sees how it ended.  The runs that
   outlive the poller are these: those without a duration that got stuck, and those
   whose duration leaves no room for the buffer and a sweep before the poller gives up;
   the latter too only if stuck, when they are run as a search. *)
PollerSeesVerdict ==
    phase \in Active /\ now > Poll =>
        /\ fixed => duration + Buffer + SweepEvery > Poll
        /\ Searching => phase = "stuck"

(* A fixed run whose measurement has begun within the buffer is left alone: only one
   that was kept waiting longer, by StartTest, the cluster or the model, may be timed
   out while it measures, and that one is. *)
PromptRunSpared ==
    [][phase = "measuring" /\ phase' = "swept" /\ duration + Buffer <= RunTimeout
          => begun + Grace > Buffer]_vars

=============================================================================
