---------------------------- MODULE ExecutorSearch ----------------------------
(***************************************************************************)
(* The executor program (cmd/executor/main.go): a fixed run measures the   *)
(* requested rate once; a search doubles the rate until a probe does not   *)
(* hold, bisects between the last rate that held and the first that did    *)
(* not, and measures the best rate again in a final run, whose k6 posts    *)
(* the report.  A step is one k6 run with the webhook that follows it.     *)
(*                                                                         *)
(* The clock is a flag: SEARCH_TIMEOUT has passed, and no k6 run started   *)
(* under it ends well any more.                                            *)
(***************************************************************************)
EXTENDS Integers

CONSTANTS MaxSanityRPS,    \* maxSanityRPS: no doubling beyond it (1e6 in the code)
          MaxBinarySteps,  \* maxBinarySteps (20)
          MaxVUs,          \* maxVUs of every k6 run (5000)
          DefaultSLO,      \* MAX_LATENCY_MS when Submit does not set it (500)
          TargetRPS,       \* the rate a fixed run asks for
          Capacity,        \* the rates up to which the model may hold
          Noisy            \* TRUE: a probe's outcome does not depend on the rate

ASSUME SearchAssumption ==
    /\ MaxSanityRPS \in Nat
    /\ MaxBinarySteps \in Nat
    /\ MaxVUs \in Nat /\ MaxVUs >= 10
    /\ DefaultSLO \in Int
    /\ TargetRPS \in Nat \ {0}
    /\ Capacity \subseteq Nat
    /\ Noisy \in BOOLEAN

VARIABLES
    request,     \* what was submitted: "fixed" (target_rps) or "search" (max_latency_ms)
    capacity,    \* the rate the model holds
    pc,          \* where the program is
    expired,     \* SEARCH_TIMEOUT has passed
    rps,         \* the next rate of the doubling loop
    low,         \* lastSuccess, then low and best: the highest rate that held
    high,        \* firstFailure, then high: the lowest rate that did not, or 0
    halvings,    \* iterations of the binary search
    stepNumber,
    measured,    \* the search steps handed to saveStep
    report       \* the rate of the posted report, 0 while there is none

setting == <<request, capacity>>
bracket == <<rps, low, high, halvings>>
steps   == <<stepNumber, measured>>
vars    == <<setting, pc, expired, bracket, steps, report>>

WarmupRPS  == 1
InitialRPS == 2

Outcome == {"held", "stopped", "broken"}    \* no stop_reason, one of the probe's, executor_error
Step    == [number : Nat, rps : Nat, outcome : Outcome, final : BOOLEAN]

Ended == {"done", "failed", "aborted"}
Pc    == {"start", "wait", "fixed", "warmup", "double", "bisect", "revalidate", "final"}
           \cup Ended

Init ==
    /\ request \in {"fixed", "search"}
    /\ capacity \in Capacity
    /\ pc = "start"
    /\ expired = FALSE
    /\ rps = InitialRPS
    /\ low = WarmupRPS
    /\ high = 0
    /\ halvings = 0
    /\ stepNumber = 1
    /\ measured = {}
    /\ report = 0

(* Three seeded faults, as further below: an open rate is left between the
   bounds; a closed bracket is halved again; the operands of the subtraction are
   exchanged. *)
NarrowingTooShort == high > 0 /\ halvings < MaxBinarySteps /\ high - low > 2
NarrowingTooLong  == high > 0 /\ halvings < MaxBinarySteps /\ high > low
MidBackwards      == low + (low - high) \div 2

Narrowing == high > 0 /\ halvings < MaxBinarySteps /\ high - low > 1
Mid       == low + (high - low) \div 2

(* toSearchStep, failedStep *)
Record(rate, outcome, final) ==
    measured' = measured \cup
        {[number |-> stepNumber, rps |-> rate, outcome |-> outcome, final |-> final]}

-----------------------------------------------------------------------------
(* Seeded faults.  Each is a definition below it with one plausible mistake and
   is part of no specification: it shows that a property can fail. *)

(* RunFails: waitForModel retries without looking at its context. *)
RunFailsNotWaiting ==
    /\ pc \in {"warmup", "fixed"}
    /\ pc' = "failed"
    /\ UNCHANGED <<setting, expired, bracket, steps, report>>

(* Double: the rate that failed is taken as the last success as well. *)
DoubleKeepsFailure(outcome) ==
    /\ pc = "double" /\ ~expired
    /\ Record(rps, outcome, FALSE)
    /\ stepNumber' = stepNumber + 1
    /\ low' = rps
    /\ IF outcome = "stopped"
       THEN high' = rps /\ pc' = "bisect" /\ UNCHANGED rps
       ELSE IF rps >= MaxSanityRPS THEN pc' = "bisect" /\ UNCHANGED <<rps, high>>
                                   ELSE rps' = 2 * rps /\ UNCHANGED <<pc, high>>
    /\ UNCHANGED <<setting, expired, halvings, report>>

(* Bisect: the step number is advanced by the doubling loop only. *)
BisectNotCounted(outcome) ==
    /\ pc = "bisect" /\ Narrowing /\ ~expired
    /\ Record(Mid, outcome, FALSE)
    /\ halvings' = halvings + 1
    /\ IF outcome = "stopped" THEN high' = Mid /\ UNCHANGED low
                              ELSE low' = Mid /\ UNCHANGED high
    /\ UNCHANGED <<setting, pc, expired, rps, stepNumber, report>>

(* Bisect: the bounds are moved the wrong way round. *)
BisectSwapped(outcome) ==
    /\ pc = "bisect" /\ Narrowing /\ ~expired
    /\ Record(Mid, outcome, FALSE)
    /\ stepNumber' = stepNumber + 1
    /\ halvings' = halvings + 1
    /\ IF outcome = "stopped" THEN low' = Mid /\ UNCHANGED high
                              ELSE high' = Mid /\ UNCHANGED low
    /\ UNCHANGED <<setting, pc, expired, rps, report>>

(* FinalFails: the final run is tried once more. *)
FinalRetried ==
    /\ pc = "final"
    /\ Record(low, "broken", TRUE)
    /\ pc' = "revalidate"
    /\ report' = 0
    /\ UNCHANGED <<setting, expired, bracket, stepNumber>>

-----------------------------------------------------------------------------
(* run: search mode if the SLO is positive.  Submit sets MAX_LATENCY_MS, which
   validateStart keeps positive, for a search only; config.Executor has a
   default for it. *)
Searching == request = "search" \/ DefaultSLO > 0

(* k6 takes no scenario with more preAllocatedVUs, of which runK6 asks for max(rate, 10),
   than maxVUs. *)
K6Runs(rate) == rate <= MaxVUs

(* searchStopReason: what a probe at this rate may tell, if k6 runs it. *)
Judge(rate) ==
    {outcome \in {"held", "stopped"} :
        /\ K6Runs(rate)
        /\ Noisy \/ (outcome = "held" <=> rate <= capacity)}

(* The working directory, the configuration and the script are in place, or the
   program ends at once, without reportFailure. *)
Prepare ==
    /\ pc = "start"
    /\ pc' \in {"wait", "aborted"}
    /\ UNCHANGED <<setting, expired, bracket, steps, report>>

(* waitForModel, before the measurements and before the final run. *)
ModelReady ==
    /\ ~expired
    /\ \/ pc = "wait" /\ pc' = IF Searching THEN "warmup" ELSE "fixed"
       \/ pc = "revalidate" /\ pc' = "final"
    /\ UNCHANGED <<setting, expired, bracket, steps, report>>

(* The model is not ready in time, or the warm-up or a fixed run fails. *)
RunFails ==
    /\ pc \in {"wait", "revalidate", "warmup", "fixed"}
    /\ pc' = "failed"
    /\ UNCHANGED <<setting, expired, bracket, steps, report>>

Warmup ==
    /\ pc = "warmup" /\ ~expired
    /\ pc' = "double"
    /\ UNCHANGED <<setting, expired, bracket, steps, report>>

(* An iteration of the doubling loop. *)
Double(outcome) ==
    /\ pc = "double" /\ ~expired
    /\ Record(rps, outcome, FALSE)
    /\ stepNumber' = stepNumber + 1
    /\ \/ /\ outcome = "stopped"
          /\ high' = rps /\ pc' = "bisect"
          /\ UNCHANGED <<rps, low>>
       \/ /\ outcome = "held"
          /\ low' = rps /\ UNCHANGED high
          /\ IF rps >= MaxSanityRPS THEN pc' = "bisect" /\ UNCHANGED rps
                                    ELSE rps' = 2 * rps /\ UNCHANGED pc
    /\ UNCHANGED <<setting, expired, halvings, report>>

(* An iteration of the binary search. *)
Bisect(outcome) ==
    /\ pc = "bisect" /\ Narrowing /\ ~expired
    /\ Record(Mid, outcome, FALSE)
    /\ stepNumber' = stepNumber + 1
    /\ halvings' = halvings + 1
    /\ IF outcome = "stopped" THEN high' = Mid /\ UNCHANGED low
                              ELSE low' = Mid /\ UNCHANGED high
    /\ UNCHANGED <<setting, pc, expired, rps, report>>

EndBisect ==
    /\ pc = "bisect" /\ ~Narrowing
    /\ pc' = "revalidate"
    /\ UNCHANGED <<setting, expired, bracket, steps, report>>

(* k6 itself fails, or is killed: the search ends with a failed step. *)
ProbeFails ==
    /\ \/ pc = "double" /\ Record(rps, "broken", FALSE)
       \/ pc = "bisect" /\ Narrowing /\ Record(Mid, "broken", FALSE)
    /\ pc' = "failed"
    /\ UNCHANGED <<setting, expired, bracket, stepNumber, report>>

(* handleSummary of a run with enable_metrics posts the report, whatever it has
   measured. *)
PostReport ==
    /\ report = 0 /\ ~expired
    /\ \/ pc = "fixed" /\ K6Runs(TargetRPS) /\ report' = TargetRPS
       \/ pc = "final" /\ report' = low
    /\ UNCHANGED <<setting, pc, expired, bracket, steps>>

FixedEnds ==
    /\ pc = "fixed" /\ report # 0
    /\ pc' = "done"
    /\ UNCHANGED <<setting, expired, bracket, steps, report>>

(* The final run is not judged: its step never has a stop reason. *)
FinalEnds ==
    /\ pc = "final" /\ report # 0
    /\ Record(low, "held", TRUE)
    /\ pc' = "done"
    /\ UNCHANGED <<setting, expired, bracket, stepNumber, report>>

FinalFails ==
    /\ pc = "final"
    /\ Record(low, "broken", TRUE)
    /\ pc' = "failed"
    /\ UNCHANGED <<setting, expired, bracket, stepNumber, report>>

(* SEARCH_TIMEOUT; a fixed run has no such limit. *)
Expire ==
    /\ Searching /\ ~expired /\ pc \notin Ended \cup {"start"}
    /\ expired' = TRUE
    /\ UNCHANGED <<setting, pc, bracket, steps, report>>

Advance ==
    \/ Prepare \/ ModelReady \/ RunFails \/ Warmup \/ EndBisect \/ ProbeFails
    \/ \E outcome \in Judge(rps) : Double(outcome)
    \/ \E outcome \in Judge(Mid) : Bisect(outcome)
    \/ PostReport \/ FixedEnds \/ FinalEnds \/ FinalFails

Next == Advance \/ Expire

Spec == Init /\ [][Next]_vars

(* Every k6 run, readiness probe and webhook has a limited duration. *)
FairSpec == Spec /\ WF_vars(Advance)

-----------------------------------------------------------------------------
TypeOK ==
    /\ request \in {"fixed", "search"}
    /\ capacity \in Nat
    /\ pc \in Pc
    /\ expired \in BOOLEAN
    /\ rps \in Nat /\ low \in Nat /\ high \in Nat
    /\ halvings \in Nat
    /\ stepNumber \in Nat
    /\ measured \subseteq Step
    /\ report \in Nat

(* The rate a search reports is the top of what it has seen hold: no probe
   failed at or below it, and it was probed itself, unless it is the warm-up
   rate, which nothing judges.  However noisy the model is (main.go:180-227). *)
ReportedRateHeld ==
    Searching /\ report # 0 =>
        /\ \A s \in measured : ~s.final /\ s.rps <= report => s.outcome = "held"
        /\ report = WarmupRPS \/ \E s \in measured : ~s.final /\ s.rps = report

(* A step number names one measurement: the upsert on (run_id, step_number)
   never replaces a step by another (main.go:179-234, postgres/repo.go:182). *)
StepsAreNumbered ==
    \A s, t \in measured : s.number = t.number => s = t

(* The doubling loop tries 2, 4, 8, ... up to the first rate that is not below
   maxSanityRPS, or the last one that k6 runs; maxBinarySteps halvings reach across the
   last of its steps. *)
PowerOfTwo[k \in Nat] == IF k = 0 THEN 1 ELSE 2 * PowerOfTwo[k - 1]

ScaleEnds(k) == PowerOfTwo[k] >= MaxSanityRPS \/ ~K6Runs(PowerOfTwo[k + 1])

StepsSuffice == ScaleEnds(MaxBinarySteps + 1)

LastExponent == CHOOSE k \in 1..(MaxBinarySteps + 1) :
                    ScaleEnds(k) /\ (k > 1 => ~ScaleEnds(k - 1))

LastDoubling == PowerOfTwo[LastExponent]

(* A search takes no more probes than two for each doubling there can be, the
   last number being the final run's: with the constants of the program 24 steps
   (main.go:24, 188-225, 308-309). *)
ProbesBounded == stepNumber <= 2 * LastExponent

(* The binary search ends because the bracket is closed, never because the
   iterations have run out: the answer is exact to 1 RPS (main.go:204). *)
BracketCloses ==
    pc \in {"revalidate", "final"} /\ Searching => high = 0 \/ high - low = 1

(* If the model holds exactly up to its capacity, that is the rate reported,
   between the warm-up rate, which is not judged, and the last doubling.  A model that
   holds the last doubling has no report at all, unless that reaches maxSanityRPS: k6
   does not run the next one, and the search fails (main.go:180-227, 308-309). *)
BestIsCapacity ==
    Searching /\ report # 0 =>
        /\ report = IF capacity < WarmupRPS THEN WarmupRPS
                    ELSE IF capacity > LastDoubling THEN LastDoubling ELSE capacity
        /\ capacity >= LastDoubling => LastDoubling >= MaxSanityRPS

(* A fixed run measures the rate it was asked for: "fixed mode" (main.go:146),
   "starting fixed RPS test" (scripts/start_fixed.sh:5). *)
FixedRate == request = "fixed" /\ report # 0 => report = TargetRPS

(* The program ends, in time or not, whatever k6 and the model do
   (main.go:167-237, 275-290). *)
Ends == <>(pc \in Ended)

-----------------------------------------------------------------------------
(* What makes ReportedRateHeld and StepsAreNumbered inductive. *)

(* Every probe lies outside the bracket, on the side its outcome puts it. *)
Bracketed ==
    /\ low >= 1
    /\ high > 0 => low < high
    /\ low = WarmupRPS \/ \E s \in measured : ~s.final /\ s.rps = low
    /\ pc # "failed" => \A s \in measured : ~s.final =>
          \/ s.rps <= low /\ s.outcome = "held"
          \/ s.rps >= high /\ high > 0

Unbounded == {"start", "wait", "warmup", "double"}
Doubling  == pc \in Unbounded => high = 0 /\ low < rps

Numbered ==
    /\ StepsAreNumbered
    /\ \A s \in measured : s.number <= stepNumber
    /\ pc \notin Ended => \A s \in measured : s.number < stepNumber

(* The report is that of the final run, which follows the search. *)
Reported ==
    /\ pc = "fixed" => ~Searching
    /\ Searching /\ report # 0 =>
          /\ pc \in {"final", "done", "failed"}
          /\ report = low
          /\ \A s \in measured : ~s.final /\ s.rps <= low => s.outcome = "held"

SearchInv == TypeOK /\ Bracketed /\ Doubling /\ Numbered /\ Reported

(* What makes BracketCloses and ProbesBounded inductive, where StepsSuffice: the
   doubling loop has the rate of its step number, each iteration of the binary
   search halves the bracket, and without a failure the last doubling held. *)
Doubled ==
    pc \in Unbounded =>
        /\ stepNumber \in 1..(LastExponent + 1) /\ halvings = 0
        /\ rps = PowerOfTwo[stepNumber] /\ low = PowerOfTwo[stepNumber - 1]
        /\ stepNumber > LastExponent => ~K6Runs(rps)

Halved ==
    pc = "bisect" /\ high > 0 =>
        \E left \in 0..LastExponent :
            /\ high - low = PowerOfTwo[left]
            /\ halvings + left < LastExponent
            /\ stepNumber = 2 * halvings + left + 2

Searched == {"bisect", "revalidate", "final"}

Closed ==
    /\ pc \in {"revalidate", "final"} => high = 0 \/ high - low = 1
    /\ pc \in Searched /\ high = 0 => low = LastDoubling /\ LastDoubling >= MaxSanityRPS

ClosingInv == Doubled /\ Halved /\ Closed /\ ProbesBounded

(* What makes BestIsCapacity inductive, without noise: the capacity lies in the
   bracket. *)
CapacityInside ==
    /\ low = WarmupRPS \/ low <= capacity
    /\ high > 0 => capacity < high /\ high <= LastDoubling
    /\ BestIsCapacity

-----------------------------------------------------------------------------
(* The implementation of LoadPod. *)
Pod == CASE pc = "failed" -> "failing"
         [] pc \in {"done", "aborted"} -> "ended"
         [] pc \notin Ended /\ report # 0 -> "reported"
         [] OTHER -> "measuring"

LP == INSTANCE LoadPod WITH pod <- Pod

RefinesLoadPod == LP!Spec
=============================================================================
