--------------------------- MODULE RunBudgetsProofs ---------------------------
(***************************************************************************)
(* What relation between the budgets of module RunBudgets is enough, for   *)
(* every choice of them: RUN_TIMEOUT, SWEEP_EVERY and SEARCH_TIMEOUT are   *)
(* settings, and nothing in the code compares them.                        *)
(***************************************************************************)
EXTENDS RunBudgets, TLAPS

(* A search that is as slow as its phases allow ends before the sweep may act. *)
SearchFits == SlowestSearch <= RunTimeout

(* ... and before the poller gives up. *)
PollFits == SlowestSearch <= Poll

(* The next sweep comes in time. *)
SweepNear == phase \in Active => now + sweepIn <= Timeout + SweepEvery

(* The deadline of each phase of a search. *)
SearchOnTime ==
    Searching =>
        /\ phase = "submitting" => due <= SubmitWait
        /\ phase = "starting"   => due <= SubmitWait + PodStart
        /\ phase = "searching"  => due <= SlowestSearch
        /\ phase \notin {"waiting", "measuring"}

(* A measurement takes its duration. *)
MeasuringOnTime == phase = "measuring" => due <= begun + duration + Grace

BudgetInv == TypeOK /\ SweepNear /\ SearchOnTime /\ MeasuringOnTime

(* A run has a duration or none, and it is a number. *)
LEMMA DurationIsNat ==
    ASSUME fixed \in BOOLEAN, duration \in IF fixed THEN Durations ELSE {0}
    PROVE  duration \in Nat
  BY BudgetAssumption

(* The sweep's timeout is a time: RUN_TIMEOUT, or what a duration makes it less. *)
LEMMA TimeoutBounds ==
    ASSUME duration \in Nat
    PROVE  /\ Timeout \in Nat
           /\ Timeout = RunTimeout \/ (fixed /\ Timeout = duration + Buffer)
           /\ fixed => Timeout <= duration + Buffer
  BY BudgetAssumption DEF Timeout

(* The budgets of a search add up to a time. *)
LEMMA SlowestIsNat == SlowestSearch \in Nat
  BY BudgetAssumption DEF SlowestSearch

LEMMA InitBudget == Init => BudgetInv
<1> SUFFICES ASSUME Init PROVE BudgetInv
  OBVIOUS
<1> USE BudgetAssumption DEF Init
<1>1. TypeOK
  BY DEF TypeOK, Active, Healthy
<1>2. SweepNear
  <2>1. duration \in Nat
    BY DurationIsNat
  <2> QED
    BY <2>1, TimeoutBounds DEF SweepNear
<1>3. SearchOnTime
  BY DEF SearchOnTime
<1>4. MeasuringOnTime
  BY DEF MeasuringOnTime
<1> QED
  BY <1>1, <1>2, <1>3, <1>4 DEF BudgetInv

(* Request and executor stay what they are, and with them all that follows from them. *)
LEMMA SameRun ==
    ASSUME [Next]_vars
    PROVE  /\ fixed' = fixed /\ duration' = duration /\ slo' = slo
           /\ Timeout' = Timeout /\ Searching' = Searching
<1>1. fixed' = fixed /\ duration' = duration /\ slo' = slo
  BY DEF Next, Submitted, SubmitFails, PodStarts, ModelReady, Reports, ReportsFailure,
         Vanishes, Tick, Sweep, vars
<1> QED
  BY <1>1 DEF Timeout, Searching

LEMMA NextBudget == BudgetInv /\ [Next]_vars => BudgetInv'
<1> SUFFICES ASSUME BudgetInv, [Next]_vars PROVE BudgetInv'
  OBVIOUS
<1>t. /\ now \in Nat /\ due \in Nat /\ begun \in 0..now
      /\ fixed \in BOOLEAN /\ duration \in IF fixed THEN Durations ELSE {0}
      /\ sweepIn \in 0..SweepEvery
  BY DEF BudgetInv, TypeOK
<1>u. duration \in Nat
  BY <1>t, DurationIsNat
<1>v. Timeout \in Nat
  BY <1>u, TimeoutBounds
<1> USE <1>t, <1>u, <1>v, SameRun, BudgetAssumption DEF BudgetInv, TypeOK, SweepNear,
        SearchOnTime, MeasuringOnTime, Active, Healthy, Over, Enter, SlowestSearch
<1>1. CASE Submitted
  BY <1>1 DEF Submitted
<1>2. CASE SubmitFails
  BY <1>2 DEF SubmitFails
<1>3. CASE PodStarts
  BY <1>3 DEF PodStarts, SearchBudget
<1>4. CASE ModelReady
  BY <1>4 DEF ModelReady
<1>5. CASE Reports
  BY <1>5 DEF Reports
<1>6. CASE ReportsFailure
  BY <1>6 DEF ReportsFailure
<1>7. CASE Vanishes
  BY <1>7 DEF Vanishes
<1>8. CASE Tick
  BY <1>8 DEF Tick
<1>9. CASE Sweep
  <2> USE <1>9 DEF Sweep
  <2>1. CASE now > Timeout
    BY <2>1
  <2>2. CASE ~(now > Timeout)
    BY <2>2
  <2> QED
    BY <2>1, <2>2
<1>10. CASE UNCHANGED vars
  BY <1>10 DEF vars
<1> QED
  BY <1>1, <1>2, <1>3, <1>4, <1>5, <1>6, <1>7, <1>8, <1>9, <1>10 DEF Next

(* The numbers of a run are numbers. *)
LEMMA BudgetNumbers ==
    ASSUME BudgetInv
    PROVE  /\ now \in Nat /\ due \in Nat /\ begun \in Nat /\ sweepIn \in Nat
           /\ duration \in Nat /\ Timeout \in Nat
<1>1. duration \in Nat
  BY DurationIsNat DEF BudgetInv, TypeOK
<1> QED
  BY <1>1, TimeoutBounds, BudgetAssumption DEF BudgetInv, TypeOK

(* The clock, the sweep's countdown and the deadlines stay what they are. *)
THEOREM BudgetInductive == Spec => []BudgetInv
  BY InitBudget, NextBudget, PTL DEF Spec

(* TypeOK for every choice of the budgets. *)
THEOREM BudgetTypeOK == Spec => []TypeOK
<1>1. BudgetInv => TypeOK
  BY DEF BudgetInv
<1> QED
  BY <1>1, BudgetInductive, PTL

(* TimeoutSweep: whatever the settings, no run is active for longer than its timeout
   and one period of the sweep. *)
THEOREM RunsEndInTime == Spec => []EndsInTime
<1>1. BudgetInv => EndsInTime
  <2> SUFFICES ASSUME BudgetInv, phase \in Active PROVE now <= Timeout + SweepEvery
    BY DEF EndsInTime
  <2>1. now + sweepIn <= Timeout + SweepEvery
    BY DEF BudgetInv, SweepNear
  <2> QED
    BY <2>1, BudgetNumbers, BudgetAssumption
<1> QED
  BY <1>1, BudgetInductive, PTL

(* No phase of a healthy search goes on for longer than the slowest search. *)
LEMMA SearchWithinSlowest ==
    ASSUME BudgetInv, Searching, phase \in Healthy
    PROVE  now <= SlowestSearch
  BY BudgetNumbers, BudgetAssumption
     DEF BudgetInv, TypeOK, SearchOnTime, Healthy, SlowestSearch

(* Only the sweep ends a healthy run against its will. *)
LEMMA OnlySweepSweeps ==
    ASSUME [Next]_vars, phase # "swept", phase' = "swept"
    PROVE  Sweep /\ now > Timeout /\ phase \in Healthy
  BY DEF Next, Submitted, SubmitFails, PodStarts, ModelReady, Reports, ReportsFailure,
         Vanishes, Tick, Sweep, Enter, Active, vars

LEMMA SweepSpares ==
    ASSUME SearchFits
    PROVE  BudgetInv /\ SearchNotTimedOut /\ [Next]_vars => SearchNotTimedOut'
<1> SUFFICES ASSUME BudgetInv, SearchNotTimedOut, [Next]_vars, Searching', phase' = "swept"
             PROVE  fixed' /\ duration' + Buffer < SlowestSearch
  BY DEF SearchNotTimedOut
<1>1. Searching /\ fixed' = fixed /\ duration' = duration
  BY SameRun
<1>2. CASE phase = "swept"
  BY <1>1, <1>2 DEF SearchNotTimedOut
<1>3. CASE phase # "swept"
  <2>1. now > Timeout /\ phase \in Healthy
    BY <1>3, OnlySweepSweeps
  <2>2. now <= SlowestSearch
    BY <1>1, <2>1, SearchWithinSlowest
  <2>3. Timeout = RunTimeout \/ (fixed /\ Timeout = duration + Buffer)
    BY BudgetNumbers, TimeoutBounds
  <2>4. Timeout < SlowestSearch
    BY <2>1, <2>2, BudgetNumbers, SlowestIsNat
  <2>5. Timeout # RunTimeout
    BY <2>4, BudgetNumbers, SlowestIsNat, BudgetAssumption DEF SearchFits
  <2> QED
    BY <1>1, <2>3, <2>4, <2>5
<1> QED
  BY <1>2, <1>3

(* TimeoutSweep takes no healthy search for stuck but those whose duration, with the
   buffer, is less than a search may take: provided that RUN_TIMEOUT is no less than
   what StartTest, the pod and the executor may take together. *)
THEOREM SlowSearchSpared ==
    ASSUME SearchFits
    PROVE  Spec => []SearchNotTimedOut
<1>1. Init => SearchNotTimedOut
  BY DEF Init, SearchNotTimedOut
<1>2. BudgetInv /\ SearchNotTimedOut /\ [Next]_vars => SearchNotTimedOut'
  BY SweepSpares
<1> QED
  BY <1>1, <1>2, BudgetInductive, PTL DEF Spec

(* wait_test: what outlives the poller of the scripts is a run without a duration that
   got stuck, or one whose duration, with the buffer and a sweep, is more than the poller
   waits; whatever durations are asked for. *)
THEOREM PollerOutlasts ==
    ASSUME PollFits
    PROVE  Spec => []PollerSeesVerdict
<1>1. BudgetInv => PollerSeesVerdict
  <2> SUFFICES ASSUME BudgetInv, phase \in Active, now > Poll
               PROVE  /\ fixed => duration + Buffer + SweepEvery > Poll
                      /\ Searching => phase = "stuck"
    BY DEF PollerSeesVerdict
  <2>1. fixed => duration + Buffer + SweepEvery > Poll
    <3> SUFFICES ASSUME fixed PROVE duration + Buffer + SweepEvery > Poll
      OBVIOUS
    <3>1. now + sweepIn <= Timeout + SweepEvery
      BY DEF BudgetInv, SweepNear
    <3>2. Timeout <= duration + Buffer
      BY BudgetNumbers, TimeoutBounds
    <3> QED
      BY <3>1, <3>2, BudgetNumbers, BudgetAssumption
  <2>2. ASSUME Searching, phase # "stuck"
        PROVE  FALSE
    <3>1. phase \in Healthy
      BY <2>2 DEF Active
    <3>2. now <= SlowestSearch
      BY <2>2, <3>1, SearchWithinSlowest
    <3> QED
      BY <3>2, BudgetNumbers, SlowestIsNat, BudgetAssumption DEF PollFits
  <2> QED
    BY <2>1, <2>2
<1> QED
  BY <1>1, BudgetInductive, PTL

(* TimeoutSweep lets a fixed run measure that began to do so within the buffer,
   whatever the settings: only a run kept waiting for longer is cut off. *)
THEOREM PromptMeasurementSpared == Spec => PromptRunSpared
<1>1. BudgetInv /\ [Next]_vars
        => [phase = "measuring" /\ phase' = "swept" /\ duration + Buffer <= RunTimeout
              => begun + Grace > Buffer]_vars
  <2> SUFFICES ASSUME BudgetInv, [Next]_vars, phase = "measuring", phase' = "swept",
                      duration + Buffer <= RunTimeout
               PROVE  begun + Grace > Buffer
    OBVIOUS
  <2>1. now <= due /\ due <= begun + duration + Grace
    BY DEF BudgetInv, TypeOK, MeasuringOnTime, Healthy
  <2>2. now > Timeout
    BY OnlySweepSweeps
  <2>3. Timeout = duration + Buffer \/ Timeout = RunTimeout
    BY BudgetNumbers, TimeoutBounds
  <2> QED
    BY <2>1, <2>2, <2>3, BudgetNumbers, BudgetAssumption
<1> QED
  BY <1>1, BudgetInductive, PTL DEF Spec, PromptRunSpared

=============================================================================
