------------------------- MODULE ExecutorSearchProofs -------------------------
(***************************************************************************)
(* Proofs about the executor's search (module ExecutorSearch), for any     *)
(* bounds, default SLO and model.                                          *)
(***************************************************************************)
EXTENDS ExecutorSearch, Iteration, TLAPS

LEMMA JudgeGives == ASSUME NEW rate, NEW outcome \in Judge(rate)
                    PROVE  outcome \in {"held", "stopped"} /\ K6Runs(rate)
BY DEF Judge

(* A rate between the bounds. *)
LEMMA MidBetween ==
    ASSUME low \in Nat, high \in Nat, high - low > 1
    PROVE  Mid \in Nat /\ low < Mid /\ Mid < high
BY DEF Mid

LEMMA RecordAdds ==
    ASSUME TypeOK, NEW rate \in Nat, NEW outcome \in Outcome, NEW final \in BOOLEAN,
           Record(rate, outcome, final)
    PROVE  \E s \in Step : /\ measured' = measured \cup {s}
                           /\ s.number = stepNumber /\ s.rps = rate
                           /\ s.outcome = outcome /\ s.final = final
<1>. DEFINE s == [number |-> stepNumber, rps |-> rate, outcome |-> outcome, final |-> final]
<1>1. s \in Step
  BY DEF TypeOK, Step
<1>2. measured' = measured \cup {s}
  BY DEF Record
<1>. QED BY <1>1, <1>2

(* A new step has a number of its own while the program has not ended. *)
LEMMA NumberIsNew ==
    ASSUME TypeOK, Numbered, pc \notin Ended,
           NEW s \in Step, measured' = measured \cup {s}, s.number = stepNumber
    PROVE  StepsAreNumbered' /\ \A t \in measured' : t.number <= stepNumber
<1>1. \A t \in measured : t.number < stepNumber /\ t.number \in Nat
  BY DEF TypeOK, Numbered, Step
<1>2. stepNumber \in Nat
  BY DEF TypeOK
<1>3. \A t \in measured : t.number # s.number
  BY <1>1, <1>2
<1>. QED BY <1>1, <1>2, <1>3 DEF Numbered, StepsAreNumbered

-----------------------------------------------------------------------------
LEMMA InitSearch == Init => SearchInv
<1>. SUFFICES ASSUME Init PROVE SearchInv
  OBVIOUS
<1>1. TypeOK
  BY SearchAssumption DEF SearchAssumption, Init, TypeOK, Pc, InitialRPS, WarmupRPS
<1>2. Bracketed /\ Doubling
  BY DEF Init, Bracketed, Doubling, Unbounded, InitialRPS, WarmupRPS
<1>3. Numbered /\ Reported
  BY DEF Init, Numbered, StepsAreNumbered, Reported
<1>. QED BY <1>1, <1>2, <1>3 DEF SearchInv

(* Steps that only move the program from one place to another. *)
LEMMA MoveKeeps ==
    ASSUME SearchInv, UNCHANGED <<setting, expired, bracket, steps, report>>,
           pc \notin Ended, pc' \in Pc,
           pc' \in Unbounded => pc \in Unbounded,
           pc' = "fixed" => ~Searching,
           Searching /\ report # 0 => pc' \in {"final", "done", "failed"}
    PROVE  SearchInv'
<1>1. TypeOK'
  BY DEF SearchInv, TypeOK, setting, bracket, steps
<1>2. Bracketed'
  BY DEF SearchInv, Bracketed, bracket, steps, Ended
<1>3. Doubling'
  BY DEF SearchInv, Doubling, bracket
<1>4. Numbered'
  BY DEF SearchInv, Numbered, StepsAreNumbered, steps
<1>5. Reported'
  BY DEF SearchInv, Reported, Searching, setting, bracket, steps
<1>. QED BY <1>1, <1>2, <1>3, <1>4, <1>5 DEF SearchInv

LEMMA PrepareKeeps == ASSUME SearchInv, Prepare PROVE SearchInv'
BY MoveKeeps DEF Prepare, SearchInv, Pc, Ended, Unbounded, Reported

LEMMA ModelReadyKeeps == ASSUME SearchInv, ModelReady PROVE SearchInv'
BY MoveKeeps DEF ModelReady, SearchInv, Pc, Ended, Unbounded, Reported

LEMMA RunFailsKeeps == ASSUME SearchInv, RunFails PROVE SearchInv'
BY MoveKeeps DEF RunFails, SearchInv, Pc, Ended, Unbounded, Reported

LEMMA WarmupKeeps == ASSUME SearchInv, Warmup PROVE SearchInv'
BY MoveKeeps DEF Warmup, SearchInv, Pc, Ended, Unbounded, Reported

LEMMA EndBisectKeeps == ASSUME SearchInv, EndBisect PROVE SearchInv'
BY MoveKeeps DEF EndBisect, SearchInv, Pc, Ended, Unbounded, Reported

LEMMA FixedEndsKeeps == ASSUME SearchInv, FixedEnds PROVE SearchInv'
BY MoveKeeps DEF FixedEnds, SearchInv, Pc, Ended, Unbounded, Reported

LEMMA ExpireKeeps == ASSUME SearchInv, Expire PROVE SearchInv'
<1>. USE DEF setting, bracket, steps
<1>1. TypeOK'
  BY DEF Expire, SearchInv, TypeOK
<1>2. Bracketed' /\ Doubling'
  BY DEF Expire, SearchInv, Bracketed, Doubling
<1>3. Numbered' /\ Reported'
  BY DEF Expire, SearchInv, Numbered, StepsAreNumbered, Reported, Searching
<1>. QED BY <1>1, <1>2, <1>3 DEF SearchInv

-----------------------------------------------------------------------------
(* The doubling loop: every earlier probe held, at a rate up to low < rps. *)
LEMMA DoubleKeeps ==
    ASSUME SearchInv, NEW outcome \in {"held", "stopped"}, Double(outcome)
    PROVE  SearchInv'
<1>. USE DEF setting
<1>1. PICK s \in Step : /\ measured' = measured \cup {s}
                        /\ s.number = stepNumber /\ s.rps = rps
                        /\ s.outcome = outcome /\ s.final = FALSE
  <2>1. TypeOK /\ rps \in Nat /\ outcome \in Outcome /\ Record(rps, outcome, FALSE)
    BY DEF SearchInv, TypeOK, Double, Outcome
  <2>. QED BY <2>1, RecordAdds
<1>2. TypeOK'
  BY <1>1 DEF SearchInv, TypeOK, Double, Pc
<1>3. /\ high = 0 /\ low < rps /\ low >= 1
      /\ \A t \in measured : ~t.final => t.rps <= low /\ t.outcome = "held"
  BY DEF SearchInv, Double, Doubling, Unbounded, Bracketed
<1>4. \A t \in measured : t.rps \in Nat
  BY DEF SearchInv, TypeOK, Step
<1>5. ASSUME outcome = "stopped" PROVE Bracketed' /\ Doubling'
  <2>1. high' = rps /\ low' = low /\ pc' = "bisect"
    BY <1>5 DEF Double
  <2>2. Bracketed'
    BY <1>1, <1>3, <1>4, <1>5, <2>1 DEF SearchInv, TypeOK, Bracketed
  <2>. QED BY <2>1, <2>2 DEF Doubling, Unbounded
<1>6. ASSUME outcome = "held" PROVE Bracketed' /\ Doubling'
  <2>1. high' = high /\ low' = rps /\ (pc' = "double" => rps' = 2 * rps)
        /\ pc' \in {"double", "bisect"}
    BY <1>6 DEF Double
  <2>2. Bracketed'
    BY <1>1, <1>3, <1>4, <1>6, <2>1 DEF SearchInv, TypeOK, Bracketed
  <2>3. Doubling'
    BY <1>3, <2>1 DEF SearchInv, TypeOK, Doubling, Unbounded
  <2>. QED BY <2>2, <2>3
<1>7. Numbered'
  <2>1. StepsAreNumbered' /\ \A t \in measured' : t.number <= stepNumber
    BY <1>1, NumberIsNew DEF SearchInv, Double, Ended
  <2>2. stepNumber' = stepNumber + 1 /\ stepNumber \in Nat
    BY DEF SearchInv, TypeOK, Double
  <2>3. \A t \in measured' : t.number \in Nat
    BY <1>2 DEF TypeOK, Step
  <2>. QED BY <2>1, <2>2, <2>3 DEF Numbered
<1>8. Reported'
  BY DEF SearchInv, Double, Reported, Searching
<1>. QED
  <2>1. Bracketed' /\ Doubling'
    BY <1>5, <1>6
  <2>. QED BY <1>2, <1>7, <1>8, <2>1 DEF SearchInv

(* The binary search: the probe splits the bracket. *)
LEMMA BisectKeeps ==
    ASSUME SearchInv, NEW outcome \in {"held", "stopped"}, Bisect(outcome)
    PROVE  SearchInv'
<1>. USE DEF setting
<1>1. Mid \in Nat /\ low < Mid /\ Mid < high /\ low \in Nat /\ high \in Nat
  BY MidBetween DEF SearchInv, TypeOK, Bisect, Narrowing
<1>2. PICK s \in Step : /\ measured' = measured \cup {s}
                        /\ s.number = stepNumber /\ s.rps = Mid
                        /\ s.outcome = outcome /\ s.final = FALSE
  <2>1. TypeOK /\ outcome \in Outcome /\ Record(Mid, outcome, FALSE)
    BY DEF SearchInv, Bisect, Outcome
  <2>. QED BY <1>1, <2>1, RecordAdds
<1>3. /\ pc = "bisect" /\ pc' = "bisect"
      /\ \/ outcome = "stopped" /\ high' = Mid /\ low' = low
         \/ outcome = "held" /\ low' = Mid /\ high' = high
  BY DEF Bisect
<1>4. TypeOK'
  BY <1>1, <1>2, <1>3 DEF SearchInv, TypeOK, Bisect, Pc
<1>5. \A t \in measured : t.rps \in Nat
  BY DEF SearchInv, TypeOK, Step
<1>6. Bracketed'
  <2>1. \A t \in measured : ~t.final =>
           (t.rps <= low /\ t.outcome = "held") \/ t.rps >= high
    BY <1>3 DEF SearchInv, Bracketed
  <2>2. low >= 1 /\ (low = WarmupRPS \/ \E t \in measured : ~t.final /\ t.rps = low)
    BY DEF SearchInv, Bracketed
  <2>3. CASE outcome = "stopped"
    BY <1>1, <1>2, <1>3, <1>5, <2>1, <2>2, <2>3 DEF Bracketed
  <2>4. CASE outcome = "held"
    BY <1>1, <1>2, <1>3, <1>5, <2>1, <2>2, <2>4 DEF Bracketed
  <2>. QED BY <2>3, <2>4
<1>7. Doubling'
  BY <1>3 DEF Doubling, Unbounded
<1>8. Numbered'
  <2>1. StepsAreNumbered' /\ \A t \in measured' : t.number <= stepNumber
    BY <1>2, <1>3, NumberIsNew DEF SearchInv, Ended
  <2>2. stepNumber' = stepNumber + 1 /\ stepNumber \in Nat
    BY DEF SearchInv, TypeOK, Bisect
  <2>3. \A t \in measured' : t.number \in Nat
    BY <1>4 DEF TypeOK, Step
  <2>. QED BY <2>1, <2>2, <2>3 DEF Numbered
<1>9. Reported'
  BY <1>3 DEF SearchInv, Bisect, Reported, Searching
<1>. QED BY <1>4, <1>6, <1>7, <1>8, <1>9 DEF SearchInv

(* A probe whose k6 fails ends the search; its step is recorded. *)
LEMMA ProbeFailsKeeps == ASSUME SearchInv, ProbeFails PROVE SearchInv'
<1>. USE DEF setting, bracket
<1>1. PICK s \in Step : measured' = measured \cup {s} /\ s.number = stepNumber
  <2>1. TypeOK /\ rps \in Nat /\ "broken" \in Outcome /\ low \in Nat /\ high \in Nat
    BY DEF SearchInv, TypeOK, Outcome
  <2>2. CASE Record(rps, "broken", FALSE)
    BY <2>1, <2>2, RecordAdds
  <2>3. CASE Narrowing /\ Record(Mid, "broken", FALSE)
    <3>1. Mid \in Nat
      BY <2>1, <2>3, MidBetween DEF Narrowing
    <3>. QED BY <2>1, <2>3, <3>1, RecordAdds
  <2>. QED BY <2>2, <2>3 DEF ProbeFails
<1>2. pc \in {"double", "bisect"} /\ pc' = "failed"
  BY DEF ProbeFails
<1>3. TypeOK'
  BY <1>1, <1>2 DEF SearchInv, TypeOK, ProbeFails, Pc, Ended
<1>4. Bracketed' /\ Doubling'
  BY <1>1, <1>2 DEF SearchInv, Bracketed, Doubling, Unbounded, ProbeFails
<1>5. Numbered'
  BY <1>1, <1>2, NumberIsNew DEF SearchInv, Numbered, Ended, ProbeFails
<1>6. Reported'
  BY <1>2 DEF SearchInv, Reported, Searching, ProbeFails
<1>. QED BY <1>3, <1>4, <1>5, <1>6 DEF SearchInv

(* The final run posts low, the top of what held. *)
LEMMA PostReportKeeps == ASSUME SearchInv, PostReport PROVE SearchInv'
<1>. USE DEF setting, bracket, steps
<1>1. TypeOK'
  BY SearchAssumption DEF SearchAssumption, SearchInv, TypeOK, PostReport
<1>2. Bracketed' /\ Doubling'
  BY DEF SearchInv, Bracketed, Doubling, PostReport
<1>3. Numbered'
  BY DEF SearchInv, Numbered, StepsAreNumbered, PostReport
<1>4. CASE pc = "fixed"
  BY <1>1, <1>2, <1>3, <1>4 DEF SearchInv, Reported, Searching, PostReport
<1>5. CASE pc = "final" /\ report' = low
  <2>1. \A s \in measured : ~s.final /\ s.rps <= low => s.outcome = "held"
    <3>1. low \in Nat /\ high \in Nat /\ \A s \in measured : s.rps \in Nat
      BY DEF SearchInv, TypeOK, Step
    <3>. QED BY <1>5, <3>1 DEF SearchInv, Bracketed
  <2>2. Reported'
    BY <1>5, <2>1 DEF Reported, Searching, PostReport
  <2>. QED BY <1>1, <1>2, <1>3, <2>2 DEF SearchInv
<1>. QED BY <1>4, <1>5 DEF PostReport

(* The step of the final run is no probe. *)
LEMMA FinalStepKeeps ==
    ASSUME SearchInv, NEW outcome \in Outcome, pc = "final", pc' \in {"done", "failed"},
           Record(low, outcome, TRUE),
           UNCHANGED <<setting, expired, bracket, stepNumber, report>>
    PROVE  SearchInv'
<1>. USE DEF setting, bracket
<1>1. PICK s \in Step : measured' = measured \cup {s} /\ s.number = stepNumber /\ s.final = TRUE
  BY RecordAdds DEF SearchInv, TypeOK
<1>2. TypeOK'
  BY <1>1 DEF SearchInv, TypeOK, Pc, Ended
<1>3. Bracketed' /\ Doubling'
  BY <1>1 DEF SearchInv, Bracketed, Doubling, Unbounded
<1>4. Numbered'
  BY <1>1, NumberIsNew DEF SearchInv, Numbered, Ended
<1>5. Reported'
  BY <1>1 DEF SearchInv, Reported, Searching
<1>. QED BY <1>2, <1>3, <1>4, <1>5 DEF SearchInv

LEMMA FinalEndsKeeps == ASSUME SearchInv, FinalEnds PROVE SearchInv'
BY FinalStepKeeps DEF FinalEnds, Outcome

LEMMA FinalFailsKeeps == ASSUME SearchInv, FinalFails PROVE SearchInv'
BY FinalStepKeeps DEF FinalFails, Outcome

LEMMA StutterKeeps == ASSUME SearchInv, UNCHANGED vars PROVE SearchInv'
<1>. USE DEF vars, setting, bracket, steps
<1>1. TypeOK' /\ Bracketed' /\ Doubling'
  BY DEF SearchInv, TypeOK, Bracketed, Doubling
<1>2. Numbered' /\ Reported'
  BY DEF SearchInv, Numbered, StepsAreNumbered, Reported, Searching
<1>. QED BY <1>1, <1>2 DEF SearchInv

LEMMA SearchInductive == SearchInv /\ [Next]_vars => SearchInv'
<1>. SUFFICES ASSUME SearchInv, [Next]_vars PROVE SearchInv'
  OBVIOUS
<1>1. CASE \E outcome \in Judge(rps) : Double(outcome)
  BY <1>1, JudgeGives, DoubleKeeps
<1>2. CASE \E outcome \in Judge(Mid) : Bisect(outcome)
  BY <1>2, JudgeGives, BisectKeeps
<1>. QED
  BY <1>1, <1>2, PrepareKeeps, ModelReadyKeeps, RunFailsKeeps, WarmupKeeps, EndBisectKeeps,
     ProbeFailsKeeps, PostReportKeeps, FixedEndsKeeps, FinalEndsKeeps, FinalFailsKeeps,
     ExpireKeeps, StutterKeeps DEF Next, Advance

LEMMA SearchInvariant == Spec => []SearchInv
BY InitSearch, SearchInductive, PTL DEF Spec

-----------------------------------------------------------------------------
(* Every variable of the executor keeps its type. *)
THEOREM SearchTypeCorrect == Spec => []TypeOK
<1>1. SearchInv => TypeOK
  BY DEF SearchInv
<1>. QED BY <1>1, SearchInvariant, PTL

(* Whatever the noise, the bounds and the timeouts, a search that reports has
   reported the highest rate it saw hold: every probe at or below it held. *)
THEOREM SearchReportHeld == Spec => []ReportedRateHeld
<1>1. SearchInv => ReportedRateHeld
  BY DEF SearchInv, Bracketed, Reported, ReportedRateHeld
<1>. QED BY <1>1, SearchInvariant, PTL

(* No step is handed to loadtestd under the number of another. *)
THEOREM SearchStepsNumbered == Spec => []StepsAreNumbered
<1>1. SearchInv => StepsAreNumbered
  BY DEF SearchInv, Numbered
<1>. QED BY <1>1, SearchInvariant, PTL

-----------------------------------------------------------------------------
(* Where the pod of LoadPod is. *)
LEMMA PodStep == ASSUME [Next]_vars PROVE [LP!Next]_Pod
<1>. USE DEF LP!Next, LP!Report, LP!Succeed, LP!Fail, LP!GiveUp, LP!Killed, Pod, Ended
<1>1. CASE Prepare
  BY <1>1 DEF Prepare
<1>2. CASE ModelReady
  BY <1>2 DEF ModelReady
<1>3. CASE RunFails
  BY <1>3 DEF RunFails
<1>4. CASE Warmup \/ EndBisect
  BY <1>4 DEF Warmup, EndBisect
<1>5. CASE ProbeFails
  BY <1>5 DEF ProbeFails
<1>6. ASSUME NEW outcome, Double(outcome) PROVE [LP!Next]_Pod
  BY <1>6 DEF Double
<1>7. ASSUME NEW outcome, Bisect(outcome) PROVE [LP!Next]_Pod
  BY <1>7 DEF Bisect
<1>8. CASE PostReport
  BY <1>8 DEF PostReport
<1>9. CASE FixedEnds \/ FinalEnds
  BY <1>9 DEF FixedEnds, FinalEnds
<1>10. CASE FinalFails
  BY <1>10 DEF FinalFails
<1>11. CASE Expire
  BY <1>11 DEF Expire
<1>12. CASE UNCHANGED vars
  BY <1>12 DEF vars
<1>. QED
  BY <1>1, <1>2, <1>3, <1>4, <1>5, <1>6, <1>7, <1>8, <1>9, <1>10, <1>11, <1>12
     DEF Next, Advance

(* The executor keeps the contract loadtestd relies on: one report at most,
   nothing measured after a failure, a good end only after the report. *)
THEOREM SearchRefinesLoadPod == Spec => RefinesLoadPod
<1>1. Init => LP!Init
  BY DEF Init, LP!Init, Pod, Ended
<1>. QED BY <1>1, PodStep, PTL DEF Spec, RefinesLoadPod, LP!Spec

-----------------------------------------------------------------------------
(* The powers of two: PowerOfTwo is what its definition says. *)
LEMMA PowerDefined ==
    PowerOfTwo = [k \in Nat |-> IF k = 0 THEN 1 ELSE 2 * PowerOfTwo[k - 1]]
<1>1. PICK next \in [Nat \X Nat -> Nat] :
         \A n \in Nat, x \in Nat : next[<<n, x>>] = 2 * x
  <2>. DEFINE twice == [p \in Nat \X Nat |-> 2 * p[2]]
  <2>1. twice \in [Nat \X Nat -> Nat] /\ \A n \in Nat, x \in Nat : twice[<<n, x>>] = 2 * x
    OBVIOUS
  <2>. QED BY <2>1
<1>2. PICK f : IsIteration(f, Nat, 1, next)
  <2>1. 1 \in Nat
    OBVIOUS
  <2>. QED BY <1>1, <2>1, IterationExists
<1>3. f \in [Nat -> Nat] /\ f[0] = 1 /\ \A n \in Nat : f[n + 1] = 2 * f[n]
  BY <1>1, <1>2 DEF IsIteration
<1>4. \A n \in Nat : f[n] = IF n = 0 THEN 1 ELSE 2 * f[n - 1]
  <2>. SUFFICES ASSUME NEW n \in Nat, n # 0 PROVE f[n] = 2 * f[n - 1]
    BY <1>3
  <2>1. n - 1 \in Nat /\ (n - 1) + 1 = n
    OBVIOUS
  <2>. QED BY <1>3, <2>1
<1>5. f = [k \in Nat |-> IF k = 0 THEN 1 ELSE 2 * f[k - 1]]
  BY <1>3, <1>4
<1>. QED BY <1>5 DEF PowerOfTwo

LEMMA PowerEquations ==
    /\ PowerOfTwo[0] = 1
    /\ \A n \in Nat : PowerOfTwo[n + 1] = 2 * PowerOfTwo[n]
    /\ \A n \in Nat : PowerOfTwo[n] \in Nat /\ PowerOfTwo[n] >= 1
<1>1. PowerOfTwo[0] = 1
  BY PowerDefined, Zenon
<1>2. ASSUME NEW n \in Nat PROVE PowerOfTwo[n + 1] = 2 * PowerOfTwo[n]
  <2>1. n + 1 \in Nat /\ n + 1 # 0 /\ (n + 1) - 1 = n
    OBVIOUS
  <2>2. PowerOfTwo[n + 1] = 2 * PowerOfTwo[(n + 1) - 1]
    BY <2>1, PowerDefined, Zenon
  <2>. QED BY <2>1, <2>2
<1>3. \A n \in Nat : PowerOfTwo[n] \in Nat /\ PowerOfTwo[n] >= 1
  <2>. DEFINE Positive == {n \in Nat : PowerOfTwo[n] \in Nat /\ PowerOfTwo[n] >= 1}
  <2>1. 0 \in Positive /\ \A n \in Nat : n \in Positive => n + 1 \in Positive
    BY <1>1, <1>2
  <2>2. Nat \subseteq Positive
    <3>. HIDE DEF Positive
    <3>. QED BY <2>1, NoLeastMissing
  <2>. QED BY <2>2
<1>. QED BY <1>1, <1>2, <1>3

LEMMA PowerGrows ==
    ASSUME NEW i \in Nat, NEW j \in Nat, i < j
    PROVE  PowerOfTwo[i + 1] <= PowerOfTwo[j]
<1>. DEFINE Above == {d \in Nat : PowerOfTwo[i + 1] <= PowerOfTwo[(i + 1) + d]}
<1>1. 0 \in Above
  BY PowerEquations
<1>2. ASSUME NEW d \in Nat, d \in Above PROVE d + 1 \in Above
  <2>1. (i + 1) + d \in Nat /\ ((i + 1) + d) + 1 = (i + 1) + (d + 1) /\ i + 1 \in Nat
    OBVIOUS
  <2>2. PowerOfTwo[(i + 1) + (d + 1)] = 2 * PowerOfTwo[(i + 1) + d]
    BY <2>1, PowerEquations
  <2>3. PowerOfTwo[(i + 1) + d] \in Nat /\ PowerOfTwo[i + 1] \in Nat
    BY <2>1, PowerEquations
  <2>. QED BY <1>2, <2>2, <2>3
<1>3. Nat \subseteq Above
  <2>. HIDE DEF Above
  <2>. QED BY <1>1, <1>2, NoLeastMissing
<1>4. j - (i + 1) \in Nat /\ (i + 1) + (j - (i + 1)) = j
  OBVIOUS
<1>. QED BY <1>3, <1>4

(* Smaller powers have smaller exponents. *)
LEMMA PowerOrder ==
    ASSUME NEW i \in Nat, NEW j \in Nat
    PROVE  /\ i <= j => PowerOfTwo[i] <= PowerOfTwo[j]
           /\ PowerOfTwo[i] < PowerOfTwo[j] => i < j
<1>1. ASSUME NEW a \in Nat, NEW b \in Nat, a < b PROVE PowerOfTwo[a] < PowerOfTwo[b]
  <2>1. PowerOfTwo[a + 1] <= PowerOfTwo[b] /\ PowerOfTwo[a + 1] = 2 * PowerOfTwo[a]
    BY <1>1, PowerGrows, PowerEquations
  <2>. QED BY <2>1, PowerEquations
<1>2. PowerOfTwo[i] \in Nat /\ PowerOfTwo[j] \in Nat
  BY PowerEquations
<1>3. i <= j => PowerOfTwo[i] <= PowerOfTwo[j]
  BY <1>1, <1>2
<1>4. PowerOfTwo[i] < PowerOfTwo[j] => i < j
  <2>1. j <= i => PowerOfTwo[j] <= PowerOfTwo[i]
    BY <1>1, <1>2
  <2>. QED BY <1>2, <2>1
<1>. QED BY <1>3, <1>4

-----------------------------------------------------------------------------
(* The last doubling, and the bracket on the way to it. *)
LEMMA LastExponentIs ==
    ASSUME StepsSuffice
    PROVE  /\ LastExponent \in 1..(MaxBinarySteps + 1)
           /\ ScaleEnds(LastExponent)
           /\ LastExponent > 1 => ~ScaleEnds(LastExponent - 1)
           /\ LastExponent \in Nat /\ LastExponent - 1 \in Nat
           /\ LastDoubling \in Nat /\ LastDoubling >= 2
<1>. DEFINE Reaching == {k \in Nat : k >= 1 /\ ScaleEnds(k)}
<1>0. MaxBinarySteps \in Nat
  BY SearchAssumption DEF SearchAssumption
<1>1. MaxBinarySteps + 1 \in Reaching
  BY <1>0 DEF StepsSuffice
<1>2. PICK k \in Reaching : \A m \in Reaching : k <= m
  <2>1. Reaching \subseteq Nat /\ Reaching # {}
    BY <1>1
  <2>. HIDE DEF Reaching
  <2>. QED BY <2>1, LeastExists
<1>3. k \in 1..(MaxBinarySteps + 1)
  BY <1>0, <1>1, <1>2
<1>4. k > 1 => ~ScaleEnds(k - 1)
  <2>. SUFFICES ASSUME k > 1, ScaleEnds(k - 1) PROVE FALSE
    OBVIOUS
  <2>1. k - 1 \in Nat /\ k - 1 >= 1
    OBVIOUS
  <2>2. k - 1 \in Reaching
    BY <2>1
  <2>. QED BY <1>2, <2>2
<1>5. /\ LastExponent \in 1..(MaxBinarySteps + 1)
      /\ ScaleEnds(LastExponent)
      /\ LastExponent > 1 => ~ScaleEnds(LastExponent - 1)
  BY <1>2, <1>3, <1>4 DEF LastExponent
<1>. HIDE DEF LastExponent
<1>6. LastExponent \in Nat /\ LastExponent - 1 \in Nat /\ (LastExponent - 1) + 1 = LastExponent
  BY <1>0, <1>5
<1>7. LastDoubling \in Nat /\ LastDoubling >= 2
  <2>1. PowerOfTwo[(LastExponent - 1) + 1] = 2 * PowerOfTwo[LastExponent - 1]
        /\ PowerOfTwo[LastExponent - 1] \in Nat /\ PowerOfTwo[LastExponent - 1] >= 1
    BY <1>6, PowerEquations
  <2>. QED BY <1>6, <2>1 DEF LastDoubling
<1>. QED BY <1>5, <1>6, <1>7

(* The doubling loop does not pass the last doubling: it has reached maxSanityRPS
   there, or k6 does not run the next rate. *)
LEMMA DoublingEnds ==
    ASSUME StepsSuffice, NEW n \in 1..LastExponent
    PROVE  /\ PowerOfTwo[n] <= LastDoubling
           /\ PowerOfTwo[n] >= MaxSanityRPS => n = LastExponent
           /\ PowerOfTwo[n] < MaxSanityRPS /\ n = LastExponent => ~K6Runs(PowerOfTwo[n + 1])
<1>1. /\ n \in Nat /\ n >= 1 /\ n <= LastExponent /\ MaxSanityRPS \in Nat
      /\ LastExponent \in Nat /\ LastExponent - 1 \in Nat
  BY LastExponentIs, SearchAssumption DEF SearchAssumption
<1>2. PowerOfTwo[n] <= LastDoubling
  BY <1>1, PowerOrder DEF LastDoubling
<1>3. PowerOfTwo[n] < MaxSanityRPS /\ n = LastExponent => ~K6Runs(PowerOfTwo[n + 1])
  <2>. SUFFICES ASSUME PowerOfTwo[n] < MaxSanityRPS, ScaleEnds(n)
                PROVE  ~K6Runs(PowerOfTwo[n + 1])
    BY LastExponentIs
  <2>1. PowerOfTwo[n] \in Nat
    BY <1>1, PowerEquations
  <2>. QED BY <1>1, <2>1 DEF ScaleEnds
<1>4. ASSUME PowerOfTwo[n] >= MaxSanityRPS, n < LastExponent PROVE FALSE
  <2>1. n <= LastExponent - 1 /\ LastExponent > 1
    BY <1>1, <1>4
  <2>2. PowerOfTwo[n] <= PowerOfTwo[LastExponent - 1]
    BY <1>1, <2>1, PowerOrder
  <2>3. PowerOfTwo[n] \in Nat /\ PowerOfTwo[LastExponent - 1] \in Nat
    BY <1>1, PowerEquations
  <2>4. ~ScaleEnds(LastExponent - 1)
    BY <2>1, LastExponentIs
  <2>. QED BY <1>1, <1>4, <2>2, <2>3, <2>4 DEF ScaleEnds
<1>. QED BY <1>1, <1>2, <1>3, <1>4

LEMMA InitClosing == ASSUME StepsSuffice PROVE Init => ClosingInv
<1>. SUFFICES ASSUME Init PROVE ClosingInv
  OBVIOUS
<1>1. PowerOfTwo[0] = 1 /\ PowerOfTwo[1] = 2
  <2>1. PowerOfTwo[0 + 1] = 2 * PowerOfTwo[0]
    BY PowerEquations
  <2>. QED BY <2>1, PowerEquations
<1>2. LastExponent \in Nat /\ LastExponent >= 1
  BY LastExponentIs
<1>3. Doubled /\ ProbesBounded
  BY <1>1, <1>2 DEF Init, Doubled, ProbesBounded, InitialRPS, WarmupRPS
<1>4. Halved /\ Closed
  BY DEF Init, Halved, Closed, Searched
<1>. QED BY <1>3, <1>4 DEF ClosingInv

LEMMA MoveCloses ==
    ASSUME ClosingInv, UNCHANGED <<bracket, stepNumber>>,
           pc' \in Unbounded => pc \in Unbounded,
           pc' = "bisect" => pc = "bisect",
           pc' \in {"revalidate", "final"} => pc \in {"revalidate", "final"}
    PROVE  ClosingInv'
<1>1. Doubled' /\ ProbesBounded'
  BY DEF ClosingInv, Doubled, ProbesBounded, bracket
<1>2. Halved'
  BY DEF ClosingInv, Halved, bracket
<1>3. Closed'
  BY DEF ClosingInv, Closed, Searched, bracket
<1>. QED BY <1>1, <1>2, <1>3 DEF ClosingInv

LEMMA DoubleCloses ==
    ASSUME StepsSuffice, SearchInv, ClosingInv, NEW outcome, K6Runs(rps), Double(outcome)
    PROVE  ClosingInv'
<1>1. /\ stepNumber \in 1..(LastExponent + 1) /\ halvings = 0 /\ high = 0
      /\ stepNumber > LastExponent => ~K6Runs(rps)
      /\ rps = PowerOfTwo[stepNumber] /\ low = PowerOfTwo[stepNumber - 1]
      /\ pc = "double" /\ stepNumber' = stepNumber + 1 /\ halvings' = halvings
  BY DEF ClosingInv, Doubled, Double, Unbounded, SearchInv, Doubling
<1>2. /\ stepNumber \in Nat /\ stepNumber >= 1 /\ stepNumber <= LastExponent
      /\ stepNumber \in 1..LastExponent
      /\ stepNumber - 1 \in Nat /\ (stepNumber - 1) + 1 = stepNumber
      /\ LastExponent \in Nat /\ LastExponent >= 1 /\ MaxSanityRPS \in Nat
  BY <1>1, LastExponentIs, SearchAssumption DEF SearchAssumption
<1>3. /\ rps = 2 * low /\ rps \in Nat /\ low \in Nat
      /\ PowerOfTwo[stepNumber + 1] = 2 * rps
  BY <1>1, <1>2, PowerEquations
<1>4. ProbesBounded'
  BY <1>1, <1>2 DEF ProbesBounded
<1>5. CASE outcome = "stopped" /\ high' = rps /\ pc' = "bisect" /\ low' = low
  <2>1. /\ high' - low' = PowerOfTwo[stepNumber - 1]
        /\ stepNumber - 1 \in 0..LastExponent /\ halvings' + (stepNumber - 1) < LastExponent
        /\ stepNumber' = 2 * halvings' + (stepNumber - 1) + 2
    BY <1>1, <1>2, <1>3, <1>5
  <2>2. Halved'
    BY <2>1 DEF Halved
  <2>3. high' # 0
    BY <1>1, <1>5 DEF SearchInv, Doubling, Unbounded, TypeOK
  <2>. QED BY <1>4, <1>5, <2>2, <2>3 DEF ClosingInv, Doubled, Closed, Unbounded
<1>6. CASE /\ outcome = "held" /\ low' = rps /\ high' = high
           /\ rps >= MaxSanityRPS /\ pc' = "bisect"
  <2>1. rps = LastDoubling
    BY <1>1, <1>2, <1>6, DoublingEnds DEF LastDoubling
  <2>. QED BY <1>1, <1>4, <1>6, <2>1 DEF ClosingInv, Doubled, Halved, Closed, Unbounded
<1>7. CASE /\ outcome = "held" /\ low' = rps /\ high' = high
           /\ ~(rps >= MaxSanityRPS) /\ rps' = 2 * rps /\ pc' = pc
  <2>1. stepNumber = LastExponent => ~K6Runs(rps')
    <3>1. PowerOfTwo[stepNumber] < MaxSanityRPS
      BY <1>1, <1>2, <1>3, <1>7
    <3>. QED BY <1>2, <1>3, <1>7, <3>1, DoublingEnds
  <2>2. /\ stepNumber' \in 1..(LastExponent + 1) /\ halvings' = 0 /\ stepNumber' - 1 = stepNumber
        /\ rps' = PowerOfTwo[stepNumber']
        /\ stepNumber' > LastExponent => ~K6Runs(rps')
    BY <1>1, <1>2, <1>3, <1>7, <2>1
  <2>3. Doubled'
    BY <1>1, <1>7, <2>2 DEF Doubled
  <2>. QED BY <1>1, <1>4, <1>7, <2>3 DEF ClosingInv, Halved, Closed, Searched
<1>. QED BY <1>5, <1>6, <1>7 DEF Double

(* Half of an open bracket is the next smaller power of two. *)
LEMMA BisectCloses ==
    ASSUME StepsSuffice, SearchInv, ClosingInv, NEW outcome, Bisect(outcome)
    PROVE  ClosingInv'
<1>1. /\ Mid \in Nat /\ low < Mid /\ Mid < high /\ low \in Nat /\ high \in Nat
      /\ halvings \in Nat /\ stepNumber \in Nat /\ high - low > 1
  BY MidBetween DEF SearchInv, TypeOK, Bisect, Narrowing
<1>2. /\ pc = "bisect" /\ pc' = "bisect" /\ halvings' = halvings + 1
      /\ stepNumber' = stepNumber + 1
      /\ \/ high' = Mid /\ low' = low
         \/ low' = Mid /\ high' = high
  BY DEF Bisect
<1>3. PICK left \in 0..LastExponent :
         /\ high - low = PowerOfTwo[left]
         /\ halvings + left < LastExponent
         /\ stepNumber = 2 * halvings + left + 2
  BY <1>1, <1>2 DEF ClosingInv, Halved
<1>4. LastExponent \in Nat /\ left \in Nat /\ left # 0
  BY <1>1, <1>3, LastExponentIs, PowerEquations
<1>5. left - 1 \in 0..LastExponent /\ left - 1 \in Nat /\ (left - 1) + 1 = left
  BY <1>4
<1>6. high - low = 2 * PowerOfTwo[left - 1] /\ PowerOfTwo[left - 1] \in Nat
  BY <1>3, <1>5, PowerEquations
<1>7. Mid - low = PowerOfTwo[left - 1] /\ high - Mid = PowerOfTwo[left - 1]
  BY <1>1, <1>6 DEF Mid
<1>8. /\ high' - low' = PowerOfTwo[left - 1]
      /\ halvings' + (left - 1) < LastExponent
      /\ stepNumber' = 2 * halvings' + (left - 1) + 2
  BY <1>1, <1>2, <1>3, <1>4, <1>7
<1>9. stepNumber' <= 2 * LastExponent
  BY <1>1, <1>2, <1>4, <1>5, <1>8
<1>10. high' # 0
  BY <1>1, <1>2
<1>11. Halved'
  BY <1>5, <1>8 DEF Halved
<1>. QED BY <1>2, <1>9, <1>10, <1>11 DEF ClosingInv, Doubled, Closed, ProbesBounded, Unbounded

LEMMA EndBisectCloses ==
    ASSUME StepsSuffice, SearchInv, ClosingInv, EndBisect
    PROVE  ClosingInv'
<1>1. /\ pc = "bisect" /\ ~Narrowing /\ pc' = "revalidate" /\ UNCHANGED <<bracket, stepNumber>>
      /\ low \in Nat /\ high \in Nat /\ halvings \in Nat /\ MaxBinarySteps \in Nat
      /\ high > 0 => low < high
  BY SearchAssumption DEF SearchAssumption, EndBisect, SearchInv, TypeOK, Bracketed, steps
<1>2. high = 0 \/ high - low = 1
  <2>. SUFFICES ASSUME high > 0, high - low > 1 PROVE FALSE
    BY <1>1
  <2>1. PICK left \in 0..LastExponent :
           high - low = PowerOfTwo[left] /\ halvings + left < LastExponent
    BY <1>1 DEF ClosingInv, Halved
  <2>2. left \in Nat /\ LastExponent \in Nat /\ LastExponent <= MaxBinarySteps + 1
    BY <1>1, LastExponentIs
  <2>3. left = 0
    BY <1>1, <2>1, <2>2 DEF Narrowing
  <2>. QED BY <1>1, <2>1, <2>3, PowerEquations
<1>3. Closed'
  BY <1>1, <1>2 DEF ClosingInv, Closed, Searched, bracket
<1>. QED BY <1>1, <1>3 DEF ClosingInv, Doubled, Halved, ProbesBounded, Unbounded, bracket

LEMMA ClosingInductive ==
    ASSUME StepsSuffice
    PROVE  SearchInv /\ ClosingInv /\ [Next]_vars => ClosingInv'
<1>. SUFFICES ASSUME SearchInv, ClosingInv, [Next]_vars PROVE ClosingInv'
  OBVIOUS
<1>. USE DEF setting, bracket, steps, Ended, Unbounded
<1>1. CASE \E outcome \in Judge(rps) : Double(outcome)
  BY <1>1, JudgeGives, DoubleCloses
<1>2. CASE \E outcome \in Judge(Mid) : Bisect(outcome)
  BY <1>2, BisectCloses
<1>3. CASE Prepare \/ RunFails \/ Warmup
  BY <1>3, MoveCloses DEF Prepare, RunFails, Warmup
<1>4. CASE ModelReady
  BY <1>4, MoveCloses DEF ModelReady
<1>5. CASE ProbeFails \/ PostReport \/ FixedEnds
  BY <1>5, MoveCloses DEF ProbeFails, PostReport, FixedEnds
<1>6. CASE FinalEnds \/ FinalFails
  BY <1>6, MoveCloses DEF FinalEnds, FinalFails
<1>7. CASE Expire \/ UNCHANGED vars
  BY <1>7, MoveCloses DEF Expire, vars
<1>. QED
  BY <1>1, <1>2, <1>3, <1>4, <1>5, <1>6, <1>7, EndBisectCloses DEF Next, Advance

LEMMA ClosingInvariant == ASSUME StepsSuffice PROVE Spec => []ClosingInv
BY InitClosing, SearchInvariant, ClosingInductive, PTL DEF Spec

(* Where maxBinarySteps halvings span what the doubling loop can leave open, the
   binary search is exact: the rates that held and that did not are neighbours. *)
THEOREM SearchIsExact == ASSUME StepsSuffice PROVE Spec => []BracketCloses
<1>1. ClosingInv => BracketCloses
  BY DEF ClosingInv, Closed, BracketCloses
<1>. QED BY <1>1, ClosingInvariant, PTL

(* A search takes no more than two probes for each doubling of the rate. *)
THEOREM SearchIsShort == ASSUME StepsSuffice PROVE Spec => []ProbesBounded
<1>1. ClosingInv => ProbesBounded
  BY DEF ClosingInv
<1>. QED BY <1>1, ClosingInvariant, PTL

-----------------------------------------------------------------------------
(* Without noise the search finds the capacity. *)
LEMMA InitAnswers == Init => CapacityInside
BY DEF Init, CapacityInside, BestIsCapacity, WarmupRPS

LEMMA MoveAnswers ==
    ASSUME CapacityInside, UNCHANGED <<setting, bracket, report>>
    PROVE  CapacityInside'
BY DEF CapacityInside, BestIsCapacity, Searching, setting, bracket

LEMMA DoubleAnswers ==
    ASSUME ~Noisy, StepsSuffice, SearchInv, ClosingInv, CapacityInside,
           NEW outcome \in Judge(rps), Double(outcome)
    PROVE  CapacityInside'
<1>1. pc = "double" /\ high = 0 /\ UNCHANGED <<setting, report>>
  BY DEF Double, SearchInv, Doubling, Unbounded
<1>2. rps \in Nat /\ low \in Nat /\ capacity \in Nat
  BY DEF SearchInv, TypeOK
<1>3. rps <= LastDoubling
  <2>1. stepNumber \in 1..LastExponent /\ rps = PowerOfTwo[stepNumber]
    BY <1>1, JudgeGives, LastExponentIs DEF ClosingInv, Doubled, Unbounded
  <2>. QED BY <2>1, DoublingEnds
<1>4. outcome = "held" <=> rps <= capacity
  BY DEF Judge
<1>5. BestIsCapacity'
  BY <1>1 DEF CapacityInside, BestIsCapacity, Searching, setting
<1>6. CASE outcome = "stopped" /\ high' = rps /\ low' = low
  <2>1. capacity < rps
    BY <1>2, <1>4, <1>6
  <2>2. rps # 0
    BY <1>1, <1>2 DEF SearchInv, Doubling, Unbounded
  <2>. QED BY <1>1, <1>3, <1>5, <1>6, <2>1, <2>2 DEF CapacityInside, setting
<1>7. CASE outcome = "held" /\ low' = rps /\ high' = high
  BY <1>1, <1>4, <1>5, <1>7 DEF CapacityInside, setting
<1>. QED BY <1>6, <1>7 DEF Double

LEMMA BisectAnswers ==
    ASSUME ~Noisy, SearchInv, CapacityInside, LastDoubling \in Nat,
           NEW outcome \in Judge(Mid), Bisect(outcome)
    PROVE  CapacityInside'
<1>1. Mid \in Nat /\ low < Mid /\ Mid < high /\ low \in Nat /\ high \in Nat /\ capacity \in Nat
  BY MidBetween DEF SearchInv, TypeOK, Bisect, Narrowing
<1>2. UNCHANGED <<setting, report>> /\ pc' = pc
  BY DEF Bisect
<1>3. outcome = "held" <=> Mid <= capacity
  BY DEF Judge
<1>4. BestIsCapacity'
  BY <1>2 DEF CapacityInside, BestIsCapacity, Searching, setting
<1>5. (low = WarmupRPS \/ low <= capacity) /\ capacity < high /\ high <= LastDoubling
  BY <1>1 DEF CapacityInside
<1>6. CASE outcome = "stopped" /\ high' = Mid /\ low' = low
  <2>1. capacity < Mid /\ Mid <= LastDoubling /\ Mid # 0
    BY <1>1, <1>3, <1>5, <1>6
  <2>. QED BY <1>2, <1>4, <1>5, <1>6, <2>1 DEF CapacityInside, setting
<1>7. CASE outcome = "held" /\ low' = Mid /\ high' = high
  <2>1. Mid <= capacity /\ high # 0
    BY <1>1, <1>3, <1>7
  <2>. QED BY <1>2, <1>4, <1>5, <1>7, <2>1 DEF CapacityInside, setting
<1>8. outcome \in {"held", "stopped"}
  BY JudgeGives
<1>. QED BY <1>6, <1>7, <1>8 DEF Bisect

(* The closed bracket has the capacity, or the end of a scale, at its lower bound. *)
LEMMA PostReportAnswers ==
    ASSUME SearchInv, ClosingInv, CapacityInside, LastDoubling \in Nat, LastDoubling >= 2, PostReport
    PROVE  CapacityInside'
<1>1. UNCHANGED <<setting, bracket, pc>>
  BY DEF PostReport
<1>2. low \in Nat /\ low >= 1 /\ high \in Nat /\ capacity \in Nat
  BY DEF SearchInv, TypeOK, Bracketed
<1>3. BestIsCapacity'
  <2>1. CASE pc = "fixed"
    BY <1>1, <2>1 DEF SearchInv, Reported, BestIsCapacity, Searching, setting
  <2>2. CASE pc = "final" /\ report' = low
    <3>1. /\ low = 1 \/ low <= capacity
          /\ \/ high = 0 /\ low = LastDoubling /\ LastDoubling >= MaxSanityRPS
             \/ high - low = 1 /\ capacity < high /\ high <= LastDoubling
      BY <1>2, <2>2 DEF ClosingInv, Closed, Searched, CapacityInside, WarmupRPS
    <3>2. low = IF capacity < 1 THEN 1
                ELSE IF capacity > LastDoubling THEN LastDoubling ELSE capacity
      <4>1. CASE high = 0 /\ low = LastDoubling
        BY <1>2, <3>1, <4>1
      <4>2. CASE high - low = 1 /\ capacity < high /\ high <= LastDoubling
        <5>1. capacity <= low
          BY <1>2, <4>2
        <5>2. ~(capacity > LastDoubling)
          BY <1>2, <4>2
        <5>3. low # 1 => low = capacity
          BY <1>2, <3>1, <5>1
        <5>. QED BY <1>2, <3>1, <5>1, <5>2, <5>3
      <4>. QED BY <3>1, <4>1, <4>2
    <3>3. capacity >= LastDoubling => LastDoubling >= MaxSanityRPS
      BY <1>2, <3>1
    <3>. QED BY <1>1, <2>2, <3>2, <3>3 DEF BestIsCapacity, WarmupRPS, setting
  <2>. QED BY <2>1, <2>2 DEF PostReport
<1>. QED BY <1>1, <1>3 DEF CapacityInside, setting, bracket

LEMMA AnswersInductive ==
    ASSUME ~Noisy, StepsSuffice
    PROVE  SearchInv /\ ClosingInv /\ CapacityInside /\ [Next]_vars => CapacityInside'
<1>. SUFFICES ASSUME SearchInv, ClosingInv, CapacityInside, [Next]_vars PROVE CapacityInside'
  OBVIOUS
<1>. USE DEF steps, Ended
<1>0. LastDoubling \in Nat /\ LastDoubling >= 2
  BY LastExponentIs
<1>1. CASE \E outcome \in Judge(rps) : Double(outcome)
  BY <1>1, DoubleAnswers
<1>2. CASE \E outcome \in Judge(Mid) : Bisect(outcome)
  BY <1>0, <1>2, BisectAnswers
<1>3. CASE Prepare \/ RunFails \/ Warmup
  BY <1>3, MoveAnswers DEF Prepare, RunFails, Warmup
<1>4. CASE ModelReady \/ EndBisect
  BY <1>4, MoveAnswers DEF ModelReady, EndBisect
<1>5. CASE ProbeFails \/ FixedEnds
  BY <1>5, MoveAnswers DEF ProbeFails, FixedEnds
<1>6. CASE FinalEnds \/ FinalFails
  BY <1>6, MoveAnswers DEF FinalEnds, FinalFails
<1>7. CASE Expire \/ UNCHANGED vars
  BY <1>7, MoveAnswers DEF Expire, vars
<1>8. CASE PostReport
  BY <1>0, <1>8, PostReportAnswers
<1>. QED BY <1>1, <1>2, <1>3, <1>4, <1>5, <1>6, <1>7, <1>8 DEF Next, Advance

(* A search of a model that holds exactly up to its capacity reports the capacity, or
   the end of the scale it lies beyond; and it reports nothing if that end is where k6
   stops. *)
THEOREM SearchFindsCapacity ==
    ASSUME ~Noisy, StepsSuffice
    PROVE  Spec => []BestIsCapacity
<1>1. CapacityInside => BestIsCapacity
  BY DEF CapacityInside
<1>2. Spec => []CapacityInside
  BY ClosingInvariant, InitAnswers, SearchInvariant, AnswersInductive, PTL DEF Spec
<1>. QED BY <1>1, <1>2, PTL

(* The constants of the program are such.  The last doubling is 2 ^ 12: it is maxVUs that
   ends the scale, far below maxSanityRPS, and a search has 24 steps at most. *)
THEOREM DeployedBoundsSuffice ==
    ASSUME MaxSanityRPS = 1000000, MaxBinarySteps = 20, MaxVUs = 5000
    PROVE  /\ StepsSuffice /\ LastExponent = 12
           /\ LastDoubling = 4096 /\ LastDoubling < MaxSanityRPS
<1>. DEFINE P(n) == PowerOfTwo[n]
<1>1. P(0) = 1 /\ \A n \in Nat : P(n + 1) = 2 * P(n) /\ P(n) \in Nat
  BY PowerEquations
<1>. HIDE DEF P
<1>2. P(1) = 2 /\ P(2) = 4
  <2>1. P(0 + 1) = 2 * P(0) /\ P(1 + 1) = 2 * P(1)
    BY <1>1
  <2>. QED BY <1>1, <2>1
<1>3. \A n \in Nat : P(n + 3) = 8 * P(n)
  <2>. SUFFICES ASSUME NEW n \in Nat PROVE P(n + 3) = 8 * P(n)
    OBVIOUS
  <2>1. P(n + 1) = 2 * P(n) /\ P((n + 1) + 1) = 2 * P(n + 1) /\ P(((n + 1) + 1) + 1) = 2 * P((n + 1) + 1)
    BY <1>1
  <2>2. ((n + 1) + 1) + 1 = n + 3 /\ P(n) \in Nat
    BY <1>1
  <2>. QED BY <2>1, <2>2
<1>4. P(11) = 2048 /\ P(12) = 4096 /\ P(13) = 8192 /\ P(22) = 4194304
  <2>1. /\ P(2 + 3) = 8 * P(2) /\ P(5 + 3) = 8 * P(5) /\ P(8 + 3) = 8 * P(8)
        /\ P(11 + 1) = 2 * P(11) /\ P(12 + 1) = 2 * P(12)
        /\ P(13 + 3) = 8 * P(13) /\ P(16 + 3) = 8 * P(16) /\ P(19 + 3) = 8 * P(19)
    BY <1>1, <1>3
  <2>. QED BY <1>2, <2>1
<1>5. /\ ScaleEnds(21) /\ ScaleEnds(12)
      /\ \A k \in Nat : ScaleEnds(k) <=> P(k) >= 1000000 \/ P(k + 1) > 5000
  <2>1. \A k \in Nat : ScaleEnds(k) <=> P(k) >= 1000000 \/ P(k + 1) > 5000
    BY <1>1 DEF P, ScaleEnds, K6Runs
  <2>2. 21 + 1 = 22 /\ 12 + 1 = 13
    OBVIOUS
  <2>. QED BY <1>4, <2>1, <2>2
<1>6. StepsSuffice
  <2>1. MaxBinarySteps + 1 = 21
    OBVIOUS
  <2>. QED BY <1>5, <2>1 DEF StepsSuffice
<1>7. /\ LastExponent \in Nat /\ LastExponent >= 1 /\ LastExponent - 1 \in Nat
      /\ P(LastExponent) >= 1000000 \/ P(LastExponent + 1) > 5000
      /\ LastExponent > 1 => P((LastExponent - 1) + 1) <= 5000
  <2>1. /\ LastExponent \in Nat /\ LastExponent >= 1 /\ LastExponent - 1 \in Nat
        /\ ScaleEnds(LastExponent) /\ (LastExponent > 1 => ~ScaleEnds(LastExponent - 1))
    BY <1>6, LastExponentIs
  <2>2. P((LastExponent - 1) + 1) \in Nat
    BY <1>1, <2>1
  <2>. QED BY <1>5, <2>1, <2>2
<1>8. LastExponent >= 12
  <2>1. LastExponent <= 11 => P(LastExponent) <= P(11) /\ P(LastExponent + 1) <= P(12)
    BY <1>7, PowerOrder DEF P
  <2>2. P(LastExponent) \in Nat /\ P(LastExponent + 1) \in Nat
    BY <1>1, <1>7
  <2>. QED BY <1>4, <1>7, <2>1, <2>2
<1>9. LastExponent <= 12
  <2>1. LastExponent >= 13 => P(13) <= P(LastExponent)
    BY <1>7, PowerOrder DEF P
  <2>2. (LastExponent - 1) + 1 = LastExponent /\ P(LastExponent) \in Nat
    BY <1>1, <1>7
  <2>. QED BY <1>4, <1>7, <2>1, <2>2
<1>10. LastExponent = 12
  BY <1>7, <1>8, <1>9
<1>. QED BY <1>4, <1>6, <1>10 DEF P, LastDoubling
=============================================================================
