---------------------------- MODULE RunPagesProofs ----------------------------
(***************************************************************************)
(* Proofs about what is stored of a search and shown of it (modules        *)
(* SearchView and RunPages), for any bounds and default SLO, any model and *)
(* any measurements of k6, and whatever happens to the posts: first about  *)
(* the steps and the sums over them, then about the answers of the two     *)
(* pages while the run is reported, failed and read.                       *)
(***************************************************************************)
EXTENDS RunPages, ExecutorSearchProofs

-----------------------------------------------------------------------------
(* Max and Min of the sets of rates and of numbers met here. *)
LEMMA MinIsLeast ==
    ASSUME NEW S, S \subseteq Nat, S # {}
    PROVE  Min(S) \in S /\ \A y \in S : Min(S) <= y
<1>1. \E x \in S : \A y \in S : x <= y
  BY LeastExists
<1>. QED BY <1>1 DEF Min

LEMMA MaxIsGreatest ==
    ASSUME NEW S, S \subseteq Nat, S # {}, NEW b \in Nat, \A x \in S : x <= b
    PROVE  Max(S) \in S /\ \A y \in S : y <= Max(S)
<1>. DEFINE Below == {b - x : x \in S}
<1>1. \A x \in S : b - x \in Nat
  OBVIOUS
<1>2. Below \subseteq Nat /\ Below # {}
  BY <1>1
<1>3. \E d \in Below : \A e \in Below : d <= e
  BY <1>2, LeastExists
<1>4. PICK x \in S : \A e \in Below : b - x <= e
  BY <1>3
<1>5. \A y \in S : x >= y
  <2>. SUFFICES ASSUME NEW y \in S PROVE x >= y
    OBVIOUS
  <2>1. b - x <= b - y
    BY <1>4
  <2>. QED BY <2>1
<1>6. Max(S) \in S /\ \A y \in S : Max(S) >= y
  BY <1>5 DEF Max
<1>. QED BY <1>6

-----------------------------------------------------------------------------
(* The steps of the executor. *)
Bounded == \E b \in Nat : \A s \in measured : s.rps <= b

Parts == /\ \A s \in measured : Sorted(s)
         /\ FirstProbe /\ FixedIsPlain /\ Bounded

LEMMA MoveShows ==
    ASSUME Parts, measured' = measured, low' = low, rps' = rps, request' = request,
           pc \in Ended => pc' \in Ended,
           pc' \in Unbounded => pc \in Unbounded,
           pc' = "bisect" => pc = "bisect",
           ~Searching => pc' \in {"start", "wait", "fixed"} \cup Ended
    PROVE  Parts'
<1>1. \A s \in measured' : Sorted(s)'
  BY DEF Parts, Sorted
<1>2. FirstProbe'
  BY DEF Parts, FirstProbe
<1>3. FixedIsPlain'
  BY DEF Parts, FixedIsPlain, Searching
<1>4. Bounded'
  BY DEF Parts, Bounded
<1>. QED BY <1>1, <1>2, <1>3, <1>4 DEF Parts

LEMMA BoundedStep ==
    ASSUME Bounded, measured \subseteq Step, NEW s \in Step, measured' = measured \cup {s}
    PROVE  Bounded'
<1>1. PICK b \in Nat : \A t \in measured : t.rps <= b
  BY DEF Bounded
<1>2. s.rps \in Nat /\ \A t \in measured : t.rps \in Nat
  BY DEF Step
<1>3. \A t \in measured' : t.rps <= b + s.rps
  BY <1>1, <1>2
<1>. QED BY <1>2, <1>3 DEF Bounded

(* A probe, of the doubling loop or of the binary search. *)
LEMMA ProbeShows ==
    ASSUME SearchInv, Parts, pc \in {"double", "bisect"}, pc' \in {"double", "bisect", "failed"},
           request' = request,
           NEW s \in Step, measured' = measured \cup {s}, s.number = stepNumber,
           s.final = FALSE, pc = "double" => s.rps = rps,
           \A t \in measured' : ~t.final => (t.outcome = "held" <=> t.rps <= low')
    PROVE  Parts'
<1>1. /\ measured \subseteq Step
      /\ \A t \in measured : ~t.final
      /\ \A t \in measured : t.number < stepNumber
  BY DEF Parts, Sorted, SearchInv, TypeOK, Numbered, Ended
<1>2. \A t \in measured' : Sorted(t)'
  BY <1>1 DEF Sorted
<1>3. s.rps = InitialRPS \/ \E t \in measured : ~t.final /\ t.number < s.number
  BY <1>1 DEF Parts, FirstProbe, Unbounded
<1>4. \A t \in measured : t.rps = InitialRPS \/ \E u \in measured : ~u.final /\ u.number < t.number
  BY <1>1 DEF Parts, FirstProbe
<1>5. FirstProbe'
  BY <1>3, <1>4 DEF FirstProbe
<1>6. FixedIsPlain'
  BY DEF Parts, FixedIsPlain, Searching, Ended
<1>7. Bounded'
  BY <1>1, BoundedStep DEF Parts
<1>. QED BY <1>2, <1>5, <1>6, <1>7 DEF Parts

LEMMA DoubleShows ==
    ASSUME SearchInv, Parts, NEW outcome \in {"held", "stopped"}, Double(outcome)
    PROVE  Parts'
<1>1. PICK s \in Step : /\ measured' = measured \cup {s}
                        /\ s.number = stepNumber /\ s.rps = rps
                        /\ s.outcome = outcome /\ s.final = FALSE
  <2>1. TypeOK /\ rps \in Nat /\ outcome \in Outcome /\ Record(rps, outcome, FALSE)
    BY DEF SearchInv, TypeOK, Double, Outcome
  <2>. QED BY <2>1, RecordAdds
<1>2. /\ pc = "double" /\ pc' \in {"double", "bisect"} /\ request' = request
      /\ \/ outcome = "stopped" /\ low' = low
         \/ outcome = "held" /\ low' = rps
  BY DEF Double, setting
<1>3. low < rps /\ low \in Nat /\ rps \in Nat /\ \A t \in measured : t.rps \in Nat
  BY <1>2 DEF SearchInv, Doubling, Unbounded, TypeOK, Step
<1>4. \A t \in measured : ~t.final => t.outcome = "held" /\ t.rps <= low
  BY <1>2 DEF SearchInv, Doubling, Unbounded, Bracketed
<1>5. \A t \in measured' : ~t.final => (t.outcome = "held" <=> t.rps <= low')
  BY <1>1, <1>2, <1>3, <1>4
<1>. QED BY <1>1, <1>2, <1>5, ProbeShows

LEMMA BisectShows ==
    ASSUME SearchInv, Parts, NEW outcome \in {"held", "stopped"}, Bisect(outcome)
    PROVE  Parts'
<1>1. Mid \in Nat /\ low < Mid /\ Mid < high /\ low \in Nat /\ high \in Nat
  BY MidBetween DEF SearchInv, TypeOK, Bisect, Narrowing
<1>2. PICK s \in Step : /\ measured' = measured \cup {s}
                        /\ s.number = stepNumber /\ s.rps = Mid
                        /\ s.outcome = outcome /\ s.final = FALSE
  <2>1. TypeOK /\ outcome \in Outcome /\ Record(Mid, outcome, FALSE)
    BY DEF SearchInv, Bisect, Outcome
  <2>. QED BY <1>1, <2>1, RecordAdds
<1>3. /\ pc = "bisect" /\ pc' = "bisect" /\ request' = request
      /\ \/ outcome = "stopped" /\ low' = low
         \/ outcome = "held" /\ low' = Mid
  BY DEF Bisect, setting
<1>4. \A t \in measured :
         ~t.final => /\ t.outcome = "held" <=> t.rps <= low
                     /\ t.rps \in Nat
                     /\ t.rps <= low \/ t.rps >= high
  BY <1>3 DEF SearchInv, Bracketed, Parts, Sorted, TypeOK, Step
<1>5. \A t \in measured : ~t.final => (t.outcome = "held" <=> t.rps <= low')
  <2>. SUFFICES ASSUME NEW t \in measured, ~t.final PROVE t.rps <= low <=> t.rps <= low'
    BY <1>4
  <2>1. t.rps \in Nat /\ (t.rps <= low \/ t.rps >= high)
    BY <1>4
  <2>. QED BY <1>1, <1>3, <2>1
<1>6. s.outcome = "held" <=> s.rps <= low'
  BY <1>1, <1>2, <1>3
<1>7. \A t \in measured' : ~t.final => (t.outcome = "held" <=> t.rps <= low')
  BY <1>2, <1>5, <1>6
<1>. QED BY <1>2, <1>3, <1>7, ProbeShows

LEMMA ProbeFailsShows == ASSUME SearchInv, Parts, ProbeFails PROVE Parts'
<1>. USE DEF setting, bracket
<1>0. /\ rps \in Nat /\ low \in Nat /\ high \in Nat /\ TypeOK
      /\ pc \in {"double", "bisect"} /\ pc' = "failed" /\ request' = request /\ low' = low
      /\ "broken" \in Outcome
  BY DEF SearchInv, TypeOK, ProbeFails, Outcome
<1>1. PICK s \in Step : /\ measured' = measured \cup {s} /\ s.number = stepNumber
                        /\ s.outcome = "broken" /\ s.final = FALSE
                        /\ low < s.rps /\ (pc = "double" => s.rps = rps)
  <2>1. CASE pc = "double" /\ Record(rps, "broken", FALSE)
    <3>1. low < rps
      BY <2>1 DEF SearchInv, Doubling, Unbounded
    <3>2. PICK outcome \in Outcome : outcome = "broken" /\ Record(rps, outcome, FALSE)
      BY <1>0, <2>1
    <3>3. PICK s \in Step : /\ measured' = measured \cup {s}
                            /\ s.number = stepNumber /\ s.rps = rps
                            /\ s.outcome = outcome /\ s.final = FALSE
      BY <1>0, <3>2, RecordAdds
    <3>. QED BY <3>1, <3>2, <3>3
  <2>2. CASE pc = "bisect" /\ Narrowing /\ Record(Mid, "broken", FALSE)
    <3>1. Mid \in Nat /\ low < Mid
      BY <1>0, <2>2, MidBetween DEF Narrowing
    <3>2. PICK outcome \in Outcome : outcome = "broken" /\ Record(Mid, outcome, FALSE)
      BY <1>0, <2>2
    <3>3. PICK s \in Step : /\ measured' = measured \cup {s}
                            /\ s.number = stepNumber /\ s.rps = Mid
                            /\ s.outcome = outcome /\ s.final = FALSE
      BY <1>0, <3>1, <3>2, RecordAdds
    <3>. QED BY <2>2, <3>1, <3>2, <3>3
  <2>. QED BY <2>1, <2>2 DEF ProbeFails
<1>2. ~(s.rps <= low)
  BY <1>0, <1>1 DEF Step
<1>3. \A t \in measured' : ~t.final => (t.outcome = "held" <=> t.rps <= low')
  BY <1>0, <1>1, <1>2 DEF Parts, Sorted
<1>. QED BY <1>0, <1>1, <1>3, ProbeShows

LEMMA FinalShows ==
    ASSUME SearchInv, Parts, FinalEnds \/ FinalFails
    PROVE  Parts'
<1>. USE DEF setting, bracket
<1>0. /\ pc = "final" /\ pc' \in Ended /\ request' = request /\ low' = low
      /\ \E outcome \in Outcome : Record(low, outcome, TRUE)
      /\ low \in Nat /\ TypeOK
  BY DEF FinalEnds, FinalFails, Outcome, Ended, SearchInv, TypeOK
<1>1. PICK s \in Step : /\ measured' = measured \cup {s} /\ s.number = stepNumber
                        /\ s.rps = low /\ s.final = TRUE
  BY <1>0, RecordAdds
<1>2. /\ measured \subseteq Step
      /\ \A t \in measured : ~t.final
      /\ \A t \in measured' : t.number <= s.number
  BY <1>0, <1>1 DEF Parts, Sorted, SearchInv, TypeOK, Numbered, Ended, Step
<1>3. \A t \in measured' : Sorted(t)'
  BY <1>0, <1>1, <1>2 DEF Parts, Sorted
<1>4. FirstProbe'
  BY <1>0, <1>1, <1>2 DEF Parts, FirstProbe, Unbounded, Ended
<1>5. FixedIsPlain'
  BY <1>0 DEF Parts, FixedIsPlain, Searching, Ended
<1>6. Bounded'
  BY <1>1, <1>2, BoundedStep DEF Parts
<1>. QED BY <1>3, <1>4, <1>5, <1>6 DEF Parts

LEMMA PartsInductive == SearchInv /\ Parts /\ [Next]_vars => Parts'
<1>. SUFFICES ASSUME SearchInv, Parts, [Next]_vars PROVE Parts'
  OBVIOUS
<1>. USE DEF setting, bracket, steps, Ended, Unbounded
<1>0. ~Searching => pc \in {"start", "wait", "fixed"} \cup Ended
  BY DEF Parts, FixedIsPlain
<1>1. CASE \E outcome \in Judge(rps) : Double(outcome)
  BY <1>1, JudgeGives, DoubleShows
<1>2. CASE \E outcome \in Judge(Mid) : Bisect(outcome)
  BY <1>2, JudgeGives, BisectShows
<1>3. CASE Prepare \/ RunFails \/ Warmup
  BY <1>0, <1>3, MoveShows DEF Prepare, RunFails, Warmup
<1>4. CASE ModelReady
  BY <1>0, <1>4, MoveShows DEF ModelReady
<1>5. CASE EndBisect \/ PostReport \/ FixedEnds
  BY <1>0, <1>5, MoveShows DEF EndBisect, PostReport, FixedEnds
<1>6. CASE Expire \/ UNCHANGED vars
  BY <1>0, <1>6, MoveShows DEF Expire, vars
<1>. QED
  BY <1>1, <1>2, <1>3, <1>4, <1>5, <1>6, ProbeFailsShows, FinalShows DEF Next, Advance

-----------------------------------------------------------------------------
(* The steps of the view. *)
ShownInv == ViewInv /\ Bounded

LEMMA ShownIsParts == ShownInv <=> SearchInv /\ ViewTypeOK /\ Parts
BY DEF ShownInv, ViewInv, Parts

LEMMA InitShown == ViewInit => ShownInv
<1>. SUFFICES ASSUME ViewInit PROVE ShownInv
  OBVIOUS
<1>1. SearchInv
  BY InitSearch DEF ViewInit
<1>2. ViewTypeOK /\ Parts
  BY DEF ViewInit, Init, ViewTypeOK, Parts, FirstProbe, FixedIsPlain, Bounded
<1>. QED BY <1>1, <1>2, ShownIsParts

(* Nothing that was measured is forgotten. *)
LEMMA MeasuredGrows == [Next]_vars => measured \subseteq measured'
<1>. USE DEF steps, Record
<1>1. Next => measured \subseteq measured'
  BY DEF Next, Advance, Prepare, ModelReady, RunFails, Warmup, EndBisect, ProbeFails, Double,
         Bisect, PostReport, FixedEnds, FinalEnds, FinalFails, Expire
<1>. QED BY <1>1 DEF vars

LEMMA ViewStepShown == ShownInv /\ [ViewNext]_viewVars => ShownInv'
<1>. SUFFICES ASSUME ShownInv, [ViewNext]_viewVars PROVE ShownInv'
  OBVIOUS
<1>1. [Next]_vars
  BY DEF ViewNext, viewVars, Execute, Kill, AcceptSearchSteps
<1>2. SearchInv' /\ Parts'
  BY <1>1, ShownIsParts, SearchInductive, PartsInductive
<1>3. measured \subseteq measured' /\ ViewTypeOK
  BY <1>1, ShownIsParts, MeasuredGrows
<1>4. ViewTypeOK'
  <2>1. CASE Execute
    BY <1>3, <2>1 DEF Execute, Post, ViewTypeOK
  <2>2. CASE Kill
    BY <1>3, <2>2 DEF Kill, ViewTypeOK
  <2>3. ASSUME NEW s \in posts, AcceptSearchSteps(s) PROVE ViewTypeOK'
    BY <1>3, <2>3 DEF AcceptSearchSteps, Save, ViewTypeOK
  <2>4. CASE UNCHANGED viewVars
    BY <1>3, <2>4 DEF viewVars, ViewTypeOK
  <2>. QED BY <2>1, <2>2, <2>3, <2>4 DEF ViewNext
<1>. QED BY <1>2, <1>4, ShownIsParts DEF Parts, ShownInv, ViewInv

LEMMA ShownInvariant == ViewSpec => []ShownInv
BY InitShown, ViewStepShown, PTL DEF ViewSpec

-----------------------------------------------------------------------------
(* What the sums over the stored steps are. *)
LEMMA RowTypes ==
    ASSUME ShownInv
    PROVE  /\ table \subseteq measured
           /\ low \in Nat /\ low >= 1
           /\ \A s \in measured : s.rps \in Nat /\ s.number \in Nat
           /\ \A s \in table : Sorted(s)
           /\ \A s, t \in table : s.number = t.number => s = t
BY DEF ShownInv, ViewInv, ViewTypeOK, SearchInv, TypeOK, Step, Bracketed, Numbered,
       StepsAreNumbered

(* What is stable held, so it is not above low. *)
LEMMA StableBelow == ASSUME ShownInv, NEW x \in Stable(table) PROVE x \in Nat /\ x <= low
<1>1. PICK l \in Latest(table) : l.outcome = "held" /\ x = l.rps
  BY DEF Stable
<1>2. l \in table /\ l \in measured /\ Sorted(l)
  BY <1>1, RowTypes DEF Latest
<1>. QED BY <1>1, <1>2, RowTypes DEF Sorted

LEMMA MaxStableGreatest ==
    ASSUME ShownInv
    PROVE  /\ MaxStable(table) \in Stable(table) \cup {0}
           /\ MaxStable(table) \in Nat /\ MaxStable(table) <= low
           /\ \A x \in Stable(table) : x <= MaxStable(table)
<1>. DEFINE S == Stable(table) \cup {0}
<1>1. S \subseteq Nat /\ S # {} /\ low \in Nat /\ \A x \in S : x <= low
  BY StableBelow, RowTypes
<1>2. Max(S) \in S /\ \A y \in S : y <= Max(S)
  BY <1>1, MaxIsGreatest
<1>. QED BY <1>1, <1>2 DEF MaxStable

(* What is called a limit is not below low, and is low only if the final run broke. *)
LEMMA StoppedAbove ==
    ASSUME ShownInv, NEW k \in Latest(table), k.outcome # "held"
    PROVE  k.rps \in Nat /\ (low < k.rps \/ (k.final /\ k.rps = low))
<1>1. k \in table /\ k \in measured /\ Sorted(k)
  BY RowTypes DEF Latest
<1>2. k.rps \in Nat /\ low \in Nat
  BY <1>1, RowTypes
<1>. QED BY <1>1, <1>2 DEF Sorted

LEMMA StableBelowStopped ==
    ASSUME ShownInv, NEW x \in Stable(table), NEW y \in Stopped(table)
    PROVE  x \in Nat /\ y \in Nat /\ x < y
<1>1. PICK l \in Latest(table) : l.outcome = "held" /\ x = l.rps
  BY DEF Stable
<1>2. PICK k \in Latest(table) : k.outcome # "held" /\ y = k.rps
  BY DEF Stopped
<1>3. /\ x \in Nat /\ x <= low /\ low \in Nat
      /\ y \in Nat /\ (low < y \/ y = low)
  BY <1>2, StableBelow, StoppedAbove, RowTypes
<1>4. x # y
  <2>. SUFFICES ASSUME x = y PROVE FALSE
    OBVIOUS
  <2>1. l \in table /\ k \in table /\ l.number <= k.number /\ k.number <= l.number
    BY <1>1, <1>2 DEF Latest
  <2>2. l.number \in Nat /\ k.number \in Nat
    BY <2>1, RowTypes
  <2>3. l.number = k.number
    BY <2>1, <2>2
  <2>. QED BY <1>1, <1>2, <2>1, <2>3, RowTypes
<1>. QED BY <1>3, <1>4

LEMMA ConsistentPage == ShownInv => PageIsConsistent
<1>. SUFFICES ASSUME ShownInv, MaxStable(table) > 0, StopRPS(table) > 0
              PROVE  MaxStable(table) < StopRPS(table)
  BY DEF PageIsConsistent
<1>1. MaxStable(table) \in Stable(table)
  BY MaxStableGreatest
<1>2. Stopped(table) # {} /\ StopRPS(table) = Min(Stopped(table))
  BY DEF StopRPS
<1>3. Stopped(table) \subseteq Nat
  BY <1>1, StableBelowStopped
<1>4. StopRPS(table) \in Stopped(table)
  BY <1>2, <1>3, MinIsLeast
<1>. QED BY <1>1, <1>4, StableBelowStopped

(* Of the steps of a rate one is the latest. *)
LEMMA LatestOfRate ==
    ASSUME ShownInv, NEW s \in table
    PROVE  \E l \in Latest(table) : l.rps = s.rps
<1>. DEFINE Numbers == {t.number : t \in {u \in table : u.rps = s.rps}}
<1>1. table \subseteq measured /\ \A t \in table : t.number \in Nat /\ t.number <= stepNumber
  BY DEF ShownInv, ViewInv, ViewTypeOK, SearchInv, TypeOK, Step, Numbered
<1>2. stepNumber \in Nat
  BY DEF ShownInv, ViewInv, SearchInv, TypeOK
<1>3. Numbers \subseteq Nat /\ Numbers # {} /\ \A n \in Numbers : n <= stepNumber
  BY <1>1
<1>4. PICK n \in Numbers : \A k \in Numbers : k <= n
  <2>. HIDE DEF Numbers
  <2>. QED BY <1>2, <1>3, MaxIsGreatest
<1>5. PICK l \in table : l.rps = s.rps /\ l.number = n
  OBVIOUS
<1>6. \A t \in table : t.rps = l.rps => t.number <= l.number
  BY <1>4, <1>5
<1>. QED BY <1>5, <1>6 DEF Latest

LEMMA ReportOnPage == ShownInv => PageShowsReport
<1>. SUFFICES ASSUME ShownInv, Searching, report > WarmupRPS, ProbesStored,
                     \A s \in table : s.final => s.outcome = "held"
              PROVE  MaxStable(table) = report
  BY DEF PageShowsReport
<1>1. report = low /\ low # WarmupRPS
  BY DEF ShownInv, ViewInv, SearchInv, Reported, WarmupRPS
<1>2. PICK s \in table : ~s.final /\ s.rps = low
  BY <1>1 DEF ShownInv, ViewInv, SearchInv, Bracketed, ProbesStored
<1>3. PICK l \in Latest(table) : l.rps = low
  BY <1>2, LatestOfRate
<1>4. l \in table /\ Sorted(l) /\ low \in Nat
  BY RowTypes DEF Latest
<1>5. l.outcome = "held"
  BY <1>3, <1>4 DEF Sorted
<1>6. low \in Stable(table)
  BY <1>3, <1>5 DEF Stable
<1>7. low <= MaxStable(table) /\ MaxStable(table) <= low /\ MaxStable(table) \in Nat
  BY <1>6, MaxStableGreatest
<1>. QED BY <1>1, <1>4, <1>7

(* What getRun counts in, and what it falls back to. *)
LEMMA MaxOfRates ==
    ASSUME ShownInv, NEW rows, rows \subseteq measured, NEW b \in Nat,
           \A s \in rows : s.rps <= b
    PROVE  /\ Max({s.rps : s \in rows} \cup {0}) \in {s.rps : s \in rows} \cup {0}
           /\ Max({s.rps : s \in rows} \cup {0}) <= b
<1>. DEFINE S == {s.rps : s \in rows} \cup {0}
<1>1. S \subseteq Nat /\ S # {} /\ \A x \in S : x <= b
  BY RowTypes
<1>2. Max(S) \in S
  <2>. HIDE DEF S
  <2>. QED BY <1>1, MaxIsGreatest
<1>. QED BY <1>1, <1>2

LEMMA SummarisedHeld ==
    ASSUME ShownInv, ProbesStored, NEW s \in Summarised(table)
    PROVE  s.outcome = "held" /\ s.rps <= low
<1>1. s \in table /\ s.number \in Nat
  BY RowTypes DEF Summarised
<1>2. s.outcome = "held"
  BY <1>1 DEF Summarised
<1>. QED BY <1>1, <1>2, RowTypes DEF Sorted

LEMMA FirstStopRate ==
    ASSUME ShownInv, ProbesStored, Summarised(table) = {}, NEW k \in FirstStop(table)
    PROVE  k.rps = low \/ k.rps = InitialRPS
<1>1. /\ k \in table /\ k \in measured /\ Sorted(k) /\ k.number \in Nat
      /\ \A t \in table : t.outcome # "held" => k.number <= t.number
  BY RowTypes DEF FirstStop
<1>2. ASSUME NEW t \in table, t.number < k.number PROVE FALSE
  <2>1. \A u \in table : u.outcome # "held" => t.number < u.number
    BY <1>1, <1>2, RowTypes
  <2>. QED BY <2>1 DEF Summarised
<1>3. CASE k.final
  BY <1>1, <1>3 DEF Sorted
<1>4. CASE ~k.final
  BY <1>1, <1>2, <1>4 DEF ShownInv, ViewInv, FirstProbe, ProbesStored
<1>. QED BY <1>3, <1>4

LEMMA SummaryOfHeld == ShownInv => SummaryHeld
<1>. SUFFICES ASSUME ShownInv, ProbesStored
              PROVE  MaxRPS(table) <= low \/ MaxRPS(table) = InitialRPS
  BY DEF SummaryHeld
<1>0. low \in Nat /\ InitialRPS \in Nat /\ Summarised(table) \subseteq table
      /\ FirstStop(table) \subseteq table /\ table \subseteq measured
  BY RowTypes DEF InitialRPS, Summarised, FirstStop
<1>1. CASE Summarised(table) # {}
  BY <1>0, <1>1, SummarisedHeld, MaxOfRates DEF MaxRPS
<1>2. CASE Summarised(table) = {}
  <2>. DEFINE rows == FirstStop(table)
  <2>1. \A k \in rows : k.rps = low \/ k.rps = InitialRPS
    BY <1>2, FirstStopRate
  <2>2. low + InitialRPS \in Nat /\ \A k \in rows : k.rps <= low + InitialRPS
    BY <1>0, <2>1
  <2>3. Max({s.rps : s \in rows} \cup {0}) \in {s.rps : s \in rows} \cup {0}
    <3>. HIDE DEF rows
    <3>1. rows \subseteq measured
      BY <1>0 DEF rows
    <3>. QED BY <1>0, <2>2, <3>1, MaxOfRates
  <2>4. MaxRPS(table) = Max({s.rps : s \in rows} \cup {0})
    BY <1>2 DEF MaxRPS
  <2>. QED BY <1>0, <2>1, <2>3, <2>4
<1>. QED BY <1>1, <1>2

(* The rate shown is that of a step, or none. *)
LEMMA ShownRates ==
    ASSUME ShownInv, NEW rows, rows \subseteq table
    PROVE  MaxRPS(rows) \in {0} \cup {s.rps : s \in measured}
<1>1. PICK b \in Nat : \A s \in measured : s.rps <= b
  BY DEF ShownInv, Bounded
<1>. DEFINE shown == IF Summarised(rows) # {} THEN Summarised(rows) ELSE FirstStop(rows)
<1>2. shown \subseteq rows /\ rows \subseteq measured
  BY RowTypes DEF Summarised, FirstStop
<1>3. MaxRPS(rows) = Max({s.rps : s \in shown} \cup {0})
  BY DEF MaxRPS
<1>4. Max({s.rps : s \in shown} \cup {0}) \in {s.rps : s \in shown} \cup {0}
  <2>. HIDE DEF shown
  <2>. QED BY <1>1, <1>2, MaxOfRates
<1>. QED BY <1>2, <1>3, <1>4

LEMMA StepsKeptStep == ShownInv /\ [ViewNext]_viewVars => table \subseteq table'
<1>. SUFFICES ASSUME ShownInv, [ViewNext]_viewVars PROVE table \subseteq table'
  OBVIOUS
<1>1. CASE Execute \/ Kill \/ UNCHANGED viewVars
  BY <1>1 DEF Execute, Kill, viewVars
<1>2. ASSUME NEW s \in posts, AcceptSearchSteps(s) PROVE table \subseteq table'
  <2>1. \A t \in table : t.number = s.number => t = s
    BY DEF ShownInv, ViewInv, ViewTypeOK, SearchInv, Numbered, StepsAreNumbered
  <2>. QED BY <1>2, <2>1 DEF AcceptSearchSteps, Save
<1>. QED BY <1>1, <1>2 DEF ViewNext

-----------------------------------------------------------------------------
(* Only steps that were measured are sent, and stored. *)
THEOREM ViewTypeSafe == ViewSpec => []ViewTypeOK
<1>1. ShownInv => ViewTypeOK
  BY DEF ShownInv, ViewInv
<1>. QED BY <1>1, ShownInvariant, PTL

(* Whatever becomes of the posts, the rate the report page calls stable is below
   the one it calls the limit. *)
THEOREM PageNeverContradicts == ViewSpec => []PageIsConsistent
BY ConsistentPage, ShownInvariant, PTL

(* Once the probes are stored, the rate the page calls stable is the reported one. *)
THEOREM PageTellsReport == ViewSpec => []PageShowsReport
BY ReportOnPage, ShownInvariant, PTL

(* Once the probes are stored, getRun's max_rps held, or is the first probe's. *)
THEOREM SummaryTellsHeld == ViewSpec => []SummaryHeld
BY SummaryOfHeld, ShownInvariant, PTL

(* No stored step is lost or replaced by another. *)
THEOREM StepsNeverLost == ViewSpec => StepsKept
<1>1. ShownInv /\ [ViewNext]_viewVars => [table \subseteq table']_viewVars
  BY StepsKeptStep
<1>. QED BY <1>1, ShownInvariant, PTL DEF ViewSpec, StepsKept

-----------------------------------------------------------------------------
(* What goes on around the search is a step of the search or none. *)
LEMMA PagesStepViews == [PagesNext]_pageVars => [ViewNext]_viewVars
<1>. SUFFICES ASSUME [PagesNext]_pageVars PROVE [ViewNext]_viewVars
  OBVIOUS
<1>1. CASE Search
  BY <1>1 DEF Search, ViewNext
<1>2. CASE Cleanup
  BY <1>2 DEF Cleanup, ViewNext
<1>3. CASE ReleaseRun
  <2>1. UNCHANGED viewVars \/ Kill
    <3>1. CASE killed = TRUE
      BY <1>3, <3>1 DEF ReleaseRun, viewVars
    <3>2. CASE killed # TRUE
      BY <1>3, <3>2 DEF ReleaseRun, Kill
    <3>. QED BY <3>1, <3>2
  <2>. QED BY <2>1 DEF ViewNext
<1>4. CASE AcceptReport \/ SaveMetrics \/ MarkSuccess \/ AcceptFails \/ MarkFailed
  BY <1>4 DEF AcceptReport, SaveMetrics, MarkSuccess, AcceptFails, MarkFailed
<1>5. CASE Readers
  BY <1>5 DEF Readers, Reads, GetRun, ListRuns, ListSearchSteps, QueryMetrics, QueryFails, Reply
<1>6. CASE UNCHANGED pageVars
  BY <1>6 DEF pageVars
<1>. QED BY <1>1, <1>2, <1>3, <1>4, <1>5, <1>6 DEF PagesNext, Writers

(* The pages and the webhooks leave the search as module SearchView has it: all that
   is proved there holds here. *)
THEOREM PagesImplementView == PagesSpec => ViewSpec
<1>1. PagesInit => ViewInit
  BY DEF PagesInit
<1>. QED BY <1>1, PagesStepViews, PTL DEF PagesSpec, ViewSpec

(* A report is not replaced. *)
LEMMA ReportStays == [ViewNext]_viewVars /\ report # 0 => report' = report
<1>. SUFFICES ASSUME [ViewNext]_viewVars, report # 0 PROVE report' = report
  OBVIOUS
<1>1. Next => report' = report
  BY DEF Next, Advance, Prepare, ModelReady, RunFails, Warmup, EndBisect, ProbeFails, Double,
         Bisect, PostReport, FixedEnds, FinalEnds, FinalFails, Expire
<1>. QED BY <1>1 DEF ViewNext, viewVars, vars, Execute, Kill, AcceptSearchSteps

(* Nothing is called stable where there are no steps, or above what was reported. *)
LEMMA StableReported ==
    ASSUME ShownInv, report # 0
    PROVE  MaxStable({}) = 0 /\ report \in Nat /\ MaxStable(table) <= report
<1>0. report \in Nat
  BY DEF ShownInv, ViewInv, SearchInv, TypeOK
<1>1. MaxStable({}) = 0
  <2>1. Max({0}) \in {0}
    BY MaxIsGreatest
  <2>2. Stable({}) \cup {0} = {0}
    BY DEF Stable, Latest
  <2>. QED BY <2>1, <2>2 DEF MaxStable
<1>2. CASE Searching
  BY <1>0, <1>1, <1>2, MaxStableGreatest DEF ShownInv, ViewInv, SearchInv, Reported
<1>3. CASE ~Searching
  <2>1. table = {}
    BY <1>3 DEF ShownInv, ViewInv, ViewTypeOK, FixedIsPlain
  <2>. QED BY <1>0, <1>1, <2>1
<1>. QED BY <1>0, <1>1, <1>2, <1>3

(* Both sums are the rate of a step, or 0. *)
LEMMA SumsAreRates ==
    ASSUME ShownInv, NEW rows \in {{}, table}
    PROVE  /\ MaxStable(rows) \in {0} \cup {s.rps : s \in measured}
           /\ MaxRPS(rows) \in {0} \cup {s.rps : s \in measured}
<1>1. table \subseteq measured
  BY RowTypes
<1>2. MaxRPS(rows) \in {0} \cup {s.rps : s \in measured}
  BY <1>1, ShownRates
<1>3. Stable(rows) \subseteq {s.rps : s \in rows}
  BY DEF Stable, Latest
<1>4. CASE rows = {}
  <2>1. Max({0}) \in {0}
    BY MaxIsGreatest
  <2>2. Stable(rows) \cup {0} = {0}
    BY <1>3, <1>4
  <2>. QED BY <1>2, <2>1, <2>2 DEF MaxStable
<1>5. CASE rows = table
  BY <1>1, <1>2, <1>3, <1>5, MaxStableGreatest
<1>. QED BY <1>4, <1>5

-----------------------------------------------------------------------------
(* The order of the writes and of the reads. *)
PagesShown == ShownInv /\ PagesTypeOK /\ PagesInv

LEMMA InitPages == PagesInit => PagesShown
<1>. SUFFICES ASSUME PagesInit PROVE PagesShown
  OBVIOUS
<1>1. ShownInv
  BY InitShown DEF PagesInit
<1>2. PagesTypeOK /\ PagesInv
  BY DEF PagesInit, Idle, PagesTypeOK, PagesInv, Accepted, ReadsBelow, AnswerShowsReport,
         SuccessPageHasMetrics, Answers
<1>. QED BY <1>1, <1>2 DEF PagesShown

(* A step that reads nothing. *)
LEMMA WriterShows ==
    ASSUME PagesShown, PagesShown => ShownInv', reader' = reader,
           report # 0 => report' = report, measured \subseteq measured',
           rate' \in Rate \cup {0}, stored' \in BOOLEAN,
           status' \in {"ACTIVE", "SUCCESS", "FAILED"},
           accepting' \in {"report", "metrics", "success", "release", "done"},
           accepting # "report" => rate' = rate,
           stored => stored',
           Accepted'
    PROVE  PagesShown'
<1>1. rate' = rate \/ rate = 0
  BY DEF PagesShown, PagesInv, Accepted
<1>2. reader.status = "SUCCESS" => stored /\ rate' = rate /\ report' = report /\ report # 0
  BY DEF PagesShown, PagesInv, Accepted
<1>3. PagesTypeOK'
  <2>1. 0 \div 10 = 0
    OBVIOUS
  <2>2. {0, rate \div 10} \cup {s.rps : s \in measured}
           \subseteq {0, rate' \div 10} \cup {s.rps : s \in measured'}
    BY <1>1, <2>1
  <2>. QED BY <2>2 DEF PagesShown, PagesTypeOK
<1>4. ReadsBelow' /\ AnswerShowsReport' /\ SuccessPageHasMetrics'
  BY <1>2 DEF PagesShown, PagesInv, ReadsBelow, AnswerShowsReport, SuccessPageHasMetrics, Answers
<1>. QED BY <1>3, <1>4 DEF PagesShown, PagesInv

LEMMA WritersShow ==
    ASSUME PagesShown, ShownInv', [PagesNext]_pageVars, Writers
    PROVE  PagesShown'
<1>0. /\ report # 0 => report' = report
      /\ measured \subseteq measured'
  <2>1. [ViewNext]_viewVars
    BY PagesStepViews
  <2>2. [Next]_vars
    BY <2>1 DEF ViewNext, viewVars, Execute, Kill, AcceptSearchSteps
  <2>. QED BY <2>1, <2>2, ReportStays, MeasuredGrows
<1>1. PagesTypeOK /\ Accepted
  BY DEF PagesShown, PagesInv
<1>. USE DEF PagesTypeOK, Accepted
<1>2. CASE Search \/ Cleanup
  BY <1>0, <1>1, <1>2, WriterShows DEF Search, Cleanup, runVars
<1>3. CASE AcceptReport
  BY <1>0, <1>1, <1>3, WriterShows DEF AcceptReport, viewVars, vars
<1>4. CASE SaveMetrics
  BY <1>0, <1>1, <1>4, WriterShows DEF SaveMetrics, viewVars, vars
<1>5. CASE MarkSuccess
  BY <1>0, <1>1, <1>5, WriterShows DEF MarkSuccess, viewVars, vars
<1>6. CASE ReleaseRun
  BY <1>0, <1>1, <1>6, WriterShows DEF ReleaseRun, vars
<1>7. CASE AcceptFails
  BY <1>0, <1>1, <1>7, WriterShows DEF AcceptFails, viewVars, vars
<1>8. CASE MarkFailed
  BY <1>0, <1>1, <1>8, WriterShows DEF MarkFailed, viewVars, vars
<1>. QED BY <1>2, <1>3, <1>4, <1>5, <1>6, <1>7, <1>8 DEF Writers

(* A step that writes nothing. *)
LEMMA ReaderShows ==
    ASSUME PagesShown, UNCHANGED <<viewVars, runVars>>,
           reader' \in [pc : {"idle", "steps", "metrics", "reply"}, kind : {"none", "run", "page"},
                        status : {"none", "ACTIVE", "SUCCESS", "FAILED"},
                        some : BOOLEAN, metrics : BOOLEAN, whole : BOOLEAN,
                        shown : {0, rate \div 10} \cup {s.rps : s \in measured}],
           reader'.status \in {"none", status, reader.status},
           ReadsBelow', AnswerShowsReport', SuccessPageHasMetrics'
    PROVE  PagesTypeOK' /\ PagesInv'
<1>1. PagesTypeOK'
  BY DEF PagesShown, PagesTypeOK, viewVars, vars, runVars, steps
<1>2. Accepted'
  BY DEF PagesShown, PagesInv, Accepted, viewVars, vars, runVars
<1>. QED BY <1>1, <1>2 DEF PagesInv

LEMMA ReadersShow ==
    ASSUME PagesShown, Readers
    PROVE  PagesTypeOK' /\ PagesInv'
<1>. USE DEF Reads, ReadsBelow, AnswerShowsReport, SuccessPageHasMetrics, Answers
<1>0. /\ PagesTypeOK /\ PagesInv /\ ShownInv
      /\ reader.status = "SUCCESS" => stored /\ report # 0
      /\ status \in {"ACTIVE", "SUCCESS", "FAILED"}
  BY DEF PagesShown, PagesInv, Accepted, PagesTypeOK
<1>1. CASE GetRun
  BY <1>0, <1>1, ReaderShows DEF GetRun, Idle
<1>2. CASE ListRuns
  BY <1>0, <1>2, ReaderShows DEF ListRuns, Idle
<1>3. CASE ListSearchSteps
  <2>1. PICK failed \in BOOLEAN :
           LET found == IF failed THEN {} ELSE table
           IN  Reads([reader EXCEPT
                 !.some = found # {}, !.whole = ~failed,
                 !.shown = IF reader.kind = "page" THEN MaxStable(found) ELSE MaxRPS(found),
                 !.pc = IF reader.kind = "page" \/ (found # {} /\ reader.status = "SUCCESS")
                        THEN "metrics" ELSE "reply"])
    BY <1>3 DEF ListSearchSteps
  <2>. DEFINE found == IF failed THEN {} ELSE table
              shown == IF reader.kind = "page" THEN MaxStable(found) ELSE MaxRPS(found)
              next  == IF reader.kind = "page" \/ (found # {} /\ reader.status = "SUCCESS")
                       THEN "metrics" ELSE "reply"
  <2>2. reader' = [reader EXCEPT !.some = found # {}, !.whole = ~failed, !.shown = shown,
                                 !.pc = next]
    BY <2>1
  <2>3. shown \in {0, rate \div 10} \cup {s.rps : s \in measured}
    BY <1>0, SumsAreRates
  <2>4. reader.kind = "page" /\ reader.status = "SUCCESS" => shown <= report
    BY <1>0, StableReported
  <2>5. /\ reader'.kind = reader.kind /\ reader'.status = reader.status
        /\ reader'.some = (found # {}) /\ reader'.whole = ~failed /\ reader'.shown = shown
        /\ reader'.metrics = reader.metrics /\ reader'.pc = next
    BY <1>0, <2>2 DEF PagesTypeOK
  <2>6. UNCHANGED <<viewVars, runVars>>
    BY <2>1
  <2>7. next \in {"metrics", "reply"} /\ (found # {}) \in BOOLEAN
    OBVIOUS
  <2>8. ReadsBelow'
    BY <2>4, <2>5, <2>6 DEF viewVars, vars
  <2>9. AnswerShowsReport' /\ SuccessPageHasMetrics'
    BY <2>5
  <2>10. reader' \in [pc : {"idle", "steps", "metrics", "reply"}, kind : {"none", "run", "page"},
                     status : {"none", "ACTIVE", "SUCCESS", "FAILED"},
                     some : BOOLEAN, metrics : BOOLEAN, whole : BOOLEAN,
                     shown : {0, rate \div 10} \cup {s.rps : s \in measured}]
    <3>. HIDE DEF found, shown, next
    <3>. QED BY <1>0, <2>2, <2>3, <2>7 DEF PagesTypeOK
  <2>. QED BY <2>5, <2>6, <2>8, <2>9, <2>10, ReaderShows
<1>4. CASE QueryMetrics
  <2>. DEFINE shown == IF reader.kind = "run" /\ stored /\ rate > 0 THEN rate \div 10
                       ELSE reader.shown
  <2>1. /\ reader.pc = "metrics" /\ UNCHANGED <<viewVars, runVars>>
        /\ reader' = [reader EXCEPT !.metrics = stored, !.pc = "reply", !.shown = shown]
    BY <1>4 DEF QueryMetrics
  <2>2. shown \in {0, rate \div 10} \cup {s.rps : s \in measured} /\ stored \in BOOLEAN
    BY <1>0 DEF PagesTypeOK
  <2>3. /\ reader'.kind = reader.kind /\ reader'.status = reader.status
        /\ reader'.some = reader.some /\ reader'.whole = reader.whole /\ reader'.shown = shown
        /\ reader'.metrics = stored /\ reader'.pc = "reply"
    BY <1>0, <2>1 DEF PagesTypeOK
  <2>4. ReadsBelow'
    BY <1>0, <2>1, <2>3 DEF PagesInv, viewVars, vars
  <2>5. AnswerShowsReport' /\ SuccessPageHasMetrics'
    BY <1>0, <2>1, <2>3 DEF runVars
  <2>6. reader' \in [pc : {"idle", "steps", "metrics", "reply"}, kind : {"none", "run", "page"},
                     status : {"none", "ACTIVE", "SUCCESS", "FAILED"},
                     some : BOOLEAN, metrics : BOOLEAN, whole : BOOLEAN,
                     shown : {0, rate \div 10} \cup {s.rps : s \in measured}]
    <3>. HIDE DEF shown
    <3>. QED BY <1>0, <2>1, <2>2 DEF PagesTypeOK
  <2>. QED BY <2>1, <2>3, <2>4, <2>5, <2>6, ReaderShows
<1>5. CASE QueryFails
  <2>1. CASE reader.kind = "run"
    BY <1>0, <1>5, <2>1, ReaderShows DEF QueryFails, PagesTypeOK
  <2>2. CASE reader.kind # "run"
    BY <1>0, <1>5, <2>2, ReaderShows DEF QueryFails, Idle
  <2>. QED BY <2>1, <2>2
<1>6. CASE Reply
  BY <1>0, <1>6, ReaderShows DEF Reply, Idle
<1>. QED BY <1>1, <1>2, <1>3, <1>4, <1>5, <1>6 DEF Readers

LEMMA PagesStepShown == PagesShown /\ [PagesNext]_pageVars => PagesShown'
<1>. SUFFICES ASSUME PagesShown, [PagesNext]_pageVars PROVE PagesShown'
  OBVIOUS
<1>1. ShownInv'
  BY PagesStepViews, ViewStepShown DEF PagesShown
<1>2. CASE Writers
  BY <1>1, <1>2, WritersShow
<1>3. CASE Readers
  BY <1>1, <1>3, ReadersShow DEF PagesShown
<1>4. CASE UNCHANGED pageVars
  BY <1>1, <1>4 DEF pageVars, runVars, viewVars, vars, steps, PagesShown, PagesTypeOK, PagesInv,
     Accepted, ReadsBelow, AnswerShowsReport, SuccessPageHasMetrics, Answers
<1>. QED BY <1>2, <1>3, <1>4 DEF PagesNext

LEMMA PagesInvariant == PagesSpec => []PagesShown
BY InitPages, PagesStepShown, PTL DEF PagesSpec

-----------------------------------------------------------------------------
(* The rate a request has read is one that was measured, by a probe or by k6. *)
THEOREM PagesTypeSafe == PagesSpec => []PagesTypeOK
<1>1. PagesShown => PagesTypeOK
  BY DEF PagesShown
<1>. QED BY <1>1, PagesInvariant, PTL

(* A poller that is told SUCCESS is given what k6 measured in the final run. *)
THEOREM PollerToldReport == PagesSpec => []AnswerShowsReport
<1>1. PagesShown => AnswerShowsReport
  BY DEF PagesShown, PagesInv
<1>. QED BY <1>1, PagesInvariant, PTL

(* A report page that says SUCCESS shows the metrics. *)
THEOREM PageShowsMetrics == PagesSpec => []SuccessPageHasMetrics
<1>1. PagesShown => SuccessPageHasMetrics
  BY DEF PagesShown, PagesInv
<1>. QED BY <1>1, PagesInvariant, PTL

(* A report page that says SUCCESS calls no rate stable that lies above the reported
   one. *)
THEOREM PageNeverAboveReport == PagesSpec => []PageNotAboveReport
<1>1. PagesShown => PageNotAboveReport
  BY DEF PagesShown, PagesInv, ReadsBelow, PageNotAboveReport, Answers
<1>. QED BY <1>1, PagesInvariant, PTL

(* What the page says of a search contradicts itself as little while the run is
   reported, failed and read. *)
THEOREM PagesNeverContradict == PagesSpec => [](PageIsConsistent /\ PageShowsReport /\ SummaryHeld)
<1>1. PagesShown => PageIsConsistent /\ PageShowsReport /\ SummaryHeld
  BY ConsistentPage, ReportOnPage, SummaryOfHeld DEF PagesShown
<1>. QED BY <1>1, PagesInvariant, PTL
=============================================================================
