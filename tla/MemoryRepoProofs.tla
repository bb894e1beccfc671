--------------------------- MODULE MemoryRepoProofs ---------------------------
(* Proofs about MemoryRepo: the loop of SaveSearchSteps is an upsert by number,
   and while nothing is deleted the repository implements RunStore. *)
EXTENDS MemoryRepo, Iteration, FiniteSetTheorems, TLAPS

-----------------------------------------------------------------------------
(* The loop of SaveSearchSteps. *)

Once(list) == \A i, j \in DOMAIN list : list[i].number = list[j].number => i = j

LEMMA PutType ==
    ASSUME NEW E, NEW list \in Seq(E), NEW step \in E
    PROVE  Put(list, step) \in Seq(E)
<1>1. CASE \E i \in DOMAIN list : list[i].number = step.number
  <2>1. Put(list, step) \in [1..Len(list) -> E]
    BY <1>1 DEF Put
  <2>. QED BY <2>1
<1>2. CASE ~\E i \in DOMAIN list : list[i].number = step.number
  BY <1>2 DEF Put
<1>. QED BY <1>1, <1>2

(* A number that is there keeps its one place. *)
LEMMA PutOnce ==
    ASSUME NEW E, NEW list \in Seq(E), NEW step \in E, Once(list)
    PROVE  Once(Put(list, step))
<1>1. CASE \E i \in DOMAIN list : list[i].number = step.number
  BY <1>1 DEF Put, Once
<1>2. CASE ~\E i \in DOMAIN list : list[i].number = step.number
  <2>1. Put(list, step) = Append(list, step)
    BY <1>2 DEF Put
  <2>2. /\ DOMAIN Append(list, step) = 1..(Len(list) + 1)
        /\ Append(list, step)[Len(list) + 1] = step
        /\ \A i \in DOMAIN list : Append(list, step)[i] = list[i]
        /\ DOMAIN list = 1..Len(list)
    OBVIOUS
  <2>3. \A i \in DOMAIN Append(list, step) : i # Len(list) + 1 => i \in DOMAIN list
    BY <2>2
  <2>. QED BY <1>2, <2>1, <2>2, <2>3 DEF Once
<1>. QED BY <1>1, <1>2

LEMMA PutRange ==
    ASSUME NEW E, NEW list \in Seq(E), NEW step \in E
    PROVE  Range(Put(list, step)) = {s \in Range(list) : s.number # step.number} \cup {step}
<1>1. CASE \E i \in DOMAIN list : list[i].number = step.number
  BY <1>1 DEF Put, Range
<1>2. CASE ~\E i \in DOMAIN list : list[i].number = step.number
  <2>1. Put(list, step) = Append(list, step)
    BY <1>2 DEF Put
  <2>2. /\ DOMAIN Append(list, step) = DOMAIN list \cup {Len(list) + 1}
        /\ Append(list, step)[Len(list) + 1] = step
        /\ \A i \in DOMAIN list : Append(list, step)[i] = list[i]
    OBVIOUS
  <2>. QED BY <1>2, <2>1, <2>2 DEF Range
<1>. QED BY <1>1, <1>2

(* put[n] is the list after the first n steps of the batch. *)
Putting(put, list, batch, E) ==
    /\ put \in [0..Len(batch) -> Seq(E)]
    /\ put[0] = list
    /\ \A n \in 1..Len(batch) : put[n] = Put(put[n - 1], batch[n])
    /\ Puts(list, batch) = put[Len(batch)]

LEMMA PuttingExists ==
    ASSUME NEW E, NEW list \in Seq(E), NEW batch \in Seq(E)
    PROVE  \E put : Putting(put, list, batch, E)
<1>. DEFINE N == Len(batch)
            next == [p \in Nat \X Seq(E) |->
                       IF p[1] < N THEN Put(p[2], batch[p[1] + 1]) ELSE p[2]]
            isPut(f) == f = [n \in 0..N |-> IF n = 0 THEN list ELSE Put(f[n - 1], batch[n])]
            put == CHOOSE f : isPut(f)
<1>1. N \in Nat /\ \A n \in 1..N : batch[n] \in E
  OBVIOUS
<1>2. next \in [Nat \X Seq(E) -> Seq(E)]
  <2>1. ASSUME NEW p \in Nat \X Seq(E), p[1] < N PROVE Put(p[2], batch[p[1] + 1]) \in Seq(E)
    <3>1. p[1] + 1 \in 1..N /\ p[2] \in Seq(E)
      BY <1>1, <2>1
    <3>2. batch[p[1] + 1] \in E
      BY <1>1, <3>1
    <3>. QED BY <3>1, <3>2, PutType
  <2>. QED BY <2>1
<1>3. PICK f : IsIteration(f, Seq(E), list, next)
  <2>. HIDE DEF next
  <2>. QED BY <1>2, IterationExists
<1>4. /\ f \in [Nat -> Seq(E)] /\ f[0] = list
      /\ \A n \in Nat : n < N => f[n + 1] = Put(f[n], batch[n + 1])
  <2>1. \A n \in Nat : f[n + 1] = next[<<n, f[n]>>] /\ f[n] \in Seq(E)
    BY <1>3 DEF IsIteration
  <2>2. \A n \in Nat : n < N => next[<<n, f[n]>>] = Put(f[n], batch[n + 1])
    BY <2>1
  <2>. QED BY <1>3, <2>1, <2>2 DEF IsIteration
<1>5. isPut([n \in 0..N |-> f[n]])
  <2>. DEFINE g == [n \in 0..N |-> f[n]]
  <2>1. ASSUME NEW n \in 0..N, n # 0 PROVE g[n] = Put(g[n - 1], batch[n])
    <3>1. n - 1 \in Nat /\ n - 1 < N /\ n - 1 \in 0..N /\ (n - 1) + 1 = n
      BY <1>1, <2>1
    <3>2. f[(n - 1) + 1] = Put(f[n - 1], batch[(n - 1) + 1])
      BY <1>4, <3>1
    <3>. QED BY <3>1, <3>2
  <2>2. g[0] = list
    BY <1>1, <1>4
  <2>3. g = [n \in 0..N |-> IF n = 0 THEN list ELSE Put(g[n - 1], batch[n])]
    BY <2>1, <2>2
  <2>. QED BY <2>3
<1>6. isPut(put)
  <2>. HIDE DEF isPut
  <2>. QED BY <1>5
<1>7. Puts(list, batch) = put[N]
  BY DEF Puts
<1>8. put[0] = list /\ \A n \in 1..N : put[n] = Put(put[n - 1], batch[n])
  <2>. HIDE DEF put
  <2>. QED BY <1>1, <1>6
<1>9. put \in [0..N -> Seq(E)]
  <2>. HIDE DEF put
  <2>. DEFINE Typed == {n \in Nat : n <= N => put[n] \in Seq(E)}
  <2>1. 0 \in Typed
    BY <1>8
  <2>2. ASSUME NEW n \in Nat, n \in Typed PROVE n + 1 \in Typed
    <3>1. ASSUME n + 1 <= N PROVE put[n + 1] \in Seq(E)
      <4>1. n + 1 \in 1..N /\ (n + 1) - 1 = n /\ n <= N
        BY <1>1, <3>1
      <4>. QED BY <1>1, <1>8, <2>2, <4>1, PutType
    <3>. QED BY <3>1
  <2>3. Nat \subseteq Typed
    <3>. HIDE DEF Typed
    <3>. QED BY <2>1, <2>2, NoLeastMissing
  <2>4. \A n \in 0..N : put[n] \in Seq(E)
    BY <1>1, <2>3
  <2>5. put = [n \in 0..N |-> put[n]]
    BY <1>6
  <2>. QED BY <2>4, <2>5
<1>10. Putting(put, list, batch, E)
  <2>. HIDE DEF put
  <2>. QED BY <1>7, <1>8, <1>9 DEF Putting
<1>. QED BY <1>10

(* The steps a list holds after the first n steps of a batch: those whose number the
   batch has not had, and of each number the batch has had its last. *)
Held(list, batch, n) ==
    {s \in Range(list) : \A i \in 1..n : batch[i].number # s.number} \cup
    {batch[i] : i \in {j \in 1..n : \A k \in 1..n : k > j => batch[k].number # batch[j].number}}

LEMMA HeldNext ==
    ASSUME NEW list, NEW batch, NEW n \in Nat
    PROVE  Held(list, batch, n + 1) =
               {s \in Held(list, batch, n) : s.number # batch[n + 1].number} \cup {batch[n + 1]}
<1>. DEFINE Last(j, m) == \A k \in 1..m : k > j => batch[k].number # batch[j].number
            b == batch[n + 1]
<1>1. 1..(n + 1) = (1..n) \cup {n + 1} /\ \A j \in 1..n : n + 1 > j /\ ~(j > n + 1)
  OBVIOUS
<1>2. \A j \in 1..n : Last(j, n + 1) <=> Last(j, n) /\ batch[j].number # b.number
  BY <1>1
<1>3. Last(n + 1, n + 1)
  BY <1>1
<1>4. {batch[i] : i \in {j \in 1..(n + 1) : Last(j, n + 1)}} =
          {s \in {batch[i] : i \in {j \in 1..n : Last(j, n)}} : s.number # b.number} \cup {b}
  <2>. HIDE DEF Last
  <2>. QED BY <1>1, <1>2, <1>3
<1>5. {s \in Range(list) : \A i \in 1..(n + 1) : batch[i].number # s.number} =
          {s \in {t \in Range(list) : \A i \in 1..n : batch[i].number # t.number} :
              s.number # b.number}
  BY <1>1
<1>. QED BY <1>4, <1>5 DEF Held

LEMMA PutsHolds ==
    ASSUME NEW E, NEW list \in Seq(E), NEW batch \in Seq(E)
    PROVE  /\ Puts(list, batch) \in Seq(E)
           /\ Range(Puts(list, batch)) = Held(list, batch, Len(batch))
           /\ Once(list) => Once(Puts(list, batch))
<1>. DEFINE N == Len(batch)
<1>1. N \in Nat /\ \A n \in 1..N : batch[n] \in E
  OBVIOUS
<1>2. PICK put : Putting(put, list, batch, E)
  BY PuttingExists
<1>3. /\ put[0] = list /\ Puts(list, batch) = put[N]
      /\ \A n \in Nat : n <= N => put[n] \in Seq(E)
  BY <1>1, <1>2 DEF Putting
<1>. DEFINE Good(n) == /\ Range(put[n]) = Held(list, batch, n)
                       /\ Once(list) => Once(put[n])
            Reached == {n \in Nat : n <= N => Good(n)}
<1>4. Good(0)
  <2>1. 1..0 = {}
    OBVIOUS
  <2>. QED BY <1>3, <2>1 DEF Held
<1>5. ASSUME NEW n \in Nat, Good(n), n + 1 <= N PROVE Good(n + 1)
  <2>1. n <= N /\ n + 1 \in 1..N /\ (n + 1) - 1 = n
    BY <1>1, <1>5
  <2>2. put[n + 1] = Put(put[n], batch[n + 1]) /\ put[n] \in Seq(E) /\ batch[n + 1] \in E
    BY <1>1, <1>2, <1>3, <2>1 DEF Putting
  <2>3. Range(put[n + 1]) = {s \in Range(put[n]) : s.number # batch[n + 1].number}
                                \cup {batch[n + 1]}
    BY <2>2, PutRange
  <2>4. Range(put[n + 1]) = Held(list, batch, n + 1)
    BY <1>5, <2>3, HeldNext
  <2>5. Once(list) => Once(put[n + 1])
    BY <1>5, <2>2, PutOnce
  <2>. QED BY <2>4, <2>5
<1>6. \A n \in Nat : n \in Reached => n + 1 \in Reached
  <2>. HIDE DEF Good
  <2>. QED BY <1>1, <1>5
<1>7. Nat \subseteq Reached
  <2>1. 0 \in Reached
    BY <1>4
  <2>. HIDE DEF Reached
  <2>. QED BY <1>6, <2>1, NoLeastMissing
<1>8. Good(N)
  <2>. HIDE DEF Good
  <2>. QED BY <1>1, <1>7
<1>. QED BY <1>1, <1>3, <1>8

(* Every number of a batch has a last step. *)
LEMMA LastOfNumber ==
    ASSUME NEW E, NEW batch \in Seq(E), NEW i \in DOMAIN batch
    PROVE  \E j \in DOMAIN batch : /\ batch[j].number = batch[i].number
                                  /\ \A k \in DOMAIN batch :
                                        k > j => batch[k].number # batch[j].number
<1>. DEFINE N == Len(batch)
            After == {m \in Nat : m < N /\ batch[N - m].number = batch[i].number}
<1>1. N \in Nat /\ DOMAIN batch = 1..N
  OBVIOUS
<1>2. N - i \in After
  BY <1>1
<1>3. PICK m \in After : \A n \in After : m <= n
  <2>. After \subseteq Nat /\ After # {}
    BY <1>2
  <2>. HIDE DEF After
  <2>. QED BY LeastExists
<1>4. N - m \in DOMAIN batch /\ batch[N - m].number = batch[i].number
  BY <1>1
<1>5. ASSUME NEW k \in DOMAIN batch, k > N - m, batch[k].number = batch[i].number PROVE FALSE
  <2>1. N - k \in Nat /\ N - k < N /\ N - (N - k) = k /\ N - k < m
    BY <1>1, <1>5
  <2>2. N - k \in After
    BY <1>5, <2>1
  <2>. QED BY <1>3, <2>1, <2>2
<1>. QED BY <1>4, <1>5

LEMMA RangeTyped ==
    ASSUME NEW E, NEW list \in Seq(E)
    PROVE  Range(list) \subseteq E
BY DEF Range

LEMMA BatchTyped ==
    ASSUME NEW batch \in Batches
    PROVE  batch \in Seq(Posted)
<1>1. batch \in Seq(Range(batch)) /\ Range(batch) \subseteq Posted
  BY MemoryAssumption DEF Posted
<1>. QED BY <1>1

(* The rows of one run: r.steps[r], seen through StepsOf, and the rows a batch
   leaves behind. *)
Row(r, s)    == [run |-> r, number |-> s.number, content |-> s.content]
RowsIn(r, S) == {Row(r, s) : s \in S}

LEMMA HeldIsUpsert ==
    ASSUME NEW r, NEW E, NEW list \in Seq(E), NEW batch \in Seq(E)
    PROVE  RowsIn(r, Held(list, batch, Len(batch))) =
               Store!Upserted(RowsIn(r, Range(list)), Store!RowsOf(r, batch))
<1>. DEFINE Lasts == {j \in DOMAIN batch :
                        \A k \in DOMAIN batch : k > j => batch[k].number # batch[j].number}
            Kept == {s \in Range(list) : \A i \in DOMAIN batch : batch[i].number # s.number}
<1>1. DOMAIN batch = 1..Len(batch)
  OBVIOUS
<1>2. Held(list, batch, Len(batch)) = Kept \cup {batch[i] : i \in Lasts}
  BY <1>1 DEF Held
<1>3. Store!RowsOf(r, batch) = {Row(r, batch[i]) : i \in Lasts}
  BY DEF Store!RowsOf, Row
<1>4. \A s : /\ Row(r, s).run = r
             /\ Row(r, s).number = s.number
  BY DEF Row
<1>5. \A i \in DOMAIN batch : \E j \in Lasts : batch[j].number = batch[i].number
  BY LastOfNumber
<1>. HIDE DEF Lasts
<1>6. Lasts \subseteq DOMAIN batch
  BY DEF Lasts
<1>7. \A s : (\A n \in Store!RowsOf(r, batch) : n.run = Row(r, s).run => n.number # Row(r, s).number)
                 <=> (\A i \in DOMAIN batch : batch[i].number # s.number)
  <2>. TAKE s
  <2>1. (\A n \in Store!RowsOf(r, batch) : n.run = Row(r, s).run => n.number # Row(r, s).number)
            <=> \A i \in Lasts : Row(r, batch[i]).run = Row(r, s).run
                                   => Row(r, batch[i]).number # Row(r, s).number
    BY <1>3
  <2>2. (\A i \in Lasts : Row(r, batch[i]).run = Row(r, s).run
                           => Row(r, batch[i]).number # Row(r, s).number)
            <=> \A i \in Lasts : batch[i].number # s.number
    BY <1>4
  <2>3. (\A i \in Lasts : batch[i].number # s.number)
            <=> \A i \in DOMAIN batch : batch[i].number # s.number
    BY <1>5, <1>6
  <2>. QED BY <2>1, <2>2, <2>3
<1>8. {t \in RowsIn(r, Range(list)) :
          \A n \in Store!RowsOf(r, batch) : n.run = t.run => n.number # t.number}
        = RowsIn(r, Kept)
  BY <1>7 DEF RowsIn
<1>. QED BY <1>2, <1>3, <1>8 DEF RowsIn, Store!Upserted

-----------------------------------------------------------------------------
(* The steps of each run, which no assumption on the callers is needed for. *)

StepsInv == steps \in [Run -> Seq(Posted)] /\ NumbersOnce

LEMMA StepsInit == Init => StepsInv
BY DEF Init, StepsInv, NumbersOnce

LEMMA StepsStep == StepsInv /\ [Next]_vars => StepsInv'
<1>. SUFFICES ASSUME StepsInv, [Next]_vars PROVE StepsInv'
  OBVIOUS
<1>. DEFINE Typed(list) == list \in Seq(Posted) /\ Once(list)
<1>1. ASSUME NEW r \in Run, NEW list, Typed(list), steps' = [steps EXCEPT ![r] = list]
      PROVE  StepsInv'
  BY <1>1 DEF StepsInv, NumbersOnce, Once
<1>2. ASSUME UNCHANGED steps PROVE StepsInv'
  BY <1>2 DEF StepsInv, NumbersOnce
<1>3. ASSUME NEW c \in Caller, NEW r \in Run, NEW batch \in Batches,
             SaveSearchSteps(c, r, batch)
      PROVE  StepsInv'
  <2>1. Typed(steps[r])
    BY DEF StepsInv, NumbersOnce, Once
  <2>2. Typed(Puts(steps[r], batch))
    BY <2>1, BatchTyped, PutsHolds
  <2>3. steps' = [steps EXCEPT ![r] = Puts(steps[r], batch)]
    BY <1>3 DEF SaveSearchSteps
  <2>. HIDE DEF Typed
  <2>. QED BY <1>1, <2>2, <2>3
<1>4. ASSUME NEW c \in Caller, NEW r \in Run, DeleteRun(c, r)
      PROVE  StepsInv'
  <2>1. CASE Has(r)
    <3>1. Typed(<<>>) /\ steps' = [steps EXCEPT ![r] = <<>>]
      BY <1>4, <2>1 DEF DeleteRun, Once
    <3>. QED BY <1>1, <3>1
  <2>2. CASE ~Has(r)
    BY <1>2, <1>4, <2>2 DEF DeleteRun
  <2>. QED BY <2>1, <2>2
<1>5. CASE \E c \in Caller, r \in Run :
              \/ \E at \in 1..Cardinality(Run) : CreateRun(c, r, at)
              \/ \E s \in Written : UpdateRunStatus(c, r, s)
              \/ GetRun(c, r) \/ ListSearchSteps(c, r) \/ ListMetrics(c, r)
              \/ \E report \in Reports : SaveMetrics(c, r, report)
  BY <1>2, <1>5 DEF CreateRun, UpdateRunStatus, GetRun, ListSearchSteps, ListMetrics,
      SaveMetrics, maps
<1>6. CASE \E c \in Caller : \/ \E keep \in Filters : ListRuns(c, keep)
                             \/ ListActiveRuns(c)
                             \/ ListMetricsEnds(c)
  BY <1>2, <1>6 DEF ListRuns, ListActiveRuns, ListMetricsEnds, maps
<1>7. CASE UNCHANGED vars
  BY <1>2, <1>7 DEF vars, maps
<1>. QED BY <1>3, <1>4, <1>5, <1>6, <1>7 DEF Next

(* However batches overlap, repeat numbers within themselves or meet a DeleteRun,
   each step number of a run is listed once (memory/repo.go:113-126). *)
THEOREM MemoryNumbersOnce == Spec => []NumbersOnce
<1>1. StepsInv => NumbersOnce
  BY DEF StepsInv
<1>. QED BY StepsInit, StepsStep, <1>1, PTL DEF Spec

-----------------------------------------------------------------------------
(* The rest of the state, as long as no run is deleted. *)

LEMMA MemoryInit == Init => MemoryInv
<1>. SUFFICES ASSUME Init PROVE MemoryInv
  OBVIOUS
<1>1. TypeOK
  BY DEF Init, TypeOK, NoList
<1>2. NumbersOnce
  BY DEF Init, NumbersOnce
<1>3. Lasting
  BY DEF Init, Lasting, Has, Gone, Range
<1>4. RunFound
  BY DEF Init, RunFound
<1>. QED BY <1>1, <1>2, <1>3, <1>4 DEF MemoryInv

LEMMA MetricsOfRuns ==
    ASSUME TypeOK
    PROVE  \A m \in Range(metrics) : m[1] \in Run
<1>1. Range(metrics) \subseteq Run \X Points
  BY RangeTyped DEF TypeOK
<1>. QED BY <1>1

(* Answering changes what one caller has seen, to runs that are there. *)
LEMMA ReadsKeep ==
    ASSUME MemoryInv, NEW c \in Caller, NEW found \in SUBSET Run, Free(c), UNCHANGED maps,
           \A r \in found : Has(r),
           seen' = seen \/ Sees(c, found)
    PROVE  MemoryInv'
<1>. USE DEF maps, Free
<1>1. TypeOK'
  BY DEF MemoryInv, TypeOK, Sees
<1>2. NumbersOnce'
  BY DEF MemoryInv, NumbersOnce
<1>3. Lasting'
  BY DEF MemoryInv, TypeOK, Lasting, Has, Drawn, Sees
<1>4. RunFound'
  BY DEF MemoryInv, TypeOK, RunFound, Sees
<1>. QED BY <1>1, <1>2, <1>3, <1>4 DEF MemoryInv

LEMMA CreateKeeps ==
    ASSUME MemoryInv, NEW c \in Caller, NEW r \in Run, NEW at \in 1..Cardinality(Run),
           CreateRun(c, r, at)
    PROVE  MemoryInv'
<1>. USE DEF CreateRun, Free
<1>1. TypeOK'
  BY DEF MemoryInv, TypeOK, Sees
<1>2. NumbersOnce'
  BY DEF MemoryInv, NumbersOnce
<1>3. \A q \in Run : Has(q)' <=> Has(q) \/ q = r
  BY DEF MemoryInv, TypeOK, Has, Gone
<1>4. Lasting'
  <2>1. \A m \in Range(metrics) : Has(m[1])'
    BY <1>3, MetricsOfRuns DEF MemoryInv, Lasting
  <2>2. \A d \in Caller : \A q \in seen'[d] : Has(q)'
    BY <1>3 DEF MemoryInv, TypeOK, Lasting, Sees
  <2>3. \A q \in Run : /\ Has(q)' => q \notin Stray
                       /\ ~Drawn(q)' => steps[q] = <<>>
                       /\ runs'[q] # "deleted"
    BY <1>3 DEF MemoryInv, TypeOK, Lasting, Drawn
  <2>. QED BY <2>1, <2>2, <2>3 DEF Lasting
<1>5. RunFound'
  BY DEF MemoryInv, TypeOK, RunFound, Sees
<1>. QED BY <1>1, <1>2, <1>4, <1>5 DEF MemoryInv

LEMMA UpdateKeeps ==
    ASSUME MemoryInv, NEW c \in Caller, NEW r \in Run, NEW s \in Written,
           UpdateRunStatus(c, r, s)
    PROVE  /\ MemoryInv'
           /\ \A q \in Run : Has(q)' <=> Has(q)
<1>. USE DEF UpdateRunStatus, Free
<1>1. TypeOK'
  BY DEF MemoryInv, TypeOK
<1>2. NumbersOnce'
  BY DEF MemoryInv, NumbersOnce
<1>3. \A q \in Run : /\ Has(q)' <=> Has(q)
                     /\ runs'[q] = "none" <=> runs[q] = "none"
                     /\ runs'[q] # "deleted"
  BY MemoryAssumption DEF MemoryInv, TypeOK, Lasting, Has, Gone
<1>4. Lasting'
  <2>1. \A m \in Range(metrics) : Has(m[1])'
    BY <1>3, MetricsOfRuns DEF MemoryInv, Lasting
  <2>2. \A d \in Caller : \A q \in seen[d] : Has(q)'
    BY <1>3 DEF MemoryInv, TypeOK, Lasting
  <2>3. \A q \in Run : /\ Has(q)' => q \notin Stray
                       /\ ~Drawn(q)' => steps[q] = <<>>
                       /\ runs'[q] # "deleted"
    BY <1>3 DEF MemoryInv, Lasting, Drawn
  <2>. QED BY <2>1, <2>2, <2>3 DEF Lasting
<1>5. RunFound'
  BY DEF MemoryInv, RunFound
<1>. QED BY <1>1, <1>2, <1>3, <1>4, <1>5 DEF MemoryInv

(* What a report adds to r.metrics. *)
LEMMA ReportAppended ==
    ASSUME MemoryInv, NEW c \in Caller, NEW r \in Run, NEW report \in Reports,
           SaveMetrics(c, r, report)
    PROVE  /\ metrics' \in Seq(Run \X Points)
           /\ Range(metrics') = Range(metrics) \cup {<<r, report[i]>> : i \in DOMAIN report}
<1>. DEFINE more == [i \in DOMAIN report |-> <<r, report[i]>>]
<1>1. report \in Seq(Range(report)) /\ Range(report) \subseteq Points
  BY MemoryAssumption DEF Points
<1>2. report \in Seq(Points)
  BY <1>1
<1>3. more \in Seq(Run \X Points) /\ DOMAIN more = DOMAIN report
  <2>1. more \in [1..Len(report) -> Run \X Points]
    BY <1>2
  <2>. QED BY <2>1
<1>4. metrics \in Seq(Run \X Points) /\ metrics' = metrics \o more
  BY DEF MemoryInv, TypeOK, SaveMetrics
<1>5. Range(more) = {<<r, report[i]>> : i \in DOMAIN report}
  BY DEF Range
<1>. HIDE DEF more
<1>6. Range(metrics \o more) = Range(metrics) \cup Range(more)
  <2>1. /\ DOMAIN (metrics \o more) = 1..(Len(metrics) + Len(more))
        /\ DOMAIN metrics = 1..Len(metrics) /\ DOMAIN more = 1..Len(more)
        /\ \A i \in 1..Len(metrics) : (metrics \o more)[i] = metrics[i]
        /\ \A i \in 1..Len(more) : (metrics \o more)[Len(metrics) + i] = more[i]
    BY <1>3, <1>4
  <2>2. Len(metrics) \in Nat /\ Len(more) \in Nat
    BY <1>3, <1>4
  <2>3. \A i \in 1..(Len(metrics) + Len(more)) :
           i \in 1..Len(metrics) \/ \E j \in 1..Len(more) : i = Len(metrics) + j
    <3>1. \A i \in 1..(Len(metrics) + Len(more)) :
            i \in 1..Len(metrics) \/ i - Len(metrics) \in 1..Len(more)
      BY <2>2
    <3>. QED BY <2>2, <3>1
  <2>4. /\ 1..Len(metrics) \subseteq 1..(Len(metrics) + Len(more))
        /\ \A j \in 1..Len(more) : Len(metrics) + j \in 1..(Len(metrics) + Len(more))
    BY <2>2
  <2>5. Range(metrics \o more) \subseteq Range(metrics) \cup Range(more)
    <3>1. ASSUME NEW i \in 1..(Len(metrics) + Len(more))
          PROVE  (metrics \o more)[i] \in Range(metrics) \cup Range(more)
      <4>1. CASE i \in 1..Len(metrics)
        BY <2>1, <4>1 DEF Range
      <4>2. ASSUME NEW j \in 1..Len(more), i = Len(metrics) + j
            PROVE  (metrics \o more)[i] \in Range(more)
        BY <2>1, <4>2 DEF Range
      <4>. QED BY <2>3, <4>1, <4>2
    <3>. QED BY <2>1, <3>1 DEF Range
  <2>6. Range(metrics) \subseteq Range(metrics \o more)
    BY <2>1, <2>4 DEF Range
  <2>7. Range(more) \subseteq Range(metrics \o more)
    BY <2>1, <2>4 DEF Range
  <2>. QED BY <2>5, <2>6, <2>7
<1>. QED BY <1>3, <1>4, <1>5, <1>6

LEMMA SaveMetricsKeeps ==
    ASSUME MemoryInv, NEW c \in Caller, NEW r \in Run, NEW report \in Reports,
           SaveMetrics(c, r, report)
    PROVE  MemoryInv'
<1>. USE DEF SaveMetrics, Free
<1>1. TypeOK'
  BY ReportAppended DEF MemoryInv, TypeOK
<1>2. NumbersOnce'
  BY DEF MemoryInv, NumbersOnce
<1>3. Has(r)
  BY DEF MemoryInv, Lasting
<1>4. \A m \in Range(metrics') : m \in Range(metrics) \/ m[1] = r
  <2>1. Range(metrics') = Range(metrics) \cup {<<r, report[i]>> : i \in DOMAIN report}
    BY ReportAppended
  <2>. QED BY <2>1
<1>5. Lasting'
  BY <1>3, <1>4 DEF MemoryInv, Lasting, Has, Drawn
<1>6. RunFound'
  BY DEF MemoryInv, RunFound
<1>. QED BY <1>1, <1>2, <1>5, <1>6 DEF MemoryInv

LEMMA SaveStepsKeeps ==
    ASSUME MemoryInv, NEW c \in Caller, NEW r \in Run, NEW batch \in Batches,
           SaveSearchSteps(c, r, batch)
    PROVE  MemoryInv'
<1>1. StepsInv
  BY DEF MemoryInv, TypeOK, StepsInv
<1>2. StepsInv'
  <2>1. Next
    BY DEF Next
  <2>. QED BY <1>1, <2>1, StepsStep
<1>. USE DEF SaveSearchSteps, Free
<1>3. TypeOK'
  BY <1>2 DEF MemoryInv, TypeOK, StepsInv
<1>4. Lasting'
  BY DEF MemoryInv, TypeOK, Lasting, Has, Drawn
<1>5. RunFound'
  BY DEF MemoryInv, RunFound
<1>. QED BY <1>2, <1>3, <1>4, <1>5 DEF MemoryInv, StepsInv

(* The lookup finds the run: whoever asks for its metrics has seen it. *)
LEMMA LookupKeeps ==
    ASSUME MemoryInv, NEW c \in Caller, NEW r \in Run, ListMetrics(c, r)
    PROVE  MemoryInv'
<1>1. Has(r) /\ r \in seen[c]
  BY DEF MemoryInv, Lasting, ListMetrics
<1>2. allowed' = [allowed EXCEPT ![c] = [run |-> r, found |-> {r}]]
  <2>1. {q \in {r} : Has(q)} = {r}
    BY <1>1
  <2>. QED BY <2>1 DEF ListMetrics
<1>3. UNCHANGED <<runs, created, metrics, steps, seen>>
  BY DEF ListMetrics, maps
<1>4. TypeOK'
  BY <1>2, <1>3 DEF MemoryInv, TypeOK
<1>5. Lasting' /\ NumbersOnce'
  BY <1>3 DEF MemoryInv, Lasting, NumbersOnce, Has, Drawn
<1>6. RunFound'
  BY <1>1, <1>2, <1>3 DEF MemoryInv, TypeOK, RunFound
<1>. QED BY <1>4, <1>5, <1>6 DEF MemoryInv

LEMMA AnswerKeeps ==
    ASSUME MemoryInv, NEW c \in Caller, ListMetricsEnds(c)
    PROVE  MemoryInv'
<1>1. /\ allowed' = [allowed EXCEPT ![c] = NoList]
      /\ UNCHANGED <<runs, created, metrics, steps, seen>>
  BY DEF ListMetricsEnds, maps
<1>2. TypeOK'
  BY <1>1 DEF MemoryInv, TypeOK, NoList
<1>3. Lasting' /\ NumbersOnce'
  BY <1>1 DEF MemoryInv, Lasting, NumbersOnce, Has, Drawn
<1>4. RunFound'
  BY <1>1 DEF MemoryInv, TypeOK, RunFound
<1>. QED BY <1>2, <1>3, <1>4 DEF MemoryInv

(* What a listing shows are the runs it lists. *)
LEMMA OrdersList ==
    ASSUME NEW S \in SUBSET Run, NEW list \in Orders(S)
    PROVE  /\ Range(list) \subseteq S
           /\ list # <<>> => list[1] \in S
<1>1. list \in [1..Cardinality(S) -> S]
  BY DEF Orders
<1>2. Range(list) \subseteq S
  BY <1>1 DEF Range
<1>3. Cardinality(S) \in Nat
  BY MemoryAssumption, FS_Subset, FS_CardinalityType
<1>4. CASE Cardinality(S) > 0
  BY <1>1, <1>2, <1>3, <1>4 DEF Range
<1>5. CASE Cardinality(S) = 0
  <2>1. DOMAIN list = {} /\ list = [i \in DOMAIN list |-> list[i]]
    BY <1>1, <1>5
  <2>. QED BY <1>2, <2>1
<1>. QED BY <1>2, <1>3, <1>4, <1>5

LEMMA ReadingKeeps ==
    ASSUME MemoryInv, NEW c \in Caller,
           \/ \E r \in Run : GetRun(c, r) \/ ListSearchSteps(c, r)
           \/ \E keep \in Filters : ListRuns(c, keep)
           \/ ListActiveRuns(c)
    PROVE  MemoryInv'
<1>1. ASSUME NEW r \in Run, GetRun(c, r) PROVE MemoryInv'
  <2>1. PICK found \in {{r}, {}} : Sees(c, found) /\ \A q \in found : Has(q)
    BY <1>1 DEF GetRun
  <2>. QED BY <1>1, <2>1, ReadsKeep DEF GetRun
<1>2. ASSUME NEW r \in Run, ListSearchSteps(c, r) PROVE MemoryInv'
  <2>1. {} \in SUBSET Run /\ Free(c) /\ UNCHANGED maps /\ seen' = seen
    BY <1>2 DEF ListSearchSteps
  <2>. QED BY <2>1, ReadsKeep
<1>3. ASSUME NEW keep \in Filters, ListRuns(c, keep) PROVE MemoryInv'
  <2>. DEFINE S == {r \in keep : Has(r)}
  <2>1. S \in SUBSET Run
    BY MemoryAssumption
  <2>2. PICK list \in Orders(S) : Sees(c, IF list = <<>> THEN {} ELSE {list[1]})
    BY <1>3 DEF ListRuns, Listing
  <2>3. list # <<>> => list[1] \in S
    BY <2>1, <2>2, OrdersList
  <2>4. PICK found \in SUBSET Run : Sees(c, found) /\ \A q \in found : Has(q)
    BY <2>1, <2>2, <2>3
  <2>. QED BY <1>3, <2>4, ReadsKeep DEF ListRuns
<1>4. ASSUME ListActiveRuns(c) PROVE MemoryInv'
  <2>. DEFINE S == {r \in Run : runs[r] \in Active}
  <2>1. S \in SUBSET Run /\ \A q \in S : Has(q)
    BY DEF Active, Has, Gone
  <2>2. PICK list \in Orders(S) : Sees(c, Range(list))
    BY <1>4 DEF ListActiveRuns
  <2>3. Range(list) \in SUBSET Run /\ \A q \in Range(list) : Has(q)
    BY <2>1, <2>2, OrdersList
  <2>. QED BY <1>4, <2>2, <2>3, ReadsKeep DEF ListActiveRuns
<1>. QED BY <1>1, <1>2, <1>3, <1>4

LEMMA MemoryStep ==
    ASSUME Deletable = {}
    PROVE  MemoryInv /\ [Next]_vars => MemoryInv'
<1>. SUFFICES ASSUME MemoryInv, [Next]_vars PROVE MemoryInv'
  OBVIOUS
<1>1. ASSUME NEW c \in Caller, NEW r \in Run, DeleteRun(c, r) PROVE FALSE
  BY <1>1 DEF DeleteRun
<1>2. ASSUME NEW c \in Caller, NEW r \in Run,
             \/ \E at \in 1..Cardinality(Run) : CreateRun(c, r, at)
             \/ \E s \in Written : UpdateRunStatus(c, r, s)
             \/ \E report \in Reports : SaveMetrics(c, r, report)
             \/ \E batch \in Batches : SaveSearchSteps(c, r, batch)
             \/ ListMetrics(c, r)
      PROVE  MemoryInv'
  BY <1>2, CreateKeeps, UpdateKeeps, SaveMetricsKeeps, SaveStepsKeeps, LookupKeeps
<1>3. ASSUME NEW c \in Caller, ListMetricsEnds(c) PROVE MemoryInv'
  BY <1>3, AnswerKeeps
<1>4. CASE UNCHANGED vars
  BY <1>4 DEF vars, maps, MemoryInv, TypeOK, NumbersOnce, Lasting, RunFound, Has, Drawn
<1>. QED BY <1>1, <1>2, <1>3, <1>4, ReadingKeeps DEF Next

(* While no run is deleted - no route calls service.DeleteRun - what a caller has
   found stays there, no metric is of a run that is not, and the first section of
   ListMetrics finds the run it is asked for (memory/repo.go:38-181). *)
THEOREM MemoryInductive ==
    ASSUME Deletable = {}
    PROVE  Spec => []MemoryInv
BY MemoryInit, MemoryStep, PTL DEF Spec

(* The maps and the slice hold what the calls have put into them. *)
THEOREM MemoryTypeCorrect ==
    ASSUME Deletable = {}
    PROVE  Spec => []TypeOK
<1>1. MemoryInv => TypeOK
  BY DEF MemoryInv
<1>. QED BY <1>1, MemoryInductive, PTL

-----------------------------------------------------------------------------
(* The refinement: a section is the call of its name, the first of ListMetrics no
   step, and steps saved for an identifier nobody has are not to be seen. *)

(* The tables that RunStore is given. *)
StorePoints == {m \in Range(metrics) : m[1] \in Stored}
StoreSteps  == UNION {StepsOf(r) : r \in Stored}

LEMMA RefinesInit == Init => Store!Init
<1>. SUFFICES ASSUME Init PROVE Store!Init
  OBVIOUS
<1>1. Stored = {}
  BY DEF Init, Stored, Has, Gone
<1>. QED BY <1>1 DEF Init, Store!Init, Blank, Store!Blank

LEMMA CardinalityAgrees == \A S : Cardinality(S) = Store!Cardinality(S)
BY DEF Cardinality, Store!Cardinality

LEMMA OrdersAgree == \A S : Orders(S) = Store!Orders(S)
BY CardinalityAgrees DEF Orders, Store!Orders

(* Every metric is of a stored run. *)
LEMMA PointsStored ==
    ASSUME MemoryInv
    PROVE  StorePoints = Range(metrics)
BY MetricsOfRuns DEF MemoryInv, Lasting, StorePoints, Stored

LEMMA StepsOfRun == \A r : StepsOf(r) = RowsIn(r, Range(steps[r]))
BY DEF StepsOf, RowsIn, Row

LEMMA RunOfSteps == \A r : \A s \in StepsOf(r) : s.run = r
BY DEF StepsOf

(* The steps of one run, in the table of all. *)
LEMMA StepsStored ==
    ASSUME NEW r \in Run, Has(r)
    PROVE  {s \in StoreSteps : s.run = r} = StepsOf(r)
BY RunOfSteps DEF StoreSteps, Stored

(* A batch of one run leaves the steps of the others alone. *)
LEMMA UpsertOfRun ==
    ASSUME NEW r \in Stored, NEW batch, NEW after,
           after = Store!Upserted(StepsOf(r), Store!RowsOf(r, batch))
    PROVE  (UNION {StepsOf(q) : q \in Stored \ {r}}) \cup after
               = Store!Upserted(StoreSteps, Store!RowsOf(r, batch))
<1>. DEFINE new == Store!RowsOf(r, batch)
            rest == UNION {StepsOf(q) : q \in Stored \ {r}}
            spared(t) == \A n \in new : n.run = t.run => n.number # t.number
<1>1. \A n \in new : n.run = r
  BY DEF Store!RowsOf
<1>2. \A t \in rest : t.run # r
  BY RunOfSteps
<1>3. StoreSteps = rest \cup StepsOf(r)
  BY DEF StoreSteps
<1>4. \A t \in rest : spared(t)
  BY <1>1, <1>2
<1>5. after = {t \in StepsOf(r) : spared(t)} \cup new
  BY DEF Store!Upserted
<1>6. Store!Upserted(StoreSteps, new) = {t \in StoreSteps : spared(t)} \cup new
  BY DEF Store!Upserted
<1>7. rest \cup {t \in StepsOf(r) : spared(t)} = {t \in StoreSteps : spared(t)}
  <2>. HIDE DEF rest, spared
  <2>. QED BY <1>3, <1>4
<1>8. rest \cup after = Store!Upserted(StoreSteps, new)
  <2>. HIDE DEF rest, spared
  <2>. QED BY <1>5, <1>6, <1>7
<1>. QED BY <1>8

LEMMA CreateRefines ==
    ASSUME MemoryInv, NEW c \in Caller, NEW r \in Run, NEW at \in 1..Cardinality(Run),
           CreateRun(c, r, at)
    PROVE  Store!CreateRun(c, r, at)
<1>1. /\ runs[r] = "none" /\ r \notin Stray
      /\ runs' = [runs EXCEPT ![r] = "PENDING"]
      /\ UNCHANGED <<metrics, steps>>
  BY DEF CreateRun
<1>2. Stored' = Stored \cup {r}
  BY <1>1 DEF MemoryInv, TypeOK, Stored, Has, Gone
<1>3. MemoryInv'
  BY CreateKeeps
<1>4. StorePoints' = StorePoints
  <2>1. StorePoints = Range(metrics)
    BY PointsStored
  <2>2. \A m \in Range(metrics) : m[1] \in Stored
    BY <2>1 DEF StorePoints
  <2>. QED BY <1>1, <1>2, <2>1, <2>2 DEF StorePoints
<1>5. StoreSteps' = StoreSteps
  <2>1. steps[r] = <<>>
    BY <1>1 DEF MemoryInv, Lasting, Drawn
  <2>2. \A q : StepsOf(q)' = StepsOf(q)
    BY <1>1 DEF StepsOf
  <2>3. StepsOf(r) = {}
    BY <2>1 DEF StepsOf, Range
  <2>. QED BY <1>2, <2>2, <2>3 DEF StoreSteps
<1>. QED BY <1>1, <1>4, <1>5 DEF CreateRun, Says, Said, Sees, Blank, StorePoints, StoreSteps,
      Store!CreateRun, Store!Says, Store!Said, Store!Sees, Store!Blank

LEMMA UpdateRefines ==
    ASSUME MemoryInv, NEW c \in Caller, NEW r \in Run, NEW s \in Written,
           UpdateRunStatus(c, r, s)
    PROVE  Store!UpdateRunStatus(c, r, s)
<1>1. Stored' = Stored
  BY UpdateKeeps DEF Stored
<1>2. StorePoints' = StorePoints /\ StoreSteps' = StoreSteps
  <2>1. UNCHANGED <<metrics, steps>>
    BY DEF UpdateRunStatus
  <2>. QED BY <1>1, <2>1 DEF StorePoints, StoreSteps, StepsOf
<1>3. CASE Has(r)
  BY <1>2, <1>3 DEF UpdateRunStatus, Has, Gone, Says, Said, Blank, StorePoints, StoreSteps,
      Store!UpdateRunStatus, Store!Exists, Store!Gone, Store!Says, Store!Said, Store!Blank
<1>4. CASE ~Has(r)
  BY <1>2, <1>4 DEF UpdateRunStatus, Has, Gone, Says, Said, Blank, StorePoints, StoreSteps,
      Store!UpdateRunStatus, Store!Exists, Store!Gone, Store!Says, Store!Said, Store!Blank
<1>. QED BY <1>3, <1>4

LEMMA SaveMetricsRefines ==
    ASSUME MemoryInv, NEW c \in Caller, NEW r \in Run, NEW report \in Reports,
           SaveMetrics(c, r, report)
    PROVE  Store!SaveMetrics(c, r, report)
<1>1. UNCHANGED <<runs, created, steps, seen>> /\ r \in seen[c] /\ Has(r)
  BY DEF SaveMetrics, MemoryInv, Lasting
<1>2. MemoryInv'
  BY SaveMetricsKeeps
<1>3. StorePoints = Range(metrics)
  BY PointsStored
<1>4. StorePoints' = Range(metrics')
  <2>1. Range(metrics') \subseteq Run \X Points
    BY ReportAppended, RangeTyped
  <2>2. \A m \in Range(metrics') : m[1] \in Run
    BY <2>1
  <2>3. \A m \in Range(metrics') : Has(m[1])'
    BY <1>2 DEF MemoryInv, Lasting
  <2>. QED BY <2>2, <2>3 DEF StorePoints, Stored
<1>5. StorePoints' = StorePoints \cup Store!PointsOf(r, report)
  BY <1>3, <1>4, ReportAppended DEF Store!PointsOf
<1>6. StoreSteps' = StoreSteps
  BY <1>1 DEF StoreSteps, StepsOf, Stored, Has
<1>. QED BY <1>1, <1>5, <1>6 DEF SaveMetrics, Says, Said, Blank, Has, Gone, StorePoints,
      StoreSteps, Store!SaveMetrics, Store!Exists, Store!Gone, Store!Says, Store!Said, Store!Blank

LEMMA SaveStepsRefines ==
    ASSUME MemoryInv, NEW c \in Caller, NEW r \in Run, NEW batch \in Batches,
           SaveSearchSteps(c, r, batch)
    PROVE  Store!SaveSearchSteps(c, r, batch) \/ Store!SaveForNobody(c, r)
<1>1. /\ UNCHANGED <<runs, created, metrics, seen>> /\ Drawn(r)
      /\ steps' = [steps EXCEPT ![r] = Puts(steps[r], batch)]
  BY DEF SaveSearchSteps
<1>2. Stored' = Stored /\ StorePoints' = StorePoints
  BY <1>1 DEF Stored, Has, StorePoints
<1>3. \A q \in Stored : q # r => StepsOf(q)' = StepsOf(q)
  BY <1>1 DEF MemoryInv, TypeOK, StepsOf, Stored
<1>4. CASE Has(r)
  <2>1. steps[r] \in Seq(Posted) /\ steps'[r] = Puts(steps[r], batch) /\ batch \in Seq(Posted)
    BY <1>1, BatchTyped DEF MemoryInv, TypeOK
  <2>2. Range(steps'[r]) = Held(steps[r], batch, Len(batch))
    BY <2>1, PutsHolds
  <2>3. StepsOf(r)' = RowsIn(r, Held(steps[r], batch, Len(batch)))
    BY <2>2 DEF StepsOf, RowsIn, Row
  <2>4. StepsOf(r)' = Store!Upserted(StepsOf(r), Store!RowsOf(r, batch))
    BY <2>1, <2>3, HeldIsUpsert, StepsOfRun
  <2>5. r \in Stored
    BY <1>4 DEF Stored
  <2>6. StoreSteps' = (UNION {StepsOf(q) : q \in Stored \ {r}}) \cup StepsOf(r)'
    <3>1. {StepsOf(q)' : q \in Stored} = {StepsOf(q) : q \in Stored \ {r}} \cup {StepsOf(r)'}
      BY <1>3, <2>5
    <3>2. StoreSteps' = UNION {StepsOf(q)' : q \in Stored}
      BY <1>2 DEF StoreSteps
    <3>. QED BY <3>1, <3>2
  <2>7. StoreSteps' = Store!Upserted(StoreSteps, Store!RowsOf(r, batch))
    BY <2>4, <2>5, <2>6, UpsertOfRun
  <2>. QED BY <1>1, <1>2, <1>4, <2>7 DEF SaveSearchSteps, Says, Said, Blank, Has, Gone, Drawn,
        StorePoints, StoreSteps, Store!SaveSearchSteps, Store!Exists, Store!Gone, Store!Drawn,
        Store!Says, Store!Said, Store!Blank
<1>5. CASE ~Has(r)
  <2>1. StoreSteps' = StoreSteps
    BY <1>2, <1>3, <1>5 DEF StoreSteps, Stored
  <2>. QED BY <1>1, <1>2, <1>5, <2>1 DEF SaveSearchSteps, Says, Said, Blank, Has, Gone, Drawn,
        StorePoints, StoreSteps, Store!SaveForNobody, Store!data, Store!Exists, Store!Gone,
        Store!Drawn, Store!Says, Store!Said, Store!Blank
<1>. QED BY <1>4, <1>5

LEMMA ReadingRefines ==
    ASSUME MemoryInv, NEW c \in Caller,
           \/ \E r \in Run : GetRun(c, r) \/ ListSearchSteps(c, r)
           \/ \E keep \in Filters : ListRuns(c, keep)
           \/ ListActiveRuns(c)
    PROVE  Store!Next
<1>1. ASSUME UNCHANGED maps PROVE UNCHANGED Store!data
  BY <1>1 DEF maps, Store!data, StepsOf, Stored, Has
<1>. USE DEF Says, Said, Sees, Has, Gone, Blank,
             Store!Says, Store!Said, Store!Sees, Store!Exists, Store!Gone, Store!Blank
<1>2. ASSUME NEW r \in Run, GetRun(c, r) PROVE Store!GetRun(c, r)
  <2>1. UNCHANGED Store!data
    BY <1>1, <1>2 DEF GetRun
  <2>. QED BY <1>2, <2>1 DEF GetRun, Store!GetRun
<1>3. ASSUME NEW r \in Run, ListSearchSteps(c, r) PROVE Store!ListSearchSteps(c, r)
  <2>1. UNCHANGED <<Store!data, seen>> /\ r \in seen[c]
    BY <1>1, <1>3 DEF ListSearchSteps
  <2>2. Has(r)
    BY <2>1 DEF MemoryInv, Lasting
  <2>3. {s \in StoreSteps : s.run = r} = StepsOf(r)
    BY <2>2, StepsStored
  <2>. QED BY <1>3, <2>1, <2>3 DEF ListSearchSteps, StoreSteps, Store!ListSearchSteps
<1>4. ASSUME NEW keep \in Filters, ListRuns(c, keep) PROVE Store!ListRuns(c, keep)
  <2>1. PICK list \in Listing(keep) :
            /\ Says(c, [Blank EXCEPT !.said = "ok", !.runs = list])
            /\ Sees(c, IF list = <<>> THEN {} ELSE {list[1]})
    BY <1>4 DEF ListRuns
  <2>2. list \in Orders({r \in keep : Has(r)})
    BY DEF Listing
  <2>3. \A i \in DOMAIN list : created[list[i]] \in Nat
    <3>1. list \in [1..Cardinality({r \in keep : Has(r)}) -> {r \in keep : Has(r)}]
      BY <2>2 DEF Orders
    <3>. QED BY <3>1, MemoryAssumption DEF MemoryInv, TypeOK
  <2>4. \A i, j \in DOMAIN list : i < j => created[list[i]] >= created[list[j]]
    BY <2>3 DEF Listing, Before
  <2>5. list \in Store!Orders({r \in keep : Store!Exists(r)})
    BY <2>2, OrdersAgree
  <2>6. UNCHANGED Store!data
    BY <1>1, <1>4 DEF ListRuns
  <2>. QED BY <2>1, <2>4, <2>5, <2>6 DEF Store!ListRuns
<1>5. ASSUME ListActiveRuns(c) PROVE Store!ListActiveRuns(c)
  <2>1. PICK list \in Orders({r \in Run : runs[r] \in Active}) :
            /\ Says(c, [Blank EXCEPT !.said = "ok", !.runs = list])
            /\ Sees(c, Range(list))
    BY <1>5 DEF ListActiveRuns
  <2>2. list \in Store!Orders({r \in Run : runs[r] \in Store!Active})
    BY <2>1, OrdersAgree DEF Active, Store!Active
  <2>3. UNCHANGED Store!data
    BY <1>1, <1>5 DEF ListActiveRuns
  <2>. QED BY <2>1, <2>2, <2>3 DEF Store!ListActiveRuns, Range, Store!Range
<1>. QED BY <1>2, <1>3, <1>4, <1>5 DEF Store!Next

(* The second section answers: as the first has found the run, nothing of another
   run is in the answer, and what was saved in between is. *)
LEMMA AnswerRefines ==
    ASSUME MemoryInv, NEW c \in Caller, ListMetricsEnds(c)
    PROVE  Store!ListMetrics(c, allowed[c].run) /\ allowed[c].run \in Run
<1>. DEFINE r == allowed[c].run
<1>1. r \in seen[c] /\ allowed[c].found = {r} /\ r \in Run
  BY DEF MemoryInv, RunFound, TypeOK, ListMetricsEnds
<1>2. {m \in Range(metrics) : allowed[c].found = {} \/ m[1] \in allowed[c].found}
          = {p \in StorePoints : p[1] = r}
  BY <1>1, PointsStored
<1>3. UNCHANGED maps
  BY DEF ListMetricsEnds
<1>4. UNCHANGED Store!data
  BY <1>3 DEF maps, Store!data, StepsOf, Stored, Has
<1>. QED BY <1>1, <1>2, <1>4 DEF ListMetricsEnds, StorePoints, Says, Blank,
      Store!ListMetrics, Store!Says, Store!Blank

LEMMA StepRefines ==
    ASSUME Deletable = {}, MemoryInv, [Next]_vars
    PROVE  [Store!Next]_(Store!vars)
<1>1. ASSUME NEW c \in Caller, NEW r \in Run, ListMetrics(c, r)
      PROVE  UNCHANGED Store!vars
  <2>1. UNCHANGED <<runs, created, metrics, steps, seen, reply>>
    BY <1>1 DEF ListMetrics, maps
  <2>. QED BY <2>1 DEF Store!vars, Store!data, StepsOf, Stored, Has
<1>2. CASE UNCHANGED vars
  BY <1>2 DEF vars, maps, Store!vars, Store!data, StepsOf, Stored, Has
<1>3. ASSUME NEW c \in Caller, NEW r \in Run, DeleteRun(c, r)
      PROVE  FALSE
  BY <1>3 DEF DeleteRun
<1>4. ASSUME NEW c \in Caller, NEW r \in Run, NEW at \in 1..Cardinality(Run), CreateRun(c, r, at)
      PROVE  Store!Next
  <2>1. Store!CreateRun(c, r, at) /\ at \in 1..Store!Cardinality(Run)
    BY <1>4, CreateRefines, CardinalityAgrees
  <2>. QED BY <2>1 DEF Store!Next
<1>5. ASSUME NEW c \in Caller, NEW r \in Run, NEW s \in Written, UpdateRunStatus(c, r, s)
      PROVE  Store!Next
  BY <1>5, UpdateRefines DEF Store!Next
<1>6. ASSUME NEW c \in Caller, NEW r \in Run, NEW report \in Reports, SaveMetrics(c, r, report)
      PROVE  Store!Next
  BY <1>6, SaveMetricsRefines DEF Store!Next
<1>7. ASSUME NEW c \in Caller, NEW r \in Run, NEW batch \in Batches, SaveSearchSteps(c, r, batch)
      PROVE  Store!Next
  BY <1>7, SaveStepsRefines DEF Store!Next
<1>8. ASSUME NEW c \in Caller, ListMetricsEnds(c)
      PROVE  Store!Next
  BY <1>8, AnswerRefines DEF Store!Next
<1>. QED BY <1>1, <1>2, <1>3, <1>4, <1>5, <1>6, <1>7, <1>8, ReadingRefines DEF Next

(* While no run is deleted, the memory repository keeps the promises of
   app.RunRepository as Postgres does: what it does not check the handlers have
   checked, and its two-section ListMetrics answers at one moment
   (memory/repo.go:25-181). *)
THEOREM MemoryRefinesRunStore ==
    ASSUME Deletable = {}
    PROVE  Spec => RefinesRunStore
<1>1. MemoryInv /\ [Next]_vars => [Store!Next]_(Store!vars)
  BY StepRefines
<1>. QED BY RefinesInit, <1>1, MemoryInductive, PTL DEF RefinesRunStore, Spec, Store!Spec
=============================================================================
