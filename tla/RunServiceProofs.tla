--------------------------- MODULE RunServiceProofs ---------------------------
(***************************************************************************)
(* Proofs about loadtestd (module RunService), for any set of runs, any    *)
(* number of goroutines and attempts, and every kind and number of faults. *)
(***************************************************************************)
EXTENDS RunService, FiniteSetTheorems, TLAPS

(* The arithmetic, apart from the rest. *)
LEMMA ZeroTry == 0 \in 0..MaxTries
BY ConstantsAssumption DEF ConstantsAssumption

LEMMA NextTry == ASSUME NEW n \in 0..MaxTries, n < MaxTries PROVE n + 1 \in 0..MaxTries
BY ConstantsAssumption DEF ConstantsAssumption

LEMMA FaultCount == ASSUME faults \in Nat, NEW kind, Fault(kind) PROVE faults' \in Nat
BY DEF Fault

LEMMA SavedCount ==
    ASSUME saved \in [Run -> Nat], NEW r,
           saved' = [saved EXCEPT ![r] = @ + 1]
    PROVE  saved' \in [Run -> Nat]
<1>1. \A x \in Run : saved[x] \in Nat /\ saved[x] + 1 \in Nat
  OBVIOUS
<1>. QED BY <1>1

(* What a goroutine does next is again a task. *)
LEMMA GotoTask ==
    ASSUME task \in [Worker -> Task], NEW w \in Worker, NEW pc \in Pc, Goto(w, pc)
    PROVE  task' \in [Worker -> Task]
BY DEF Goto, Task

LEMMA IdleIsTask == Idle \in Task
BY ConstantsAssumption DEF ConstantsAssumption, Idle, Task, Pc, Reason

LEMMA ReturnTask ==
    ASSUME task \in [Worker -> Task], NEW w \in Worker, Return(w)
    PROVE  task' \in [Worker -> Task]
BY IdleIsTask DEF Return

LEMMA BeginTask ==
    ASSUME task \in [Worker -> Task], NEW w \in Worker, NEW pc \in Pc,
           NEW r \in Run, NEW why \in Reason, NEW try \in 0..MaxTries,
           Begin(w, pc, r, why, try)
    PROVE  task' \in [Worker -> Task]
BY DEF Begin, Task

LEMMA TaskFields ==
    ASSUME task \in [Worker -> Task], NEW w \in Worker
    PROVE  /\ task[w].pc \in Pc
           /\ task[w].run \in Run \cup {NoRun}
           /\ task[w].why \in Reason
           /\ task[w].try \in 0..MaxTries
BY DEF Task

(* Writing the status of any run keeps the row a row. *)
LEMMA SetStatusType ==
    ASSUME TypeOK, NEW r, NEW s \in Status, NEW why \in Reason, SetStatus(r, s, why)
    PROVE  /\ status' \in [Run -> Status]
           /\ reason' \in [Run -> Reason]
           /\ createdAt' \in [Run -> Nat]
BY DEF TypeOK, SetStatus

LEMMA RepoCallType ==
    ASSUME TypeOK, NEW w \in Worker, NEW ok \in BOOLEAN, Reply(w, ok)
    PROVE  /\ ns' = ns /\ tries' = tries
           /\ exec' \in [Run -> ExecState]
BY DEF TypeOK, Reply, ExecState

LEMMA DeleteNamespaceType ==
    ASSUME TypeOK, NEW r, DeleteNamespace(r) \/ DeleteFails(r)
    PROVE  /\ ns' \in [Run -> {"absent", "active", "gone"}]
           /\ exec' = exec /\ tries' = tries
           /\ faults' \in Nat
BY DEF TypeOK, DeleteNamespace, DeleteFails, cluster, Fault

(* A rank in the order of creation is a number. *)
LEMMA RankIsNat == Cardinality({q \in Run : status[q] # "NONE"}) \in Nat
<1>1. IsFiniteSet({q \in Run : status[q] # "NONE"})
  BY ConstantsAssumption, FS_Subset DEF ConstantsAssumption
<1>. QED BY <1>1, FS_CardinalityType

-----------------------------------------------------------------------------
(* Type correctness is inductive by itself. *)
LEMMA TypeOKInductive == TypeOK /\ [Next]_vars => TypeOK'
<1>. SUFFICES ASSUME TypeOK, [Next]_vars PROVE TypeOK'
  OBVIOUS
<1>. USE DEF TypeOK, row, cluster, sweeper, Status, Active, Terminal
<1>. USE DEF SubmitPc, StartPc, RepoPc, Pc, Reason, ExecState
<1>1. ASSUME NEW w \in Worker, NEW r \in Run, StartTest(w, r) PROVE TypeOK'
  BY <1>1, BeginTask, RankIsNat, ZeroTry DEF StartTest
<1>2. ASSUME NEW w \in Worker, EnsureNamespace(w) PROVE TypeOK'
  BY <1>2, GotoTask DEF EnsureNamespace
<1>3. ASSUME NEW w \in Worker, AwaitServing(w) PROVE TypeOK'
  BY <1>3, GotoTask DEF AwaitServing
<1>4. ASSUME NEW w \in Worker, CreateLoadJob(w) PROVE TypeOK'
  BY <1>4, GotoTask DEF CreateLoadJob
<1>5. ASSUME NEW w \in Worker, SubmitFails(w) PROVE TypeOK'
  BY <1>5, GotoTask DEF SubmitFails
<1>6. ASSUME NEW w \in Worker, MarkRunning(w) PROVE TypeOK'
  BY <1>6, ReturnTask, SetStatusType DEF MarkRunning
<1>7. ASSUME NEW w \in Worker, NEW m \in net, AcceptReport(w, m) PROVE TypeOK'
  BY <1>7, BeginTask, ZeroTry DEF AcceptReport, Message
<1>8. ASSUME NEW w \in Worker, SaveMetrics(w) PROVE TypeOK'
  BY <1>8, GotoTask, SavedCount DEF SaveMetrics
<1>9. ASSUME NEW w \in Worker, MarkSuccess(w) PROVE TypeOK'
  BY <1>9, GotoTask, SetStatusType DEF MarkSuccess
<1>10. ASSUME NEW w \in Worker, ReleaseRun(w) PROVE TypeOK'
  BY <1>10, ReturnTask, DeleteNamespaceType DEF ReleaseRun
<1>11. ASSUME NEW w \in Worker, NEW m \in net, AcceptFailure(w, m) PROVE TypeOK'
  BY <1>11, BeginTask DEF AcceptFailure, Message
<1>12. ASSUME NEW w \in Worker, NEW r \in Run, CancelRun(w, r) PROVE TypeOK'
  BY <1>12, BeginTask, ZeroTry DEF CancelRun
<1>13. ASSUME NEW w \in Worker, FailCleanup(w) PROVE TypeOK'
  BY <1>13, GotoTask, DeleteNamespaceType DEF FailCleanup
<1>14. ASSUME NEW w \in Worker, MarkFailed(w) PROVE TypeOK'
  <2>1. task[w].why \in Reason
    BY TaskFields
  <2>2. /\ status' \in [Run -> Status]
        /\ reason' \in [Run -> Reason]
        /\ createdAt' \in [Run -> Nat]
    <3>1. SetStatus(task[w].run, "FAILED", task[w].why)
      BY <1>14 DEF MarkFailed
    <3>. HIDE DEF Reason
    <3>. QED BY <2>1, <3>1, SetStatusType
  <2>3. ns' = ns /\ tries' = tries /\ exec' \in [Run -> ExecState]
    BY <1>14, RepoCallType DEF MarkFailed
  <2>. QED BY <1>14, <2>2, <2>3, ReturnTask DEF MarkFailed
<1>15. ASSUME NEW w \in Worker, RepoFails(w) PROVE TypeOK'
  BY <1>15, ReturnTask, RepoCallType, FaultCount DEF RepoFails
<1>16. CASE SweepList
  BY <1>16 DEF SweepList, Due
<1>17. ASSUME NEW r \in sweepTodo, SweepCleanup(r) PROVE TypeOK'
  BY <1>17, DeleteNamespaceType DEF SweepCleanup
<1>18. ASSUME NEW r \in sweepTodo, SweepFail(r) PROVE TypeOK'
  BY <1>18, SetStatusType DEF SweepFail
<1>19. ASSUME NEW r \in sweepTodo, SweepAborts(r) PROVE TypeOK'
  BY <1>19, DeleteNamespaceType, FaultCount DEF SweepAborts
<1>20. ASSUME NEW r \in Run, Expire(r) PROVE TypeOK'
  BY <1>20 DEF Expire
<1>21. ASSUME NEW r \in Run, PostReport(r) PROVE TypeOK'
  <2>1. [kind |-> "report", run |-> r, try |-> 0] \in Message
    BY ZeroTry DEF Message
  <2>. QED BY <1>21, <2>1 DEF PostReport, Moves
<1>22. ASSUME NEW r \in Run, ExecutorSucceeds(r) PROVE TypeOK'
  BY <1>22 DEF ExecutorSucceeds, Moves
<1>23. ASSUME NEW r \in Run, ExecutorFails(r) PROVE TypeOK'
  BY <1>23 DEF ExecutorFails, Moves
<1>24. ASSUME NEW r \in Run, PostFailure(r) PROVE TypeOK'
  <2>1. tries[r] + 1 \in 0..MaxTries
    BY <1>24, NextTry DEF PostFailure
  <2>2. [kind |-> "failure", run |-> r, try |-> tries[r] + 1] \in Message
    BY <2>1 DEF Message
  <2>. QED BY <1>24, <2>1, <2>2 DEF PostFailure, Moves
<1>25. ASSUME NEW r \in Run, GiveUp(r) PROVE TypeOK'
  BY <1>25 DEF GiveUp, Moves
<1>26. ASSUME NEW r \in Run, PodKilled(r) PROVE TypeOK'
  BY <1>26 DEF PodKilled
<1>27. ASSUME NEW r \in Run, PodLost(r) PROVE TypeOK'
  BY <1>27, FaultCount DEF PodLost
<1>28. ASSUME NEW r \in Run, Disconnect(r) PROVE TypeOK'
  BY <1>28, FaultCount DEF Disconnect, Moves
<1>29. ASSUME NEW m \in net, Drop(m) PROVE TypeOK'
  BY <1>29, FaultCount DEF Drop
<1>30. CASE Crash
  BY <1>30, IdleIsTask, FaultCount DEF Crash
<1>31. CASE UNCHANGED vars
  BY <1>31 DEF vars
<1>. QED
  BY <1>1, <1>2, <1>3, <1>4, <1>5, <1>6, <1>7, <1>8, <1>9, <1>10, <1>11, <1>12,
     <1>13, <1>14, <1>15, <1>16, <1>17, <1>18, <1>19, <1>20, <1>21, <1>22, <1>23,
     <1>24, <1>25, <1>26, <1>27, <1>28, <1>29, <1>30, <1>31
     DEF Next, Accept, Handle, Sweep, Executor

-----------------------------------------------------------------------------
(* What a step of a goroutine leaves in its task, and in the others. *)
LEMMA GotoFields ==
    ASSUME task \in [Worker -> Task], NEW w \in Worker, NEW pc, Goto(w, pc)
    PROVE  /\ task'[w].pc = pc
           /\ task'[w].run = task[w].run
           /\ task'[w].why = task[w].why
           /\ \A v \in Worker : v # w => task'[v] = task[v]
BY DEF Goto, Task

LEMMA ReturnFields ==
    ASSUME task \in [Worker -> Task], NEW w \in Worker, Return(w)
    PROVE  /\ task'[w].pc = "idle"
           /\ \A v \in Worker : v # w => task'[v] = task[v]
BY DEF Return, Idle

LEMMA IdlePc == Idle.pc = "idle"
BY DEF Idle

LEMMA BeginFields ==
    ASSUME task \in [Worker -> Task], NEW w \in Worker, NEW pc, NEW r, NEW why, NEW try,
           Begin(w, pc, r, why, try)
    PROVE  /\ task[w].pc = "idle"
           /\ task'[w].pc = pc
           /\ task'[w].run = r
           /\ task'[w].why = why
           /\ \A v \in Worker : v # w => task'[v] = task[v]
<1>1. task[w].pc = "idle"
  BY IdlePc DEF Begin
<1>2. task'[w] = [pc |-> pc, run |-> r, why |-> why, try |-> try]
  BY DEF Begin
<1>3. \A v \in Worker : v # w => task'[v] = task[v]
  BY DEF Begin
<1>. QED BY <1>1, <1>2, <1>3

(* Cleanup touches the namespace only, and an answer the executor only, which
   it never takes back to a state before its report. *)
LEMMA DeletionFrame ==
    ASSUME NEW r, DeleteNamespace(r) \/ DeleteFails(r)
    PROVE  exec' = exec /\ tries' = tries
BY DEF DeleteNamespace, DeleteFails, cluster

LEMMA ReplyFrame ==
    ASSUME exec \in [Run -> ExecState], NEW w \in Worker, NEW ok, Reply(w, ok)
    PROVE  /\ \A r \in Run : exec'[r] # exec[r] => /\ exec[r] = "waiting"
                                                  /\ exec'[r] \in {"exited", "failing"}
BY DEF Reply

-----------------------------------------------------------------------------
LEMMA RowsExistInductive == IInv /\ [Next]_vars => RowsExist'
<1>. SUFFICES ASSUME IInv, [Next]_vars PROVE RowsExist'
  OBVIOUS
<1>. USE DEF At, RowsExist, row, cluster, sweeper
<1>0. /\ status \in [Run -> Status] /\ exec \in [Run -> ExecState]
      /\ task \in [Worker -> Task] /\ net \in SUBSET Message
      /\ sweepTodo \in SUBSET Run /\ overdue \in SUBSET Run
      /\ \A m \in net : m.run \in Run
      /\ RowsExist
  BY DEF IInv, TypeOK, Message
<1>1. ASSUME NEW w \in Worker, NEW r \in Run, StartTest(w, r) PROVE RowsExist'
  BY <1>0, <1>1, BeginFields DEF StartTest, Status
<1>2. ASSUME NEW w \in Worker, EnsureNamespace(w) PROVE RowsExist'
  BY <1>0, <1>2, GotoFields DEF EnsureNamespace
<1>3. ASSUME NEW w \in Worker, AwaitServing(w) PROVE RowsExist'
  BY <1>0, <1>3, GotoFields DEF AwaitServing
<1>4. ASSUME NEW w \in Worker, CreateLoadJob(w) PROVE RowsExist'
  BY <1>0, <1>4, GotoFields DEF CreateLoadJob
<1>5. ASSUME NEW w \in Worker, SubmitFails(w) PROVE RowsExist'
  <2>1. task[w].pc # "idle" /\ Goto(w, "cleanup")
    BY <1>5 DEF SubmitFails, SubmitPc
  <2>2. \A r \in Run : exec'[r] # "none" => exec[r] # "none" \/ r = task[w].run
    BY <1>0, <1>5 DEF SubmitFails
  <2>3. \A r \in Run : exec[r] # "none" => exec'[r] # "none"
    BY <1>0, <1>5 DEF SubmitFails
  <2>. QED BY <1>0, <1>5, <2>1, <2>2, <2>3, GotoFields DEF SubmitFails
<1>6. ASSUME NEW w \in Worker, MarkRunning(w) PROVE RowsExist'
  BY <1>0, <1>6, ReturnFields DEF MarkRunning, SetStatus
<1>7. ASSUME NEW w \in Worker, NEW m \in net, AcceptReport(w, m) PROVE RowsExist'
  <2>1. Begin(w, "metrics", m.run, "", 0)
    BY <1>7 DEF AcceptReport
  <2>2. /\ task'[w].run = m.run
        /\ \A v \in Worker : v # w => task'[v] = task[v]
    BY <1>0, <2>1, BeginFields
  <2>. QED BY <1>0, <1>7, <2>2 DEF AcceptReport
<1>8. ASSUME NEW w \in Worker, SaveMetrics(w) PROVE RowsExist'
  BY <1>0, <1>8, GotoFields DEF SaveMetrics
<1>9. ASSUME NEW w \in Worker, MarkSuccess(w) PROVE RowsExist'
  BY <1>0, <1>9, GotoFields DEF MarkSuccess, SetStatus
<1>10. ASSUME NEW w \in Worker, ReleaseRun(w) PROVE RowsExist'
  BY <1>0, <1>10, ReturnFields, DeletionFrame DEF ReleaseRun
<1>11. ASSUME NEW w \in Worker, NEW m \in net, AcceptFailure(w, m) PROVE RowsExist'
  BY <1>0, <1>11, BeginFields DEF AcceptFailure
<1>12. ASSUME NEW w \in Worker, NEW r \in Run, CancelRun(w, r) PROVE RowsExist'
  BY <1>0, <1>12, BeginFields DEF CancelRun, Active
<1>13. ASSUME NEW w \in Worker, FailCleanup(w) PROVE RowsExist'
  BY <1>0, <1>13, GotoFields, DeletionFrame DEF FailCleanup
<1>14. ASSUME NEW w \in Worker, MarkFailed(w) PROVE RowsExist'
  BY <1>0, <1>14, ReturnFields, ReplyFrame DEF MarkFailed, SetStatus
<1>15. ASSUME NEW w \in Worker, RepoFails(w) PROVE RowsExist'
  BY <1>0, <1>15, ReturnFields, ReplyFrame DEF RepoFails, RepoPc
<1>16. CASE SweepList
  BY <1>0, <1>16 DEF SweepList, Active, Due
<1>17. ASSUME NEW r \in sweepTodo, SweepCleanup(r) PROVE RowsExist'
  BY <1>0, <1>17, DeletionFrame DEF SweepCleanup
<1>18. ASSUME NEW r \in sweepTodo, SweepFail(r) PROVE RowsExist'
  BY <1>0, <1>18 DEF SweepFail, SetStatus
<1>19. ASSUME NEW r \in sweepTodo, SweepAborts(r) PROVE RowsExist'
  BY <1>0, <1>19, DeletionFrame DEF SweepAborts
<1>20. ASSUME NEW r \in Run, Expire(r) PROVE RowsExist'
  BY <1>0, <1>20 DEF Expire
<1>21. ASSUME NEW r \in Run, PostReport(r) PROVE RowsExist'
  BY <1>0, <1>21 DEF PostReport, Moves
<1>22. ASSUME NEW r \in Run, ExecutorSucceeds(r) PROVE RowsExist'
  BY <1>0, <1>22 DEF ExecutorSucceeds, Moves
<1>23. ASSUME NEW r \in Run, ExecutorFails(r) PROVE RowsExist'
  BY <1>0, <1>23 DEF ExecutorFails, Moves
<1>24. ASSUME NEW r \in Run, PostFailure(r) PROVE RowsExist'
  BY <1>0, <1>24 DEF PostFailure, Moves
<1>25. ASSUME NEW r \in Run, GiveUp(r) PROVE RowsExist'
  BY <1>0, <1>25 DEF GiveUp, Moves
<1>26. ASSUME NEW r \in Run, PodKilled(r) PROVE RowsExist'
  BY <1>0, <1>26 DEF PodKilled, Live
<1>27. ASSUME NEW r \in Run, PodLost(r) PROVE RowsExist'
  BY <1>0, <1>27 DEF PodLost, Live
<1>28. ASSUME NEW r \in Run, Disconnect(r) PROVE RowsExist'
  BY <1>0, <1>28 DEF Disconnect, Moves
<1>29. ASSUME NEW m \in net, Drop(m) PROVE RowsExist'
  BY <1>0, <1>29 DEF Drop
<1>30. CASE Crash
  BY <1>0, <1>30, IdlePc DEF Crash
<1>31. CASE UNCHANGED vars
  BY <1>0, <1>31 DEF vars
<1>. QED
  BY <1>1, <1>2, <1>3, <1>4, <1>5, <1>6, <1>7, <1>8, <1>9, <1>10, <1>11,
     <1>12, <1>13, <1>14, <1>15, <1>16, <1>17, <1>18, <1>19, <1>20, <1>21,
     <1>22, <1>23, <1>24, <1>25, <1>26, <1>27, <1>28, <1>29, <1>30, <1>31
     DEF Next, Accept, Handle, Sweep, Executor

-----------------------------------------------------------------------------
(* Only goroutine w moves: the others keep what StartedOnce says of them if w
   competes with none of them for a run. *)
LEMMA StartedOnceStep ==
    ASSUME StartedOnce, RowsExist, NEW w \in Worker,
           \A v \in Worker : v # w => task'[v] = task[v],
           task'[w].pc \in StartPc =>
             \A v \in Worker : v # w /\ task[v].pc \in StartPc
                                   => task[v].run # task'[w].run,
           \A q \in Run : \/ exec'[q] = "none" <=> exec[q] = "none"
                          \/ task[w].pc \in StartPc /\ q = task[w].run,
           StartProgress(w)'
    PROVE  StartedOnce'
<1>1. ASSUME NEW v \in Worker, v # w PROVE StartProgress(v)'
  <2>1. task[v].pc # "idle" => task[v].run \in Run
    BY DEF RowsExist
  <2>2. task[w].pc \in StartPc /\ task[v].pc \in StartPc => task[v].run # task[w].run
    BY <1>1 DEF StartedOnce
  <2>3. StartProgress(v) /\ task'[v] = task[v]
    BY <1>1 DEF StartedOnce
  <2>. QED BY <2>1, <2>2, <2>3 DEF StartProgress, StartPc, SubmitPc
<1>2. ASSUME NEW v \in Worker, NEW u \in Worker, v # u,
             task'[v].pc \in StartPc, task'[u].pc \in StartPc
      PROVE  task'[v].run # task'[u].run
  BY <1>2 DEF StartedOnce
<1>. QED BY <1>1, <1>2 DEF StartedOnce

LEMMA StartedOnceFrame ==
    ASSUME StartedOnce, RowsExist, task' = task,
           \A r \in Run : exec'[r] = "none" <=> exec[r] = "none"
    PROVE  StartedOnce'
<1>1. ASSUME NEW v \in Worker PROVE StartProgress(v)'
  BY <1>1 DEF StartedOnce, StartProgress, RowsExist, SubmitPc
<1>. QED BY <1>1 DEF StartedOnce

LEMMA StartedOnceInductive == IInv /\ [Next]_vars => StartedOnce'
<1>. SUFFICES ASSUME IInv, [Next]_vars PROVE StartedOnce'
  OBVIOUS
<1>. USE DEF At, StartPc, SubmitPc, row, cluster, sweeper
<1>0. /\ exec \in [Run -> ExecState] /\ task \in [Worker -> Task]
      /\ \A m \in net : m.run \in Run
      /\ RowsExist /\ StartedOnce /\ \A w \in Worker : StartProgress(w)
  BY DEF IInv, TypeOK, Message, StartedOnce
<1>1. ASSUME NEW w \in Worker, NEW r \in Run, StartTest(w, r) PROVE StartedOnce'
  <2>1. Begin(w, "namespace", r, "submit", 0)
    BY <1>1 DEF StartTest
  <2>2. /\ task[w].pc = "idle" /\ task'[w].pc = "namespace"
        /\ task'[w].run = r /\ task'[w].why = "submit"
        /\ \A v \in Worker : v # w => task'[v] = task[v]
    BY <1>0, <2>1, BeginFields
  <2>3. task'[w].pc \in StartPc =>
          \A v \in Worker : v # w /\ task[v].pc \in StartPc => task[v].run # task'[w].run
    BY <1>0, <1>1, <2>2 DEF StartTest, StartedOnce, RowsExist
  <2>4. \A q \in Run : \/ exec'[q] = "none" <=> exec[q] = "none"
                       \/ task[w].pc \in StartPc /\ q = task[w].run
    BY <1>0, <1>1 DEF StartTest
  <2>5. StartProgress(w)'
    BY <1>0, <1>1, <2>2 DEF StartTest, StartProgress, RowsExist
  <2>. QED BY <1>0, <2>2, <2>3, <2>4, <2>5, StartedOnceStep
<1>2. ASSUME NEW w \in Worker, EnsureNamespace(w) PROVE StartedOnce'
  <2>1. Goto(w, "serving")
    BY <1>2 DEF EnsureNamespace
  <2>2. /\ task'[w].pc = "serving"
        /\ task'[w].run = task[w].run /\ task'[w].why = task[w].why
        /\ \A v \in Worker : v # w => task'[v] = task[v]
    BY <1>0, <2>1, GotoFields
  <2>3. task'[w].pc \in StartPc =>
          \A v \in Worker : v # w /\ task[v].pc \in StartPc => task[v].run # task'[w].run
    BY <1>0, <1>2, <2>2 DEF EnsureNamespace, StartedOnce, RowsExist
  <2>4. \A q \in Run : \/ exec'[q] = "none" <=> exec[q] = "none"
                       \/ task[w].pc \in StartPc /\ q = task[w].run
    BY <1>0, <1>2 DEF EnsureNamespace
  <2>5. StartProgress(w)'
    BY <1>0, <1>2, <2>2 DEF EnsureNamespace, StartProgress, RowsExist
  <2>. QED BY <1>0, <2>2, <2>3, <2>4, <2>5, StartedOnceStep
<1>3. ASSUME NEW w \in Worker, AwaitServing(w) PROVE StartedOnce'
  <2>1. Goto(w, "job")
    BY <1>3 DEF AwaitServing
  <2>2. /\ task'[w].pc = "job"
        /\ task'[w].run = task[w].run /\ task'[w].why = task[w].why
        /\ \A v \in Worker : v # w => task'[v] = task[v]
    BY <1>0, <2>1, GotoFields
  <2>3. task'[w].pc \in StartPc =>
          \A v \in Worker : v # w /\ task[v].pc \in StartPc => task[v].run # task'[w].run
    BY <1>0, <1>3, <2>2 DEF AwaitServing, StartedOnce, RowsExist
  <2>4. \A q \in Run : \/ exec'[q] = "none" <=> exec[q] = "none"
                       \/ task[w].pc \in StartPc /\ q = task[w].run
    BY <1>0, <1>3 DEF AwaitServing
  <2>5. StartProgress(w)'
    BY <1>0, <1>3, <2>2 DEF AwaitServing, StartProgress, RowsExist
  <2>. QED BY <1>0, <2>2, <2>3, <2>4, <2>5, StartedOnceStep
<1>4. ASSUME NEW w \in Worker, CreateLoadJob(w) PROVE StartedOnce'
  <2>1. Goto(w, "running")
    BY <1>4 DEF CreateLoadJob
  <2>2. /\ task'[w].pc = "running"
        /\ task'[w].run = task[w].run /\ task'[w].why = task[w].why
        /\ \A v \in Worker : v # w => task'[v] = task[v]
    BY <1>0, <2>1, GotoFields
  <2>3. task'[w].pc \in StartPc =>
          \A v \in Worker : v # w /\ task[v].pc \in StartPc => task[v].run # task'[w].run
    BY <1>0, <1>4, <2>2 DEF CreateLoadJob, StartedOnce, RowsExist
  <2>4. \A q \in Run : \/ exec'[q] = "none" <=> exec[q] = "none"
                       \/ task[w].pc \in StartPc /\ q = task[w].run
    BY <1>0, <1>4 DEF CreateLoadJob
  <2>5. StartProgress(w)'
    BY <1>0, <1>4, <2>2 DEF CreateLoadJob, StartProgress, RowsExist
  <2>. QED BY <1>0, <2>2, <2>3, <2>4, <2>5, StartedOnceStep
<1>5. ASSUME NEW w \in Worker, SubmitFails(w) PROVE StartedOnce'
  <2>1. Goto(w, "cleanup")
    BY <1>5 DEF SubmitFails
  <2>2. /\ task'[w].pc = "cleanup"
        /\ task'[w].run = task[w].run /\ task'[w].why = task[w].why
        /\ \A v \in Worker : v # w => task'[v] = task[v]
    BY <1>0, <2>1, GotoFields
  <2>3. task'[w].pc \in StartPc =>
          \A v \in Worker : v # w /\ task[v].pc \in StartPc => task[v].run # task'[w].run
    BY <1>0, <1>5, <2>2 DEF SubmitFails, StartedOnce, RowsExist
  <2>4. \A q \in Run : \/ exec'[q] = "none" <=> exec[q] = "none"
                       \/ task[w].pc \in StartPc /\ q = task[w].run
    BY <1>0, <1>5 DEF SubmitFails
  <2>5. StartProgress(w)'
    BY <1>0, <1>5, <2>2 DEF SubmitFails, StartProgress, RowsExist
  <2>. QED BY <1>0, <2>2, <2>3, <2>4, <2>5, StartedOnceStep
<1>6. ASSUME NEW w \in Worker, MarkRunning(w) PROVE StartedOnce'
  <2>1. Return(w)
    BY <1>6 DEF MarkRunning
  <2>2. /\ task'[w].pc = "idle"
        /\ \A v \in Worker : v # w => task'[v] = task[v]
    BY <1>0, <2>1, ReturnFields
  <2>3. task'[w].pc \in StartPc =>
          \A v \in Worker : v # w /\ task[v].pc \in StartPc => task[v].run # task'[w].run
    BY <1>0, <1>6, <2>2 DEF MarkRunning, StartedOnce, RowsExist
  <2>4. \A q \in Run : \/ exec'[q] = "none" <=> exec[q] = "none"
                       \/ task[w].pc \in StartPc /\ q = task[w].run
    BY <1>0, <1>6 DEF MarkRunning
  <2>5. StartProgress(w)'
    BY <1>0, <1>6, <2>2 DEF MarkRunning, StartProgress, RowsExist
  <2>. QED BY <1>0, <2>2, <2>3, <2>4, <2>5, StartedOnceStep
<1>7. ASSUME NEW w \in Worker, NEW m \in net, AcceptReport(w, m) PROVE StartedOnce'
  <2>1. Begin(w, "metrics", m.run, "", 0)
    BY <1>7 DEF AcceptReport
  <2>2. /\ task[w].pc = "idle" /\ task'[w].pc = "metrics"
        /\ task'[w].run = m.run /\ task'[w].why = ""
        /\ \A v \in Worker : v # w => task'[v] = task[v]
    BY <1>0, <2>1, BeginFields
  <2>3. task'[w].pc \in StartPc =>
          \A v \in Worker : v # w /\ task[v].pc \in StartPc => task[v].run # task'[w].run
    BY <1>0, <1>7, <2>2 DEF AcceptReport, StartedOnce, RowsExist
  <2>4. \A q \in Run : \/ exec'[q] = "none" <=> exec[q] = "none"
                       \/ task[w].pc \in StartPc /\ q = task[w].run
    BY <1>0, <1>7 DEF AcceptReport
  <2>5. StartProgress(w)'
    BY <1>0, <1>7, <2>2 DEF AcceptReport, StartProgress, RowsExist
  <2>. QED BY <1>0, <2>2, <2>3, <2>4, <2>5, StartedOnceStep
<1>8. ASSUME NEW w \in Worker, SaveMetrics(w) PROVE StartedOnce'
  <2>1. Goto(w, "success")
    BY <1>8 DEF SaveMetrics
  <2>2. /\ task'[w].pc = "success"
        /\ task'[w].run = task[w].run /\ task'[w].why = task[w].why
        /\ \A v \in Worker : v # w => task'[v] = task[v]
    BY <1>0, <2>1, GotoFields
  <2>3. task'[w].pc \in StartPc =>
          \A v \in Worker : v # w /\ task[v].pc \in StartPc => task[v].run # task'[w].run
    BY <1>0, <1>8, <2>2 DEF SaveMetrics, StartedOnce, RowsExist
  <2>4. \A q \in Run : \/ exec'[q] = "none" <=> exec[q] = "none"
                       \/ task[w].pc \in StartPc /\ q = task[w].run
    BY <1>0, <1>8 DEF SaveMetrics
  <2>5. StartProgress(w)'
    BY <1>0, <1>8, <2>2 DEF SaveMetrics, StartProgress, RowsExist
  <2>. QED BY <1>0, <2>2, <2>3, <2>4, <2>5, StartedOnceStep
<1>9. ASSUME NEW w \in Worker, MarkSuccess(w) PROVE StartedOnce'
  <2>1. Goto(w, "release")
    BY <1>9 DEF MarkSuccess
  <2>2. /\ task'[w].pc = "release"
        /\ task'[w].run = task[w].run /\ task'[w].why = task[w].why
        /\ \A v \in Worker : v # w => task'[v] = task[v]
    BY <1>0, <2>1, GotoFields
  <2>3. task'[w].pc \in StartPc =>
          \A v \in Worker : v # w /\ task[v].pc \in StartPc => task[v].run # task'[w].run
    BY <1>0, <1>9, <2>2 DEF MarkSuccess, StartedOnce, RowsExist
  <2>4. \A q \in Run : \/ exec'[q] = "none" <=> exec[q] = "none"
                       \/ task[w].pc \in StartPc /\ q = task[w].run
    BY <1>0, <1>9 DEF MarkSuccess
  <2>5. StartProgress(w)'
    BY <1>0, <1>9, <2>2 DEF MarkSuccess, StartProgress, RowsExist
  <2>. QED BY <1>0, <2>2, <2>3, <2>4, <2>5, StartedOnceStep
<1>10. ASSUME NEW w \in Worker, ReleaseRun(w) PROVE StartedOnce'
  <2>1. Return(w)
    BY <1>10 DEF ReleaseRun
  <2>2. /\ task'[w].pc = "idle"
        /\ \A v \in Worker : v # w => task'[v] = task[v]
    BY <1>0, <2>1, ReturnFields
  <2>3. task'[w].pc \in StartPc =>
          \A v \in Worker : v # w /\ task[v].pc \in StartPc => task[v].run # task'[w].run
    BY <1>0, <1>10, <2>2 DEF ReleaseRun, StartedOnce, RowsExist
  <2>4. \A q \in Run : \/ exec'[q] = "none" <=> exec[q] = "none"
                       \/ task[w].pc \in StartPc /\ q = task[w].run
    BY <1>0, <1>10, DeletionFrame DEF ReleaseRun
  <2>5. StartProgress(w)'
    BY <1>0, <1>10, <2>2 DEF ReleaseRun, StartProgress, RowsExist
  <2>. QED BY <1>0, <2>2, <2>3, <2>4, <2>5, StartedOnceStep
<1>11. ASSUME NEW w \in Worker, NEW m \in net, AcceptFailure(w, m) PROVE StartedOnce'
  <2>1. Begin(w, "cleanup", m.run, "executor", m.try)
    BY <1>11 DEF AcceptFailure
  <2>2. /\ task[w].pc = "idle" /\ task'[w].pc = "cleanup"
        /\ task'[w].run = m.run /\ task'[w].why = "executor"
        /\ \A v \in Worker : v # w => task'[v] = task[v]
    BY <1>0, <2>1, BeginFields
  <2>3. task'[w].pc \in StartPc =>
          \A v \in Worker : v # w /\ task[v].pc \in StartPc => task[v].run # task'[w].run
    BY <1>0, <1>11, <2>2 DEF AcceptFailure, StartedOnce, RowsExist
  <2>4. \A q \in Run : \/ exec'[q] = "none" <=> exec[q] = "none"
                       \/ task[w].pc \in StartPc /\ q = task[w].run
    BY <1>0, <1>11 DEF AcceptFailure
  <2>5. StartProgress(w)'
    BY <1>0, <1>11, <2>2 DEF AcceptFailure, StartProgress, RowsExist
  <2>. QED BY <1>0, <2>2, <2>3, <2>4, <2>5, StartedOnceStep
<1>12. ASSUME NEW w \in Worker, NEW r \in Run, CancelRun(w, r) PROVE StartedOnce'
  <2>1. Begin(w, "cleanup", r, "cancelled", 0)
    BY <1>12 DEF CancelRun
  <2>2. /\ task[w].pc = "idle" /\ task'[w].pc = "cleanup"
        /\ task'[w].run = r /\ task'[w].why = "cancelled"
        /\ \A v \in Worker : v # w => task'[v] = task[v]
    BY <1>0, <2>1, BeginFields
  <2>3. task'[w].pc \in StartPc =>
          \A v \in Worker : v # w /\ task[v].pc \in StartPc => task[v].run # task'[w].run
    BY <1>0, <1>12, <2>2 DEF CancelRun, StartedOnce, RowsExist
  <2>4. \A q \in Run : \/ exec'[q] = "none" <=> exec[q] = "none"
                       \/ task[w].pc \in StartPc /\ q = task[w].run
    BY <1>0, <1>12 DEF CancelRun
  <2>5. StartProgress(w)'
    BY <1>0, <1>12, <2>2 DEF CancelRun, StartProgress, RowsExist
  <2>. QED BY <1>0, <2>2, <2>3, <2>4, <2>5, StartedOnceStep
<1>13. ASSUME NEW w \in Worker, FailCleanup(w) PROVE StartedOnce'
  <2>1. Goto(w, "failed")
    BY <1>13 DEF FailCleanup
  <2>2. /\ task'[w].pc = "failed"
        /\ task'[w].run = task[w].run /\ task'[w].why = task[w].why
        /\ \A v \in Worker : v # w => task'[v] = task[v]
    BY <1>0, <2>1, GotoFields
  <2>3. task'[w].pc \in StartPc =>
          \A v \in Worker : v # w /\ task[v].pc \in StartPc => task[v].run # task'[w].run
    BY <1>0, <1>13, <2>2 DEF FailCleanup, StartedOnce, RowsExist
  <2>4. \A q \in Run : \/ exec'[q] = "none" <=> exec[q] = "none"
                       \/ task[w].pc \in StartPc /\ q = task[w].run
    BY <1>0, <1>13, DeletionFrame DEF FailCleanup
  <2>5. StartProgress(w)'
    BY <1>0, <1>13, <2>2 DEF FailCleanup, StartProgress, RowsExist
  <2>. QED BY <1>0, <2>2, <2>3, <2>4, <2>5, StartedOnceStep
<1>14. ASSUME NEW w \in Worker, MarkFailed(w) PROVE StartedOnce'
  <2>1. Return(w)
    BY <1>14 DEF MarkFailed
  <2>2. /\ task'[w].pc = "idle"
        /\ \A v \in Worker : v # w => task'[v] = task[v]
    BY <1>0, <2>1, ReturnFields
  <2>3. task'[w].pc \in StartPc =>
          \A v \in Worker : v # w /\ task[v].pc \in StartPc => task[v].run # task'[w].run
    BY <1>0, <1>14, <2>2 DEF MarkFailed, StartedOnce, RowsExist
  <2>4. \A q \in Run : \/ exec'[q] = "none" <=> exec[q] = "none"
                       \/ task[w].pc \in StartPc /\ q = task[w].run
    BY <1>0, <1>14, ReplyFrame DEF MarkFailed
  <2>5. StartProgress(w)'
    BY <1>0, <1>14, <2>2 DEF MarkFailed, StartProgress, RowsExist
  <2>. QED BY <1>0, <2>2, <2>3, <2>4, <2>5, StartedOnceStep
<1>15. ASSUME NEW w \in Worker, RepoFails(w) PROVE StartedOnce'
  <2>1. Return(w)
    BY <1>15 DEF RepoFails
  <2>2. /\ task'[w].pc = "idle"
        /\ \A v \in Worker : v # w => task'[v] = task[v]
    BY <1>0, <2>1, ReturnFields
  <2>3. task'[w].pc \in StartPc =>
          \A v \in Worker : v # w /\ task[v].pc \in StartPc => task[v].run # task'[w].run
    BY <1>0, <1>15, <2>2 DEF RepoFails, StartedOnce, RowsExist
  <2>4. \A q \in Run : \/ exec'[q] = "none" <=> exec[q] = "none"
                       \/ task[w].pc \in StartPc /\ q = task[w].run
    BY <1>0, <1>15, ReplyFrame DEF RepoFails
  <2>5. StartProgress(w)'
    BY <1>0, <1>15, <2>2 DEF RepoFails, StartProgress, RowsExist
  <2>. QED BY <1>0, <2>2, <2>3, <2>4, <2>5, StartedOnceStep
<1>16. CASE SweepList
  BY <1>0, <1>16, StartedOnceFrame DEF SweepList
<1>17. ASSUME NEW r \in sweepTodo, SweepCleanup(r) PROVE StartedOnce'
  BY <1>0, <1>17, DeletionFrame, StartedOnceFrame DEF SweepCleanup
<1>18. ASSUME NEW r \in sweepTodo, SweepFail(r) PROVE StartedOnce'
  BY <1>0, <1>18, StartedOnceFrame DEF SweepFail, SetStatus
<1>19. ASSUME NEW r \in sweepTodo, SweepAborts(r) PROVE StartedOnce'
  BY <1>0, <1>19, DeletionFrame, StartedOnceFrame DEF SweepAborts
<1>20. ASSUME NEW r \in Run, Expire(r) PROVE StartedOnce'
  BY <1>0, <1>20, StartedOnceFrame DEF Expire
<1>21. ASSUME NEW r \in Run, PostReport(r) PROVE StartedOnce'
  BY <1>0, <1>21, StartedOnceFrame DEF PostReport, Moves
<1>22. ASSUME NEW r \in Run, ExecutorSucceeds(r) PROVE StartedOnce'
  BY <1>0, <1>22, StartedOnceFrame DEF ExecutorSucceeds, Moves
<1>23. ASSUME NEW r \in Run, ExecutorFails(r) PROVE StartedOnce'
  BY <1>0, <1>23, StartedOnceFrame DEF ExecutorFails, Moves
<1>24. ASSUME NEW r \in Run, PostFailure(r) PROVE StartedOnce'
  BY <1>0, <1>24, StartedOnceFrame DEF PostFailure, Moves
<1>25. ASSUME NEW r \in Run, GiveUp(r) PROVE StartedOnce'
  BY <1>0, <1>25, StartedOnceFrame DEF GiveUp, Moves
<1>26. ASSUME NEW r \in Run, PodKilled(r) PROVE StartedOnce'
  BY <1>0, <1>26, StartedOnceFrame DEF PodKilled, Live
<1>27. ASSUME NEW r \in Run, PodLost(r) PROVE StartedOnce'
  BY <1>0, <1>27, StartedOnceFrame DEF PodLost, Live
<1>28. ASSUME NEW r \in Run, Disconnect(r) PROVE StartedOnce'
  BY <1>0, <1>28, StartedOnceFrame DEF Disconnect, Moves
<1>29. ASSUME NEW m \in net, Drop(m) PROVE StartedOnce'
  BY <1>0, <1>29, StartedOnceFrame DEF Drop
<1>30. CASE Crash
  BY <1>0, <1>30, IdlePc DEF Crash, StartedOnce, StartProgress
<1>31. CASE UNCHANGED vars
  BY <1>0, <1>31, StartedOnceFrame DEF vars
<1>. QED
  BY <1>1, <1>2, <1>3, <1>4, <1>5, <1>6, <1>7, <1>8, <1>9, <1>10, <1>11,
     <1>12, <1>13, <1>14, <1>15, <1>16, <1>17, <1>18, <1>19, <1>20, <1>21,
     <1>22, <1>23, <1>24, <1>25, <1>26, <1>27, <1>28, <1>29, <1>30, <1>31
     DEF Next, Accept, Handle, Sweep, Executor

-----------------------------------------------------------------------------
(* A step that stores no metrics and posts no report moves every report on its
   way, or leaves it where it is. *)
LEMMA ReportedOnceStep ==
    ASSUME ReportedOnce, saved' = saved,
           \A m \in net' : m.kind = "report" => m \in net,
           \A q \in Run : exec'[q] \in {"none", "measuring"} => exec[q] \in {"none", "measuring"},
           \A v \in Worker :
             /\ task'[v].pc = "metrics" => task[v].pc = "metrics" /\ task[v].run = task'[v].run
             /\ task'[v].pc \in {"success", "release"} =>
                  task[v].pc \in {"success", "release"} /\ task[v].run = task'[v].run
    PROVE  ReportedOnce'
<1>1. \A v \in Worker : \A q : Storing(v, q)' => Storing(v, q)
  BY DEF Storing
<1>2. \A q \in Run : exec'[q] \in {"none", "measuring"} =>
          /\ saved'[q] = 0
          /\ \A m \in net' : m.kind = "report" => m.run # q
          /\ \A w \in Worker : ~Storing(w, q)'
  BY <1>1 DEF ReportedOnce
<1>3. \A m \in net' : m.kind = "report" =>
          m.try = 0 /\ saved'[m.run] = 0 /\ \A w \in Worker : ~Storing(w, m.run)'
  BY <1>1 DEF ReportedOnce
<1>4. \A q \in Run, w \in Worker : Storing(w, q)' =>
          saved'[q] = 0 /\ \A v \in Worker : Storing(v, q)' => v = w
  BY <1>1 DEF ReportedOnce
<1>5. \A w \in Worker : task'[w].pc \in {"success", "release"} => saved'[task'[w].run] = 1
  BY DEF ReportedOnce
<1>. QED BY <1>2, <1>3, <1>4, <1>5 DEF ReportedOnce

(* There is one report message of a run at most. *)
LEMMA OneReport ==
    ASSUME ReportedOnce, net \in SUBSET Message, NEW m \in net, NEW n \in net,
           m.kind = "report", n.kind = "report", m.run = n.run
    PROVE  m = n
<1>1. m.try = 0 /\ n.try = 0
  BY DEF ReportedOnce
<1>. QED BY <1>1 DEF Message

LEMMA ReportedOnceInductive == IInv /\ [Next]_vars => ReportedOnce'
<1>. SUFFICES ASSUME IInv, [Next]_vars PROVE ReportedOnce'
  OBVIOUS
<1>. USE DEF At, row, cluster, sweeper
<1>0. /\ exec \in [Run -> ExecState] /\ task \in [Worker -> Task]
      /\ saved \in [Run -> Nat] /\ net \in SUBSET Message
      /\ \A m \in net : m.run \in Run
      /\ RowsExist /\ StartedOnce /\ ReportedOnce
      /\ \A w \in Worker : StartProgress(w)
  BY DEF IInv, TypeOK, Message, StartedOnce
<1>1. ASSUME NEW w \in Worker, NEW r \in Run, StartTest(w, r) PROVE ReportedOnce'
  <2>1. Begin(w, "namespace", r, "submit", 0)
    BY <1>1 DEF StartTest
  <2>2. /\ task[w].pc = "idle" /\ task'[w].pc = "namespace"
        /\ task'[w].run = r /\ task'[w].why = "submit"
        /\ \A v \in Worker : v # w => task'[v] = task[v]
    BY <1>0, <2>1, BeginFields
  <2>. QED BY <1>0, <1>1, <2>2, ReportedOnceStep DEF StartTest
<1>2. ASSUME NEW w \in Worker, EnsureNamespace(w) PROVE ReportedOnce'
  <2>1. Goto(w, "serving")
    BY <1>2 DEF EnsureNamespace
  <2>2. /\ task'[w].pc = "serving"
        /\ task'[w].run = task[w].run /\ task'[w].why = task[w].why
        /\ \A v \in Worker : v # w => task'[v] = task[v]
    BY <1>0, <2>1, GotoFields
  <2>. QED BY <1>0, <1>2, <2>2, ReportedOnceStep DEF EnsureNamespace
<1>3. ASSUME NEW w \in Worker, AwaitServing(w) PROVE ReportedOnce'
  <2>1. Goto(w, "job")
    BY <1>3 DEF AwaitServing
  <2>2. /\ task'[w].pc = "job"
        /\ task'[w].run = task[w].run /\ task'[w].why = task[w].why
        /\ \A v \in Worker : v # w => task'[v] = task[v]
    BY <1>0, <2>1, GotoFields
  <2>. QED BY <1>0, <1>3, <2>2, ReportedOnceStep DEF AwaitServing
<1>4. ASSUME NEW w \in Worker, CreateLoadJob(w) PROVE ReportedOnce'
  <2>1. Goto(w, "running")
    BY <1>4 DEF CreateLoadJob
  <2>2. /\ task'[w].pc = "running"
        /\ task'[w].run = task[w].run /\ task'[w].why = task[w].why
        /\ \A v \in Worker : v # w => task'[v] = task[v]
    BY <1>0, <2>1, GotoFields
  <2>. QED BY <1>0, <1>4, <2>2, ReportedOnceStep DEF CreateLoadJob, StartProgress, SubmitPc
<1>5. ASSUME NEW w \in Worker, SubmitFails(w) PROVE ReportedOnce'
  <2>1. Goto(w, "cleanup")
    BY <1>5 DEF SubmitFails
  <2>2. /\ task'[w].pc = "cleanup"
        /\ task'[w].run = task[w].run /\ task'[w].why = task[w].why
        /\ \A v \in Worker : v # w => task'[v] = task[v]
    BY <1>0, <2>1, GotoFields
  <2>. QED BY <1>0, <1>5, <2>2, ReportedOnceStep DEF SubmitFails, StartProgress, SubmitPc
<1>6. ASSUME NEW w \in Worker, MarkRunning(w) PROVE ReportedOnce'
  <2>1. Return(w)
    BY <1>6 DEF MarkRunning
  <2>2. /\ task'[w].pc = "idle"
        /\ \A v \in Worker : v # w => task'[v] = task[v]
    BY <1>0, <2>1, ReturnFields
  <2>. QED BY <1>0, <1>6, <2>2, ReportedOnceStep DEF MarkRunning, SetStatus
<1>7. ASSUME NEW w \in Worker, NEW m \in net, AcceptReport(w, m) PROVE ReportedOnce'
  <2>1. Begin(w, "metrics", m.run, "", 0)
    BY <1>7 DEF AcceptReport
  <2>2. /\ task[w].pc = "idle" /\ task'[w].pc = "metrics"
        /\ task'[w].run = m.run /\ task'[w].why = ""
        /\ \A v \in Worker : v # w => task'[v] = task[v]
    BY <1>0, <2>1, BeginFields
  <2>3. net' = net \ {m} /\ saved' = saved /\ exec' = exec /\ m.kind = "report"
    BY <1>7 DEF AcceptReport
  <2>4. \A q \in Run : exec[q] \in {"none", "measuring"} => q # m.run
    BY <1>0, <2>3 DEF ReportedOnce
  <2>5. \A n \in net' : n.kind = "report" => n.run # m.run
    BY <1>0, <2>3, OneReport
  <2>6. /\ saved[m.run] = 0
        /\ \A v \in Worker : ~Storing(v, m.run)
    BY <1>0, <2>3 DEF ReportedOnce
  <2>7. \A v \in Worker : \A q : Storing(v, q)' <=> Storing(v, q) \/ (v = w /\ q = m.run)
    BY <1>0, <2>2 DEF Storing
  <2>8. \A v \in Worker : task'[v].pc \in {"success", "release"} => v # w
    BY <2>2
  <2>9. \A q \in Run : exec'[q] \in {"none", "measuring"} =>
          /\ saved'[q] = 0
          /\ \A n \in net' : n.kind = "report" => n.run # q
          /\ \A v \in Worker : ~Storing(v, q)'
    BY <1>0, <2>3, <2>4, <2>7 DEF ReportedOnce
  <2>10. \A n \in net' : n.kind = "report" =>
          n.try = 0 /\ saved'[n.run] = 0 /\ \A v \in Worker : ~Storing(v, n.run)'
    BY <1>0, <2>3, <2>5, <2>7 DEF ReportedOnce
  <2>11. \A q \in Run, v \in Worker : Storing(v, q)' =>
          saved'[q] = 0 /\ \A u \in Worker : Storing(u, q)' => u = v
    BY <1>0, <2>3, <2>6, <2>7 DEF ReportedOnce
  <2>12. \A v \in Worker : task'[v].pc \in {"success", "release"} => saved'[task'[v].run] = 1
    BY <1>0, <2>2, <2>3, <2>8 DEF ReportedOnce
  <2>. QED BY <2>9, <2>10, <2>11, <2>12 DEF ReportedOnce
<1>8. ASSUME NEW w \in Worker, SaveMetrics(w) PROVE ReportedOnce'
  <2>1. Goto(w, "success")
    BY <1>8 DEF SaveMetrics
  <2>2. /\ task'[w].pc = "success"
        /\ task'[w].run = task[w].run /\ task'[w].why = task[w].why
        /\ \A v \in Worker : v # w => task'[v] = task[v]
    BY <1>0, <2>1, GotoFields
  <2>3. /\ task[w].pc = "metrics" /\ task[w].run \in Run
        /\ saved' = [saved EXCEPT ![task[w].run] = @ + 1]
        /\ net' = net /\ exec' = exec
    BY <1>0, <1>8 DEF SaveMetrics, RowsExist
  <2>4. saved[task[w].run] = 0 /\ saved'[task[w].run] = 1
    BY <1>0, <2>3 DEF ReportedOnce, Storing
  <2>5. \A q \in Run : q # task[w].run => saved'[q] = saved[q]
    BY <1>0, <2>3
  <2>6. \A q \in Run, v \in Worker : Storing(v, q)' => Storing(v, q) /\ q # task[w].run
    BY <1>0, <2>2, <2>3 DEF ReportedOnce, Storing
  <2>7. /\ exec[task[w].run] \notin {"none", "measuring"}
        /\ \A n \in net : n.kind = "report" => n.run # task[w].run
    BY <1>0, <2>3 DEF ReportedOnce, Storing
  <2>8. \A v \in Worker : task'[v].pc \in {"success", "release"} => saved'[task'[v].run] = 1
    BY <1>0, <2>2, <2>3, <2>4, <2>5 DEF ReportedOnce, RowsExist
  <2>. QED BY <1>0, <2>3, <2>5, <2>6, <2>7, <2>8 DEF ReportedOnce
<1>9. ASSUME NEW w \in Worker, MarkSuccess(w) PROVE ReportedOnce'
  <2>1. Goto(w, "release")
    BY <1>9 DEF MarkSuccess
  <2>2. /\ task'[w].pc = "release"
        /\ task'[w].run = task[w].run /\ task'[w].why = task[w].why
        /\ \A v \in Worker : v # w => task'[v] = task[v]
    BY <1>0, <2>1, GotoFields
  <2>. QED BY <1>0, <1>9, <2>2, ReportedOnceStep DEF MarkSuccess, SetStatus
<1>10. ASSUME NEW w \in Worker, ReleaseRun(w) PROVE ReportedOnce'
  <2>1. Return(w)
    BY <1>10 DEF ReleaseRun
  <2>2. /\ task'[w].pc = "idle"
        /\ \A v \in Worker : v # w => task'[v] = task[v]
    BY <1>0, <2>1, ReturnFields
  <2>. QED BY <1>0, <1>10, <2>2, DeletionFrame, ReportedOnceStep DEF ReleaseRun
<1>11. ASSUME NEW w \in Worker, NEW m \in net, AcceptFailure(w, m) PROVE ReportedOnce'
  <2>1. Begin(w, "cleanup", m.run, "executor", m.try)
    BY <1>11 DEF AcceptFailure
  <2>2. /\ task[w].pc = "idle" /\ task'[w].pc = "cleanup"
        /\ task'[w].run = m.run /\ task'[w].why = "executor"
        /\ \A v \in Worker : v # w => task'[v] = task[v]
    BY <1>0, <2>1, BeginFields
  <2>. QED BY <1>0, <1>11, <2>2, ReportedOnceStep DEF AcceptFailure
<1>12. ASSUME NEW w \in Worker, NEW r \in Run, CancelRun(w, r) PROVE ReportedOnce'
  <2>1. Begin(w, "cleanup", r, "cancelled", 0)
    BY <1>12 DEF CancelRun
  <2>2. /\ task[w].pc = "idle" /\ task'[w].pc = "cleanup"
        /\ task'[w].run = r /\ task'[w].why = "cancelled"
        /\ \A v \in Worker : v # w => task'[v] = task[v]
    BY <1>0, <2>1, BeginFields
  <2>. QED BY <1>0, <1>12, <2>2, ReportedOnceStep DEF CancelRun
<1>13. ASSUME NEW w \in Worker, FailCleanup(w) PROVE ReportedOnce'
  <2>1. Goto(w, "failed")
    BY <1>13 DEF FailCleanup
  <2>2. /\ task'[w].pc = "failed"
        /\ task'[w].run = task[w].run /\ task'[w].why = task[w].why
        /\ \A v \in Worker : v # w => task'[v] = task[v]
    BY <1>0, <2>1, GotoFields
  <2>. QED BY <1>0, <1>13, <2>2, DeletionFrame, ReportedOnceStep DEF FailCleanup
<1>14. ASSUME NEW w \in Worker, MarkFailed(w) PROVE ReportedOnce'
  <2>1. Return(w)
    BY <1>14 DEF MarkFailed
  <2>2. /\ task'[w].pc = "idle"
        /\ \A v \in Worker : v # w => task'[v] = task[v]
    BY <1>0, <2>1, ReturnFields
  <2>. QED BY <1>0, <1>14, <2>2, ReplyFrame, ReportedOnceStep DEF MarkFailed, SetStatus
<1>15. ASSUME NEW w \in Worker, RepoFails(w) PROVE ReportedOnce'
  <2>1. Return(w)
    BY <1>15 DEF RepoFails
  <2>2. /\ task'[w].pc = "idle"
        /\ \A v \in Worker : v # w => task'[v] = task[v]
    BY <1>0, <2>1, ReturnFields
  <2>. QED BY <1>0, <1>15, <2>2, ReplyFrame, ReportedOnceStep DEF RepoFails
<1>16. CASE SweepList
  BY <1>0, <1>16, ReportedOnceStep DEF SweepList
<1>17. ASSUME NEW r \in sweepTodo, SweepCleanup(r) PROVE ReportedOnce'
  BY <1>0, <1>17, DeletionFrame, ReportedOnceStep DEF SweepCleanup
<1>18. ASSUME NEW r \in sweepTodo, SweepFail(r) PROVE ReportedOnce'
  BY <1>0, <1>18, ReportedOnceStep DEF SweepFail, SetStatus
<1>19. ASSUME NEW r \in sweepTodo, SweepAborts(r) PROVE ReportedOnce'
  BY <1>0, <1>19, DeletionFrame, ReportedOnceStep DEF SweepAborts
<1>20. ASSUME NEW r \in Run, Expire(r) PROVE ReportedOnce'
  BY <1>0, <1>20, ReportedOnceStep DEF Expire
<1>21. ASSUME NEW r \in Run, PostReport(r) PROVE ReportedOnce'
  <2>1. /\ exec[r] = "measuring" /\ exec' = [exec EXCEPT ![r] = "reported"]
        /\ net' = net \cup {[kind |-> "report", run |-> r, try |-> 0]}
        /\ task' = task /\ saved' = saved
    BY <1>21 DEF PostReport, Moves
  <2>2. saved[r] = 0 /\ \A v \in Worker : ~Storing(v, r)
    BY <1>0, <2>1 DEF ReportedOnce
  <2>3. \A n \in net' : n \in net \/ (n.run = r /\ n.try = 0)
    BY <2>1
  <2>4. \A q \in Run : exec'[q] \in {"none", "measuring"} => q # r /\ exec[q] = exec'[q]
    BY <1>0, <2>1
  <2>. QED BY <1>0, <2>1, <2>2, <2>3, <2>4 DEF ReportedOnce, Storing
<1>22. ASSUME NEW r \in Run, ExecutorSucceeds(r) PROVE ReportedOnce'
  BY <1>0, <1>22, ReportedOnceStep DEF ExecutorSucceeds, Moves
<1>23. ASSUME NEW r \in Run, ExecutorFails(r) PROVE ReportedOnce'
  BY <1>0, <1>23, ReportedOnceStep DEF ExecutorFails, Moves
<1>24. ASSUME NEW r \in Run, PostFailure(r) PROVE ReportedOnce'
  BY <1>0, <1>24, ReportedOnceStep DEF PostFailure, Moves
<1>25. ASSUME NEW r \in Run, GiveUp(r) PROVE ReportedOnce'
  BY <1>0, <1>25, ReportedOnceStep DEF GiveUp, Moves
<1>26. ASSUME NEW r \in Run, PodKilled(r) PROVE ReportedOnce'
  BY <1>0, <1>26, ReportedOnceStep DEF PodKilled, Live
<1>27. ASSUME NEW r \in Run, PodLost(r) PROVE ReportedOnce'
  BY <1>0, <1>27, ReportedOnceStep DEF PodLost, Live
<1>28. ASSUME NEW r \in Run, Disconnect(r) PROVE ReportedOnce'
  BY <1>0, <1>28, ReportedOnceStep DEF Disconnect, Moves
<1>29. ASSUME NEW m \in net, Drop(m) PROVE ReportedOnce'
  BY <1>0, <1>29, ReportedOnceStep DEF Drop
<1>30. CASE Crash
  BY <1>0, <1>30, IdlePc, ReportedOnceStep DEF Crash
<1>31. CASE UNCHANGED vars
  BY <1>0, <1>31, ReportedOnceStep DEF vars
<1>. QED
  BY <1>1, <1>2, <1>3, <1>4, <1>5, <1>6, <1>7, <1>8, <1>9, <1>10, <1>11,
     <1>12, <1>13, <1>14, <1>15, <1>16, <1>17, <1>18, <1>19, <1>20, <1>21,
     <1>22, <1>23, <1>24, <1>25, <1>26, <1>27, <1>28, <1>29, <1>30, <1>31
     DEF Next, Accept, Handle, Sweep, Executor

-----------------------------------------------------------------------------
(* The verdicts. *)
Verdicts == SuccessHasItsMetrics /\ RunningWasSubmitted /\ ReasonExplainsFailure

LEMMA VerdictsFrame ==
    ASSUME Verdicts, status' = status, reason' = reason, saved' = saved,
           \A q \in Run : exec'[q] = "none" => exec[q] = "none"
    PROVE  Verdicts'
BY DEF Verdicts, SuccessHasItsMetrics, RunningWasSubmitted, ReasonExplainsFailure

LEMMA VerdictsInductive == IInv /\ [Next]_vars => Verdicts'
<1>. SUFFICES ASSUME IInv, [Next]_vars PROVE Verdicts'
  OBVIOUS
<1>. USE DEF At, row, cluster, sweeper
<1>0. /\ status \in [Run -> Status] /\ reason \in [Run -> Reason]
      /\ exec \in [Run -> ExecState] /\ saved \in [Run -> Nat]
      /\ \A m \in net : m.run \in Run
      /\ RowsExist /\ ReportedOnce /\ Verdicts
      /\ \A w \in Worker : StartProgress(w)
      /\ \A q \in Run : /\ saved[q] <= 1
                        /\ status[q] = "SUCCESS" => saved[q] = 1
                        /\ status[q] = "RUNNING" => exec[q] # "none"
                        /\ status[q] = "FAILED" <=> reason[q] # ""
  BY DEF IInv, TypeOK, Message, StartedOnce, Verdicts,
         SuccessHasItsMetrics, RunningWasSubmitted, ReasonExplainsFailure
<1>1. ASSUME NEW w \in Worker, NEW r \in Run, StartTest(w, r) PROVE Verdicts'
  <2>1. /\ status' = [status EXCEPT ![r] = "PENDING"] /\ status[r] = "NONE"
        /\ reason' = reason /\ saved' = saved /\ exec' = exec
    BY <1>1 DEF StartTest
  <2>. QED BY <1>0, <2>1
     DEF Verdicts, SuccessHasItsMetrics, RunningWasSubmitted, ReasonExplainsFailure
<1>2. ASSUME NEW w \in Worker, EnsureNamespace(w) PROVE Verdicts'
  BY <1>0, <1>2, VerdictsFrame DEF EnsureNamespace
<1>3. ASSUME NEW w \in Worker, AwaitServing(w) PROVE Verdicts'
  BY <1>0, <1>3, VerdictsFrame DEF AwaitServing
<1>4. ASSUME NEW w \in Worker, CreateLoadJob(w) PROVE Verdicts'
  BY <1>0, <1>4, VerdictsFrame DEF CreateLoadJob
<1>5. ASSUME NEW w \in Worker, SubmitFails(w) PROVE Verdicts'
  BY <1>0, <1>5, VerdictsFrame DEF SubmitFails
<1>6. ASSUME NEW w \in Worker, MarkRunning(w) PROVE Verdicts'
  <2>1. /\ status' = [status EXCEPT ![task[w].run] = "RUNNING"]
        /\ reason' = [reason EXCEPT ![task[w].run] = ""]
        /\ saved' = saved /\ exec' = exec
    BY <1>6 DEF MarkRunning, SetStatus
  <2>2. task[w].run \in Run /\ exec[task[w].run] # "none"
    BY <1>0, <1>6 DEF MarkRunning, RowsExist, StartProgress
  <2>. QED BY <1>0, <2>1, <2>2
     DEF Verdicts, SuccessHasItsMetrics, RunningWasSubmitted, ReasonExplainsFailure
<1>7. ASSUME NEW w \in Worker, NEW m \in net, AcceptReport(w, m) PROVE Verdicts'
  BY <1>0, <1>7, VerdictsFrame DEF AcceptReport
<1>8. ASSUME NEW w \in Worker, SaveMetrics(w) PROVE Verdicts'
  <2>1. /\ saved' = [saved EXCEPT ![task[w].run] = @ + 1]
        /\ status' = status /\ reason' = reason /\ exec' = exec
    BY <1>8 DEF SaveMetrics
  <2>2. saved[task[w].run] = 0 /\ task[w].run \in Run
    BY <1>0, <1>8 DEF SaveMetrics, RowsExist, ReportedOnce, Storing
  <2>3. \A q \in Run : /\ q = task[w].run => saved'[q] = saved[q] + 1
                       /\ q # task[w].run => saved'[q] = saved[q]
    BY <1>0, <2>1
  <2>4. 0 + 1 = 1 /\ 1 <= 1
    OBVIOUS
  <2>5. saved'[task[w].run] = 1
    BY <2>2, <2>3, <2>4
  <2>. QED BY <1>0, <2>1, <2>3, <2>4, <2>5
     DEF Verdicts, SuccessHasItsMetrics, RunningWasSubmitted, ReasonExplainsFailure
<1>9. ASSUME NEW w \in Worker, MarkSuccess(w) PROVE Verdicts'
  <2>1. /\ status' = [status EXCEPT ![task[w].run] = "SUCCESS"]
        /\ reason' = [reason EXCEPT ![task[w].run] = ""]
        /\ saved' = saved /\ exec' = exec
    BY <1>9 DEF MarkSuccess, SetStatus
  <2>2. task[w].run \in Run /\ saved[task[w].run] = 1
    BY <1>0, <1>9 DEF MarkSuccess, RowsExist, ReportedOnce
  <2>. QED BY <1>0, <2>1, <2>2
     DEF Verdicts, SuccessHasItsMetrics, RunningWasSubmitted, ReasonExplainsFailure
<1>10. ASSUME NEW w \in Worker, ReleaseRun(w) PROVE Verdicts'
  BY <1>0, <1>10, DeletionFrame, VerdictsFrame DEF ReleaseRun
<1>11. ASSUME NEW w \in Worker, NEW m \in net, AcceptFailure(w, m) PROVE Verdicts'
  BY <1>0, <1>11, VerdictsFrame DEF AcceptFailure
<1>12. ASSUME NEW w \in Worker, NEW r \in Run, CancelRun(w, r) PROVE Verdicts'
  BY <1>0, <1>12, VerdictsFrame DEF CancelRun
<1>13. ASSUME NEW w \in Worker, FailCleanup(w) PROVE Verdicts'
  BY <1>0, <1>13, DeletionFrame, VerdictsFrame DEF FailCleanup
<1>14. ASSUME NEW w \in Worker, MarkFailed(w) PROVE Verdicts'
  <2>1. /\ status' = [status EXCEPT ![task[w].run] = "FAILED"]
        /\ reason' = [reason EXCEPT ![task[w].run] = task[w].why]
        /\ saved' = saved
    BY <1>14 DEF MarkFailed, SetStatus
  <2>2. task[w].run \in Run /\ task[w].why # ""
    BY <1>0, <1>14 DEF MarkFailed, RowsExist, StartProgress
  <2>3. \A q \in Run : exec'[q] = "none" => exec[q] = "none"
    BY <1>0, <1>14, ReplyFrame DEF MarkFailed
  <2>. QED BY <1>0, <2>1, <2>2, <2>3
     DEF Verdicts, SuccessHasItsMetrics, RunningWasSubmitted, ReasonExplainsFailure
<1>15. ASSUME NEW w \in Worker, RepoFails(w) PROVE Verdicts'
  BY <1>0, <1>15, ReplyFrame, VerdictsFrame DEF RepoFails
<1>16. CASE SweepList
  BY <1>0, <1>16, VerdictsFrame DEF SweepList
<1>17. ASSUME NEW r \in sweepTodo, SweepCleanup(r) PROVE Verdicts'
  BY <1>0, <1>17, DeletionFrame, VerdictsFrame DEF SweepCleanup
<1>18. ASSUME NEW r \in sweepTodo, SweepFail(r) PROVE Verdicts'
  <2>1. /\ status' = [status EXCEPT ![r] = "FAILED"]
        /\ reason' = [reason EXCEPT ![r] = "timeout"]
        /\ saved' = saved /\ exec' = exec
    BY <1>18 DEF SweepFail, SetStatus
  <2>. QED BY <1>0, <2>1
     DEF Verdicts, SuccessHasItsMetrics, RunningWasSubmitted, ReasonExplainsFailure
<1>19. ASSUME NEW r \in sweepTodo, SweepAborts(r) PROVE Verdicts'
  BY <1>0, <1>19, DeletionFrame, VerdictsFrame DEF SweepAborts
<1>20. ASSUME NEW r \in Run, Expire(r) PROVE Verdicts'
  BY <1>0, <1>20, VerdictsFrame DEF Expire
<1>21. ASSUME NEW r \in Run, PostReport(r) PROVE Verdicts'
  BY <1>0, <1>21, VerdictsFrame DEF PostReport, Moves
<1>22. ASSUME NEW r \in Run, ExecutorSucceeds(r) PROVE Verdicts'
  BY <1>0, <1>22, VerdictsFrame DEF ExecutorSucceeds, Moves
<1>23. ASSUME NEW r \in Run, ExecutorFails(r) PROVE Verdicts'
  BY <1>0, <1>23, VerdictsFrame DEF ExecutorFails, Moves
<1>24. ASSUME NEW r \in Run, PostFailure(r) PROVE Verdicts'
  BY <1>0, <1>24, VerdictsFrame DEF PostFailure, Moves
<1>25. ASSUME NEW r \in Run, GiveUp(r) PROVE Verdicts'
  BY <1>0, <1>25, VerdictsFrame DEF GiveUp, Moves
<1>26. ASSUME NEW r \in Run, PodKilled(r) PROVE Verdicts'
  BY <1>0, <1>26, VerdictsFrame DEF PodKilled, Live
<1>27. ASSUME NEW r \in Run, PodLost(r) PROVE Verdicts'
  BY <1>0, <1>27, VerdictsFrame DEF PodLost, Live
<1>28. ASSUME NEW r \in Run, Disconnect(r) PROVE Verdicts'
  BY <1>0, <1>28, VerdictsFrame DEF Disconnect, Moves
<1>29. ASSUME NEW m \in net, Drop(m) PROVE Verdicts'
  BY <1>0, <1>29, VerdictsFrame DEF Drop
<1>30. CASE Crash
  BY <1>0, <1>30, IdlePc, VerdictsFrame DEF Crash
<1>31. CASE UNCHANGED vars
  BY <1>0, <1>31, VerdictsFrame DEF vars
<1>. QED
  BY <1>1, <1>2, <1>3, <1>4, <1>5, <1>6, <1>7, <1>8, <1>9, <1>10, <1>11,
     <1>12, <1>13, <1>14, <1>15, <1>16, <1>17, <1>18, <1>19, <1>20, <1>21,
     <1>22, <1>23, <1>24, <1>25, <1>26, <1>27, <1>28, <1>29, <1>30, <1>31
     DEF Next, Accept, Handle, Sweep, Executor

-----------------------------------------------------------------------------
LEMMA Initially == Init => IInv
<1>. SUFFICES ASSUME Init PROVE IInv
  OBVIOUS
<1>1. TypeOK
  BY IdleIsTask, ZeroTry DEF Init, TypeOK, Status, Reason, ExecState
<1>2. \A w \in Worker : task[w].pc = "idle"
  BY IdlePc DEF Init
<1>3. RowsExist /\ StartedOnce /\ ReportedOnce
  BY <1>2 DEF Init, RowsExist, StartedOnce, StartProgress, StartPc, SubmitPc,
              ReportedOnce, Storing
<1>4. \A r \in Run : status[r] = "NONE" /\ reason[r] = "" /\ saved[r] = 0
  BY DEF Init
<1>5. 0 <= 1
  OBVIOUS
<1>6. Verdicts
  BY <1>4, <1>5 DEF Verdicts, SuccessHasItsMetrics, RunningWasSubmitted, ReasonExplainsFailure
<1>. QED BY <1>1, <1>3, <1>6 DEF IInv, Verdicts

(* The invariant the safety theorems follow from. *)
LEMMA Inductive == IInv /\ [Next]_vars => IInv'
BY TypeOKInductive, RowsExistInductive, StartedOnceInductive, ReportedOnceInductive,
   VerdictsInductive DEF IInv, Verdicts

LEMMA Invariant == Spec => []IInv
BY Initially, Inductive, PTL DEF Spec

(* Every reachable state of loadtestd, its database, its cluster and its
   executors is well-formed. *)
THEOREM TypeCorrect == Spec => []TypeOK
<1>1. IInv => TypeOK
  BY DEF IInv
<1>. QED BY Invariant, <1>1, PTL

(* A run shown as SUCCESS has its metrics, stored exactly once, whatever is
   cancelled, retried, dropped or restarted (AcceptReport). *)
THEOREM SuccessSafe == Spec => []SuccessHasItsMetrics
<1>1. IInv => SuccessHasItsMetrics
  BY DEF IInv
<1>. QED BY Invariant, <1>1, PTL

(* A run shown as RUNNING had its load job created (StartTest). *)
THEOREM RunningSafe == Spec => []RunningWasSubmitted
<1>1. IInv => RunningWasSubmitted
  BY DEF IInv
<1>. QED BY Invariant, <1>1, PTL

(* A run has a failure reason if and only if it is FAILED (UpdateRunStatus). *)
THEOREM ReasonSafe == Spec => []ReasonExplainsFailure
<1>1. IInv => ReasonExplainsFailure
  BY DEF IInv
<1>. QED BY Invariant, <1>1, PTL

-----------------------------------------------------------------------------
(* The refinement of RunStatus. *)
Launching == {r \in Run : Starting(r)}

LEMMA LaunchingStays ==
    ASSUME NEW w \in Worker,
           \A v \in Worker : v # w => task'[v] = task[v],
           \/ task'[w].pc \notin StartPc /\ task[w].pc \notin StartPc
           \/ task'[w].pc \in StartPc /\ task[w].pc \in StartPc /\ task'[w].run = task[w].run
    PROVE  Launching' = Launching
<1>1. \A r \in Run : Starting(r)' <=> Starting(r)
  BY DEF Starting
<1>. QED BY <1>1 DEF Launching

LEMMA LaunchingAdds ==
    ASSUME NEW w \in Worker, NEW r \in Run,
           \A v \in Worker : v # w => task'[v] = task[v],
           task[w].pc \notin StartPc, task'[w].pc \in StartPc, task'[w].run = r
    PROVE  Launching' = Launching \cup {r}
<1>1. \A q \in Run : Starting(q)' <=> Starting(q) \/ q = r
  BY DEF Starting
<1>. QED BY <1>1 DEF Launching

(* StartedOnce: nobody else is starting the run that w stops starting. *)
LEMMA LaunchingDrops ==
    ASSUME NEW w \in Worker, StartedOnce, task[w].run \in Run,
           \A v \in Worker : v # w => task'[v] = task[v],
           task[w].pc \in StartPc, task'[w].pc \notin StartPc
    PROVE  /\ task[w].run \in Launching
           /\ Launching' = Launching \ {task[w].run}
<1>1. Starting(task[w].run)
  BY DEF Starting
<1>2. \A q \in Run : Starting(q)' <=> Starting(q) /\ q # task[w].run
  BY DEF Starting, StartedOnce
<1>. QED BY <1>1, <1>2 DEF Launching

LEMMA StepRefines == IInv /\ [Next]_vars => [RS!Next]_(RS!vars)
<1>. SUFFICES ASSUME IInv, [Next]_vars PROVE [RS!Next]_(RS!vars)
  OBVIOUS
<1>. USE DEF At, StartPc, SubmitPc, row, cluster, sweeper
<1>0. /\ status \in [Run -> Status] /\ task \in [Worker -> Task]
      /\ \A m \in net : m.run \in Run
      /\ sweepTodo \in SUBSET Run
      /\ RowsExist /\ StartedOnce
  BY DEF IInv, TypeOK, Message
<1>1. ASSUME NEW w \in Worker, NEW r \in Run, StartTest(w, r) PROVE [RS!Next]_(RS!vars)
  <2>1. Begin(w, "namespace", r, "submit", 0)
    BY <1>1 DEF StartTest
  <2>2. /\ task[w].pc = "idle" /\ task'[w].pc = "namespace"
        /\ task'[w].run = r /\ task'[w].why = "submit"
        /\ \A v \in Worker : v # w => task'[v] = task[v]
    BY <1>0, <2>1, BeginFields
  <2>3. Launching' = Launching \cup {r}
    BY <1>0, <2>2, LaunchingAdds DEF SubmitPc, StartPc
  <2>4. RS!Create(r)
    BY <2>3, <1>1 DEF StartTest, RS!Create, Launching
  <2>. QED BY <2>4 DEF RS!Next
<1>2. ASSUME NEW w \in Worker, EnsureNamespace(w) PROVE [RS!Next]_(RS!vars)
  <2>1. Goto(w, "serving")
    BY <1>2 DEF EnsureNamespace
  <2>2. /\ task'[w].pc = "serving"
        /\ task'[w].run = task[w].run /\ task'[w].why = task[w].why
        /\ \A v \in Worker : v # w => task'[v] = task[v]
    BY <1>0, <2>1, GotoFields
  <2>3. Launching' = Launching
    BY <1>0, <2>2, <1>2, LaunchingStays DEF EnsureNamespace
  <2>. QED BY <2>3, <1>2 DEF EnsureNamespace, RS!vars, Launching
<1>3. ASSUME NEW w \in Worker, AwaitServing(w) PROVE [RS!Next]_(RS!vars)
  <2>1. Goto(w, "job")
    BY <1>3 DEF AwaitServing
  <2>2. /\ task'[w].pc = "job"
        /\ task'[w].run = task[w].run /\ task'[w].why = task[w].why
        /\ \A v \in Worker : v # w => task'[v] = task[v]
    BY <1>0, <2>1, GotoFields
  <2>3. Launching' = Launching
    BY <1>0, <2>2, <1>3, LaunchingStays DEF AwaitServing
  <2>. QED BY <2>3, <1>3 DEF AwaitServing, RS!vars, Launching
<1>4. ASSUME NEW w \in Worker, CreateLoadJob(w) PROVE [RS!Next]_(RS!vars)
  <2>1. Goto(w, "running")
    BY <1>4 DEF CreateLoadJob
  <2>2. /\ task'[w].pc = "running"
        /\ task'[w].run = task[w].run /\ task'[w].why = task[w].why
        /\ \A v \in Worker : v # w => task'[v] = task[v]
    BY <1>0, <2>1, GotoFields
  <2>3. Launching' = Launching
    BY <1>0, <2>2, <1>4, LaunchingStays DEF CreateLoadJob
  <2>. QED BY <2>3, <1>4 DEF CreateLoadJob, RS!vars, Launching
<1>5. ASSUME NEW w \in Worker, SubmitFails(w) PROVE [RS!Next]_(RS!vars)
  <2>1. Goto(w, "cleanup")
    BY <1>5 DEF SubmitFails
  <2>2. /\ task'[w].pc = "cleanup"
        /\ task'[w].run = task[w].run /\ task'[w].why = task[w].why
        /\ \A v \in Worker : v # w => task'[v] = task[v]
    BY <1>0, <2>1, GotoFields
  <2>3. task[w].run \in Launching /\ Launching' = Launching \ {task[w].run}
    BY <1>0, <2>2, <1>5, LaunchingDrops DEF SubmitFails, RowsExist
  <2>4. RS!Abandon({task[w].run})
    BY <2>3, <1>5 DEF SubmitFails, RS!Abandon, Launching
  <2>. QED BY <2>3, <2>4 DEF RS!Next, Launching
<1>6. ASSUME NEW w \in Worker, MarkRunning(w) PROVE [RS!Next]_(RS!vars)
  <2>1. Return(w)
    BY <1>6 DEF MarkRunning
  <2>2. /\ task'[w].pc = "idle"
        /\ \A v \in Worker : v # w => task'[v] = task[v]
    BY <1>0, <2>1, ReturnFields
  <2>3. task[w].run \in Launching /\ Launching' = Launching \ {task[w].run}
    BY <1>0, <2>2, <1>6, LaunchingDrops DEF MarkRunning, RowsExist
  <2>4. status' = [status EXCEPT ![task[w].run] = "RUNNING"]
    BY <1>6 DEF MarkRunning, SetStatus
  <2>5. RS!Launch(task[w].run)
    BY <2>3, <2>4 DEF RS!Launch, Launching
  <2>. QED BY <2>3, <2>5 DEF RS!Next, Launching
<1>7. ASSUME NEW w \in Worker, NEW m \in net, AcceptReport(w, m) PROVE [RS!Next]_(RS!vars)
  <2>1. Begin(w, "metrics", m.run, "", 0)
    BY <1>7 DEF AcceptReport
  <2>2. /\ task[w].pc = "idle" /\ task'[w].pc = "metrics"
        /\ task'[w].run = m.run /\ task'[w].why = ""
        /\ \A v \in Worker : v # w => task'[v] = task[v]
    BY <1>0, <2>1, BeginFields
  <2>3. Launching' = Launching
    BY <1>0, <2>2, <1>7, LaunchingStays DEF AcceptReport
  <2>. QED BY <2>3, <1>7 DEF AcceptReport, RS!vars, Launching
<1>8. ASSUME NEW w \in Worker, SaveMetrics(w) PROVE [RS!Next]_(RS!vars)
  <2>1. Goto(w, "success")
    BY <1>8 DEF SaveMetrics
  <2>2. /\ task'[w].pc = "success"
        /\ task'[w].run = task[w].run /\ task'[w].why = task[w].why
        /\ \A v \in Worker : v # w => task'[v] = task[v]
    BY <1>0, <2>1, GotoFields
  <2>3. Launching' = Launching
    BY <1>0, <2>2, <1>8, LaunchingStays DEF SaveMetrics
  <2>. QED BY <2>3, <1>8 DEF SaveMetrics, RS!vars, Launching
<1>9. ASSUME NEW w \in Worker, MarkSuccess(w) PROVE [RS!Next]_(RS!vars)
  <2>1. Goto(w, "release")
    BY <1>9 DEF MarkSuccess
  <2>2. /\ task'[w].pc = "release"
        /\ task'[w].run = task[w].run /\ task'[w].why = task[w].why
        /\ \A v \in Worker : v # w => task'[v] = task[v]
    BY <1>0, <2>1, GotoFields
  <2>3. Launching' = Launching
    BY <1>0, <2>2, <1>9, LaunchingStays DEF MarkSuccess
  <2>4. /\ task[w].run \in Run /\ status[task[w].run] # "NONE"
        /\ status' = [status EXCEPT ![task[w].run] = "SUCCESS"]
    BY <1>0, <1>9 DEF MarkSuccess, SetStatus, RowsExist
  <2>5. RS!Settle(task[w].run)
    BY <2>3, <2>4 DEF RS!Settle, RS!Terminal, Launching
  <2>. QED BY <2>4, <2>5 DEF RS!Next
<1>10. ASSUME NEW w \in Worker, ReleaseRun(w) PROVE [RS!Next]_(RS!vars)
  <2>1. Return(w)
    BY <1>10 DEF ReleaseRun
  <2>2. /\ task'[w].pc = "idle"
        /\ \A v \in Worker : v # w => task'[v] = task[v]
    BY <1>0, <2>1, ReturnFields
  <2>3. Launching' = Launching
    BY <1>0, <2>2, <1>10, LaunchingStays DEF ReleaseRun
  <2>. QED BY <2>3, <1>10 DEF ReleaseRun, RS!vars, Launching
<1>11. ASSUME NEW w \in Worker, NEW m \in net, AcceptFailure(w, m) PROVE [RS!Next]_(RS!vars)
  <2>1. Begin(w, "cleanup", m.run, "executor", m.try)
    BY <1>11 DEF AcceptFailure
  <2>2. /\ task[w].pc = "idle" /\ task'[w].pc = "cleanup"
        /\ task'[w].run = m.run /\ task'[w].why = "executor"
        /\ \A v \in Worker : v # w => task'[v] = task[v]
    BY <1>0, <2>1, BeginFields
  <2>3. Launching' = Launching
    BY <1>0, <2>2, <1>11, LaunchingStays DEF AcceptFailure
  <2>. QED BY <2>3, <1>11 DEF AcceptFailure, RS!vars, Launching
<1>12. ASSUME NEW w \in Worker, NEW r \in Run, CancelRun(w, r) PROVE [RS!Next]_(RS!vars)
  <2>1. Begin(w, "cleanup", r, "cancelled", 0)
    BY <1>12 DEF CancelRun
  <2>2. /\ task[w].pc = "idle" /\ task'[w].pc = "cleanup"
        /\ task'[w].run = r /\ task'[w].why = "cancelled"
        /\ \A v \in Worker : v # w => task'[v] = task[v]
    BY <1>0, <2>1, BeginFields
  <2>3. Launching' = Launching
    BY <1>0, <2>2, <1>12, LaunchingStays DEF CancelRun
  <2>. QED BY <2>3, <1>12 DEF CancelRun, RS!vars, Launching
<1>13. ASSUME NEW w \in Worker, FailCleanup(w) PROVE [RS!Next]_(RS!vars)
  <2>1. Goto(w, "failed")
    BY <1>13 DEF FailCleanup
  <2>2. /\ task'[w].pc = "failed"
        /\ task'[w].run = task[w].run /\ task'[w].why = task[w].why
        /\ \A v \in Worker : v # w => task'[v] = task[v]
    BY <1>0, <2>1, GotoFields
  <2>3. Launching' = Launching
    BY <1>0, <2>2, <1>13, LaunchingStays DEF FailCleanup
  <2>. QED BY <2>3, <1>13 DEF FailCleanup, RS!vars, Launching
<1>14. ASSUME NEW w \in Worker, MarkFailed(w) PROVE [RS!Next]_(RS!vars)
  <2>1. Return(w)
    BY <1>14 DEF MarkFailed
  <2>2. /\ task'[w].pc = "idle"
        /\ \A v \in Worker : v # w => task'[v] = task[v]
    BY <1>0, <2>1, ReturnFields
  <2>3. Launching' = Launching
    BY <1>0, <2>2, <1>14, LaunchingStays DEF MarkFailed
  <2>4. /\ task[w].run \in Run /\ status[task[w].run] # "NONE"
        /\ status' = [status EXCEPT ![task[w].run] = "FAILED"]
    BY <1>0, <1>14 DEF MarkFailed, SetStatus, RowsExist
  <2>5. RS!Settle(task[w].run)
    BY <2>3, <2>4 DEF RS!Settle, RS!Terminal, Launching
  <2>. QED BY <2>4, <2>5 DEF RS!Next
<1>15. ASSUME NEW w \in Worker, RepoFails(w) PROVE [RS!Next]_(RS!vars)
  <2>1. Return(w)
    BY <1>15 DEF RepoFails
  <2>2. /\ task'[w].pc = "idle"
        /\ \A v \in Worker : v # w => task'[v] = task[v]
    BY <1>0, <2>1, ReturnFields
  <2>3. CASE At(w, "running")
    <3>1. task[w].run \in Launching /\ Launching' = Launching \ {task[w].run}
      BY <1>0, <2>2, <2>3, LaunchingDrops DEF RowsExist
    <3>2. RS!Abandon({task[w].run})
      BY <3>1, <1>15 DEF RepoFails, RS!Abandon, Launching
    <3>. QED BY <3>1, <3>2 DEF RS!Next, Launching
  <2>4. CASE ~At(w, "running")
    <3>1. task[w].pc \notin StartPc
      BY <2>4, <1>15 DEF RepoFails, RepoPc
    <3>2. Launching' = Launching
      BY <1>0, <2>2, <3>1, LaunchingStays
    <3>. QED BY <3>2, <1>15 DEF RepoFails, RS!vars, Launching
  <2>. QED BY <2>3, <2>4
<1>16. CASE SweepList
  BY <1>16 DEF SweepList, RS!vars, Starting
<1>17. ASSUME NEW r \in sweepTodo, SweepCleanup(r) PROVE [RS!Next]_(RS!vars)
  BY <1>17 DEF SweepCleanup, RS!vars, Starting
<1>18. ASSUME NEW r \in sweepTodo, SweepFail(r) PROVE [RS!Next]_(RS!vars)
  <2>1. Launching' = Launching
    BY <1>18 DEF SweepFail, Launching, Starting
  <2>2. /\ r \in Run /\ status[r] # "NONE"
        /\ status' = [status EXCEPT ![r] = "FAILED"]
    BY <1>0, <1>18 DEF SweepFail, SetStatus, RowsExist
  <2>3. RS!Settle(r)
    BY <2>1, <2>2 DEF RS!Settle, RS!Terminal, Launching
  <2>. QED BY <2>2, <2>3 DEF RS!Next
<1>19. ASSUME NEW r \in sweepTodo, SweepAborts(r) PROVE [RS!Next]_(RS!vars)
  BY <1>19 DEF SweepAborts, RS!vars, Starting
<1>20. ASSUME NEW r \in Run, Expire(r) PROVE [RS!Next]_(RS!vars)
  BY <1>20 DEF Expire, RS!vars, Starting
<1>21. ASSUME NEW r \in Run, PostReport(r) PROVE [RS!Next]_(RS!vars)
  BY <1>21 DEF PostReport, RS!vars, Starting
<1>22. ASSUME NEW r \in Run, ExecutorSucceeds(r) PROVE [RS!Next]_(RS!vars)
  BY <1>22 DEF ExecutorSucceeds, RS!vars, Starting
<1>23. ASSUME NEW r \in Run, ExecutorFails(r) PROVE [RS!Next]_(RS!vars)
  BY <1>23 DEF ExecutorFails, RS!vars, Starting
<1>24. ASSUME NEW r \in Run, PostFailure(r) PROVE [RS!Next]_(RS!vars)
  BY <1>24 DEF PostFailure, RS!vars, Starting
<1>25. ASSUME NEW r \in Run, GiveUp(r) PROVE [RS!Next]_(RS!vars)
  BY <1>25 DEF GiveUp, RS!vars, Starting
<1>26. ASSUME NEW r \in Run, PodKilled(r) PROVE [RS!Next]_(RS!vars)
  BY <1>26 DEF PodKilled, RS!vars, Starting
<1>27. ASSUME NEW r \in Run, PodLost(r) PROVE [RS!Next]_(RS!vars)
  BY <1>27 DEF PodLost, RS!vars, Starting
<1>28. ASSUME NEW r \in Run, Disconnect(r) PROVE [RS!Next]_(RS!vars)
  BY <1>28 DEF Disconnect, RS!vars, Starting
<1>29. ASSUME NEW m \in net, Drop(m) PROVE [RS!Next]_(RS!vars)
  BY <1>29 DEF Drop, RS!vars, Starting
<1>30. CASE Crash
  <2>1. Launching' = {} /\ status' = status
    BY <1>30, IdlePc DEF Crash, Launching, Starting
  <2>2. CASE Launching = {}
    BY <2>1, <2>2 DEF RS!vars, Launching
  <2>3. CASE Launching # {}
    <3>1. RS!Abandon(Launching)
      BY <2>1, <2>3 DEF RS!Abandon, Launching
    <3>. QED BY <3>1 DEF RS!Next, Launching
  <2>. QED BY <2>2, <2>3
<1>31. CASE UNCHANGED vars
  BY <1>31 DEF vars, RS!vars, Starting
<1>. QED
  BY <1>1, <1>2, <1>3, <1>4, <1>5, <1>6, <1>7, <1>8, <1>9, <1>10, <1>11,
     <1>12, <1>13, <1>14, <1>15, <1>16, <1>17, <1>18, <1>19, <1>20, <1>21,
     <1>22, <1>23, <1>24, <1>25, <1>26, <1>27, <1>28, <1>29, <1>30, <1>31
     DEF Next, Accept, Handle, Sweep, Executor

(* loadtestd implements RunStatus: whatever the handlers, the sweep, the
   executors and the faults do, the status of a run only changes as RunStatus
   says, and RUNNING is written at most once, by StartTest. *)
THEOREM Refinement == Spec => RefinesRunStatus
<1>1. Init => RS!Init
  BY IdlePc DEF Init, RS!Init, Starting, StartPc, SubmitPc
<1>. QED BY <1>1, StepRefines, Invariant, PTL DEF Spec, RefinesRunStatus, RS!Spec

(* A verdict is never replaced by an active status once StartTest of the run is
   over, so a poller that sees SUCCESS or FAILED then (scripts/lib.sh) never
   sees the run active again. *)
THEOREM NoRevival == Spec => RS!LaunchedStaysTerminal
<1>0. IInv => status \in [Run -> Status]
  BY DEF IInv, TypeOK
<1>1. ASSUME IInv, [RS!Next]_(RS!vars) PROVE [RS!KeepsVerdict]_(RS!vars)
  <2>1. ASSUME NEW r \in Run, RS!Create(r) PROVE RS!KeepsVerdict
    BY <1>0, <1>1, <2>1 DEF RS!KeepsVerdict, RS!Create, RS!Terminal
  <2>2. ASSUME NEW r \in Run, RS!Launch(r) PROVE RS!KeepsVerdict
    BY <1>0, <1>1, <2>2 DEF RS!KeepsVerdict, RS!Launch
  <2>3. ASSUME NEW r \in Run, RS!Settle(r) PROVE RS!KeepsVerdict
    BY <1>0, <1>1, <2>3 DEF RS!KeepsVerdict, RS!Settle
  <2>4. ASSUME NEW S, RS!Abandon(S) PROVE RS!KeepsVerdict
    BY <2>4 DEF RS!KeepsVerdict, RS!Abandon
  <2>. QED BY <1>1, <2>1, <2>2, <2>3, <2>4 DEF RS!Next
<1>2. Spec => [][RS!Next]_(RS!vars)
  BY Refinement DEF RefinesRunStatus, RS!Spec
<1>. QED BY <1>1, <1>2, Invariant, PTL DEF RS!LaunchedStaysTerminal
=============================================================================
