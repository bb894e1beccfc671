-------------------------- MODULE RunOwnershipProofs --------------------------
(***************************************************************************)
(* Proofs about who looks after a run (module RunService): its PENDING     *)
(* row, its pod and its namespace, on top of the invariant IInv of         *)
(* RunServiceProofs, and again for any set of runs, any number of          *)
(* goroutines and attempts, and every kind and number of faults.           *)
(***************************************************************************)
EXTENDS RunServiceProofs

-----------------------------------------------------------------------------
(* The step of one goroutine leaves the tasks of StartTest in order if its own is. *)
LEMMA SubmitTasksStep ==
    ASSUME SubmitTasks, NEW w \in Worker,
           \A v \in Worker : v # w => task'[v] = task[v],
           task'[w].why = "submit" => task'[w].pc \in StartPc \cup {"cleanup", "failed"}
    PROVE  SubmitTasks'
BY DEF SubmitTasks

LEMMA IdleFields == Idle.pc = "idle" /\ Idle.why = ""
BY DEF Idle

LEMMA ReturnWhy ==
    ASSUME task \in [Worker -> Task], NEW w \in Worker, Return(w)
    PROVE  task'[w].why = ""
BY IdleFields DEF Return

LEMMA SubmitTasksInductive == IInv /\ SubmitTasks /\ [Next]_vars => SubmitTasks'
<1>. SUFFICES ASSUME IInv, SubmitTasks, [Next]_vars PROVE SubmitTasks'
  OBVIOUS
<1>. USE DEF At, row, cluster, sweeper, StartPc, SubmitPc
<1>0. task \in [Worker -> Task]
  BY DEF IInv, TypeOK
<1>1. ASSUME NEW w \in Worker, NEW r \in Run, StartTest(w, r) PROVE SubmitTasks'
  BY <1>0, <1>1, BeginFields, SubmitTasksStep DEF StartTest
<1>2. ASSUME NEW w \in Worker, NEW m \in net, AcceptReport(w, m) PROVE SubmitTasks'
  <2>1. Begin(w, "metrics", m.run, "", 0)
    BY <1>2 DEF AcceptReport
  <2>2. task'[w].why = "" /\ \A v \in Worker : v # w => task'[v] = task[v]
    BY <1>0, <2>1, BeginFields
  <2>. QED BY <2>2, SubmitTasksStep
<1>3. ASSUME NEW w \in Worker, NEW m \in net, AcceptFailure(w, m) PROVE SubmitTasks'
  BY <1>0, <1>3, BeginFields, SubmitTasksStep DEF AcceptFailure
<1>4. ASSUME NEW w \in Worker, NEW r \in Run, CancelRun(w, r) PROVE SubmitTasks'
  BY <1>0, <1>4, BeginFields, SubmitTasksStep DEF CancelRun
<1>5. ASSUME NEW w \in Worker, Handle(w) PROVE SubmitTasks'
  <2>1. CASE EnsureNamespace(w) \/ AwaitServing(w) \/ CreateLoadJob(w) \/ SubmitFails(w)
    BY <1>0, <2>1, GotoFields, SubmitTasksStep
       DEF EnsureNamespace, AwaitServing, CreateLoadJob, SubmitFails
  <2>2. CASE SaveMetrics(w) \/ MarkSuccess(w)
    <3>1. task[w].why # "submit"
      BY <2>2 DEF SaveMetrics, MarkSuccess, SubmitTasks
    <3>. QED BY <1>0, <2>2, <3>1, GotoFields, SubmitTasksStep DEF SaveMetrics, MarkSuccess
  <2>3. CASE FailCleanup(w)
    BY <1>0, <2>3, GotoFields, SubmitTasksStep DEF FailCleanup
  <2>4. CASE MarkRunning(w) \/ ReleaseRun(w) \/ MarkFailed(w)
    BY <1>0, <2>4, ReturnFields, ReturnWhy, SubmitTasksStep
       DEF MarkRunning, ReleaseRun, MarkFailed
  <2>. QED BY <1>5, <2>1, <2>2, <2>3, <2>4 DEF Handle
<1>6. ASSUME NEW w \in Worker, RepoFails(w) PROVE SubmitTasks'
  BY <1>0, <1>6, ReturnFields, ReturnWhy, SubmitTasksStep DEF RepoFails
<1>7. CASE Crash
  BY <1>7, IdleFields DEF Crash, SubmitTasks
<1>8. CASE task' = task
  BY <1>8 DEF SubmitTasks
<1>9. Sweep => task' = task
  BY DEF Sweep, SweepList, SweepCleanup, SweepFail, SweepAborts
<1>10. ASSUME NEW r \in Run,
              Expire(r) \/ Executor(r) \/ PodKilled(r) \/ PodLost(r) \/ Disconnect(r)
       PROVE  task' = task
  BY <1>10 DEF Expire, Executor, PostReport, ExecutorSucceeds, ExecutorFails, PostFailure,
               GiveUp, PodKilled, PodLost, Disconnect
<1>11. (\E m \in net : Drop(m)) => task' = task
  BY DEF Drop
<1>12. UNCHANGED vars => task' = task
  BY DEF vars
<1>. QED
  BY <1>1, <1>2, <1>3, <1>4, <1>5, <1>6, <1>7, <1>8, <1>9, <1>10, <1>11, <1>12
     DEF Next, Accept

-----------------------------------------------------------------------------
(* A step of one goroutine leaves r its StartTest if it is another goroutine's. *)
LEMMA OwnedByOther ==
    ASSUME NEW r \in Run, NEW w \in Worker, NEW u \in Worker,
           task[u].run = r, task[u].why = "submit",
           \A v \in Worker : v # w => task'[v] = task[v],
           u = w => task'[w].run = r /\ task'[w].why = "submit"
    PROVE  Owned(r)'
<1>1. task'[u].run = r /\ task'[u].why = "submit"
  BY DEF Owned
<1>. QED BY <1>1 DEF Owned

LEMMA OwnerStays ==
    ASSUME IInv, SubmitTasks, NEW w \in Worker, NEW r \in Run, Owned(r),
           status'[r] = "PENDING", Handle(w)
    PROVE  Owned(r)'
<1>. USE DEF At, row
<1>0. task \in [Worker -> Task] /\ status \in [Run -> Status]
  BY DEF IInv, TypeOK
<1>1. PICK u \in Worker : task[u].run = r /\ task[u].why = "submit"
  BY DEF Owned
<1>2. CASE EnsureNamespace(w) \/ AwaitServing(w) \/ CreateLoadJob(w) \/ SubmitFails(w)
             \/ SaveMetrics(w) \/ MarkSuccess(w) \/ FailCleanup(w)
  <2>1. \E pc \in Pc : Goto(w, pc)
    BY <1>2 DEF EnsureNamespace, AwaitServing, CreateLoadJob, SubmitFails, SaveMetrics,
                MarkSuccess, FailCleanup, Pc, StartPc, SubmitPc, RepoPc
  <2>. QED BY <1>0, <1>1, <2>1, GotoFields, OwnedByOther
<1>3. CASE ReleaseRun(w)
  <2>1. task[w].why # "submit"
    BY <1>3 DEF ReleaseRun, SubmitTasks, StartPc, SubmitPc
  <2>2. Return(w)
    BY <1>3 DEF ReleaseRun
  <2>. QED BY <1>0, <1>1, <2>1, <2>2, ReturnFields, OwnedByOther
<1>4. CASE MarkRunning(w) \/ MarkFailed(w)
  <2>1. task[w].run # r
    BY <1>0, <1>4 DEF MarkRunning, MarkFailed, SetStatus
  <2>2. Return(w)
    BY <1>4 DEF MarkRunning, MarkFailed
  <2>. QED BY <1>0, <1>1, <2>1, <2>2, ReturnFields, OwnedByOther
<1>. QED BY <1>2, <1>3, <1>4 DEF Handle

(* Only StartTest writes PENDING. *)
LEMMA PendingIsOld ==
    ASSUME IInv, NEW r \in Run, status'[r] = "PENDING", [Next]_vars,
           \A w \in Worker : ~StartTest(w, r)
    PROVE  status[r] = "PENDING"
<1>. USE DEF row
<1>0. status \in [Run -> Status]
  BY DEF IInv, TypeOK
<1>1. ASSUME NEW w \in Worker, NEW q \in Run, StartTest(w, q) PROVE status[r] = "PENDING"
  BY <1>0, <1>1 DEF StartTest
<1>2. ASSUME NEW w \in Worker, Handle(w) PROVE status[r] = "PENDING"
  BY <1>0, <1>2 DEF Handle, EnsureNamespace, AwaitServing, CreateLoadJob, SubmitFails,
       MarkRunning, SaveMetrics, MarkSuccess, ReleaseRun, FailCleanup, MarkFailed, SetStatus
<1>3. ASSUME NEW w \in Worker, RepoFails(w) \/ Accept(w) \/ \E q \in Run : CancelRun(w, q)
      PROVE  status[r] = "PENDING"
  BY <1>3 DEF RepoFails, Accept, AcceptReport, AcceptFailure, CancelRun
<1>4. CASE Sweep
  BY <1>0, <1>4 DEF Sweep, SweepList, SweepCleanup, SweepFail, SweepAborts, SetStatus
<1>5. ASSUME NEW q \in Run,
             Expire(q) \/ Executor(q) \/ PodKilled(q) \/ PodLost(q) \/ Disconnect(q)
      PROVE  status[r] = "PENDING"
  BY <1>5 DEF Expire, Executor, PostReport, ExecutorSucceeds, ExecutorFails, PostFailure,
              GiveUp, PodKilled, PodLost, Disconnect
<1>6. CASE (\E m \in net : Drop(m)) \/ Crash \/ UNCHANGED vars
  BY <1>6 DEF Drop, Crash, vars
<1>. QED BY <1>1, <1>2, <1>3, <1>4, <1>5, <1>6 DEF Next

LEMMA PendingStep ==
    IInv /\ SubmitTasks /\ [Next]_vars
        => [\A r \in Run : status'[r] = "PENDING" /\ ~Owned(r)' =>
              \/ status[r] = "PENDING" /\ ~Owned(r)
              \/ Crash
              \/ \E w \in Worker : RepoFails(w)]_vars
<1>. SUFFICES ASSUME IInv, SubmitTasks, Next, NEW r \in Run, status'[r] = "PENDING",
                     ~Owned(r)', ~Crash, \A w \in Worker : ~RepoFails(w)
              PROVE  status[r] = "PENDING" /\ ~Owned(r)
  OBVIOUS
<1>. USE DEF row, cluster, sweeper
<1>0. task \in [Worker -> Task]
  BY DEF IInv, TypeOK
<1>1. \A w \in Worker : ~StartTest(w, r)
  <2>. SUFFICES ASSUME NEW w \in Worker, StartTest(w, r) PROVE FALSE
    OBVIOUS
  <2>1. task'[w].run = r /\ task'[w].why = "submit"
    BY <1>0, BeginFields DEF StartTest
  <2>. QED BY <2>1 DEF Owned
<1>2. status[r] = "PENDING"
  BY <1>1, PendingIsOld
<1>3. ~Owned(r)
  <2>. SUFFICES ASSUME Owned(r) PROVE FALSE
    OBVIOUS
  <2>1. PICK u \in Worker : task[u].run = r /\ task[u].why = "submit"
    BY DEF Owned
  <2>2. \A w \in Worker : ~Handle(w)
    BY OwnerStays
  <2>3. ASSUME NEW w \in Worker, NEW pc, NEW q, NEW why, NEW try, Begin(w, pc, q, why, try)
        PROVE  FALSE
    <3>1. task[w].why = "" /\ \A v \in Worker : v # w => task'[v] = task[v]
      BY <1>0, <2>3, BeginFields, IdleFields DEF Begin
    <3>. QED BY <2>1, <3>1, OwnedByOther
  <2>4. task' # task
    BY <2>1 DEF Owned
  <2>5. \A w \in Worker : /\ \A q \in Run : ~StartTest(w, q) /\ ~CancelRun(w, q)
                          /\ ~Accept(w)
    BY <2>3 DEF StartTest, CancelRun, Accept, AcceptReport, AcceptFailure
  <2>6. ~Sweep
    BY <2>4 DEF Sweep, SweepList, SweepCleanup, SweepFail, SweepAborts
  <2>7. \A q \in Run : ~Expire(q) /\ ~Executor(q) /\ ~PodKilled(q) /\ ~PodLost(q)
                         /\ ~Disconnect(q)
    BY <2>4 DEF Expire, Executor, PostReport, ExecutorSucceeds, ExecutorFails, PostFailure,
                GiveUp, PodKilled, PodLost, Disconnect
  <2>8. \A m \in net : ~Drop(m)
    BY <2>4 DEF Drop
  <2>. QED BY <2>2, <2>5, <2>6, <2>7, <2>8 DEF Next
<1>. QED BY <1>2, <1>3

LEMMA SubmitTasksInvariant == Spec => []SubmitTasks
<1>1. Init => SubmitTasks
  BY IdleFields DEF Init, SubmitTasks
<1>2. IInv /\ SubmitTasks /\ [Next]_vars => SubmitTasks'
  BY SubmitTasksInductive
<1>. QED BY <1>1, <1>2, Invariant, PTL DEF Spec

(* StartTest and the FailRun it calls: nothing but a refused call of the database or a
   restart leaves a PENDING row that nobody works on. *)
THEOREM PendingLookedAfter == Spec => PendingOwned
<1>1. IInv /\ SubmitTasks /\ [Next]_vars
        => [\A r \in Run : status'[r] = "PENDING" /\ ~Owned(r)' =>
              \/ status[r] = "PENDING" /\ ~Owned(r)
              \/ Crash
              \/ \E w \in Worker : RepoFails(w)]_vars
  BY PendingStep
<1>. QED BY <1>1, Invariant, SubmitTasksInvariant, PTL DEF Spec, PendingOwned

-----------------------------------------------------------------------------
(* LoadPod: the states of the executor between which the pod's own steps move. *)
LEMMA PodMoves ==
    ASSUME IInv, [Next]_vars, NEW r \in Run
    PROVE  \/ exec'[r] = exec[r]
           \/ exec[r] = "none" /\ exec'[r] = "measuring"
           \/ exec[r] = "measuring" /\ exec'[r] \in {"reported", "failing"}
           \/ exec[r] = "reported" /\ exec'[r] \in {"exited", "failing"}
           \/ exec[r] = "failing" /\ exec'[r] \in {"waiting", "exited"}
           \/ exec[r] = "waiting" /\ exec'[r] \in {"failing", "exited"}
           \/ exec[r] \in Live /\ exec'[r] = "exited"
<1>. USE DEF At, row, cluster, sweeper
<1>0. exec \in [Run -> ExecState] /\ task \in [Worker -> Task]
  BY DEF IInv, TypeOK
<1>1. ASSUME NEW w \in Worker, CreateLoadJob(w) \/ SubmitFails(w)
      PROVE  exec'[r] = exec[r] \/ (exec[r] = "none" /\ exec'[r] = "measuring")
  <2>1. task[w].pc \in SubmitPc
    BY <1>1 DEF CreateLoadJob, SubmitFails, SubmitPc
  <2>2. exec[task[w].run] = "none"
    BY <2>1 DEF IInv, StartedOnce, StartProgress
  <2>3. exec' = exec \/ exec' = [exec EXCEPT ![task[w].run] = "measuring"]
    BY <1>1 DEF CreateLoadJob, SubmitFails
  <2>. QED BY <1>0, <2>2, <2>3
<1>2. ASSUME NEW w \in Worker, MarkFailed(w) \/ RepoFails(w)
      PROVE  exec'[r] = exec[r] \/ (exec[r] = "waiting" /\ exec'[r] \in {"failing", "exited"})
  <2>1. PICK ok \in BOOLEAN : Reply(w, ok)
    BY <1>2 DEF MarkFailed, RepoFails
  <2>. QED BY <1>0, <2>1, ReplyFrame
<1>3. ASSUME NEW w \in Worker, ReleaseRun(w) \/ FailCleanup(w) PROVE exec' = exec
  BY <1>3, DeletionFrame DEF ReleaseRun, FailCleanup
<1>4. ASSUME NEW w \in Worker,
             \/ EnsureNamespace(w) \/ AwaitServing(w) \/ MarkRunning(w) \/ SaveMetrics(w)
             \/ MarkSuccess(w) \/ Accept(w) \/ \E q \in Run : StartTest(w, q) \/ CancelRun(w, q)
      PROVE  exec' = exec
  BY <1>4 DEF EnsureNamespace, AwaitServing, MarkRunning, SaveMetrics, MarkSuccess, Accept,
              AcceptReport, AcceptFailure, StartTest, CancelRun
<1>5. CASE Sweep
  BY <1>5, DeletionFrame DEF Sweep, SweepList, SweepCleanup, SweepFail, SweepAborts
<1>6. ASSUME NEW q \in Run, Executor(q)
      PROVE  \/ exec'[r] = exec[r]
             \/ exec[r] = "measuring" /\ exec'[r] \in {"reported", "failing"}
             \/ exec[r] = "reported" /\ exec'[r] \in {"exited", "failing"}
             \/ exec[r] = "failing" /\ exec'[r] \in {"waiting", "exited"}
  BY <1>0, <1>6 DEF Executor, PostReport, ExecutorSucceeds, ExecutorFails, PostFailure,
                    GiveUp, Moves
<1>7. ASSUME NEW q \in Run, PodKilled(q) \/ PodLost(q)
      PROVE  exec'[r] = exec[r] \/ (exec[r] \in Live /\ exec'[r] = "exited")
  <2>1. exec[q] \in Live /\ exec' = [exec EXCEPT ![q] = "exited"]
    BY <1>7 DEF PodKilled, PodLost
  <2>. QED BY <1>0, <2>1
<1>8. ASSUME NEW q \in Run, Disconnect(q)
      PROVE  exec'[r] = exec[r] \/ (exec[r] = "waiting" /\ exec'[r] = "failing")
  <2>1. exec[q] = "waiting" /\ exec' = [exec EXCEPT ![q] = "failing"]
    BY <1>8 DEF Disconnect, Moves
  <2>. QED BY <1>0, <2>1
<1>9. ASSUME NEW m \in net, Drop(m)
      PROVE  exec'[r] = exec[r] \/ (exec[r] = "waiting" /\ exec'[r] = "failing")
  <2>1. \/ exec' = exec
        \/ exec[m.run] = "waiting" /\ exec' = [exec EXCEPT ![m.run] = "failing"]
    BY <1>9 DEF Drop
  <2>. QED BY <1>0, <2>1
<1>10. Crash => exec'[r] = exec[r] \/ (exec[r] = "waiting" /\ exec'[r] = "failing")
  <2>. SUFFICES ASSUME Crash
                PROVE  exec'[r] = exec[r] \/ (exec[r] = "waiting" /\ exec'[r] = "failing")
    OBVIOUS
  <2>1. exec'[r] = IF exec[r] = "waiting" /\ ~\E m \in net : m.run = r /\ m.try = tries[r]
                   THEN "failing" ELSE exec[r]
    BY DEF Crash
  <2>. QED BY <2>1
<1>11. UNCHANGED vars => exec' = exec
  BY DEF vars
<1>12. (\E q \in Run : Expire(q)) => exec' = exec
  BY DEF Expire
<1>. QED
  BY <1>1, <1>2, <1>3, <1>4, <1>5, <1>6, <1>7, <1>8, <1>9, <1>10, <1>11, <1>12
     DEF Next, Handle

LEMMA PodStep ==
    IInv /\ [Next]_vars => [\A r \in Run : LP(r)!Next \/ UNCHANGED PodOf(r)]_vars
<1>. SUFFICES ASSUME IInv, [Next]_vars, NEW r \in Run
              PROVE  LP(r)!Next \/ UNCHANGED PodOf(r)
  OBVIOUS
<1>1. exec[r] \in ExecState
  BY DEF IInv, TypeOK
<1>2. CASE exec'[r] = exec[r]
  BY <1>2 DEF PodOf
<1>3. CASE exec[r] = "none" /\ exec'[r] = "measuring"
  BY <1>3 DEF PodOf
<1>4. CASE exec[r] = "measuring" /\ exec'[r] \in {"reported", "failing"}
  BY <1>4 DEF PodOf, LP!Next, LP!Report, LP!Fail
<1>5. CASE exec[r] = "reported" /\ exec'[r] \in {"exited", "failing"}
  BY <1>5 DEF PodOf, LP!Next, LP!Succeed, LP!Fail
<1>6. CASE exec[r] = "failing" /\ exec'[r] \in {"waiting", "exited"}
  BY <1>6 DEF PodOf, LP!Next, LP!GiveUp
<1>7. CASE exec[r] = "waiting" /\ exec'[r] \in {"failing", "exited"}
  BY <1>7 DEF PodOf, LP!Next, LP!GiveUp
<1>8. CASE exec[r] \in Live /\ exec'[r] = "exited"
  BY <1>8 DEF PodOf, Live, LP!Next, LP!Killed
<1>. QED BY <1>2, <1>3, <1>4, <1>5, <1>6, <1>7, <1>8, PodMoves

(* The executor pod of every run is one LoadPod (CreateLoadJob: BackoffLimit 0): it
   reports at most once and never measures again, whatever is lost or killed. *)
THEOREM PodsRunOnceSafe == Spec => PodsRunOnce
<1>1. Init => \A r \in Run : LP(r)!Init
  BY DEF Init, PodOf, LP!Init
<1>2. IInv /\ [Next]_vars => [\A r \in Run : LP(r)!Next \/ UNCHANGED PodOf(r)]_vars
  BY PodStep
<1>. QED BY <1>1, <1>2, Invariant, PTL DEF Spec, PodsRunOnce

-----------------------------------------------------------------------------
(* Without a fault. *)
LEMMA NoFault == ASSUME faults \in Nat, faults' = 0, NEW kind PROVE ~Fault(kind)
BY DEF Fault

View == <<ns, exec, tries, net, task>>

(* The steps a behaviour without faults is made of. *)
LEMMA Quiet ==
    ASSUME IInv, [Next]_vars, faults' = 0
    PROVE  /\ faults = 0
           /\ \/ \E w \in Worker : \/ \E r \in Run : StartTest(w, r) \/ CancelRun(w, r)
                                   \/ Accept(w) \/ Handle(w)
              \/ \E r \in sweepTodo : SweepCleanup(r)
              \/ \E r \in Run : Executor(r) \/ PodKilled(r)
              \/ UNCHANGED View
<1>. USE DEF row, cluster, sweeper
<1>0. faults \in Nat /\ \A kind : ~Fault(kind)
  BY NoFault DEF IInv, TypeOK
<1>1. \A w \in Worker : ~RepoFails(w)
  BY <1>0 DEF RepoFails
<1>2. ~Crash /\ (\A m \in net : ~Drop(m)) /\ (\A r \in Run : ~PodLost(r) /\ ~Disconnect(r))
  BY <1>0 DEF Crash, Drop, PodLost, Disconnect
<1>3. ASSUME NEW r \in sweepTodo, SweepAborts(r) PROVE UNCHANGED View /\ faults' = faults
  BY <1>0, <1>3 DEF SweepAborts, DeleteFails, View
<1>4. SweepList => UNCHANGED View /\ faults' = faults
  BY DEF SweepList, View
<1>5. ASSUME NEW r \in sweepTodo, SweepFail(r) PROVE UNCHANGED View /\ faults' = faults
  BY <1>5 DEF SweepFail, View
<1>6. ASSUME NEW r \in Run, Expire(r) PROVE UNCHANGED View /\ faults' = faults
  BY <1>6 DEF Expire, View
<1>7. UNCHANGED vars => UNCHANGED View /\ faults' = faults
  BY DEF vars, View
<1>8. ASSUME NEW r, DeleteNamespace(r) \/ DeleteFails(r) PROVE faults' = faults
  BY <1>0, <1>8 DEF DeleteNamespace, DeleteFails
<1>9. ASSUME NEW w \in Worker, Handle(w) PROVE faults' = faults
  BY <1>8, <1>9 DEF Handle, EnsureNamespace, AwaitServing, CreateLoadJob, SubmitFails,
       MarkRunning, SaveMetrics, MarkSuccess, ReleaseRun, FailCleanup, MarkFailed
<1>10. ASSUME NEW w \in Worker, Accept(w) \/ \E r \in Run : StartTest(w, r) \/ CancelRun(w, r)
       PROVE  faults' = faults
  BY <1>10 DEF Accept, AcceptReport, AcceptFailure, StartTest, CancelRun
<1>11. ASSUME NEW r \in sweepTodo, SweepCleanup(r) PROVE faults' = faults
  BY <1>8, <1>11 DEF SweepCleanup
<1>12. ASSUME NEW r \in Run, Executor(r) \/ PodKilled(r) PROVE faults' = faults
  BY <1>12 DEF Executor, PostReport, ExecutorSucceeds, ExecutorFails, PostFailure, GiveUp,
               PodKilled
<1>. QED
  BY <1>1, <1>2, <1>3, <1>4, <1>5, <1>6, <1>7, <1>9, <1>10, <1>11, <1>12 DEF Next, Sweep

(* Cleanup without a fault. *)
LEMMA Deletion ==
    ASSUME IInv, faults' = 0, NEW q \in Run, DeleteNamespace(q) \/ DeleteFails(q)
    PROVE  /\ q \notin Undeletable => ns'[q] # "active"
           /\ \A r \in Run : ns'[r] = "active" => ns[r] = "active"
           /\ exec' = exec /\ tries' = tries
<1>1. faults \in Nat /\ ns \in [Run -> {"absent", "active", "gone"}]
  BY DEF IInv, TypeOK
<1>2. CASE DeleteNamespace(q)
  <2>1. ns' = [ns EXCEPT ![q] = IF @ = "active" THEN "gone" ELSE @] /\ exec' = exec /\ tries' = tries
    BY <1>2 DEF DeleteNamespace
  <2>. QED BY <1>1, <2>1
<1>3. CASE DeleteFails(q)
  BY <1>1, <1>3, NoFault DEF DeleteFails, cluster
<1>. QED BY <1>2, <1>3

(* Only StartTest makes a namespace active, and only before there is a pod. *)
LEMMA NamespaceIsOld ==
    ASSUME IInv, [Next]_vars, faults' = 0, NEW r \in Run, exec[r] # "none", ns'[r] = "active"
    PROVE  ns[r] = "active"
<1>. USE DEF row, cluster, sweeper
<1>0. /\ ns \in [Run -> {"absent", "active", "gone"}]
      /\ \A w \in Worker : task[w].pc # "idle" => task[w].run \in Run
      /\ sweepTodo \subseteq Run
  BY DEF IInv, TypeOK, RowsExist
<1>1. ASSUME NEW w \in Worker, EnsureNamespace(w) \/ SubmitFails(w) PROVE ns[r] = "active"
  <2>1. task[w].pc \in SubmitPc
    BY <1>1 DEF EnsureNamespace, SubmitFails, SubmitPc, At
  <2>2. task[w].run # r
    BY <2>1 DEF IInv, StartedOnce, StartProgress
  <2>3. ns' = ns \/ ns' = [ns EXCEPT ![task[w].run] = "active"]
    BY <1>1 DEF EnsureNamespace, SubmitFails
  <2>. QED BY <1>0, <2>2, <2>3
<1>2. ASSUME NEW w \in Worker, ReleaseRun(w) \/ FailCleanup(w) PROVE ns[r] = "active"
  <2>1. task[w].run \in Run
    BY <1>0, <1>2 DEF ReleaseRun, FailCleanup, At
  <2>. QED BY <1>2, <2>1, Deletion DEF ReleaseRun, FailCleanup
<1>3. ASSUME NEW q \in sweepTodo, SweepCleanup(q) PROVE ns[r] = "active"
  BY <1>0, <1>3, Deletion DEF SweepCleanup
<1>4. ASSUME NEW w \in Worker,
             \/ AwaitServing(w) \/ CreateLoadJob(w) \/ MarkRunning(w) \/ SaveMetrics(w)
             \/ MarkSuccess(w) \/ MarkFailed(w) \/ Accept(w)
             \/ \E q \in Run : StartTest(w, q) \/ CancelRun(w, q)
      PROVE  ns' = ns
  BY <1>4 DEF AwaitServing, CreateLoadJob, MarkRunning, SaveMetrics, MarkSuccess, MarkFailed,
              Reply, Accept, AcceptReport, AcceptFailure, StartTest, CancelRun
<1>5. ASSUME NEW q \in Run, Executor(q) \/ PodKilled(q) PROVE ns' = ns
  BY <1>5 DEF Executor, PostReport, ExecutorSucceeds, ExecutorFails, PostFailure, GiveUp,
              PodKilled
<1>6. UNCHANGED View => ns' = ns
  BY DEF View
<1>. QED BY <1>1, <1>2, <1>3, <1>4, <1>5, <1>6, Quiet DEF Handle

-----------------------------------------------------------------------------
(* An executor that waits for the answer to its webhook gets it, and attempts are
   counted when they are sent. *)
LEMMA Attempts ==
    ASSUME IInv, [Next]_vars, faults' = 0, NEW r \in Run
    PROVE  /\ exec[r] = "waiting" => exec'[r] \in {"waiting", "exited"}
           /\ tries'[r] = tries[r] \/ exec'[r] = "waiting"
<1>. DEFINE Goal == /\ exec[r] = "waiting" => exec'[r] \in {"waiting", "exited"}
                    /\ tries'[r] = tries[r] \/ exec'[r] = "waiting"
<1>. USE DEF At, row, cluster, sweeper
<1>0. /\ exec \in [Run -> ExecState] /\ tries \in [Run -> 0..MaxTries]
      /\ \A w \in Worker : task[w].pc # "idle" => task[w].run \in Run
      /\ sweepTodo \subseteq Run
  BY DEF IInv, TypeOK, RowsExist
<1>1. ASSUME NEW w \in Worker, CreateLoadJob(w) \/ SubmitFails(w) PROVE Goal
  <2>1. task[w].pc \in SubmitPc
    BY <1>1 DEF CreateLoadJob, SubmitFails, SubmitPc
  <2>2. exec[task[w].run] = "none"
    BY <2>1 DEF IInv, StartedOnce, StartProgress
  <2>3. exec' = exec \/ exec' = [exec EXCEPT ![task[w].run] = "measuring"]
    BY <1>1 DEF CreateLoadJob, SubmitFails
  <2>4. tries' = tries
    BY <1>1 DEF CreateLoadJob, SubmitFails
  <2>. QED BY <1>0, <2>2, <2>3, <2>4
<1>2. ASSUME NEW w \in Worker, MarkFailed(w) PROVE Goal
  <2>1. exec' = exec \/ exec' = [exec EXCEPT ![task[w].run] = "exited"]
    BY <1>2 DEF MarkFailed, Reply
  <2>2. tries' = tries
    BY <1>2 DEF MarkFailed, Reply
  <2>. QED BY <1>0, <2>1, <2>2
<1>3. ASSUME NEW w \in Worker, ReleaseRun(w) \/ FailCleanup(w) PROVE Goal
  BY <1>3, DeletionFrame DEF ReleaseRun, FailCleanup
<1>4. ASSUME NEW q \in sweepTodo, SweepCleanup(q) PROVE Goal
  BY <1>4, DeletionFrame DEF SweepCleanup
<1>5. ASSUME NEW w \in Worker,
             \/ EnsureNamespace(w) \/ AwaitServing(w) \/ MarkRunning(w) \/ SaveMetrics(w)
             \/ MarkSuccess(w) \/ Accept(w) \/ \E q \in Run : StartTest(w, q) \/ CancelRun(w, q)
      PROVE  exec' = exec /\ tries' = tries
  BY <1>5 DEF EnsureNamespace, AwaitServing, MarkRunning, SaveMetrics, MarkSuccess, Accept,
              AcceptReport, AcceptFailure, StartTest, CancelRun
<1>6. ASSUME NEW q \in Run, PostReport(q) \/ ExecutorSucceeds(q) \/ ExecutorFails(q) \/ GiveUp(q)
      PROVE  Goal
  <2>1. exec[q] # "waiting" /\ tries' = tries /\ \E s : exec' = [exec EXCEPT ![q] = s]
    BY <1>6 DEF PostReport, ExecutorSucceeds, ExecutorFails, GiveUp, Moves
  <2>. QED BY <1>0, <2>1
<1>7. ASSUME NEW q \in Run, PostFailure(q) PROVE Goal
  <2>1. /\ exec[q] = "failing" /\ exec' = [exec EXCEPT ![q] = "waiting"]
        /\ tries' = [tries EXCEPT ![q] = @ + 1]
    BY <1>7 DEF PostFailure, Moves
  <2>2. q = r => exec'[r] = "waiting"
    BY <1>0, <2>1
  <2>3. q # r => exec'[r] = exec[r] /\ tries'[r] = tries[r]
    BY <1>0, <2>1
  <2>. QED BY <2>2, <2>3
<1>8. ASSUME NEW q \in Run, PodKilled(q) PROVE Goal
  <2>1. exec' = [exec EXCEPT ![q] = "exited"] /\ tries' = tries
    BY <1>8 DEF PodKilled
  <2>. QED BY <1>0, <2>1
<1>9. UNCHANGED View => exec' = exec /\ tries' = tries
  BY DEF View
<1>. QED BY <1>1, <1>2, <1>3, <1>4, <1>5, <1>6, <1>7, <1>8, <1>9, Quiet DEF Handle, Executor

(* An executor that has not sent a failure webhook has counted none. *)
LEMMA TriesStep ==
    ASSUME IInv, Orderly, [Next]_vars, faults' = 0, NEW r \in Run,
           exec'[r] \notin {"waiting", "exited"}
    PROVE  tries'[r] = 0
<1>1. exec[r] \notin {"waiting", "exited"}
  BY PodMoves, Attempts DEF Live
<1>2. tries[r] = 0
  BY <1>1, Quiet DEF Orderly
<1>. QED BY <1>2, Attempts

-----------------------------------------------------------------------------
(* A handler that answers the executor, while it is not the one that moves. *)
LEMMA AnswerKept ==
    ASSUME IInv, Orderly, [Next]_vars, faults' = 0, NEW v \in Worker, task'[v] = task[v]
    PROVE  AnswersLate(v)'
<1>. SUFFICES ASSUME task[v].why = "executor"
              PROVE  /\ task[v].run \in Run => exec'[task[v].run] # "none"
                     /\ task[v].pc = "failed" /\ task[v].run \notin Undeletable
                          => ns'[task[v].run] # "active"
  BY DEF AnswersLate
<1>1. AnswersLate(v)
  BY Quiet DEF Orderly
<1>2. ASSUME task[v].run \in Run PROVE exec'[task[v].run] # "none"
  BY <1>1, <1>2, PodMoves DEF AnswersLate, Live
<1>3. ASSUME task[v].pc = "failed", task[v].run \notin Undeletable
      PROVE  ns'[task[v].run] # "active"
  <2>1. task[v].run \in Run
    BY <1>3 DEF IInv, RowsExist
  <2>. QED BY <1>1, <1>3, <2>1, NamespaceIsOld DEF AnswersLate
<1>. QED BY <1>2, <1>3

LEMMA AnswersLateStep ==
    ASSUME IInv, Orderly, [Next]_vars, faults' = 0, NEW v \in Worker
    PROVE  AnswersLate(v)'
<1>. USE DEF At, row, cluster, sweeper
<1>0. /\ task \in [Worker -> Task] /\ net \in SUBSET Message
      /\ \A w \in Worker : task[w].pc # "idle" => task[w].run \in Run
      /\ \A w \in Worker : AnswersLate(w)
  BY Quiet DEF IInv, TypeOK, RowsExist, Orderly
<1>1. task'[v] = task[v] => AnswersLate(v)'
  BY AnswerKept
<1>2. ASSUME NEW w \in Worker, \A u \in Worker : u # w => task'[u] = task[u],
             AnswersLate(w)'
      PROVE  AnswersLate(v)'
  BY <1>1, <1>2
<1>3. ASSUME NEW w \in Worker, \E r \in Run : StartTest(w, r) \/ CancelRun(w, r)
      PROVE  AnswersLate(v)'
  <2>1. task'[w].why # "executor" /\ \A u \in Worker : u # w => task'[u] = task[u]
    BY <1>0, <1>3, BeginFields DEF StartTest, CancelRun
  <2>. QED BY <1>2, <2>1 DEF AnswersLate
<1>4. ASSUME NEW w \in Worker, NEW m \in net, AcceptReport(w, m) PROVE AnswersLate(v)'
  <2>1. Begin(w, "metrics", m.run, "", 0)
    BY <1>4 DEF AcceptReport
  <2>2. task'[w].why = "" /\ \A u \in Worker : u # w => task'[u] = task[u]
    BY <1>0, <2>1, BeginFields
  <2>. QED BY <1>2, <2>2 DEF AnswersLate
<1>5. ASSUME NEW w \in Worker, NEW m \in net, AcceptFailure(w, m) PROVE AnswersLate(v)'
  <2>1. Begin(w, "cleanup", m.run, "executor", m.try) /\ exec' = exec
    BY <1>5 DEF AcceptFailure
  <2>2. /\ task'[w].pc = "cleanup" /\ task'[w].run = m.run
        /\ \A u \in Worker : u # w => task'[u] = task[u]
    BY <1>0, <2>1, BeginFields
  <2>3. exec'[m.run] # "none"
    BY <2>1 DEF IInv, RowsExist
  <2>. QED BY <1>2, <2>2, <2>3 DEF AnswersLate
<1>6. ASSUME NEW w \in Worker,
             EnsureNamespace(w) \/ AwaitServing(w) \/ CreateLoadJob(w) \/ SubmitFails(w)
      PROVE  AnswersLate(v)'
  <2>1. task[w].why = "submit"
    BY <1>6 DEF EnsureNamespace, AwaitServing, CreateLoadJob, SubmitFails, SubmitPc, IInv,
                StartedOnce, StartProgress
  <2>2. task'[w].why = "submit" /\ \A u \in Worker : u # w => task'[u] = task[u]
    BY <1>0, <1>6, <2>1, GotoFields
       DEF EnsureNamespace, AwaitServing, CreateLoadJob, SubmitFails
  <2>. QED BY <1>2, <2>2 DEF AnswersLate
<1>7. ASSUME NEW w \in Worker, SaveMetrics(w) \/ MarkSuccess(w) PROVE AnswersLate(v)'
  <2>1. exec' = exec /\ (Goto(w, "success") \/ Goto(w, "release"))
    BY <1>7 DEF SaveMetrics, MarkSuccess
  <2>2. /\ task'[w].pc # "failed" /\ task'[w].run = task[w].run /\ task'[w].why = task[w].why
        /\ \A u \in Worker : u # w => task'[u] = task[u]
    BY <1>0, <2>1, GotoFields
  <2>. QED BY <1>0, <1>2, <2>1, <2>2 DEF AnswersLate
<1>8. ASSUME NEW w \in Worker, FailCleanup(w) PROVE AnswersLate(v)'
  <2>1. /\ task'[w].run = task[w].run /\ task'[w].why = task[w].why
        /\ \A u \in Worker : u # w => task'[u] = task[u]
    BY <1>0, <1>8, GotoFields DEF FailCleanup
  <2>2. task[w].run \in Run
    BY <1>0, <1>8 DEF FailCleanup
  <2>3. DeleteNamespace(task[w].run) \/ DeleteFails(task[w].run)
    BY <1>8 DEF FailCleanup
  <2>4. exec' = exec /\ (task[w].run \notin Undeletable => ns'[task[w].run] # "active")
    BY <2>2, <2>3, Deletion
  <2>. QED BY <1>0, <1>2, <2>1, <2>4 DEF AnswersLate
<1>9. ASSUME NEW w \in Worker, MarkRunning(w) \/ ReleaseRun(w) \/ MarkFailed(w)
      PROVE  AnswersLate(v)'
  <2>1. Return(w)
    BY <1>9 DEF MarkRunning, ReleaseRun, MarkFailed
  <2>2. task'[w].why = "" /\ \A u \in Worker : u # w => task'[u] = task[u]
    BY <1>0, <2>1, ReturnFields, ReturnWhy
  <2>. QED BY <1>2, <2>2 DEF AnswersLate
<1>10. ASSUME NEW q \in sweepTodo, SweepCleanup(q) PROVE task' = task
  BY <1>10 DEF SweepCleanup
<1>11. ASSUME NEW q \in Run, Executor(q) \/ PodKilled(q) PROVE task' = task
  BY <1>11 DEF Executor, PostReport, ExecutorSucceeds, ExecutorFails, PostFailure, GiveUp,
               PodKilled
<1>12. UNCHANGED View => task' = task
  BY DEF View
<1>. QED
  BY <1>1, <1>3, <1>4, <1>5, <1>6, <1>7, <1>8, <1>9, <1>10, <1>11, <1>12, Quiet
     DEF Handle, Accept
-----------------------------------------------------------------------------
(* A step that moves no goroutine and loses no request of r. *)
LEMMA ReclaimKept ==
    ASSUME NEW r \in Run, Reclaimable(r), ns[r] = "active",
           exec'[r] = exec[r], task' = task,
           \A m \in net : m.run = r => m \in net'
    PROVE  Reclaimable(r)'
<1>1. (Starting(r) => Starting(r)') /\ (Closing(r) => Closing(r)')
  BY DEF Starting, Closing
<1>2. Claimed(r) => Claimed(r)'
  BY DEF Claimed
<1>. QED BY <1>1, <1>2 DEF Reclaimable

(* A step of goroutine w that leaves the pod of r alone: w keeps at it while there is
   something left to do for r, and takes over what it takes from the network. *)
ClosePc == {"metrics", "success", "release", "cleanup"}

LEMMA ReclaimHanded ==
    ASSUME NEW r \in Run, Reclaimable(r), ns[r] = "active",
           exec'[r] = exec[r], NEW w \in Worker,
           \A v \in Worker : v # w => task'[v] = task[v],
           \A m \in net : m.run = r => \/ m \in net'
                                       \/ task'[w].run = r /\ task'[w].pc \in ClosePc,
           task[w].run = r /\ exec[r] = "none" /\ task[w].pc \in StartPc \cup {"cleanup"}
             => task'[w].run = r /\ task'[w].pc \in StartPc \cup {"cleanup"},
           task[w].run = r /\ exec[r] # "none" /\ task[w].pc \in ClosePc
             => task'[w].run = r /\ task'[w].pc \in ClosePc
    PROVE  Reclaimable(r)'
<1>1. ASSUME exec[r] = "none" PROVE Reclaimable(r)'
  <2>1. PICK u \in Worker : task[u].run = r /\ task[u].pc \in StartPc \cup {"cleanup"}
    BY <1>1 DEF Reclaimable, Starting, Closing
  <2>2. task'[u].run = r /\ task'[u].pc \in StartPc \cup {"cleanup"}
    BY <1>1, <2>1
  <2>. QED BY <1>1, <2>2 DEF Reclaimable, Starting, Closing
<1>2. ASSUME exec[r] \in {"reported", "exited"} PROVE Reclaimable(r)'
  <2>1. CASE \E m \in net : m.run = r
    BY <1>2, <2>1 DEF Reclaimable, Claimed, ClosePc
  <2>2. CASE \E u \in Worker : task[u].run = r /\ task[u].pc \in ClosePc
    BY <1>2, <2>2 DEF Reclaimable, Claimed, ClosePc
  <2>. QED BY <1>2, <2>1, <2>2 DEF Reclaimable, Claimed, ClosePc
<1>3. CASE exec[r] \notin {"none", "reported", "exited"}
  BY <1>3 DEF Reclaimable
<1>. QED BY <1>1, <1>2, <1>3

LEMMA ReclaimElsewhere ==
    ASSUME NEW r \in Run, Reclaimable(r), ns[r] = "active",
           exec'[r] = exec[r], NEW w \in Worker,
           \A v \in Worker : v # w => task'[v] = task[v],
           \A m \in net : m.run = r => m \in net',
           \/ task[w].run # r
           \/ task[w].pc \notin ClosePc /\ (exec[r] # "none" \/ task[w].pc \notin StartPc)
    PROVE  Reclaimable(r)'
<1>1. ~(task[w].run = r /\ exec[r] # "none" /\ task[w].pc \in ClosePc)
  OBVIOUS
<1>2. ~(task[w].run = r /\ exec[r] = "none" /\ task[w].pc \in StartPc \cup {"cleanup"})
  BY DEF ClosePc
<1>. QED BY <1>1, <1>2, ReclaimHanded

(* StartTest, up to its FailRun. *)
LEMMA SubmitReclaims ==
    ASSUME IInv, NEW r \in Run, Reclaimable(r), ns'[r] = "active", NEW w \in Worker,
           EnsureNamespace(w) \/ AwaitServing(w) \/ CreateLoadJob(w) \/ SubmitFails(w)
    PROVE  Reclaimable(r)'
<1>. USE DEF At, SubmitPc, StartPc
<1>0. /\ task \in [Worker -> Task] /\ exec \in [Run -> ExecState]
      /\ ns \in [Run -> {"absent", "active", "gone"}]
  BY DEF IInv, TypeOK
<1>a. task[w].pc \in SubmitPc
  BY DEF EnsureNamespace, AwaitServing, CreateLoadJob, SubmitFails
<1>b. exec[task[w].run] = "none"
  BY <1>a DEF IInv, StartedOnce, StartProgress
<1>1. /\ net' = net
      /\ Goto(w, "serving") \/ Goto(w, "job") \/ Goto(w, "running") \/ Goto(w, "cleanup")
      /\ exec' = exec \/ exec' = [exec EXCEPT ![task[w].run] = "measuring"]
      /\ ns' = ns \/ ns' = [ns EXCEPT ![task[w].run] = "active"]
  <2>1. CASE EnsureNamespace(w) \/ AwaitServing(w) \/ CreateLoadJob(w)
    BY <2>1 DEF EnsureNamespace, AwaitServing, CreateLoadJob, row, cluster
  <2>2. CASE SubmitFails(w)
    BY <2>2 DEF SubmitFails
  <2>. QED BY <2>1, <2>2
<1>2. /\ task'[w].run = task[w].run /\ task'[w].pc \in StartPc \cup {"cleanup"}
      /\ \A v \in Worker : v # w => task'[v] = task[v]
  BY <1>0, <1>1, GotoFields
<1>3. CASE task[w].run = r
  <2>1. exec'[r] \in {"none", "measuring"}
    BY <1>0, <1>b, <1>1, <1>3
  <2>2. Starting(r)' \/ Closing(r)'
    BY <1>2, <1>3 DEF Starting, Closing
  <2>. QED BY <2>1, <2>2 DEF Reclaimable
<1>4. CASE task[w].run # r
  <2>1. exec'[r] = exec[r] /\ ns[r] = "active"
    BY <1>0, <1>1, <1>4
  <2>2. \A m \in net : m.run = r => m \in net'
    BY <1>1
  <2>. QED BY <1>2, <1>4, <2>1, <2>2, ReclaimElsewhere
<1>. QED BY <1>3, <1>4

(* The handlers of the two webhooks and CancelRun. *)
LEMMA HandlerReclaims ==
    ASSUME IInv, Orderly, faults = 0, faults' = 0, NEW r \in Run, r \notin Undeletable,
           ns'[r] = "active", NEW w \in Worker,
           \/ SaveMetrics(w) \/ MarkSuccess(w) \/ ReleaseRun(w) \/ FailCleanup(w)
           \/ MarkRunning(w) \/ MarkFailed(w)
    PROVE  Reclaimable(r)'
<1>. USE DEF At, SubmitPc, StartPc, row, cluster, sweeper
<1>0. /\ task \in [Worker -> Task] /\ exec \in [Run -> ExecState]
      /\ Reclaimable(r) /\ AnswersLate(w)
      /\ task[w].pc # "idle" => task[w].run \in Run
  BY DEF IInv, TypeOK, RowsExist, Orderly
<1>1. CASE SaveMetrics(w) \/ MarkSuccess(w)
  <2>1. /\ task[w].pc \in {"metrics", "success"}
        /\ Goto(w, "success") \/ Goto(w, "release")
        /\ exec' = exec /\ ns' = ns /\ net' = net
    BY <1>1 DEF SaveMetrics, MarkSuccess
  <2>2. /\ task'[w].run = task[w].run /\ task'[w].pc \in ClosePc
        /\ \A v \in Worker : v # w => task'[v] = task[v]
    BY <1>0, <2>1, GotoFields DEF ClosePc
  <2>3. task[w].pc \notin StartPc \cup {"cleanup"} /\ ns[r] = "active" /\ exec'[r] = exec[r]
    BY <2>1
  <2>4. \A m \in net : m.run = r => m \in net'
    BY <2>1
  <2>. QED BY <1>0, <2>2, <2>3, <2>4, ReclaimHanded
<1>2. CASE ReleaseRun(w) \/ FailCleanup(w)
  <2>1. /\ task[w].run \in Run /\ net' = net
        /\ DeleteNamespace(task[w].run) \/ DeleteFails(task[w].run)
    BY <1>0, <1>2 DEF ReleaseRun, FailCleanup
  <2>2. task[w].run # r /\ ns[r] = "active" /\ exec' = exec
    BY <2>1, Deletion
  <2>3. \A v \in Worker : v # w => task'[v] = task[v]
    BY <1>0, <1>2, GotoFields, ReturnFields DEF ReleaseRun, FailCleanup
  <2>4. \A m \in net : m.run = r => m \in net'
    BY <2>1
  <2>. QED BY <1>0, <2>2, <2>3, <2>4, ReclaimElsewhere
<1>3. CASE MarkRunning(w) \/ MarkFailed(w)
  <2>1. Return(w) /\ ns' = ns /\ net' = net
    BY <1>3 DEF MarkRunning, MarkFailed, Reply
  <2>2. \A v \in Worker : v # w => task'[v] = task[v]
    BY <1>0, <2>1, ReturnFields
  <2>3. task[w].run = r => (exec[r] # "none" \/ task[w].pc \notin StartPc)
    BY <1>3 DEF MarkRunning, MarkFailed, IInv, StartedOnce, StartProgress
  <2>4. task[w].pc \notin ClosePc
    BY <1>3 DEF MarkRunning, MarkFailed, ClosePc
  <2>5. exec'[r] = exec[r]
    <3>1. CASE MarkRunning(w)
      BY <3>1 DEF MarkRunning
    <3>2. CASE MarkFailed(w)
      <4>1. \/ exec' = exec
            \/ task[w].why = "executor" /\ exec' = [exec EXCEPT ![task[w].run] = "exited"]
        BY <3>2 DEF MarkFailed, Reply
      <4>2. ns[r] = "active" /\ task[w].pc = "failed"
        BY <2>1, <3>2 DEF MarkFailed
      <4>3. task[w].why = "executor" => task[w].run # r
        BY <1>0, <4>2 DEF AnswersLate
      <4>. QED BY <1>0, <4>1, <4>3
    <3>. QED BY <1>3, <3>1, <3>2
  <2>6. ns[r] = "active" /\ \A m \in net : m.run = r => m \in net'
    BY <2>1
  <2>. QED BY <1>0, <2>2, <2>3, <2>4, <2>5, <2>6, ReclaimElsewhere
<1>. QED BY <1>1, <1>2, <1>3

(* The executor leaves a request behind when it reports, and does not give up on its
   failure webhook before it has sent it. *)
LEMMA ExecutorReclaims ==
    ASSUME IInv, Orderly, faults = 0, NEW r \in Run, r \notin Undeletable,
           ns'[r] = "active", NEW q \in Run, Executor(q) \/ PodKilled(q)
    PROVE  Reclaimable(r)'
<1>0. exec \in [Run -> ExecState] /\ Reclaimable(r) /\ ns' = ns /\ task' = task
  BY DEF IInv, TypeOK, Orderly, Executor, PostReport, ExecutorSucceeds, ExecutorFails,
         PostFailure, GiveUp, PodKilled
<1>1. CASE q # r
  <2>1. \E s : exec' = [exec EXCEPT ![q] = s]
    BY DEF Executor, PostReport, ExecutorSucceeds, ExecutorFails, PostFailure, GiveUp,
           PodKilled, Moves
  <2>2. exec'[r] = exec[r]
    BY <1>0, <1>1, <2>1
  <2>3. \A m \in net : m.run = r => m \in net'
    BY <1>1 DEF Executor, PostReport, ExecutorSucceeds, ExecutorFails, PostFailure, GiveUp,
                PodKilled
  <2>. QED BY <1>0, <2>2, <2>3, ReclaimKept
<1>2. CASE q = r /\ PostReport(r)
  <2>1. [kind |-> "report", run |-> r, try |-> 0] \in net' /\ exec'[r] = "reported"
    BY <1>0, <1>2 DEF PostReport, Moves
  <2>2. Claimed(r)'
    BY <2>1 DEF Claimed
  <2>. QED BY <2>1, <2>2 DEF Reclaimable
<1>3. CASE q = r /\ ExecutorSucceeds(r)
  <2>1. exec[r] = "reported" /\ exec'[r] = "exited" /\ net' = net
    BY <1>0, <1>3 DEF ExecutorSucceeds, Moves
  <2>2. Claimed(r)
    BY <1>0, <2>1 DEF Reclaimable
  <2>3. Claimed(r)'
    BY <1>0, <2>1, <2>2 DEF Claimed
  <2>. QED BY <2>1, <2>3 DEF Reclaimable
<1>4. CASE q = r /\ (ExecutorFails(r) \/ PostFailure(r))
  <2>1. exec'[r] \in {"failing", "waiting"}
    BY <1>0, <1>4 DEF ExecutorFails, PostFailure, Moves
  <2>. QED BY <2>1 DEF Reclaimable
<1>5. ~GiveUp(r)
  <2>. SUFFICES ASSUME GiveUp(r) PROVE FALSE
    OBVIOUS
  <2>1. exec[r] = "failing" /\ tries[r] > 0
    BY DEF GiveUp, Moves
  <2>2. tries[r] = 0
    BY <2>1 DEF Orderly
  <2>. QED BY <2>1, <2>2
<1>6. ~PodKilled(r)
  BY <1>0 DEF PodKilled
<1>. QED BY <1>1, <1>2, <1>3, <1>4, <1>5, <1>6 DEF Executor

LEMMA ReclaimableStep ==
    ASSUME IInv, Orderly, [Next]_vars, faults' = 0, NEW r \in Run, r \notin Undeletable
    PROVE  Reclaimable(r)'
<1>. SUFFICES ASSUME ns'[r] = "active" PROVE Reclaimable(r)'
  BY DEF Reclaimable
<1>. USE DEF At, row, cluster, sweeper
<1>0. /\ faults = 0 /\ Reclaimable(r) /\ task \in [Worker -> Task] /\ sweepTodo \subseteq Run
  BY Quiet DEF IInv, TypeOK, Orderly
<1>1. ASSUME NEW w \in Worker, \E q \in Run : StartTest(w, q) \/ CancelRun(w, q)
      PROVE  Reclaimable(r)'
  <2>1. /\ task[w].pc = "idle" /\ ns' = ns /\ exec' = exec /\ net' = net
        /\ \A v \in Worker : v # w => task'[v] = task[v]
    BY <1>0, <1>1, BeginFields DEF StartTest, CancelRun
  <2>2. task[w].pc \notin ClosePc /\ task[w].pc \notin StartPc
    BY <2>1 DEF StartPc, SubmitPc, ClosePc
  <2>3. /\ ns[r] = "active" /\ exec'[r] = exec[r]
        /\ \A m \in net : m.run = r => m \in net'
    BY <2>1
  <2>. QED BY <1>0, <2>1, <2>2, <2>3, ReclaimElsewhere
<1>2. ASSUME NEW w \in Worker, NEW m \in net, AcceptReport(w, m) \/ AcceptFailure(w, m)
      PROVE  Reclaimable(r)'
  <2>1. /\ \/ Begin(w, "metrics", m.run, "", 0)
           \/ Begin(w, "cleanup", m.run, "executor", m.try)
        /\ ns' = ns /\ exec' = exec /\ net' = net \ {m}
    BY <1>2 DEF AcceptReport, AcceptFailure
  <2>2. /\ task[w].pc = "idle" /\ task'[w].run = m.run /\ task'[w].pc \in ClosePc
        /\ \A v \in Worker : v # w => task'[v] = task[v]
    BY <1>0, <2>1, BeginFields DEF ClosePc
  <2>3. task[w].pc \notin StartPc \cup {"cleanup"} /\ task[w].pc \notin ClosePc
    BY <2>2 DEF StartPc, SubmitPc, ClosePc
  <2>4. \A n \in net : n.run = r => \/ n \in net'
                                    \/ task'[w].run = r /\ task'[w].pc \in ClosePc
    BY <2>1, <2>2
  <2>5. ns[r] = "active" /\ exec'[r] = exec[r]
    BY <2>1
  <2>. QED BY <1>0, <2>2, <2>3, <2>4, <2>5, ReclaimHanded
<1>3. ASSUME NEW w \in Worker, Handle(w) PROVE Reclaimable(r)'
  BY <1>0, <1>3, SubmitReclaims, HandlerReclaims DEF Handle
<1>4. ASSUME NEW q \in sweepTodo, SweepCleanup(q) PROVE Reclaimable(r)'
  <2>1. q \in Run /\ DeleteNamespace(q) /\ task' = task /\ net' = net
    BY <1>0, <1>4 DEF SweepCleanup
  <2>2. ns[r] = "active" /\ exec' = exec
    BY <2>1, Deletion
  <2>. QED BY <1>0, <2>1, <2>2, ReclaimKept
<1>5. ASSUME NEW q \in Run, Executor(q) \/ PodKilled(q) PROVE Reclaimable(r)'
  BY <1>0, <1>5, ExecutorReclaims
<1>6. ASSUME UNCHANGED View PROVE Reclaimable(r)'
  BY <1>0, <1>6, ReclaimKept DEF View
<1>. QED BY <1>1, <1>2, <1>3, <1>4, <1>5, <1>6, Quiet DEF Accept

-----------------------------------------------------------------------------
LEMMA OrderlyInductive == IInv /\ Orderly /\ [Next]_vars => Orderly'
<1>. SUFFICES ASSUME IInv, Orderly, [Next]_vars, faults' = 0
              PROVE  /\ \A r \in Run \ Undeletable : Reclaimable(r)'
                     /\ \A r \in Run : exec'[r] \notin {"waiting", "exited"} => tries'[r] = 0
                     /\ \A w \in Worker : AnswersLate(w)'
  BY DEF Orderly
<1>1. \A r \in Run \ Undeletable : Reclaimable(r)'
  BY ReclaimableStep
<1>2. \A r \in Run : exec'[r] \notin {"waiting", "exited"} => tries'[r] = 0
  BY TriesStep
<1>3. \A w \in Worker : AnswersLate(w)'
  BY AnswersLateStep
<1>. QED BY <1>1, <1>2, <1>3

LEMMA OrderlyClaims == TypeOK /\ Orderly => NotStranded
<1>. SUFFICES ASSUME TypeOK, Orderly, faults = 0, NEW r \in Run \ Undeletable,
                     ns[r] = "active", ~Starting(r), exec[r] \notin Live
              PROVE  Claimed(r)
  BY DEF NotStranded
<1>1. Reclaimable(r) /\ exec[r] \in ExecState
  BY DEF Orderly, TypeOK
<1>2. Closing(r) => Claimed(r)
  BY DEF Closing, Claimed
<1>. QED BY <1>1, <1>2 DEF Reclaimable, ExecState, Live

(* A namespace is never forgotten while nothing fails: StartTest, the executor, one of
   its requests or a handler on its way to Cleanup still leads to its deletion. *)
THEOREM NeverStranded == Spec => []NotStranded
<1>1. Init => Orderly
  BY IdleFields DEF Init, Orderly, Reclaimable, AnswersLate
<1>2. IInv /\ Orderly /\ [Next]_vars => Orderly'
  BY OrderlyInductive
<1>3. IInv /\ Orderly => NotStranded
  BY OrderlyClaims DEF IInv
<1>. QED BY <1>1, <1>2, <1>3, Invariant, PTL DEF Spec
=============================================================================
