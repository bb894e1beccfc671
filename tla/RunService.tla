------------------------------ MODULE RunService ------------------------------
(***************************************************************************)
(* loadtestd: the handlers of internal/app/service.go, running as          *)
(* goroutines over one database (adapters/postgres) and one Kubernetes     *)
(* API (adapters/k8s), the timeout sweep of cmd/loadtestd/main.go, and the *)
(* executor pods (cmd/executor) that call back through webhooks.           *)
(*                                                                         *)
(* A step is one call that touches shared state: one SQL statement or      *)
(* transaction, one orchestrator call, one HTTP request sent or taken.     *)
(* Everything between two such calls is local to the goroutine.            *)
(***************************************************************************)
EXTENDS Naturals, FiniteSets

CONSTANTS Run,          \* the run identifiers newID may draw
          Worker,       \* goroutines serving HTTP requests; bounds how many overlap
          NoRun,        \* the run of an idle goroutine
          MaxTries,     \* attempts of the executor's postJSON (3 in the code)
          FaultKinds,   \* the kinds of fault allowed: "db", "k8s", "loss", "crash"
          MaxFaults,    \* bound on the faults of a behaviour
          Undeletable   \* runs whose namespace the API server refuses to delete

ASSUME ConstantsAssumption ==
    /\ IsFiniteSet(Run)
    /\ NoRun \notin Run
    /\ MaxTries \in Nat \ {0}
    /\ MaxFaults \in Nat
    /\ Undeletable \subseteq Run

VARIABLES
    status,      \* runs.status; "NONE" while the run has no row
    reason,      \* runs.failure_reason, by the writer that gave it
    createdAt,   \* runs.created_at, as a rank
    saved,       \* how many reports of the run have their metrics stored
    ns,          \* the run's namespace: "absent", "active", or "gone" once deleted
    exec,        \* the run's executor pod
    tries,       \* failure webhooks the executor has sent
    net,         \* webhook requests on their way to loadtestd
    task,        \* what each goroutine is doing
    sweepPc,     \* where TimeoutSweep is
    sweepTodo,   \* runs of its list it still has to time out
    overdue,     \* runs older than their timeout
    faults       \* faults so far

row      == <<status, reason, createdAt>>
cluster  == <<ns, exec, tries>>
sweeper  == <<sweepPc, sweepTodo>>
vars     == <<row, saved, cluster, net, task, sweeper, overdue, faults>>

Terminal == {"SUCCESS", "FAILED"}
Active   == {"PENDING", "RUNNING"}
Status   == {"NONE"} \cup Active \cup Terminal
Reason   == {"", "submit", "executor", "cancelled", "timeout"}

SubmitPc == {"namespace", "serving", "job"}         \* inside orch.Submit
StartPc  == SubmitPc \cup {"running"}               \* StartTest, RUNNING still to come
RepoPc   == {"running", "metrics", "success", "cleanup", "failed"}
Pc       == {"idle", "release"} \cup StartPc \cup RepoPc

ExecState == {"none", "measuring", "reported", "failing", "waiting", "exited"}
Message   == [kind : {"report", "failure"}, run : Run, try : 0..MaxTries]
Task      == [pc : Pc, run : Run \cup {NoRun}, why : Reason, try : 0..MaxTries]
Idle      == [pc |-> "idle", run |-> NoRun, why |-> "", try |-> 0]

Init ==
    /\ status = [r \in Run |-> "NONE"]
    /\ reason = [r \in Run |-> ""]
    /\ createdAt = [r \in Run |-> 0]
    /\ saved = [r \in Run |-> 0]
    /\ ns = [r \in Run |-> "absent"]
    /\ exec = [r \in Run |-> "none"]
    /\ tries = [r \in Run |-> 0]
    /\ net = {}
    /\ task = [w \in Worker |-> Idle]
    /\ sweepPc = "idle"
    /\ sweepTodo = {}
    /\ overdue = {}
    /\ faults = 0

-----------------------------------------------------------------------------
(* Goroutines: beginning, continuing and ending the handling of a request. *)

At(w, pc) == task[w].pc = pc

Begin(w, pc, r, why, try) ==
    /\ task[w] = Idle
    /\ task' = [task EXCEPT ![w] = [pc |-> pc, run |-> r, why |-> why, try |-> try]]

Goto(w, pc) == task' = [task EXCEPT ![w].pc = pc]
Return(w)   == task' = [task EXCEPT ![w] = Idle]

(* StartTest of run r may still write RUNNING. *)
Starting(r) == \E w \in Worker : task[w].run = r /\ task[w].pc \in StartPc

(* Seeded fault: the reason is written only when there is one. *)
SetStatusKeepsReason(r, s, why) ==
    /\ status' = [status EXCEPT ![r] = s]
    /\ reason' = IF why = "" THEN reason ELSE [reason EXCEPT ![r] = why]
    /\ UNCHANGED createdAt

(* UpdateRunStatus: one UPDATE of the row, whatever it holds. *)
SetStatus(r, s, why) ==
    /\ status' = [status EXCEPT ![r] = s]
    /\ reason' = [reason EXCEPT ![r] = why]
    /\ UNCHANGED createdAt

Fault(kind) == /\ kind \in FaultKinds
               /\ faults < MaxFaults
               /\ faults' = faults + 1

(* Orchestrator.Cleanup: delete the namespace, a missing one being success. *)
DeleteNamespace(r) ==
    /\ r \notin Undeletable
    /\ ns' = [ns EXCEPT ![r] = IF @ = "active" THEN "gone" ELSE @]
    /\ UNCHANGED <<exec, tries, faults>>

DeleteFails(r) ==
    /\ IF r \in Undeletable THEN UNCHANGED faults ELSE Fault("k8s")
    /\ UNCHANGED cluster

(* A step of the executor pod of r. *)
Moves(r, from, to) == /\ exec[r] = from
                      /\ exec' = [exec EXCEPT ![r] = to]

(* The answer to the request w serves, read by the executor if it still waits
   for this attempt; nobody reads the answer to a report. *)
Reply(w, ok) ==
    LET t == task[w]
    IN  /\ exec' = IF /\ t.why = "executor"
                      /\ exec[t.run] = "waiting"
                      /\ tries[t.run] = t.try
                   THEN [exec EXCEPT ![t.run] = IF ok THEN "exited" ELSE "failing"]
                   ELSE exec
        /\ UNCHANGED <<ns, tries>>

-----------------------------------------------------------------------------
(* Seeded faults.  Each is a definition below it with one plausible mistake and
   is part of no specification: it shows that a property can fail. *)

(* AwaitServing: StartTest goes on without creating the job. *)
AwaitServingSkipsJob(w) ==
    /\ At(w, "serving")
    /\ Goto(w, "running")
    /\ UNCHANGED <<row, saved, cluster, net, sweeper, overdue, faults>>

(* SubmitFails: StartTest returns the error without calling FailRun. *)
SubmitFailsOnly(w) ==
    /\ task[w].pc \in SubmitPc
    /\ Return(w)
    /\ UNCHANGED <<row, saved, cluster, net, sweeper, overdue, faults>>

(* SaveMetrics: a run that reports is shown as RUNNING until it is SUCCESS. *)
SaveMetricsRevives(w) ==
    /\ At(w, "metrics")
    /\ saved' = [saved EXCEPT ![task[w].run] = @ + 1]
    /\ SetStatus(task[w].run, "RUNNING", "")
    /\ Goto(w, "success")
    /\ UNCHANGED <<cluster, net, sweeper, overdue, faults>>

(* MarkSuccess: AcceptReport ends without Cleanup. *)
MarkSuccessOnly(w) ==
    /\ At(w, "success")
    /\ SetStatus(task[w].run, "SUCCESS", "")
    /\ Return(w)
    /\ UNCHANGED <<saved, cluster, net, sweeper, overdue, faults>>

(* FailCleanup: FailRun and CancelRun leave the namespace to the sweep. *)
FailCleanupOmitted(w) ==
    /\ At(w, "cleanup")
    /\ Goto(w, "failed")
    /\ UNCHANGED <<row, saved, cluster, net, sweeper, overdue, faults>>

(* Due: only RUNNING runs are listed. *)
DueRunning == {r \in overdue : status[r] = "RUNNING"}

(* PostReport: handleSummary posts again, as postJSON does, without knowing
   whether the report arrived. *)
PostReportAgain(r) ==
    /\ Moves(r, "measuring", "measuring")
    /\ net' = net \cup {[kind |-> "report", run |-> r, try |-> 0]}
    /\ UNCHANGED <<row, saved, ns, tries, task, sweeper, overdue, faults>>

(* PostFailure: attempts are not counted. *)
PostFailureForever(r) ==
    /\ Moves(r, "failing", "waiting")
    /\ tries' = [tries EXCEPT ![r] = @ + 1]
    /\ net' = net \cup {[kind |-> "failure", run |-> r, try |-> tries[r] + 1]}
    /\ UNCHANGED <<row, saved, ns, task, sweeper, overdue, faults>>

(* GiveUp: the Job controller starts the pod again. *)
GiveUpRestarts(r) ==
    /\ tries[r] > 0
    /\ Moves(r, "failing", "measuring")
    /\ UNCHANGED <<row, saved, ns, tries, net, task, sweeper, overdue, faults>>

-----------------------------------------------------------------------------
(* StartTest.  The identifier is fresh (newID draws 64 random bits), and the
   clock is read together with the insertion of the row. *)

StartTest(w, r) ==
    /\ status[r] = "NONE"
    /\ Begin(w, "namespace", r, "submit", 0)
    /\ status' = [status EXCEPT ![r] = "PENDING"]
    /\ createdAt' = [createdAt EXCEPT ![r] = Cardinality({q \in Run : status[q] # "NONE"})]
    /\ UNCHANGED <<reason, saved, cluster, net, sweeper, overdue, faults>>

EnsureNamespace(w) ==
    /\ At(w, "namespace")
    /\ ns' = [ns EXCEPT ![task[w].run] = "active"]
    /\ Goto(w, "serving")
    /\ UNCHANGED <<row, saved, exec, tries, net, sweeper, overdue, faults>>

(* Secret, runtime and inference service applied, and the service seen Ready;
   it may be seen so while its namespace is already being deleted. *)
AwaitServing(w) ==
    /\ At(w, "serving")
    /\ Goto(w, "job")
    /\ UNCHANGED <<row, saved, cluster, net, sweeper, overdue, faults>>

(* A namespace that is being deleted takes no new objects. *)
CreateLoadJob(w) ==
    /\ At(w, "job")
    /\ ns[task[w].run] = "active"
    /\ exec' = [exec EXCEPT ![task[w].run] = "measuring"]
    /\ Goto(w, "running")
    /\ UNCHANGED <<row, saved, ns, tries, net, sweeper, overdue, faults>>

(* Any call of Submit may fail, the service may never become Ready, and a call
   reported as failed may have taken effect.  FailRun takes over. *)
SubmitFails(w) ==
    LET r == task[w].run
    IN  /\ task[w].pc \in SubmitPc
        /\ \/ UNCHANGED <<ns, exec>>
           \/ /\ At(w, "namespace")
              /\ ns' = [ns EXCEPT ![r] = "active"]
              /\ UNCHANGED exec
           \/ /\ At(w, "job") /\ ns[r] = "active"
              /\ exec' = [exec EXCEPT ![r] = "measuring"]
              /\ UNCHANGED ns
        /\ Goto(w, "cleanup")
        /\ UNCHANGED <<row, saved, tries, net, sweeper, overdue, faults>>

MarkRunning(w) ==
    /\ At(w, "running")
    /\ SetStatus(task[w].run, "RUNNING", "")
    /\ Return(w)
    /\ UNCHANGED <<saved, cluster, net, sweeper, overdue, faults>>

-----------------------------------------------------------------------------
(* AcceptReport: metrics, then SUCCESS, then Cleanup. *)

AcceptReport(w, m) ==
    /\ m.kind = "report"
    /\ Begin(w, "metrics", m.run, "", 0)
    /\ net' = net \ {m}
    /\ UNCHANGED <<row, saved, cluster, sweeper, overdue, faults>>

SaveMetrics(w) ==
    /\ At(w, "metrics")
    /\ saved' = [saved EXCEPT ![task[w].run] = @ + 1]
    /\ Goto(w, "success")
    /\ UNCHANGED <<row, cluster, net, sweeper, overdue, faults>>

MarkSuccess(w) ==
    /\ At(w, "success")
    /\ SetStatus(task[w].run, "SUCCESS", "")
    /\ Goto(w, "release")
    /\ UNCHANGED <<saved, cluster, net, sweeper, overdue, faults>>

(* A failing Cleanup fails the request, and nothing takes it up again. *)
ReleaseRun(w) ==
    /\ At(w, "release")
    /\ DeleteNamespace(task[w].run) \/ DeleteFails(task[w].run)
    /\ Return(w)
    /\ UNCHANGED <<row, saved, net, sweeper, overdue>>

-----------------------------------------------------------------------------
(* FailRun, reached from the executor's failure webhook or from StartTest, and
   CancelRun, which is FailRun behind a check of the status it has read. *)

AcceptFailure(w, m) ==
    /\ m.kind = "failure"
    /\ Begin(w, "cleanup", m.run, "executor", m.try)
    /\ net' = net \ {m}
    /\ UNCHANGED <<row, saved, cluster, sweeper, overdue, faults>>

CancelRun(w, r) ==
    /\ status[r] \in Active
    /\ Begin(w, "cleanup", r, "cancelled", 0)
    /\ UNCHANGED <<row, saved, cluster, net, sweeper, overdue, faults>>

(* The error of Cleanup is logged and forgotten. *)
FailCleanup(w) ==
    /\ At(w, "cleanup")
    /\ DeleteNamespace(task[w].run) \/ DeleteFails(task[w].run)
    /\ Goto(w, "failed")
    /\ UNCHANGED <<row, saved, net, sweeper, overdue>>

MarkFailed(w) ==
    /\ At(w, "failed")
    /\ SetStatus(task[w].run, "FAILED", task[w].why)
    /\ Reply(w, TRUE)
    /\ Return(w)
    /\ UNCHANGED <<saved, net, sweeper, overdue, faults>>

(* The database refuses a call, or the request's context is cancelled: the
   handler returns the error.  At "cleanup" it is the GetRun of FailRun. *)
RepoFails(w) ==
    /\ task[w].pc \in RepoPc
    /\ At(w, "cleanup") => task[w].why # "cancelled"
    /\ Fault("db")
    /\ Reply(w, FALSE)
    /\ Return(w)
    /\ UNCHANGED <<row, saved, net, sweeper, overdue>>

-----------------------------------------------------------------------------
(* TimeoutSweep, one goroutine: the active runs are listed once, in the order
   of created_at, and the first error ends the sweep. *)

Due == {r \in overdue : status[r] \in Active}

First(r) == r \in sweepTodo /\ \A q \in sweepTodo : createdAt[r] <= createdAt[q]

SweepList ==
    /\ sweepPc = "idle"
    /\ Due # {}
    /\ sweepPc' = "cleanup"
    /\ sweepTodo' = Due
    /\ UNCHANGED <<row, saved, cluster, net, task, overdue, faults>>

SweepCleanup(r) ==
    /\ sweepPc = "cleanup" /\ First(r)
    /\ DeleteNamespace(r)
    /\ sweepPc' = "update"
    /\ UNCHANGED <<row, saved, net, task, sweepTodo, overdue>>

SweepFail(r) ==
    /\ sweepPc = "update" /\ First(r)
    /\ SetStatus(r, "FAILED", "timeout")
    /\ sweepTodo' = sweepTodo \ {r}
    /\ sweepPc' = IF sweepTodo' = {} THEN "idle" ELSE "cleanup"
    /\ UNCHANGED <<saved, cluster, net, task, overdue, faults>>

SweepAborts(r) ==
    /\ First(r)
    /\ \/ sweepPc = "cleanup" /\ DeleteFails(r)
       \/ sweepPc = "update" /\ Fault("db") /\ UNCHANGED cluster
    /\ sweepPc' = "idle"
    /\ sweepTodo' = {}
    /\ UNCHANGED <<row, saved, net, task, overdue>>

(* The run has outlived its timeout. *)
Expire(r) ==
    /\ status[r] # "NONE" /\ r \notin overdue
    /\ overdue' = overdue \cup {r}
    /\ UNCHANGED <<row, saved, cluster, net, task, sweeper, faults>>

-----------------------------------------------------------------------------
(* The executor pod.  Its Job has BackoffLimit 0 and RestartPolicy Never: a pod
   that ends is not started again. *)

Live == {"measuring", "reported", "failing", "waiting"}

(* The last k6 run ends: its handleSummary posts the report, once. *)
PostReport(r) ==
    /\ Moves(r, "measuring", "reported")
    /\ net' = net \cup {[kind |-> "report", run |-> r, try |-> 0]}
    /\ UNCHANGED <<row, saved, ns, tries, task, sweeper, overdue, faults>>

ExecutorSucceeds(r) ==
    /\ Moves(r, "reported", "exited")
    /\ UNCHANGED <<row, saved, ns, tries, net, task, sweeper, overdue, faults>>

(* The model is never ready, a k6 run fails, or SEARCH_TIMEOUT kills it, which
   may be after handleSummary has posted the report. *)
ExecutorFails(r) ==
    /\ Moves(r, "measuring", "failing") \/ Moves(r, "reported", "failing")
    /\ UNCHANGED <<row, saved, ns, tries, net, task, sweeper, overdue, faults>>

(* reportFailure: an attempt of postJSON at the FAILED webhook. *)
PostFailure(r) ==
    /\ tries[r] < MaxTries
    /\ Moves(r, "failing", "waiting")
    /\ tries' = [tries EXCEPT ![r] = @ + 1]
    /\ net' = net \cup {[kind |-> "failure", run |-> r, try |-> tries[r] + 1]}
    /\ UNCHANGED <<row, saved, ns, task, sweeper, overdue, faults>>

(* No attempt is left, or the 10 seconds of reportFailure are over. *)
GiveUp(r) ==
    /\ tries[r] > 0
    /\ Moves(r, "failing", "exited")
    /\ UNCHANGED <<row, saved, ns, tries, net, task, sweeper, overdue, faults>>

(* The pod dies with its namespace; requests still unread may die with it. *)
PodKilled(r) ==
    /\ ns[r] = "gone" /\ exec[r] \in Live
    /\ exec' = [exec EXCEPT ![r] = "exited"]
    /\ \E kept \in SUBSET net : /\ \A m \in net \ kept : m.run = r
                                /\ net' = kept
    /\ UNCHANGED <<row, saved, ns, tries, task, sweeper, overdue, faults>>

-----------------------------------------------------------------------------
(* Faults of the environment. *)

(* An eviction or a node failure. *)
PodLost(r) ==
    /\ exec[r] \in Live
    /\ exec' = [exec EXCEPT ![r] = "exited"]
    /\ Fault("loss")
    /\ UNCHANGED <<row, saved, ns, tries, net, task, sweeper, overdue>>

(* The executor stops waiting for an answer; its request stays on its way or
   with its handler, and the next attempt is a duplicate. *)
Disconnect(r) ==
    /\ Moves(r, "waiting", "failing")
    /\ Fault("loss")
    /\ UNCHANGED <<row, saved, ns, tries, net, task, sweeper, overdue>>

Drop(m) ==
    /\ net' = net \ {m}
    /\ exec' = IF /\ m.kind = "failure"
                  /\ exec[m.run] = "waiting" /\ tries[m.run] = m.try
               THEN [exec EXCEPT ![m.run] = "failing"]
               ELSE exec
    /\ Fault("loss")
    /\ UNCHANGED <<row, saved, ns, tries, task, sweeper, overdue>>

(* loadtestd stops and is started again (one replica): its goroutines are gone,
   the requests they served are answered by a reset, the database stays. *)
Crash ==
    /\ Fault("crash")
    /\ task' = [w \in Worker |-> Idle]
    /\ sweepPc' = "idle"
    /\ sweepTodo' = {}
    /\ exec' = [r \in Run |-> IF /\ exec[r] = "waiting"
                                 /\ ~\E m \in net : m.run = r /\ m.try = tries[r]
                              THEN "failing" ELSE exec[r]]
    /\ UNCHANGED <<row, saved, ns, tries, net, overdue>>

-----------------------------------------------------------------------------
Accept(w) == \E m \in net : AcceptReport(w, m) \/ AcceptFailure(w, m)

Handle(w) == \/ EnsureNamespace(w) \/ AwaitServing(w) \/ CreateLoadJob(w)
             \/ SubmitFails(w) \/ MarkRunning(w)
             \/ SaveMetrics(w) \/ MarkSuccess(w) \/ ReleaseRun(w)
             \/ FailCleanup(w) \/ MarkFailed(w)

Sweep == \/ SweepList
         \/ \E r \in sweepTodo : SweepCleanup(r) \/ SweepFail(r) \/ SweepAborts(r)

Executor(r) == \/ PostReport(r) \/ ExecutorSucceeds(r) \/ ExecutorFails(r)
               \/ PostFailure(r) \/ GiveUp(r)

Next ==
    \/ \E w \in Worker : \/ \E r \in Run : StartTest(w, r) \/ CancelRun(w, r)
                         \/ Accept(w) \/ Handle(w) \/ RepoFails(w)
    \/ Sweep
    \/ \E r \in Run : \/ Expire(r) \/ Executor(r)
                      \/ PodKilled(r) \/ PodLost(r) \/ Disconnect(r)
    \/ \E m \in net : Drop(m)
    \/ Crash

Spec == Init /\ [][Next]_vars

(* Handlers, the ticker of the sweep and the clock keep going; a request that
   has arrived is served. *)
ServiceFairness == /\ \A w \in Worker : WF_vars(Handle(w)) /\ WF_vars(Accept(w))
                   /\ WF_vars(Sweep)
                   /\ \A r \in Run : WF_vars(Expire(r))

FairSpec == Spec /\ ServiceFairness

(* k6 runs and readiness probes are bounded in time, and a pod whose namespace
   is deleted is killed: every executor ends. *)
ExecutorFairness == \A r \in Run : WF_vars(Executor(r) \/ PodKilled(r))

-----------------------------------------------------------------------------
TypeOK ==
    /\ status \in [Run -> Status]
    /\ reason \in [Run -> Reason]
    /\ createdAt \in [Run -> Nat]
    /\ saved \in [Run -> Nat]
    /\ ns \in [Run -> {"absent", "active", "gone"}]
    /\ exec \in [Run -> ExecState]
    /\ tries \in [Run -> 0..MaxTries]
    /\ net \in SUBSET Message
    /\ task \in [Worker -> Task]
    /\ sweepPc \in {"idle", "cleanup", "update"}
    /\ sweepTodo \in SUBSET Run
    /\ overdue \in SUBSET Run
    /\ faults \in Nat

(* AcceptReport stores the metrics before it writes SUCCESS: a run shown as
   SUCCESS has its metrics, and has them once, whatever is cancelled, retried,
   dropped or restarted meanwhile (service.go:152-157, script.js:55-61). *)
SuccessHasItsMetrics == \A r \in Run : /\ saved[r] <= 1
                                       /\ status[r] = "SUCCESS" => saved[r] = 1

(* A run shown as RUNNING had its load job created: StartTest writes RUNNING
   only after Submit has returned (service.go:93-99). *)
RunningWasSubmitted == \A r \in Run : status[r] = "RUNNING" => exec[r] # "none"

(* The failure reason belongs to the status: every writer replaces both, so a
   run has a reason if and only if it is FAILED, also after a verdict has been
   overwritten by another (UpdateRunStatus takes both). *)
ReasonExplainsFailure == \A r \in Run : status[r] = "FAILED" <=> reason[r] # ""

(* A namespace is never forgotten while nothing fails: StartTest is still at it, the
   executor pod or one of its requests will lead to a Cleanup, or a handler is about
   to delete it, whatever the status.  Terminal runs are not swept, so for them this
   is all that reclaims it (service.go:158, 168, 239). *)
Claimed(r) ==
    \/ \E m \in net : m.run = r
    \/ \E w \in Worker : /\ task[w].run = r
                         /\ task[w].pc \in {"metrics", "success", "release", "cleanup"}

NotStranded ==
    faults = 0 =>
        \A r \in Run \ Undeletable : ns[r] = "active" =>
            Starting(r) \/ exec[r] \in Live \/ Claimed(r)

(* StartTest, or the FailRun it called, is at work on r. *)
Owned(r) == \E w \in Worker : task[w].run = r /\ task[w].why = "submit"

(* A run is PENDING only while its StartTest is at work: what else can leave a PENDING
   row that nobody works on is a refused call of the database or a restart, whatever
   the cluster and the network do (service.go:90-99). *)
PendingOwned ==
    [][\A r \in Run : status'[r] = "PENDING" /\ ~Owned(r)' =>
          \/ status[r] = "PENDING" /\ ~Owned(r)
          \/ Crash
          \/ \E w \in Worker : RepoFails(w)]_vars

(* Every run ends: once created it has, from some moment on, a verdict for
   good, whatever happened to its executor, its requests or the daemon; the
   timeout sweep is what guarantees it (service.go:185-215). *)
Settles == \A r \in Run : status[r] # "NONE" ~> [](status[r] \in Terminal)

(* Every namespace is deleted in the end when nothing fails and executors end. *)
NamespaceReclaimed ==
    ExecutorFairness /\ [](faults = 0) => \A r \in Run : ns[r] = "active" ~> ns[r] = "gone"

(* CancelRun: "only active runs can be cancelled" (service.go:14).  The status
   is read before Cleanup and written after it. *)
CancelOnlyActive ==
    [][\A r \in Run : reason[r] # "cancelled" /\ reason'[r] = "cancelled"
                        => status[r] \in Active]_vars

(* The start scripts take the first SUCCESS they poll as the end of a run: "finished
   successfully" (scripts/lib.sh:29).  They poll with the identifier that StartTest has
   answered, so not while that is at work; cancellations are CancelOnlyActive's matter. *)
FinishedIsFinal ==
    [][\A r \in Run : status[r] = "SUCCESS" /\ ~Owned(r) /\ status'[r] # "SUCCESS"
                        => reason'[r] = "cancelled"]_vars

(* The sweep "cleans and fails timed out runs" (service_test.go:111). *)
TimedOutRunsFail == \A r \in Run \ Undeletable : r \in Due ~> status[r] \in Terminal

-----------------------------------------------------------------------------
(* What makes the invariants inductive. *)

(* Everything that works on a run works on one that has a row. *)
RowsExist ==
    /\ \A w \in Worker : task[w].pc # "idle" =>
          task[w].run \in Run /\ status[task[w].run] # "NONE"
    /\ \A m \in net : exec[m.run] # "none"
    /\ \A r \in Run : exec[r] # "none" => status[r] # "NONE"
    /\ \A r \in sweepTodo : status[r] # "NONE"

(* One StartTest per run, which creates its job once. *)
StartProgress(w) ==
    /\ task[w].pc \in SubmitPc => exec[task[w].run] = "none" /\ task[w].why = "submit"
    /\ task[w].pc = "running" => exec[task[w].run] # "none"
    /\ task[w].pc \in {"cleanup", "failed"} => task[w].why # ""

StartedOnce ==
    /\ \A v, w \in Worker :
          (task[v].pc \in StartPc /\ task[w].pc \in StartPc /\ task[v].run = task[w].run)
            => v = w
    /\ \A w \in Worker : StartProgress(w)

(* The one report of a run is not yet posted, or on its way, or being stored,
   or stored. *)
Storing(w, r) == task[w].pc = "metrics" /\ task[w].run = r

ReportedOnce ==
    /\ \A r \in Run : exec[r] \in {"none", "measuring"} =>
          /\ saved[r] = 0
          /\ \A m \in net : m.kind = "report" => m.run # r
          /\ \A w \in Worker : ~Storing(w, r)
    /\ \A m \in net : m.kind = "report" =>
          /\ m.try = 0
          /\ saved[m.run] = 0
          /\ \A w \in Worker : ~Storing(w, m.run)
    /\ \A r \in Run, w \in Worker : Storing(w, r) =>
          saved[r] = 0 /\ \A v \in Worker : Storing(v, r) => v = w
    /\ \A w \in Worker : task[w].pc \in {"success", "release"} => saved[task[w].run] = 1

IInv == /\ TypeOK /\ RowsExist /\ StartedOnce /\ ReportedOnce
        /\ SuccessHasItsMetrics /\ RunningWasSubmitted /\ ReasonExplainsFailure

(* The tasks of StartTest, its FailRun included. *)
SubmitTasks ==
    \A w \in Worker : task[w].why = "submit" => task[w].pc \in StartPc \cup {"cleanup", "failed"}

(* While nothing has failed: a namespace without a pod is still being filled or about
   to be deleted, an executor that has reported or ended left a request or a handler
   behind, one that waits for an answer has sent its only failure webhook, and by the
   time it is answered the namespace is gone. *)
Closing(r) == \E w \in Worker : task[w].run = r /\ task[w].pc = "cleanup"

Reclaimable(r) ==
    ns[r] = "active" =>
        /\ exec[r] = "none" => Starting(r) \/ Closing(r)
        /\ exec[r] \in {"reported", "exited"} => Claimed(r)

AnswersLate(w) ==
    task[w].why = "executor" =>
        /\ task[w].run \in Run => exec[task[w].run] # "none"
        /\ task[w].pc = "failed" /\ task[w].run \notin Undeletable => ns[task[w].run] # "active"

Orderly ==
    faults = 0 =>
        /\ \A r \in Run \ Undeletable : Reclaimable(r)
        /\ \A r \in Run : exec[r] \notin {"waiting", "exited"} => tries[r] = 0
        /\ \A w \in Worker : AnswersLate(w)

OInv == IInv /\ SubmitTasks /\ Orderly

-----------------------------------------------------------------------------
(* The implementation of RunStatus. *)
RS == INSTANCE RunStatus WITH launching <- {r \in Run : Starting(r)}

RefinesRunStatus == RS!Spec

(* The executor of a run is one LoadPod, also when requests and answers are
   lost: nothing restarts it, and it never measures again once it has reported
   or failed (BackoffLimit 0 and RestartPolicyNever, client.go:211-214). *)
PodOf(r) == CASE exec[r] \in {"none", "measuring"} -> "measuring"
              [] exec[r] \in {"failing", "waiting"} -> "failing"
              [] exec[r] = "exited" -> "ended"
              [] OTHER -> "reported"

LP(r) == INSTANCE LoadPod WITH pod <- PodOf(r)

PodsRunOnce ==
    /\ \A r \in Run : LP(r)!Init
    /\ [][\A r \in Run : LP(r)!Next \/ UNCHANGED PodOf(r)]_vars
=============================================================================
