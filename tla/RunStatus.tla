------------------------------ MODULE RunStatus ------------------------------
(***************************************************************************)
(* What loadtestd promises about the status of a test run, and nothing of  *)
(* how: a run is created PENDING; the StartTest call that created it may   *)
(* write RUNNING once; SUCCESS and FAILED may be written at any time after *)
(* creation, also over one another.  Module RunService implements this.    *)
(***************************************************************************)
EXTENDS Naturals

CONSTANT Run                \* the run identifiers newID may draw

VARIABLES status,           \* the status column of a run, "NONE" before it has a row
          launching         \* runs whose StartTest call may still write RUNNING

vars == <<status, launching>>

Terminal == {"SUCCESS", "FAILED"}
Active   == {"PENDING", "RUNNING"}
Status   == {"NONE"} \cup Active \cup Terminal

Init == /\ status = [r \in Run |-> "NONE"]
        /\ launching = {}

(* CreateRun inserts the row of a fresh identifier. *)
Create(r) == /\ status[r] = "NONE"
             /\ status' = [status EXCEPT ![r] = "PENDING"]
             /\ launching' = launching \cup {r}

(* StartTest records RUNNING, whatever the row holds by then. *)
Launch(r) == /\ r \in launching
             /\ status' = [status EXCEPT ![r] = "RUNNING"]
             /\ launching' = launching \ {r}

(* StartTest calls end without writing RUNNING: Submit failed, the database
   refused the write, or the daemon stopped. *)
Abandon(S) == /\ S # {}
              /\ S \subseteq launching
              /\ launching' = launching \ S
              /\ UNCHANGED status

(* A report, a failure, a cancellation or the timeout sweep writes a verdict. *)
Settle(r) == /\ status[r] # "NONE"
             /\ \E s \in Terminal : status' = [status EXCEPT ![r] = s]
             /\ UNCHANGED launching

Next == \/ \E r \in Run : Create(r) \/ Launch(r) \/ Settle(r)
        \/ \E S \in SUBSET launching : Abandon(S)

Spec == Init /\ [][Next]_vars

-----------------------------------------------------------------------------
TypeOK == /\ status \in [Run -> Status]
          /\ launching \in SUBSET Run

(* Once StartTest of a run is over, a verdict is never replaced by an active
   status: a poller (scripts/lib.sh, wait_test) that sees SUCCESS or FAILED
   then will never see the run come back to life. *)
KeepsVerdict == \A r \in Run : status[r] \in Terminal /\ r \notin launching
                                  => status'[r] \in Terminal

LaunchedStaysTerminal == [][KeepsVerdict]_vars
=============================================================================
