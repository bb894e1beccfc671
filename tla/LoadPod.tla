------------------------------- MODULE LoadPod -------------------------------
(***************************************************************************)
(* What loadtestd relies on in an executor pod: it posts one report at     *)
(* most, ends well only after the report, and announces a failure only     *)
(* once it gives the run up.  RunService plays this role with its executor *)
(* steps; ExecutorSearch shows that the executor program keeps to it.      *)
(***************************************************************************)

VARIABLE pod        \* "measuring", "reported", "failing" or "ended"

Init == pod = "measuring"

Report  == pod = "measuring" /\ pod' = "reported"
Succeed == pod = "reported" /\ pod' = "ended"
Fail    == pod \in {"measuring", "reported"} /\ pod' = "failing"
GiveUp  == pod = "failing" /\ pod' = "ended"

(* With its namespace, by eviction or with its node. *)
Killed  == pod # "ended" /\ pod' = "ended"

Next == Report \/ Succeed \/ Fail \/ GiveUp \/ Killed

Spec == Init /\ [][Next]_pod
=============================================================================
