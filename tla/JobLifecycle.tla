---------------------------- MODULE JobLifecycle ----------------------------
(***************************************************************************)
(* What the job table promises its readers: a job is submitted, started by *)
(* its worker, and ends once.  One step may move several jobs, since a     *)
(* worker claims all of its pending jobs at once and a listing expires     *)
(* every overdue lease.                                                    *)
(***************************************************************************)
CONSTANT Job
VARIABLE status

Moves ==
  {<<"none", "pending">>,
   <<"pending", "in_progress">>, <<"pending", "canceled">>,
   <<"in_progress", "succeeded">>, <<"in_progress", "failed">>,
   <<"in_progress", "canceled">>}

Init == status = [j \in Job |-> "none"]

Next ==
  /\ DOMAIN status' = Job
  /\ \A j \in Job :
       \/ status'[j] = status[j]
       \/ <<status[j], status'[j]>> \in Moves

Spec == Init /\ [][Next]_status
=============================================================================
