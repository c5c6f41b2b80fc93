----------------------------- MODULE MCPreempt -----------------------------
(* Preempt on a small quota, and the abstract scheduler it implements.     *)
EXTENDS Preempt

TS == INSTANCE TickSched WITH
        Quota    <- NTicks,
        ntasks   <- n_tasks,
        running  <- Running,
        switches <- IF tpc \in {"none", "handler"} THEN ticks ELSE ticks - 1,
        stopped  <- pc.at \in {"report", "halt"}

(* The preemptive scheduler implements round-robin by ticks: each trap     *)
(* resumes the next task, the quota's last tick the boot context, and the  *)
(* timer is turned off only there.                                         *)
ImplementsTickSched == TS!TSSpec
=============================================================================
