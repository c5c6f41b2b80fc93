------------------------------ MODULE MCSmode ------------------------------
(* Smode on a small quota, and the abstract scheduler it implements.       *)
EXTENDS Smode

\* smode.elf on a hart with Sstc, and the baseline; smode.elf without Sstc.
BothBuilds == {<<TRUE, TRUE>>, <<FALSE, TRUE>>}
NoSstc     == {<<TRUE, FALSE>>}

TS == INSTANCE TickSched WITH
        Quota    <- NTicks,
        ntasks   <- n_tasks,
        running  <- Running,
        switches <- IF tpc \in {"none", "handler"} THEN ticks ELSE ticks - 1,
        stopped  <- pc.at \in {"report", "halt"}

(* Both binaries implement round-robin by ticks, with the boot context     *)
(* resumed by the quota's last tick (strap_handler, sched_stop).           *)
ImplementsTickSched == TS!TSSpec
=============================================================================
