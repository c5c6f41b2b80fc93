---------------------------- MODULE SchedConsole ----------------------------
(***************************************************************************)
(* The console of demo.elf against what RoundRobin promises.  Lines(fn, j) *)
(* is the j-th line a body of tasks.c prints when it runs alone, known by  *)
(* its recurrence; the lines a task has printed are counted in its loop    *)
(* variable, which is live while the task runs and saved while it does not.*)
(***************************************************************************)
EXTENDS Sched

CONSTANT Lines(_, _)

ASSUME LinesAssumption ==
    /\ Lines("fibonacci", 0) = 0 /\ Lines("fibonacci", 1) = 1
    /\ \A j \in 1..MaxIter :
          /\ Lines("heartbeat", j) = j
          /\ Lines("spinner", j) = (j - 1) % 4
          /\ Lines("fibonacci", j + 1) = Lines("fibonacci", j) + Lines("fibonacci", j - 1)

\* Where task k stands, and with which locals.
Frame(k) == IF InTask /\ current = k THEN [ra |-> pc, sp |-> regs.sp, s |-> regs.s] ELSE ctx[k]

Printed(k) == IF k > num_tasks \/ Frame(k).ra = "tramp" THEN 0
              ELSE IF fn[k] = "spinner" THEN Frame(k).s.x ELSE Frame(k).s.x - 1

RR == INSTANCE RoundRobin WITH log <- out, printed <- [k \in Slots |-> Printed(k)]

(* demo.elf implements the round-robin console: whatever the tasks' lengths, *)
(* lines come round by round in registration order, each task's own lines    *)
(* survive its yields, no accepted line is lost and extra tasks are ignored. *)
ImplementsRoundRobin == RR!RRSpec
=============================================================================
