------------------------------ MODULE Preempt ------------------------------
(***************************************************************************)
(* The preemptive scheduler of preempt.elf: psched.c, trap.S, clint.c,     *)
(* ptasks.c and pmain.c on one hart, with the CLINT timer firing between   *)
(* any two steps of the interrupted program.                               *)
(*                                                                         *)
(* Time is relative: due is mtimecmp - mtime and deadline is the program's *)
(* deadline - mtime, so both fall by one when mtime advances.  A cycle     *)
(* stamp is abstracted to the number of the trap it was taken in.          *)
(***************************************************************************)
EXTENDS Integers, FiniteSets

CONSTANTS PtaskMax,   \* PTASK_MAX
          Calls,      \* how many ptask_create calls ptasks_register makes
          Quantum,    \* QUANTUM_TICKS
          NTicks,     \* N_TICKS
          MaxLate,    \* bound: how far mtime runs past an expired deadline
          MaxExtra    \* bound: ticks past the quota that catch the boot program awake

ASSUME PreemptAssumption ==
    /\ PtaskMax \in Nat \ {0} /\ Calls \in Nat \ {0}
    /\ Quantum \in Nat \ {0} /\ NTicks \in Nat \ {0}
    /\ MaxLate \in Nat /\ MaxExtra \in Nat

Boot   == 0
Tasks  == 1..PtaskMax
Ctx    == {Boot} \cup Tasks            \* sched_tf and tasks[k - 1].tf
Regs   == {"sp", "t0", "t1", "x"}      \* x: the other 28 registers
Stamp  == 2                            \* what rdcycle leaves in t1

VARIABLES
    n_tasks, current,          \* current: 0 stands for -1
    called,
    pc,                        \* of the interrupted program
    regs,                      \* the live registers
    tf,                        \* trapframes: regs, mepc, stamps
    mscratch,                  \* the trapframe the next trap saves into
    mtie, mie,
    due, deadline,
    tpc,                       \* inside the trap: where; "none" outside
    next,                      \* the trapframe the handler returns
    ticks, done, have_prev, swn,
    g_entry, g_exit,           \* trap numbers of the two switch stamps
    live                       \* history: the registers each program computed

hw == <<mtie, mie, due, deadline>>
frames == <<tf, mscratch, regs, live>>
stats == <<ticks, done, have_prev, swn, g_entry, g_exit>>
vars == <<n_tasks, current, called, pc, regs, tf, mscratch, mtie, mie, due, deadline,
          tpc, next, ticks, done, have_prev, swn, g_entry, g_exit, live>>

-----------------------------------------------------------------------------
\* A code address: a point of the boot program, the trampoline, or body fn.
At(l) == [at |-> l, fn |-> 0]

Fresh(c) == [r \in Regs |-> IF r = "sp" THEN c ELSE 0]

\* boot.S and the static initialisers; at reset mtimecmp is 0, so due <= 0.
Init ==
    /\ n_tasks = 0 /\ current = 0 /\ called = 0
    /\ pc = At("create")
    /\ regs = Fresh(Boot)
    /\ tf = [c \in Ctx |-> [regs |-> Fresh(Boot), mepc |-> At("null"), late |-> 0, trap |-> 0]]
    /\ mscratch = Boot
    /\ mtie = FALSE /\ mie = FALSE
    /\ due = 0 /\ deadline = 0
    /\ tpc = "none" /\ next = Boot
    /\ ticks = 0 /\ done = FALSE /\ have_prev = FALSE /\ swn = 0
    /\ g_entry = 0 /\ g_exit = 0
    /\ live = [c \in Ctx |-> Fresh(c)]

Goto(l) == pc' = At(l)

\* The CLINT: mtime advances.
ClockTick ==
    /\ due > -MaxLate /\ deadline > -MaxLate
    /\ due' = due - 1
    /\ deadline' = deadline - 1
    /\ UNCHANGED <<n_tasks, current, called, pc, frames, mtie, mie, tpc, next, stats>>

Pending == due <= 0

\* Mutant: the table-full test is off by one.
PtaskCreateOverflow ==
    /\ pc.at = "create" /\ called < Calls
    /\ called' = called + 1
    /\ n_tasks <= PtaskMax /\ n_tasks' = n_tasks + 1
    /\ UNCHANGED <<current, pc, frames, hw, tpc, next, stats>>

\* ptasks_register calls ptask_create; a full table ignores the call.
PtaskCreate ==
    /\ pc.at = "create" /\ called < Calls
    /\ called' = called + 1
    /\ \/ n_tasks >= PtaskMax /\ UNCHANGED <<n_tasks, tf>>
       \/ /\ n_tasks < PtaskMax
          /\ n_tasks' = n_tasks + 1
          /\ tf' = [tf EXCEPT ![n_tasks'] = [regs |-> Fresh(n_tasks'), mepc |-> At("tramp"),
                                             late |-> 0, trap |-> 0]]
    /\ UNCHANGED <<current, pc, mscratch, regs, live, hw, tpc, next, stats>>

\* timer_arm, first statement: deadline = mtime + QUANTUM_TICKS.
SetDeadline == deadline' = Quantum

\* timer_arm, the loop: while (deadline <= mtime) deadline += QUANTUM_TICKS.
SkipAhead == deadline <= 0 /\ deadline' = deadline + Quantum

\* timer_arm, last statement: mtimecmp = deadline.
SetMtimecmp == due' = deadline /\ UNCHANGED deadline

\* Mutant: preempt_init enables the interrupt without writing mtimecmp.
InitUnarmed ==
    /\ pc.at = "create" /\ called = Calls
    /\ SetDeadline
    /\ Goto("enable_mtie")
    /\ UNCHANGED <<n_tasks, current, called, frames, mtie, mie, due, tpc, next, stats>>

\* preempt_init: vector, scratch and counters, then timer_arm, MTIE, MIE.
InitStart ==
    /\ pc.at = "create" /\ called = Calls
    /\ mscratch' = Boot
    /\ ticks' = 0 /\ done' = FALSE /\ have_prev' = FALSE
    /\ SetDeadline
    /\ Goto("arm_loop")
    /\ UNCHANGED <<n_tasks, current, called, tf, regs, live, mtie, mie, due, tpc, next,
                   swn, g_entry, g_exit>>

InitArm ==
    /\ \/ pc.at = "arm_loop" /\ SkipAhead /\ UNCHANGED <<due, pc>>
       \/ pc.at = "arm_loop" /\ deadline > 0 /\ Goto("arm_write") /\ UNCHANGED <<due, deadline>>
       \/ pc.at = "arm_write" /\ SetMtimecmp /\ Goto("enable_mtie")
    /\ UNCHANGED <<n_tasks, current, called, frames, mtie, mie, tpc, next, stats>>

InitEnable ==
    /\ \/ pc.at = "enable_mtie" /\ mtie' = TRUE /\ UNCHANGED mie /\ Goto("enable_mie")
       \/ pc.at = "enable_mie" /\ mie' = TRUE /\ UNCHANGED mtie /\ Goto("wait")
    /\ UNCHANGED <<n_tasks, current, called, frames, due, deadline, tpc, next, stats>>

\* preempt_wait: while (!done) wfi.  wfi returns at once if MTIP is pending.
Wait ==
    /\ tpc = "none"
    /\ \/ pc.at = "wait" /\ Goto(IF done THEN "stop" ELSE "wfi")
       \/ pc.at = "wfi" /\ Goto(IF Pending THEN "wait" ELSE "asleep")
    /\ UNCHANGED <<n_tasks, current, called, frames, hw, tpc, next, stats>>

\* preempt_stop, then preempt_report with account_final_switch.
PreemptStop ==
    /\ tpc = "none" /\ pc.at = "stop"
    /\ mtie' = FALSE
    /\ Goto("report")
    /\ UNCHANGED <<n_tasks, current, called, frames, mie, due, deadline, tpc, next, stats>>

Report ==
    /\ tpc = "none" /\ pc.at = "report"
    /\ swn' = swn + 1
    /\ Goto("halt")
    /\ UNCHANGED <<n_tasks, current, called, frames, hw, tpc, next,
                   ticks, done, have_prev, g_entry, g_exit>>

\* ptask_trampoline: tasks[current].fn().
Trampoline ==
    /\ tpc = "none" /\ pc.at = "tramp"
    /\ pc' = [at |-> "body", fn |-> current]
    /\ UNCHANGED <<n_tasks, current, called, frames, hw, tpc, next, stats>>

\* A task body computes: any of its registers takes a new value.
TaskStep ==
    /\ tpc = "none" /\ pc.at = "body"
    /\ \E r \in Regs \ {"sp"}, v \in {0, 1} :
         /\ regs' = [regs EXCEPT ![r] = v]
         /\ live' = [live EXCEPT ![pc.fn][r] = v]
    /\ UNCHANGED <<n_tasks, current, called, pc, tf, mscratch, hw, tpc, next, stats>>

-----------------------------------------------------------------------------
\* Mutant: regs[5] is stored from t0, which holds the trapframe pointer.
TrapEntryLosesT0 ==
    /\ tpc = "none" /\ mie /\ mtie /\ Pending
    /\ ticks < NTicks + MaxExtra \/ pc.at = "asleep"
    /\ mie' = FALSE
    /\ tf' = [tf EXCEPT ![mscratch] =
                [regs |-> [regs EXCEPT !["t1"] = Stamp, !["t0"] = mscratch + 3],
                 mepc |-> IF pc.at = "asleep" THEN At("wait") ELSE pc,
                 late |-> -deadline,
                 trap |-> ticks + 1]]
    /\ tpc' = "handler"
    /\ UNCHANGED <<n_tasks, current, called, pc, regs, mscratch, mtie, due, deadline, next,
                   stats, live>>

(* trap.S, entry: the hart clears MIE; csrrw parks t0 in mscratch and      *)
(* yields the trapframe; rdtime and rdcycle go through t1 before t1 is     *)
(* stored, so regs[6] receives the cycle stamp; wfi completes, so mepc is  *)
(* the instruction after it.                                               *)
TrapEntry ==
    /\ tpc = "none" /\ mie /\ mtie /\ Pending
    /\ ticks < NTicks + MaxExtra \/ pc.at = "asleep"
    /\ mie' = FALSE
    /\ tf' = [tf EXCEPT ![mscratch] =
                [regs |-> [regs EXCEPT !["t1"] = Stamp],
                 mepc |-> IF pc.at = "asleep" THEN At("wait") ELSE pc,
                 late |-> -deadline,
                 trap |-> ticks + 1]]
    /\ tpc' = "handler"
    /\ UNCHANGED <<n_tasks, current, called, pc, regs, mscratch, mtie, due, deadline, next,
                   stats, live>>

\* Mutant: the first tick also accounts a previous switch.
HandlerIgnoresHavePrev ==
    /\ tpc = "handler"
    /\ ticks' = ticks + 1
    /\ swn' = swn + 1
    /\ SetDeadline
    /\ tpc' = "arm_loop"
    /\ UNCHANGED <<n_tasks, current, called, pc, frames, mtie, mie, due, next,
                   done, have_prev, g_entry, g_exit>>

\* ptrap_handler up to timer_arm: the tick, and the previous switch's cost.
Handler ==
    /\ tpc = "handler"
    /\ ticks' = ticks + 1
    /\ swn' = IF have_prev THEN swn + 1 ELSE swn
    /\ SetDeadline
    /\ tpc' = "arm_loop"
    /\ UNCHANGED <<n_tasks, current, called, pc, frames, mtie, mie, due, next,
                   done, have_prev, g_entry, g_exit>>

HandlerArm ==
    /\ \/ tpc = "arm_loop" /\ SkipAhead /\ UNCHANGED <<due, tpc>>
       \/ tpc = "arm_loop" /\ deadline > 0 /\ tpc' = "arm_write" /\ UNCHANGED <<due, deadline>>
       \/ tpc = "arm_write" /\ SetMtimecmp /\ tpc' = "pick"
    /\ UNCHANGED <<n_tasks, current, called, pc, frames, mtie, mie, next, stats>>

\* Mutant: the last tick forgets done = 1.
HandlerPickNotDone ==
    /\ tpc = "pick"
    /\ \/ ticks >= NTicks /\ next' = Boot /\ UNCHANGED <<done, current>>
       \/ /\ ticks < NTicks /\ current' = (current % n_tasks) + 1
          /\ next' = current' /\ UNCHANGED done
    /\ g_entry' = tf[mscratch].trap
    /\ have_prev' = TRUE
    /\ tpc' = "exit"
    /\ UNCHANGED <<n_tasks, called, pc, frames, hw, ticks, swn, g_exit>>

\* Mutant: the handler always resumes the first task.
HandlerPickFirst ==
    /\ tpc = "pick"
    /\ \/ ticks >= NTicks /\ done' = TRUE /\ next' = Boot /\ UNCHANGED current
       \/ ticks < NTicks /\ current' = 1 /\ next' = 1 /\ UNCHANGED done
    /\ g_entry' = tf[mscratch].trap
    /\ have_prev' = TRUE
    /\ tpc' = "exit"
    /\ UNCHANGED <<n_tasks, called, pc, frames, hw, ticks, swn, g_exit>>

\* ptrap_handler after timer_arm: the next context and the entry stamps.
HandlerPick ==
    /\ tpc = "pick"
    /\ \/ /\ ticks >= NTicks
          /\ done' = TRUE
          /\ next' = Boot
          /\ UNCHANGED current
       \/ /\ ticks < NTicks
          /\ current' = (current % n_tasks) + 1
          /\ next' = current'
          /\ UNCHANGED done
    /\ g_entry' = tf[mscratch].trap
    /\ have_prev' = TRUE
    /\ tpc' = "exit"
    /\ UNCHANGED <<n_tasks, called, pc, frames, hw, ticks, swn, g_exit>>

\* Mutant: mscratch keeps the old trapframe.
TrapExitKeepsScratch ==
    /\ tpc = "exit"
    /\ g_exit' = ticks
    /\ regs' = tf[next].regs
    /\ pc' = tf[next].mepc
    /\ mscratch' = mscratch
    /\ mie' = TRUE
    /\ tpc' = "none"
    /\ UNCHANGED <<n_tasks, current, called, tf, mtie, due, deadline, next,
                   ticks, done, have_prev, swn, g_entry, live>>

\* Mutant: the exit stamp is not taken.
TrapExitNoStamp ==
    /\ tpc = "exit"
    /\ g_exit' = g_exit
    /\ regs' = tf[next].regs
    /\ pc' = tf[next].mepc
    /\ mscratch' = next
    /\ mie' = TRUE
    /\ tpc' = "none"
    /\ UNCHANGED <<n_tasks, current, called, tf, mtie, due, deadline, next,
                   ticks, done, have_prev, swn, g_entry, live>>

\* trap.S, exit: stamp, restore, mscratch = next trapframe, mret sets MIE.
TrapExit ==
    /\ tpc = "exit"
    /\ g_exit' = ticks
    /\ regs' = tf[next].regs
    /\ pc' = tf[next].mepc
    /\ mscratch' = next
    /\ mie' = TRUE
    /\ tpc' = "none"
    /\ UNCHANGED <<n_tasks, current, called, tf, mtie, due, deadline, next,
                   ticks, done, have_prev, swn, g_entry, live>>

Halted == pc.at = "halt" /\ tpc = "none" /\ UNCHANGED vars

Program == \/ PtaskCreate \/ InitStart \/ InitArm \/ InitEnable \/ Wait \/ PreemptStop
           \/ Report \/ Trampoline \/ TaskStep
Trap == TrapEntry \/ Handler \/ HandlerArm \/ HandlerPick \/ TrapExit

Next == ClockTick \/ Program \/ Trap \/ Halted

Spec == Init /\ [][Next]_vars

(* mtime never stops, a pending enabled interrupt is taken, the handler    *)
(* runs to its mret and the boot program executes its next instruction.    *)
FairSpec ==
    /\ Spec
    /\ WF_vars(ClockTick)
    /\ WF_vars(Trap)
    /\ WF_vars(Program)

-----------------------------------------------------------------------------
\* The context that owns the hart (during a trap: the one it interrupted).
Running == mscratch

\* The types of the scheduler's variables, with the counters' bounds.
TypeOK ==
    /\ n_tasks \in 0..PtaskMax /\ current \in 0..PtaskMax /\ called \in 0..Calls
    /\ mscratch \in Ctx /\ next \in Ctx
    /\ regs \in [Regs -> Nat]
    /\ \A c \in Ctx : tf[c].regs \in [Regs -> Nat] /\ live[c] \in [Regs -> Nat]
    /\ due \in Int /\ deadline \in Int
    /\ ticks \in 0..(NTicks + MaxExtra + 1) /\ swn \in 0..ticks
    /\ done \in BOOLEAN /\ have_prev \in BOOLEAN /\ mtie \in BOOLEAN /\ mie \in BOOLEAN

(* A preempted program finds every register but t1 as it left it, on its   *)
(* own stack, however many other contexts ran in between (trap.S).         *)
ContextPreserved ==
    tpc = "none" => \A r \in Regs \ {"t1"} : regs[r] = live[Running][r]

(* psched.h: "A trapframe holds the full interrupted context: all 31       *)
(* writable integer registers plus mepc."                                  *)
FullContextPreserved == tpc = "none" => \A r \in Regs : regs[r] = live[Running][r]

(* The hart runs the program of the context mscratch names: a tick between *)
(* the trampoline's first instruction and its read of current still lands  *)
(* every task in its own body, and boot code runs in the boot context.     *)
OwnBody ==
    tpc = "none" =>
        CASE pc.at = "body"  -> pc.fn = Running
          [] pc.at = "tramp" -> Running = current
          [] OTHER           -> Running = Boot

(* The latency the handler records, mtime_at_entry - deadline, never wraps *)
(* below zero: no tick is taken on a comparator older than deadline.       *)
LatencyNonNegative == tpc = "handler" => tf[mscratch].late >= 0

(* When a switch cost is computed, in the handler and in the final report, *)
(* the entry and the exit stamp belong to the same trap.                   *)
StampsPaired ==
    (tpc = "handler" /\ have_prev) \/ pc.at = "report" => g_entry = g_exit

\* Every tick is measured: the report prints as many switches as ticks.
SwitchesMeasured == pc.at = "halt" => swn = ticks

\* preempt.elf finishes: preempt_wait returns and the report is printed.
EventuallyReports == <>(pc.at = "halt")
=============================================================================
