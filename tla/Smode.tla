------------------------------- MODULE Smode -------------------------------
(***************************************************************************)
(* The scheduler of smode.elf and smode-mbase.elf: msetup.c and sboot.S    *)
(* (M-mode setup, delegation, ecall service), ssched.c, strap.S, stimer.c, *)
(* stasks.c and smain.c on one hart.  trap_smode is the binary,   *)
(* sstc whether the hart implements the stimecmp comparator.               *)
(*                                                                         *)
(* Time is relative, as in Preempt: mtimecmp, stimecmp and deadline hold   *)
(* their distance from mtime, Never standing for ~0.  A distance below     *)
(* -MaxLate is kept at -MaxLate.                                           *)
(***************************************************************************)
EXTENDS Integers

CONSTANTS Builds,      \* the pairs <<TRAP_SMODE, hart has Sstc>> considered
          StaskMax,    \* STASK_MAX
          Calls,       \* stask_create calls stasks_register makes
          Quantum,     \* QUANTUM_TICKS
          NTicks,      \* N_TICKS
          MaxLate      \* bound: the largest lateness told apart

ASSUME SmodeAssumption ==
    /\ Builds \subseteq BOOLEAN \X BOOLEAN
    /\ StaskMax \in Nat \ {0} /\ Calls \in Nat \ {0}
    /\ Quantum \in Nat \ {0} /\ NTicks \in Nat \ {0} /\ MaxLate \in Nat

Boot  == 0
Ctx   == 0..StaskMax
Regs  == {"sp", "t0", "t1", "x"}
Stamp == 2
Never == Quantum + 1
STI   == 5
SEcall == 9

VARIABLES
    trap_smode,                  \* TRAP_SMODE: the S-mode binary, or the M-mode baseline
    sstc,                        \* the hart implements Sstc
    mode,                        \* "M" or "S"
    pc, tpc, next,
    regs, tf, scratch, live,     \* scratch: sscratch, or mscratch in the baseline
    n_tasks, current, called,
    tie, ie,                     \* sie.STIE and sstatus.SIE (mie.MTIE, mstatus.MIE)
    mideleg, medeleg,            \* causes delegated to S-mode
    granted,                     \* PMP and mcounteren opened to S-mode
    mtimecmp, stimecmp, deadline, use_sstc,
    ticks, done, have_prev, swn, lat,
    g_entry, g_exit

setup == <<trap_smode, sstc, mode, mideleg, medeleg, granted, use_sstc>>
table == <<n_tasks, current, called>>
timer == <<mtimecmp, stimecmp, deadline>>
frames == <<regs, tf, scratch, live>>
stats == <<ticks, done, have_prev, swn, lat, g_entry, g_exit>>
vars == <<trap_smode, sstc, mode, pc, tpc, next, regs, tf, scratch, live, n_tasks, current, called, tie, ie,
          mideleg, medeleg, granted, mtimecmp, stimecmp, deadline, use_sstc,
          ticks, done, have_prev, swn, lat, g_entry, g_exit>>

-----------------------------------------------------------------------------
At(l) == [at |-> l, fn |-> 0]
Goto(l) == pc' = At(l)
Fresh(c) == [r \in Regs |-> IF r = "sp" THEN c ELSE 0]

\* sboot.S: M-mode, BSS clear, the comparators at their reset value.
Init ==
    /\ \E b \in Builds : trap_smode = b[1] /\ sstc = b[2]
    /\ mode = "M"
    /\ pc = At("m_boot") /\ tpc = "none" /\ next = Boot
    /\ regs = Fresh(Boot) /\ live = [c \in Ctx |-> Fresh(c)] /\ scratch = Boot
    /\ tf = [c \in Ctx |-> [regs |-> Fresh(Boot), epc |-> At("null"), late |-> 0, trap |-> 0]]
    /\ n_tasks = 0 /\ current = 0 /\ called = 0
    /\ tie = FALSE /\ ie = FALSE
    /\ mideleg = {} /\ medeleg = {} /\ granted = FALSE /\ use_sstc = FALSE
    /\ mtimecmp = 0 /\ stimecmp = 0 /\ deadline = 0
    /\ ticks = 0 /\ done = FALSE /\ have_prev = FALSE /\ swn = 0
    /\ lat = [i \in 0..(NTicks - 1) |-> 0]
    /\ g_entry = 0 /\ g_exit = 0

Nearer(d) == IF d = Never \/ d <= -MaxLate THEN d ELSE d - 1

\* The comparator behind the binary's timer interrupt.
Comparator == IF trap_smode THEN (IF use_sstc THEN stimecmp ELSE Never) ELSE mtimecmp

ClockTick ==
    /\ mtimecmp' = Nearer(mtimecmp)
    /\ stimecmp' = Nearer(stimecmp)
    /\ deadline' = Nearer(deadline)
    /\ UNCHANGED <<setup, pc, tpc, next, frames, table, tie, ie, stats>>

\* Mutant: mcounteren is left at its reset value.
MBootNoCounteren ==
    /\ pc.at = "m_boot"
    /\ IF trap_smode
       THEN /\ use_sstc' = sstc
            /\ mtimecmp' = Never
            /\ stimecmp' = IF sstc THEN Never ELSE stimecmp
            /\ granted' = FALSE
            /\ mideleg' = {1, STI, 9}
            /\ medeleg' = {2, 3, 8, 12, 13, 15}
            /\ scratch' = Boot
            /\ mode' = "S"
            /\ UNCHANGED <<trap_smode, sstc, deadline>>
       ELSE UNCHANGED <<setup, timer, scratch>>
    /\ Goto("create")
    /\ UNCHANGED <<tpc, next, regs, tf, live, table, tie, ie, stats>>

(* m_boot.  S-mode binary: probe menvcfg.STCE, park the comparators, open  *)
(* PMP and the counters to S-mode, delegate (all but the S-mode ecall),    *)
(* point sscratch at the boot trapframe, sret.  Baseline: a stub.          *)
MBoot ==
    /\ pc.at = "m_boot"
    /\ IF trap_smode
       THEN /\ use_sstc' = sstc
            /\ mtimecmp' = Never
            /\ stimecmp' = IF sstc THEN Never ELSE stimecmp
            /\ granted' = TRUE
            /\ mideleg' = {1, STI, 9}
            /\ medeleg' = {2, 3, 8, 12, 13, 15}
            /\ scratch' = Boot
            /\ mode' = "S"
            /\ UNCHANGED <<trap_smode, sstc, deadline>>
       ELSE UNCHANGED <<setup, timer, scratch>>
    /\ Goto("create")
    /\ UNCHANGED <<tpc, next, regs, tf, live, table, tie, ie, stats>>

\* Mutant: the table-full test is off by one.
StaskCreateOverflow ==
    /\ pc.at = "create" /\ called < Calls
    /\ called' = called + 1
    /\ n_tasks <= StaskMax /\ n_tasks' = n_tasks + 1
    /\ UNCHANGED <<setup, pc, tpc, next, frames, current, tie, ie, timer, stats>>

StaskCreate ==
    /\ pc.at = "create" /\ called < Calls
    /\ called' = called + 1
    /\ \/ n_tasks >= StaskMax /\ UNCHANGED <<n_tasks, tf>>
       \/ /\ n_tasks < StaskMax
          /\ n_tasks' = n_tasks + 1
          /\ tf' = [tf EXCEPT ![n_tasks + 1] = [regs |-> Fresh(n_tasks + 1), epc |-> At("tramp"),
                                                late |-> 0, trap |-> 0]]
    /\ UNCHANGED <<setup, pc, tpc, next, regs, scratch, live, current, tie, ie, timer, stats>>

\* stimer_arm: deadline = mtime + QUANTUM_TICKS, then skip ahead while past.
SetDeadline == deadline' = Quantum
SkipAhead == deadline <= 0 /\ deadline' = deadline + Quantum

(* The comparator write of stimer_arm and stimer_disarm: stimecmp with     *)
(* Sstc; otherwise the S-mode ecall, which is not delegated, so            *)
(* m_trap_entry writes mtimecmp and returns past the ecall.  The baseline  *)
(* writes mtimecmp itself.                                                 *)
Program(d) ==
    IF trap_smode /\ use_sstc
    THEN stimecmp' = d /\ UNCHANGED mtimecmp
    ELSE (trap_smode => SEcall \notin medeleg) /\ mtimecmp' = d /\ UNCHANGED stimecmp

\* stimer_disarm: the far future.
Disarm == deadline' = Never /\ Program(Never)

\* sched_init: vector, scratch, counters, stimer_arm, then the two enables.
InitStart ==
    /\ pc.at = "create" /\ called = Calls
    /\ scratch' = Boot
    /\ ticks' = 0 /\ done' = FALSE /\ have_prev' = FALSE /\ swn' = 0
    /\ SetDeadline
    /\ Goto("arm_loop")
    /\ UNCHANGED <<setup, tpc, next, regs, tf, live, table, tie, ie, mtimecmp, stimecmp,
                   lat, g_entry, g_exit>>

InitArm ==
    /\ \/ pc.at = "arm_loop" /\ SkipAhead /\ UNCHANGED <<mtimecmp, stimecmp, pc>>
       \/ pc.at = "arm_loop" /\ deadline > 0 /\ Goto("arm_write") /\ UNCHANGED timer
       \/ pc.at = "arm_write" /\ Program(deadline) /\ UNCHANGED deadline /\ Goto("enable_tie")
    /\ UNCHANGED <<setup, tpc, next, frames, table, tie, ie, stats>>

InitEnable ==
    /\ \/ pc.at = "enable_tie" /\ tie' = TRUE /\ UNCHANGED ie /\ Goto("enable_ie")
       \/ pc.at = "enable_ie" /\ ie' = TRUE /\ UNCHANGED tie /\ Goto("wait")
    /\ UNCHANGED <<setup, tpc, next, frames, table, timer, stats>>

\* sched_wait spins on done; sched_stop clears the enable.
Wait ==
    /\ tpc = "none" /\ pc.at = "wait" /\ done
    /\ Goto("stop")
    /\ UNCHANGED <<setup, tpc, next, frames, table, tie, ie, timer, stats>>

SchedStop ==
    /\ tpc = "none" /\ pc.at = "stop"
    /\ tie' = FALSE
    /\ Goto("report")
    /\ UNCHANGED <<setup, tpc, next, frames, table, ie, timer, stats>>

\* sched_report: account_final_switch writes swc[swn] and swt[swn].
Report ==
    /\ tpc = "none" /\ pc.at = "report"
    /\ swn' = swn + 1
    /\ Goto("halt")
    /\ UNCHANGED <<setup, tpc, next, frames, table, tie, ie, timer,
                   ticks, done, have_prev, lat, g_entry, g_exit>>

Trampoline ==
    /\ tpc = "none" /\ pc.at = "tramp"
    /\ pc' = [at |-> "body", fn |-> current]
    /\ UNCHANGED <<setup, tpc, next, frames, table, tie, ie, timer, stats>>

TaskStep ==
    /\ tpc = "none" /\ pc.at = "body"
    /\ \E r \in {"t0", "x"}, v \in {0, 1} :
         /\ regs' = [regs EXCEPT ![r] = v]
         /\ live' = [live EXCEPT ![pc.fn][r] = v]
    /\ UNCHANGED <<setup, pc, tpc, next, tf, scratch, table, tie, ie, timer, stats>>

-----------------------------------------------------------------------------
(* The timer interrupt of the binary's mode.  STIP comes from stimecmp     *)
(* alone; an expired mtimecmp raises MTIP, which S-mode never sees.        *)
Pending == Comparator <= 0 /\ (trap_smode => STI \in mideleg)

\* Mutant: regs[5] is stored from t0, which holds the trapframe pointer.
StrapEntryLosesT0 ==
    /\ tpc = "none" /\ ie /\ tie /\ Pending
    /\ mode = "M" \/ granted
    /\ ie' = FALSE
    /\ tf' = [tf EXCEPT ![scratch] = [regs |-> [regs EXCEPT !["t1"] = Stamp, !["t0"] = scratch + 3], epc |-> pc,
                                      late |-> -deadline, trap |-> ticks + 1]]
    /\ tpc' = "handler"
    /\ UNCHANGED <<setup, pc, next, regs, scratch, live, table, tie, timer, stats>>

\* strap.S, entry: swap scratch, stamp through t1, save x1-x31 and epc.
StrapEntry ==
    /\ tpc = "none" /\ ie /\ tie /\ Pending
    /\ mode = "M" \/ granted
    /\ ie' = FALSE
    /\ tf' = [tf EXCEPT ![scratch] = [regs |-> [regs EXCEPT !["t1"] = Stamp], epc |-> pc,
                                      late |-> -deadline, trap |-> ticks + 1]]
    /\ tpc' = "handler"
    /\ UNCHANGED <<setup, pc, next, regs, scratch, live, table, tie, timer, stats>>

\* strap_handler's guard: a tick past the quota only disarms.
PastQuota ==
    /\ Disarm
    /\ done' = TRUE
    /\ next' = Boot
    /\ tpc' = "exit"
    /\ UNCHANGED <<ticks, have_prev, swn, lat, g_entry>>

\* The samples of a tick: lat[ticks], and the previous switch in swc[swn].
Sample ==
    /\ lat' = [lat EXCEPT ![ticks] = tf[scratch].late]
    /\ swn' = IF have_prev THEN swn + 1 ELSE swn
    /\ ticks' = ticks + 1

\* Mutant: the last tick leaves the comparator alone.
FinalTickNoDisarm ==
    /\ ticks + 1 >= NTicks
    /\ done' = TRUE /\ next' = Boot
    /\ UNCHANGED timer
    /\ g_entry' = tf[scratch].trap /\ have_prev' = TRUE
    /\ tpc' = "exit"

FinalTick ==
    /\ ticks + 1 >= NTicks
    /\ done' = TRUE /\ next' = Boot
    /\ Disarm
    /\ g_entry' = tf[scratch].trap /\ have_prev' = TRUE
    /\ tpc' = "exit"

OtherTick ==
    /\ ticks + 1 < NTicks
    /\ SetDeadline
    /\ tpc' = "arm_loop"
    /\ UNCHANGED <<done, next, mtimecmp, stimecmp, g_entry, have_prev>>

Handler ==
    /\ tpc = "handler"
    /\ IF ticks >= NTicks THEN PastQuota ELSE Sample /\ (FinalTick \/ OtherTick)
    /\ UNCHANGED <<setup, pc, frames, table, tie, ie, g_exit>>

HandlerArm ==
    /\ \/ tpc = "arm_loop" /\ SkipAhead /\ UNCHANGED <<mtimecmp, stimecmp, tpc>>
       \/ tpc = "arm_loop" /\ deadline > 0 /\ tpc' = "arm_write" /\ UNCHANGED timer
       \/ tpc = "arm_write" /\ Program(deadline) /\ UNCHANGED deadline /\ tpc' = "pick"
    /\ UNCHANGED <<setup, pc, next, frames, table, tie, ie, stats>>

\* Mutant: the handler always resumes the first task.
HandlerPickFirst ==
    /\ tpc = "pick"
    /\ current' = 1
    /\ next' = current'
    /\ g_entry' = tf[scratch].trap /\ have_prev' = TRUE
    /\ tpc' = "exit"
    /\ UNCHANGED <<setup, pc, frames, n_tasks, called, tie, ie, timer,
                   ticks, done, swn, lat, g_exit>>

HandlerPick ==
    /\ tpc = "pick"
    /\ current' = (current % n_tasks) + 1
    /\ next' = current'
    /\ g_entry' = tf[scratch].trap /\ have_prev' = TRUE
    /\ tpc' = "exit"
    /\ UNCHANGED <<setup, pc, frames, n_tasks, called, tie, ie, timer,
                   ticks, done, swn, lat, g_exit>>

\* Mutant: scratch keeps the old trapframe.
StrapExitKeepsScratch ==
    /\ tpc = "exit"
    /\ g_exit' = ticks
    /\ regs' = tf[next].regs
    /\ pc' = tf[next].epc
    /\ scratch' = scratch
    /\ ie' = TRUE
    /\ tpc' = "none"
    /\ UNCHANGED <<setup, next, tf, live, table, tie, timer,
                   ticks, done, have_prev, swn, lat, g_entry>>

\* strap.S, exit: stamp, restore, scratch = next trapframe, sret or mret.
StrapExit ==
    /\ tpc = "exit"
    /\ g_exit' = ticks
    /\ regs' = tf[next].regs
    /\ pc' = tf[next].epc
    /\ scratch' = next
    /\ ie' = TRUE
    /\ tpc' = "none"
    /\ UNCHANGED <<setup, next, tf, live, table, tie, timer,
                   ticks, done, have_prev, swn, lat, g_entry>>

Halted == pc.at = "halt" /\ tpc = "none" /\ UNCHANGED vars

Step == \/ MBoot \/ StaskCreate \/ InitStart \/ InitArm \/ InitEnable \/ Wait
        \/ SchedStop \/ Report \/ Trampoline \/ TaskStep
Trap == StrapEntry \/ Handler \/ HandlerArm \/ HandlerPick \/ StrapExit

Next == ClockTick \/ Step \/ Trap \/ Halted

Spec == Init /\ [][Next]_vars

(* mtime advances, an enabled pending interrupt is taken, the hart runs    *)
(* on, and a pass of stimer_arm's loop takes less than a quantum, so the   *)
(* loop is eventually left.                                                *)
FairSpec ==
    /\ Spec
    /\ WF_vars(ClockTick) /\ WF_vars(Trap) /\ WF_vars(Step)
    /\ SF_vars((InitArm \/ HandlerArm) /\ UNCHANGED deadline)

-----------------------------------------------------------------------------
Running == scratch

\* The types of the scheduler's variables.
TypeOK ==
    /\ mode \in {"M", "S"}
    /\ n_tasks \in 0..StaskMax /\ current \in 0..StaskMax
    /\ scratch \in Ctx /\ next \in Ctx
    /\ regs \in [Regs -> Nat]
    /\ {mtimecmp, stimecmp, deadline} \subseteq (-MaxLate)..Never
    /\ {tie, ie, done, have_prev, use_sstc} \subseteq BOOLEAN

(* No tick is served past the quota: ticks stops at N_TICKS, the handler's *)
(* guard is the unreachable code its comment says it is, and the sample    *)
(* arrays are only written inside their N_TICKS entries.                   *)
NoTickPastQuota ==
    /\ tpc = "handler" => ticks < NTicks
    /\ ticks <= NTicks /\ swn <= NTicks
    /\ pc.at = "report" => swn < NTicks
    /\ pc.at = "halt" => ticks = NTicks /\ swn = NTicks

\* Every register but t1 survives preemption (strap.S), stacks stay private.
ContextPreserved ==
    tpc = "none" => \A r \in Regs \ {"t1"} : regs[r] = live[Running][r]

(* Once the boot context has the hart back, no timer interrupt can be      *)
(* pending: the disarm came before the return (strap_handler, final tick). *)
QuietAfterDone == done /\ tpc = "none" => ~Pending

\* The run ends: sched_wait sees done and the report is printed.
EventuallyReports == <>(pc.at = "halt")
=============================================================================
