----------------------------- MODULE SmodeInv ------------------------------
(* The inductive invariant of the S-mode scheduler and its M-mode baseline,  *)
(* and its parts about types, interrupt gates, counts and the disarm.        *)
EXTENDS Smode, TLAPS

\* Zenon proves the leaves below; those that need arithmetic, strings or records cite SMT.
USE ZenonT(60)

\* The boot program's places: with interrupts still off, and the others.
Starting == {"m_boot", "create", "arm_loop", "arm_write", "enable_tie", "enable_ie"}
Waiting == {"wait", "stop", "report", "halt"}
Pcs == [at : Starting \cup Waiting \cup {"tramp", "body", "null"}, fn : Nat]
Frames == [regs : [Regs -> Nat], epc : Pcs, late : Int, trap : Nat]
Arming == {"arm_loop", "arm_write", "pick"}
Distances == (-MaxLate)..Never

\* The contexts that exist, and the ones that are not on the hart.
Known == {Boot} \cup 1..n_tasks
Parked(c) == c # scratch \/ tpc # "none"
Within(c, p) == p.at = "tramp" \/ (p.at = "body" /\ p.fn = c)

Types ==
    /\ mode \in {"M", "S"}
    /\ n_tasks \in 0..StaskMax /\ current \in 0..StaskMax /\ called \in 0..Calls
    /\ scratch \in Ctx /\ next \in Ctx
    /\ regs \in [Regs -> Nat] /\ tf \in [Ctx -> Frames] /\ live \in [Ctx -> [Regs -> Nat]]
    /\ pc \in Pcs /\ tpc \in {"none", "handler", "exit"} \cup Arming
    /\ mtimecmp \in Distances /\ stimecmp \in Distances /\ deadline \in Distances
    /\ ticks \in 0..NTicks /\ swn \in 0..NTicks /\ g_entry \in Nat
    /\ trap_smode \in BOOLEAN /\ sstc \in BOOLEAN /\ use_sstc \in BOOLEAN
    /\ tie \in BOOLEAN /\ ie \in BOOLEAN /\ done \in BOOLEAN /\ have_prev \in BOOLEAN

\* Interrupts come on at the end of sched_init and go off in sched_stop.
Gates ==
    /\ pc.at \in Starting => /\ tpc = "none" /\ ~ie /\ scratch = Boot
                             /\ ticks = 0 /\ swn = 0 /\ ~have_prev /\ ~done
    /\ pc.at \in Starting \ {"enable_ie"} => ~tie
    /\ pc.at \notin {"m_boot", "create"} => called = Calls
    /\ called > 0 => n_tasks > 0
    /\ tpc # "none" => ~ie
    /\ pc.at \in {"report", "halt"} => tpc = "none" /\ ~tie

\* A parked context's frame resumes it in its own code with its registers.
Contexts ==
    /\ scratch \in Known /\ current \in 0..n_tasks
    /\ tpc = "none" => IF scratch = Boot THEN pc.at \in Starting \cup Waiting
                       ELSE scratch = current /\ Within(scratch, pc)
    /\ tpc = "none" => \A r \in Regs \ {"t1"} : regs[r] = live[scratch][r]
    /\ \A c \in Known : Parked(c) => \A r \in Regs \ {"t1"} : tf[c].regs[r] = live[c][r]
    /\ \A c \in 1..n_tasks : Parked(c) => Within(c, tf[c].epc)
    /\ Parked(Boot) => tf[Boot].epc.at = "wait"
    /\ \A c \in Ctx : c > n_tasks => live[c] = Fresh(c)
    /\ tpc = "exit" => next \in Known /\ next \in {Boot, current}

\* Ticks and accounted switches in step; done is the quota's last tick.
Counts ==
    /\ tpc \in {"none", "handler"} =>
         /\ have_prev => ticks > 0 /\ swn = IF pc.at = "halt" THEN ticks ELSE ticks - 1
         /\ ~have_prev => ticks = 0 /\ swn = 0
    /\ tpc \in Arming => ticks > 0 /\ ticks < NTicks /\ swn = ticks - 1
    /\ tpc = "exit" => have_prev /\ ticks > 0 /\ swn = ticks - 1
    /\ tpc = "handler" => ticks < NTicks
    /\ done <=> ticks = NTicks
    /\ pc.at \in {"stop", "report", "halt"} => done
    /\ tpc = "none" /\ done => scratch = Boot
    /\ tpc = "exit" /\ done => next = Boot

\* The final tick's disarm lasts.
Quiet == done => Comparator = Never

\* Task c (0 the boot context) is the one the k-th of the switches over n tasks resumes.
Turn(k, c, n) == IF k = 0 THEN c = 0 ELSE c \in 1..n /\ \E q \in Nat : k = n * q + c

\* current is where the ticks served so far lead, up to the quota.
Rotated ==
    /\ tpc \in {"none", "handler"} /\ ticks < NTicks => Turn(ticks, current, n_tasks)
    /\ tpc \in Arming => Turn(ticks - 1, current, n_tasks)
    /\ tpc = "exit" /\ ticks < NTicks => next = current /\ Turn(ticks, current, n_tasks)

IInv == Types /\ Gates /\ Contexts /\ Counts /\ Quiet /\ Rotated

-----------------------------------------------------------------------------
\* A pc of the boot program, and one of a task.
LEMMA PcTypes ==
    /\ \A l \in Starting \cup Waiting \cup {"tramp", "null"} : At(l) \in Pcs
    /\ \A c \in Nat : [at |-> "body", fn |-> c] \in Pcs
  BY DEF At, Pcs

\* The initial registers of a context.
LEMMA FreshTypes == \A c \in Ctx : Fresh(c) \in [Regs -> Nat]
  BY SMTT(60) DEF Fresh, Ctx

\* The timer interrupt cannot be pending once done is set.
LEMMA NotPendingOnceDone == ASSUME IInv, done PROVE ~Pending
  BY SmodeAssumption, SMTT(60) DEF IInv, Quiet, Never, Pending

\* Where sret or mret resumes: sched_wait, or a task in its own code.
LEMMA ResumePoint ==
    ASSUME IInv, tpc = "exit"
    PROVE  /\ next \in Known /\ next \in Ctx
           /\ next = Boot => tf[next].epc.at = "wait"
           /\ next # Boot => next = current /\ Within(next, tf[next].epc)
           /\ tf[next].epc.at \in {"wait", "tramp", "body"}
  <1>1. next \in Known /\ next \in Ctx /\ next \in {Boot, current}
    BY DEF IInv, Contexts, Types
  <1>2. Parked(next)
    BY DEF Parked
  <1>3. CASE next = Boot
    BY <1>1, <1>2, <1>3 DEF IInv, Contexts
  <1>4. CASE next # Boot
    <2>1. next \in 1..n_tasks
      BY <1>1, <1>4 DEF Known
    <2>2. Within(next, tf[next].epc)
      BY <1>2, <2>1 DEF IInv, Contexts
    <2> QED BY <1>1, <1>4, <2>2 DEF Within
  <1> QED BY <1>3, <1>4

\* The registered contexts are in the table.
LEMMA KnownCtx == IInv => Known \subseteq Ctx /\ Boot \in Ctx
  BY SmodeAssumption, SMTT(60) DEF Known, Ctx, Boot, IInv, Types

\* The handler returns the task it made current.
LEMMA Picked ==
    ASSUME IInv, HandlerPick
    PROVE  n_tasks \in 1..StaskMax /\ current' \in 1..n_tasks /\ next' = current'
  <1>1. n_tasks \in 1..StaskMax /\ current \in 0..n_tasks
    BY SmodeAssumption, SMTT(60) DEF HandlerPick, IInv, Types, Gates, Contexts, Starting
  <1>2. (current % n_tasks) + 1 \in 1..n_tasks
    BY <1>1, SmodeAssumption, SMTT(60)
  <1> QED BY <1>1, <1>2 DEF HandlerPick

\* Every step keeps the types.
LEMMA NextTypes == IInv /\ [Next]_vars => Types'
  <1> SUFFICES ASSUME IInv, [Next]_vars PROVE Types'
    OBVIOUS
  <1>1. CASE ClockTick
    BY <1>1, SmodeAssumption, SMTT(60) DEF ClockTick, Nearer, IInv, Types, Distances, Never, setup,
       table, frames, stats
  <1>2. CASE MBoot
    <2>1. pc' \in Pcs
      BY <1>2, PcTypes DEF MBoot, Goto, Starting
    <2>2. CASE trap_smode
      <3>1. use_sstc' \in BOOLEAN /\ trap_smode' \in BOOLEAN /\ sstc' \in BOOLEAN
        BY <1>2, <2>2 DEF MBoot, IInv, Types
      <3>2. /\ mtimecmp' \in Distances /\ stimecmp' \in Distances /\ deadline' \in Distances
            /\ scratch' \in Ctx /\ mode' = "S"
        BY <1>2, <2>2, SmodeAssumption, SMTT(60) DEF MBoot, Ctx, Boot, IInv, Types, Distances, Never
      <3> QED BY <1>2, <2>1, <3>1, <3>2 DEF MBoot, IInv, Types, table, stats
    <2>3. CASE ~trap_smode
      BY <1>2, <2>1, <2>3, SMTT(60) DEF MBoot, IInv, Types, setup, table, timer, stats
    <2> QED BY <2>2, <2>3
  <1>3. CASE StaskCreate
    <2>1. CASE n_tasks >= StaskMax
      BY <1>3, <2>1, SmodeAssumption, SMTT(60) DEF StaskCreate, IInv, Types, setup, timer, stats
    <2>2. CASE n_tasks < StaskMax
      <3> DEFINE f == [regs |-> Fresh(n_tasks + 1), epc |-> At("tramp"), late |-> 0, trap |-> 0]
      <3>1. n_tasks' = n_tasks + 1 /\ tf' = [tf EXCEPT ![n_tasks + 1] = f] /\ n_tasks + 1 \in Ctx
        BY <1>3, <2>2, SmodeAssumption, SMTT(60) DEF StaskCreate, Ctx, IInv, Types
      <3>2. f \in Frames
        BY <3>1, PcTypes, FreshTypes, SMTT(60) DEF Frames
      <3> HIDE DEF f
      <3>3. tf' \in [Ctx -> Frames]
        BY <3>1, <3>2 DEF IInv, Types
      <3> QED BY <1>3, <2>2, <3>1, <3>3, SmodeAssumption, SMTT(60) DEF StaskCreate, IInv, Types,
         setup, timer, stats
    <2> QED BY <2>1, <2>2, SmodeAssumption, SMTT(60) DEF IInv, Types
  <1>4. CASE InitStart
    <2>1. pc' \in Pcs
      BY <1>4, PcTypes DEF InitStart, Goto, Starting
    <2>2. done' \in BOOLEAN /\ have_prev' \in BOOLEAN
      BY <1>4 DEF InitStart
    <2> QED BY <1>4, <2>1, <2>2, SmodeAssumption, SMTT(60) DEF InitStart, SetDeadline, Ctx, Boot,
       IInv, Types, Distances, Never, setup, table, timer, frames, stats
  <1>5. CASE InitArm
    BY <1>5, SmodeAssumption, SMTT(60) DEF InitArm, SkipAhead, Program, Goto, At, IInv, Types,
       Starting, Distances, Never, Pcs, setup, table, timer, frames, stats
  <1>6. CASE InitEnable
    <2>1. pc' \in Pcs
      BY <1>6, PcTypes DEF InitEnable, Goto, Starting, Waiting
    <2>2. tie' \in BOOLEAN /\ ie' \in BOOLEAN
      BY <1>6 DEF InitEnable, IInv, Types
    <2> QED BY <1>6, <2>1, <2>2 DEF InitEnable, IInv, Types, setup, table, timer, frames, stats
  <1>7. CASE Wait
    BY <1>7 DEF Wait, Goto, At, IInv, Types, Waiting, Pcs, setup, table, timer, frames, stats
  <1>8. CASE SchedStop
    <2>1. pc' \in Pcs
      BY <1>8, PcTypes DEF SchedStop, Goto, Waiting
    <2>2. tie' \in BOOLEAN
      BY <1>8 DEF SchedStop
    <2> QED BY <1>8, <2>1, <2>2 DEF SchedStop, IInv, Types, setup, table, timer, frames, stats
  <1>9. CASE Report
    <2>1. pc' \in Pcs
      BY <1>9, PcTypes DEF Report, Goto, Waiting
    <2>2. swn' \in 0..NTicks
      BY <1>9, SmodeAssumption, SMTT(60) DEF Report, Counts, IInv
    <2> QED BY <1>9, <2>1, <2>2 DEF Report, IInv, Types, setup, table, timer, frames
  <1>10. CASE Trampoline
    BY <1>10, SMTT(60) DEF Trampoline, IInv, Types, Pcs, setup, table, timer, frames, stats
  <1>11. CASE TaskStep
    <2>1. PICK r \in {"t0", "x"}, v \in {0, 1} :
             regs' = [regs EXCEPT ![r] = v] /\ live' = [live EXCEPT ![pc.fn] = [live[pc.fn] EXCEPT ![r] = v]]
      BY <1>11 DEF TaskStep
    <2>0. r \in Regs /\ v \in Nat
      BY SMTT(60) DEF Regs
    <2>2. regs' \in [Regs -> Nat]
      BY <2>0, <2>1 DEF IInv, Types
    <2>3. pc.fn \in Ctx
      BY <1>11 DEF TaskStep, Contexts, Within, IInv, Types, Starting, Waiting
    <2>4. [live[pc.fn] EXCEPT ![r] = v] \in [Regs -> Nat]
      BY <2>0, <2>3 DEF IInv, Types
    <2>5. live' \in [Ctx -> [Regs -> Nat]]
      BY <2>1, <2>3, <2>4 DEF IInv, Types
    <2> QED BY <1>11, <2>2, <2>5 DEF TaskStep, IInv, Types, setup, table, timer, stats
  <1>12. CASE StrapEntry
    <2> DEFINE f == [regs |-> [regs EXCEPT !["t1"] = Stamp], epc |-> pc, late |-> -deadline, trap |-> ticks + 1]
    <2>1. tf' = [tf EXCEPT ![scratch] = f] /\ ie' = FALSE
      BY <1>12 DEF StrapEntry
    <2>7. Stamp \in Nat
      BY DEF Stamp
    <2>2. [regs EXCEPT !["t1"] = Stamp] \in [Regs -> Nat]
      BY <2>7 DEF IInv, Types
    <2>3. -deadline \in Int
      BY SMTT(60) DEF IInv, Types, Distances
    <2>4. f \in Frames
      BY <2>2, <2>3, SMTT(60) DEF IInv, Types, Frames
    <2> HIDE DEF f
    <2>5. tf' \in [Ctx -> Frames]
      BY <2>1, <2>4 DEF IInv, Types
    <2>6. ie' \in BOOLEAN
      BY <2>1
    <2> QED BY <1>12, <2>5, <2>6 DEF StrapEntry, IInv, Types, setup, table, timer, stats
  <1>13. CASE Handler
    <2>1. ticks < NTicks /\ Sample /\ (FinalTick \/ OtherTick)
      BY <1>13, SmodeAssumption, SMTT(60) DEF Handler, Counts, IInv, Types
    <2>2. ticks' \in 0..NTicks /\ swn' \in 0..NTicks
      BY <1>13, <2>1, SmodeAssumption, SMTT(60) DEF Sample, Counts, IInv, Types
    <2>3. CASE FinalTick
      <3>1. done' \in BOOLEAN /\ have_prev' \in BOOLEAN
        BY <2>3 DEF FinalTick
      <3>2. mtimecmp' \in Distances /\ stimecmp' \in Distances /\ deadline' \in Distances
        BY <2>3, SmodeAssumption, SMTT(60) DEF FinalTick, Disarm, Program, IInv, Types, Distances,
           Never
      <3>3. next' \in Ctx /\ g_entry' \in Nat /\ tpc' = "exit"
        BY <2>3, SmodeAssumption, SMTT(60) DEF FinalTick, Ctx, Boot, IInv, Types, Frames
      <3> QED BY <1>13, <2>2, <3>1, <3>2, <3>3 DEF Handler, IInv, Types, setup, table, frames
    <2>4. CASE OtherTick
      <3>1. deadline' \in Distances
        BY <2>4, SmodeAssumption, SMTT(60) DEF OtherTick, SetDeadline, Distances, Never
      <3> QED BY <1>13, <2>2, <2>4, <3>1 DEF Handler, OtherTick, IInv, Types, Arming, setup,
                 table, frames
    <2> QED BY <2>1, <2>3, <2>4
  <1>14. CASE HandlerArm
    BY <1>14, SmodeAssumption, SMTT(60) DEF HandlerArm, SkipAhead, Program, IInv, Types, Arming,
       Distances, Never, setup, table, timer, frames, stats
  <1>15. CASE HandlerPick
    <2>3. current' \in 0..StaskMax /\ next' \in Ctx
      BY <1>15, Picked, SmodeAssumption, SMTT(60) DEF Ctx
    <2>4. have_prev' \in BOOLEAN
      BY <1>15 DEF HandlerPick
    <2>5. g_entry' \in Nat
      BY <1>15 DEF HandlerPick, IInv, Types, Frames
    <2> QED BY <1>15, <2>3, <2>4, <2>5 DEF HandlerPick, IInv, Types, setup, timer, frames
  <1>16. CASE StrapExit
    BY <1>16 DEF StrapExit, IInv, Types, Frames, setup, table, timer
  <1>17. CASE UNCHANGED vars
    BY <1>17, SMTT(60) DEF vars, IInv, Types
  <1> QED BY <1>1, <1>2, <1>3, <1>4, <1>5, <1>6, <1>7, <1>8, <1>9, <1>10, <1>11, <1>12, <1>13,
             <1>14, <1>15, <1>16, <1>17 DEF Next, Step, Trap, Halted

\* The interrupt enables follow the program's place.
LEMMA NextGates == IInv /\ [Next]_vars => Gates'
  <1> SUFFICES ASSUME IInv, [Next]_vars PROVE Gates'
    OBVIOUS
  <1>1. CASE ClockTick
    BY <1>1 DEF ClockTick, IInv, Gates, table, frames, stats
  <1>2. CASE MBoot
    BY <1>2 DEF MBoot, Goto, At, IInv, Starting, Gates, table, stats
  <1>3. CASE StaskCreate
    BY <1>3, SmodeAssumption, SMTT(60) DEF StaskCreate, IInv, Types, Gates, stats
  <1>4. CASE InitStart
    BY <1>4 DEF InitStart, IInv, Starting, Gates, table
  <1>5. CASE InitArm
    BY <1>5 DEF InitArm, IInv, Starting, Gates, table, frames, stats
  <1>6. CASE InitEnable
    BY <1>6, SMTT(60) DEF InitEnable, Goto, At, IInv, Starting, Gates, table, frames, stats
  <1>7. CASE Wait
    BY <1>7 DEF Wait, Goto, At, IInv, Starting, Gates, table
  <1>8. CASE SchedStop
    BY <1>8 DEF SchedStop, Goto, At, IInv, Starting, Gates, table
  <1>9. CASE Report
    BY <1>9 DEF Report, Goto, At, IInv, Starting, Gates, table
  <1>10. CASE Trampoline
    BY <1>10 DEF Trampoline, IInv, Starting, Gates, table
  <1>11. CASE TaskStep
    BY <1>11 DEF TaskStep, IInv, Gates, table, stats
  <1>12. CASE StrapEntry
    BY <1>12 DEF StrapEntry, IInv, Gates, table
  <1>13. CASE Handler
    BY <1>13 DEF Handler, IInv, Gates, table
  <1>14. CASE HandlerArm
    BY <1>14 DEF HandlerArm, IInv, Gates, table
  <1>15. CASE HandlerPick
    BY <1>15 DEF HandlerPick, IInv, Gates
  <1>16. CASE StrapExit
    <2>1. pc'.at \in {"wait", "tramp", "body"}
      BY <1>16, ResumePoint DEF StrapExit
    <2> QED BY <1>16, <2>1 DEF StrapExit, IInv, Starting, Gates, table
  <1>17. CASE UNCHANGED vars
    BY <1>17 DEF vars, IInv, Gates
  <1> QED BY <1>1, <1>2, <1>3, <1>4, <1>5, <1>6, <1>7, <1>8, <1>9, <1>10, <1>11, <1>12, <1>13,
             <1>14, <1>15, <1>16, <1>17 DEF Next, Step, Trap, Halted

\* The counters advance together.
LEMMA NextCounts == IInv /\ [Next]_vars => Counts'
  <1> SUFFICES ASSUME IInv, [Next]_vars PROVE Counts'
    OBVIOUS
  <1>1. CASE ClockTick
    BY <1>1 DEF ClockTick, IInv, Counts, frames, stats
  <1>2. CASE MBoot
    BY <1>2 DEF MBoot, Goto, At, IInv, Counts, stats
  <1>3. CASE StaskCreate
    BY <1>3 DEF StaskCreate, IInv, Counts, stats
  <1>4. CASE InitStart
    BY <1>4 DEF InitStart, Goto, At, IInv, Starting, Gates, Counts
  <1>5. CASE InitArm
    BY <1>5, SMTT(60) DEF InitArm, Goto, At, IInv, Counts, frames, stats
  <1>6. CASE InitEnable
    BY <1>6, SMTT(60) DEF InitEnable, Goto, At, IInv, Counts, frames, stats
  <1>7. CASE Wait
    BY <1>7 DEF Wait, Goto, At, IInv, Counts, frames, stats
  <1>8. CASE SchedStop
    BY <1>8 DEF SchedStop, Goto, At, IInv, Counts, frames, stats
  <1>9. CASE Report
    BY <1>9, SmodeAssumption, SMTT(60) DEF Report, Goto, At, IInv, Counts, frames
  <1>10. CASE Trampoline
    BY <1>10 DEF Trampoline, IInv, Counts, frames, stats
  <1>11. CASE TaskStep
    BY <1>11 DEF TaskStep, IInv, Counts, stats
  <1>12. CASE StrapEntry
    <2>1. ~done
      BY <1>12, NotPendingOnceDone DEF StrapEntry
    <2> QED BY <1>12, <2>1, SmodeAssumption, SMTT(60) DEF StrapEntry, IInv, Types, Arming, Counts,
       stats
  <1>13. CASE Handler
    BY <1>13, SmodeAssumption, SMTT(60) DEF Handler, Sample, FinalTick, OtherTick, Program, IInv,
       Types, Starting, Arming, Gates, Counts, setup, table, frames
  <1>14. CASE HandlerArm
    BY <1>14 DEF HandlerArm, IInv, Arming, Counts, stats
  <1>15. CASE HandlerPick
    BY <1>15, SMTT(60) DEF HandlerPick, IInv, Types, Counts
  <1>16. CASE StrapExit
    <2>1. pc'.at \in {"wait", "tramp", "body"}
      BY <1>16, ResumePoint DEF StrapExit
    <2> QED BY <1>16, <2>1 DEF StrapExit, IInv, Arming, Counts
  <1>17. CASE UNCHANGED vars
    BY <1>17 DEF vars, IInv, Counts
  <1> QED BY <1>1, <1>2, <1>3, <1>4, <1>5, <1>6, <1>7, <1>8, <1>9, <1>10, <1>11, <1>12, <1>13,
             <1>14, <1>15, <1>16, <1>17 DEF Next, Step, Trap, Halted

\* Nothing re-arms the comparator after the final tick.
LEMMA NextQuiet == IInv /\ [Next]_vars => Quiet'
  <1> SUFFICES ASSUME IInv, [Next]_vars PROVE Quiet'
    OBVIOUS
  <1>1. CASE ClockTick
    BY <1>1 DEF ClockTick, Nearer, IInv, Quiet, Comparator, setup, stats
  <1>2. CASE MBoot
    BY <1>2 DEF MBoot, IInv, Starting, Gates, Quiet, stats
  <1>3. CASE StaskCreate
    BY <1>3 DEF StaskCreate, IInv, Starting, Gates, Quiet, stats
  <1>4. CASE InitStart
    BY <1>4 DEF InitStart, Quiet
  <1>5. CASE InitArm
    BY <1>5 DEF InitArm, IInv, Starting, Gates, Quiet, stats
  <1>6. CASE InitEnable
    BY <1>6 DEF InitEnable, IInv, Starting, Gates, Quiet, stats
  <1>7. CASE Wait
    BY <1>7 DEF Wait, IInv, Quiet, Comparator, Never, setup, timer
  <1>8. CASE SchedStop
    BY <1>8 DEF SchedStop, IInv, Counts, Quiet, Comparator, Never, setup, timer
  <1>9. CASE Report
    BY <1>9 DEF Report, IInv, Quiet, Comparator, Never, setup, timer
  <1>10. CASE Trampoline
    BY <1>10 DEF Trampoline, IInv, Quiet, Comparator, Never, setup, timer, stats
  <1>11. CASE TaskStep
    BY <1>11 DEF TaskStep, IInv, Quiet, Comparator, setup, timer, stats
  <1>12. CASE StrapEntry
    BY <1>12, SmodeAssumption, SMTT(60) DEF StrapEntry, Pending, IInv, Quiet, Distances, Never,
       stats
  <1>13. CASE Handler
    <2>1. ticks < NTicks /\ (FinalTick \/ OtherTick) /\ UNCHANGED <<trap_smode, use_sstc>>
      BY <1>13, SmodeAssumption, SMTT(60) DEF Handler, Counts, IInv, Types, setup
    <2>2. CASE FinalTick
      BY <2>1, <2>2 DEF FinalTick, Disarm, Program, Quiet, Comparator
    <2>3. CASE OtherTick
      BY <2>1, <2>3, SmodeAssumption, SMTT(60) DEF OtherTick, IInv, Types, Counts, Quiet
    <2> QED BY <2>1, <2>2, <2>3
  <1>14. CASE HandlerArm
    BY <1>14, SMTT(60) DEF HandlerArm, IInv, Types, Counts, Quiet, Never, stats
  <1>15. CASE HandlerPick
    BY <1>15, SMTT(60) DEF HandlerPick, IInv, Types, Counts, Quiet
  <1>16. CASE StrapExit
    BY <1>16 DEF StrapExit, IInv, Quiet, Comparator, setup, timer
  <1>17. CASE UNCHANGED vars
    BY <1>17 DEF vars, IInv, Counts, Quiet, Comparator, Never
  <1> QED BY <1>1, <1>2, <1>3, <1>4, <1>5, <1>6, <1>7, <1>8, <1>9, <1>10, <1>11, <1>12, <1>13,
             <1>14, <1>15, <1>16, <1>17 DEF Next, Step, Trap, Halted
=============================================================================
