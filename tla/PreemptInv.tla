---------------------------- MODULE PreemptInv -----------------------------
(* The inductive invariant of the preemptive scheduler, and its parts about  *)
(* types, interrupt gates, deadlines, counts and the quota.                  *)
EXTENDS Preempt, TLAPS

\* Zenon proves the leaves below; those that need arithmetic, strings or records cite SMT.
USE ZenonT(60)

\* The boot program's places: with interrupts still off, and the others.
Starting == {"create", "arm_loop", "arm_write", "enable_mtie", "enable_mie"}
Waiting == {"wait", "wfi", "asleep", "stop", "report", "halt"}
Pcs == [at : Starting \cup Waiting \cup {"tramp", "body", "null"}, fn : Nat]
Frames == [regs : [Regs -> Nat], mepc : Pcs, late : Int, trap : Nat]

\* The contexts that exist, and the ones that are not on the hart.
Known == {Boot} \cup 1..n_tasks
Parked(c) == c # mscratch \/ tpc # "none"
Within(c, p) == p.at = "tramp" \/ (p.at = "body" /\ p.fn = c)
InTrap == {"handler", "arm_loop", "arm_write", "pick", "exit"}

Types ==
    /\ TypeOK
    /\ tf \in [Ctx -> Frames] /\ live \in [Ctx -> [Regs -> Nat]]
    /\ pc \in Pcs /\ tpc \in {"none"} \cup InTrap
    /\ g_entry \in Nat /\ g_exit \in Nat

\* Interrupts come on at the end of preempt_init and go off in preempt_stop.
Gates ==
    /\ pc.at \in Starting => /\ tpc = "none" /\ ~mie /\ mscratch = Boot
                             /\ ticks = 0 /\ swn = 0 /\ ~have_prev /\ ~done
    /\ pc.at \in Starting \ {"enable_mie"} => ~mtie
    /\ pc.at # "create" => called = Calls
    /\ called > 0 => n_tasks > 0
    /\ tpc # "none" => ~mie
    /\ pc.at \in {"report", "halt"} => tpc = "none" /\ ~mtie

\* A parked context's frame resumes it in its own code with its registers.
Contexts ==
    /\ mscratch \in Known /\ current \in 0..n_tasks
    /\ tpc = "none" => IF mscratch = Boot THEN pc.at \in Starting \cup Waiting
                       ELSE mscratch = current /\ Within(mscratch, pc)
    /\ tpc = "none" => \A r \in Regs \ {"t1"} : regs[r] = live[mscratch][r]
    /\ \A c \in Known : Parked(c) => \A r \in Regs \ {"t1"} : tf[c].regs[r] = live[c][r]
    /\ \A c \in 1..n_tasks : Parked(c) => Within(c, tf[c].mepc)
    /\ Parked(Boot) => tf[Boot].mepc.at \in {"wait", "wfi", "stop"}
    /\ \A c \in Tasks : c > n_tasks => live[c] = Fresh(c)
    /\ tpc = "exit" => next \in Known /\ next \in {Boot, current}

\* Ticks, accounted switches and stamps in step.
Counts ==
    /\ tpc \in {"none", "handler"} =>
         /\ have_prev => g_entry = ticks /\ g_exit = ticks
         /\ have_prev => ticks > 0 /\ swn = IF pc.at = "halt" THEN ticks ELSE ticks - 1
         /\ ~have_prev => ticks = 0 /\ swn = 0
    /\ tpc \in InTrap \ {"handler"} => ticks > 0 /\ swn = ticks - 1
    /\ tpc = "handler" => tf[mscratch].trap = ticks + 1
    /\ tpc \in {"arm_loop", "arm_write", "pick"} => tf[mscratch].trap = ticks
    /\ tpc = "exit" => have_prev /\ g_entry = ticks
    /\ done => have_prev
    /\ pc.at \in {"stop", "report", "halt"} => done
    /\ Parked(Boot) /\ tf[Boot].mepc.at = "stop" => done

\* The quota's last tick hands the hart back to the boot program.
Quotas ==
    /\ done => ticks >= NTicks
    /\ tpc \in {"none", "handler", "exit"} /\ ticks >= NTicks => done
    /\ tpc \in {"none", "handler"} /\ done => mscratch = Boot
    /\ tpc = "exit" /\ done => next = Boot
    /\ tpc = "handler" => ticks <= NTicks + MaxExtra
    /\ tpc = "handler" /\ ticks = NTicks + MaxExtra => mscratch = Boot /\ tf[Boot].mepc.at = "wait"
    /\ ticks > NTicks + MaxExtra =>
         /\ mscratch = Boot
         /\ tpc = "none" => pc.at \in {"wait", "stop", "report", "halt"}
         /\ tpc # "none" => tf[Boot].mepc.at = "wait"

\* The comparator holds the program's deadline whenever a tick may be taken.
Deadlines ==
    /\ pc.at \in {"enable_mtie", "enable_mie"} => due = deadline
    /\ tpc \in {"pick", "exit"} => due = deadline
    /\ mtie /\ tpc = "none" => due = deadline
    /\ tpc = "handler" => tf[mscratch].late >= 0

IInv == Types /\ Gates /\ Contexts /\ Counts /\ Quotas /\ Deadlines

\* A pc of the boot program, and one of a task.
LEMMA PcTypes ==
    /\ \A l \in Starting \cup Waiting \cup {"tramp"} : At(l) \in Pcs
    /\ \A c \in Nat : [at |-> "body", fn |-> c] \in Pcs
  BY DEF At, Pcs

\* The initial registers of a context.
LEMMA FreshTypes == \A c \in Ctx : Fresh(c) \in [Regs -> Nat]
  BY SMTT(60) DEF Fresh, Ctx, Boot, Tasks

\* The registered contexts are in the table.
LEMMA KnownCtx == IInv => Known \subseteq Ctx /\ Boot \in Ctx
  BY PreemptAssumption, SMTT(60) DEF Known, Ctx, Tasks, IInv, Types, TypeOK

\* The handler returns the boot context or the task it made current.
LEMMA Picked ==
    ASSUME IInv, HandlerPick
    PROVE  n_tasks \in 1..PtaskMax /\ current' \in 0..n_tasks /\ next' \in {Boot, current'}
  <1>1. n_tasks \in 1..PtaskMax /\ current \in 0..n_tasks
    BY PreemptAssumption, SMTT(60) DEF HandlerPick, IInv, Types, TypeOK, Gates, Contexts, Starting
  <1> DEFINE m == (current % n_tasks) + 1
  <1>2. m \in 1..n_tasks
    BY <1>1, PreemptAssumption, SMTT(60)
  <1>3. (current' = current /\ next' = Boot) \/ (current' = m /\ next' = m)
    BY DEF HandlerPick
  <1> HIDE DEF m
  <1> QED BY <1>1, <1>2, <1>3, PreemptAssumption, SMTT(60)

\* Every step keeps the types.
LEMMA NextTypes == IInv /\ [Next]_vars => Types'
  <1> SUFFICES ASSUME IInv, [Next]_vars PROVE Types'
    OBVIOUS
  <1>1. CASE ClockTick
    BY <1>1, SMTT(60) DEF ClockTick, IInv, Types, TypeOK, frames, stats
  <1>2. CASE PtaskCreate
    <2>1. CASE n_tasks >= PtaskMax
      BY <1>2, <2>1, PreemptAssumption, SMTT(60) DEF PtaskCreate, IInv, Types, TypeOK, hw, stats
    <2>2. CASE n_tasks < PtaskMax
      <3> DEFINE f == [regs |-> Fresh(n_tasks + 1), mepc |-> At("tramp"), late |-> 0, trap |-> 0]
      <3>1. n_tasks' = n_tasks + 1 /\ tf' = [tf EXCEPT ![n_tasks + 1] = f] /\ n_tasks + 1 \in Ctx
        BY <1>2, <2>2, PreemptAssumption, SMTT(60) DEF PtaskCreate, Ctx, Tasks, IInv, Types, TypeOK
      <3>2. f \in Frames
        BY <3>1, PcTypes, FreshTypes, SMTT(60) DEF Frames
      <3> HIDE DEF f
      <3>3. tf' \in [Ctx -> Frames]
        BY <3>1, <3>2 DEF IInv, Types
      <3>4. \A c \in Ctx : tf'[c].regs \in [Regs -> Nat]
        BY <3>3 DEF Frames
      <3> QED BY <1>2, <2>2, <3>1, <3>3, <3>4, PreemptAssumption, SMTT(60) DEF PtaskCreate, IInv,
         Types, TypeOK, hw, stats
    <2> QED BY <2>1, <2>2, PreemptAssumption, SMTT(60) DEF IInv, Types, TypeOK
  <1>3. CASE InitStart
    <2>1. pc' \in Pcs
      BY <1>3, PcTypes DEF InitStart, Goto, Starting
    <2>2. ticks' \in 0..(NTicks + MaxExtra + 1) /\ swn' \in 0..ticks'
      BY <1>3, PreemptAssumption, SMTT(60) DEF InitStart, Gates, Starting, IInv
    <2>3. done' \in BOOLEAN /\ have_prev' \in BOOLEAN
      BY <1>3 DEF InitStart, IInv, Types, TypeOK
    <2> QED BY <1>3, <2>1, <2>2, <2>3, PreemptAssumption, SMTT(60) DEF InitStart, SetDeadline, Ctx,
       IInv, Types, TypeOK
  <1>4. CASE InitArm
    <2>1. pc' \in Pcs
      BY <1>4, PcTypes DEF InitArm, Goto, Starting, IInv, Types
    <2> QED BY <1>4, <2>1, PreemptAssumption, SMTT(60) DEF InitArm, SkipAhead, SetMtimecmp, IInv,
       Types, TypeOK, frames, stats
  <1>5. CASE InitEnable
    <2>1. pc' \in Pcs
      BY <1>5, PcTypes DEF InitEnable, Goto, Starting, Waiting
    <2>2. mtie' \in BOOLEAN /\ mie' \in BOOLEAN
      BY <1>5 DEF InitEnable, IInv, Types, TypeOK
    <2> QED BY <1>5, <2>1, <2>2 DEF InitEnable, IInv, Types, TypeOK, frames, stats
  <1>6. CASE Wait
    <2>1. pc' \in Pcs
      BY <1>6, PcTypes DEF Wait, Goto, Waiting
    <2> QED BY <1>6, <2>1 DEF Wait, IInv, Types, TypeOK, hw, frames, stats
  <1>7. CASE PreemptStop
    <2>1. pc' \in Pcs
      BY <1>7, PcTypes DEF PreemptStop, Goto, Waiting
    <2>2. mtie' \in BOOLEAN
      BY <1>7 DEF PreemptStop, IInv, Types, TypeOK
    <2> QED BY <1>7, <2>1, <2>2 DEF PreemptStop, IInv, Types, TypeOK, frames, stats
  <1>8. CASE Report
    <2>1. pc' \in Pcs
      BY <1>8, PcTypes DEF Report, Goto, Waiting
    <2>2. swn' \in 0..ticks'
      BY <1>8, SMTT(60) DEF Report, Counts, IInv, Types
    <2> QED BY <1>8, <2>1, <2>2 DEF Report, IInv, Types, TypeOK, hw, frames
  <1>9. CASE Trampoline
    <2>1. pc' \in Pcs
      BY <1>9, PcTypes, SMTT(60) DEF Trampoline, IInv, Types, TypeOK
    <2> QED BY <1>9, <2>1 DEF Trampoline, IInv, Types, TypeOK, hw, frames, stats
  <1>10. CASE TaskStep
    <2>1. PICK r \in Regs \ {"sp"}, v \in {0, 1} :
             regs' = [regs EXCEPT ![r] = v] /\ live' = [live EXCEPT ![pc.fn] = [live[pc.fn] EXCEPT ![r] = v]]
      BY <1>10 DEF TaskStep
    <2>2. regs' \in [Regs -> Nat]
      BY <2>1, SMTT(60) DEF IInv, Types, TypeOK
    <2>3. pc.fn \in Ctx
      BY <1>10 DEF TaskStep, Contexts, Within, Starting, Waiting, IInv, Types, TypeOK
    <2>4. [live[pc.fn] EXCEPT ![r] = v] \in [Regs -> Nat]
      BY <2>3, SMTT(60) DEF IInv, Types
    <2>5. live' \in [Ctx -> [Regs -> Nat]]
      BY <2>1, <2>3, <2>4 DEF IInv, Types
    <2>6. \A c \in Ctx : live'[c] \in [Regs -> Nat]
      BY <2>5
    <2> QED BY <1>10, <2>2, <2>5, <2>6 DEF TaskStep, IInv, Types, TypeOK, hw, stats
  <1>11. CASE TrapEntry
    <2> DEFINE f == [regs |-> [regs EXCEPT !["t1"] = Stamp], mepc |-> IF pc.at = "asleep" THEN At("wait") ELSE pc,
                     late |-> -deadline, trap |-> ticks + 1]
    <2>1. tf' = [tf EXCEPT ![mscratch] = f] /\ mie' = FALSE
      BY <1>11 DEF TrapEntry
    <2>2. (IF pc.at = "asleep" THEN At("wait") ELSE pc) \in Pcs
      BY PcTypes DEF Waiting, IInv, Types
    <2>3. [regs EXCEPT !["t1"] = Stamp] \in [Regs -> Nat]
      <3>1. Stamp \in Nat
        BY DEF Stamp
      <3> QED BY <3>1 DEF IInv, Types, TypeOK
    <2>4. f \in Frames
      BY <2>2, <2>3, SMTT(60) DEF Frames, IInv, Types, TypeOK
    <2> HIDE DEF f
    <2>5. tf' \in [Ctx -> Frames]
      BY <2>1, <2>4 DEF IInv, Types, TypeOK
    <2>6. \A c \in Ctx : tf'[c].regs \in [Regs -> Nat]
      BY <2>5 DEF Frames
    <2>7. mie' \in BOOLEAN
      BY <2>1
    <2> QED BY <1>11, <2>5, <2>6, <2>7 DEF TrapEntry, IInv, Types, TypeOK, InTrap, stats
  <1>12. CASE Handler
    <2>1. swn' \in 0..ticks' /\ ticks' \in 0..(NTicks + MaxExtra + 1)
      BY <1>12, PreemptAssumption, SMTT(60) DEF Handler, Quotas, IInv, Types, TypeOK
    <2> QED BY <1>12, <2>1, PreemptAssumption, SMTT(60) DEF Handler, SetDeadline, IInv, Types,
       TypeOK, InTrap, frames
  <1>13. CASE HandlerArm
    BY <1>13, PreemptAssumption, SMTT(60) DEF HandlerArm, SkipAhead, SetMtimecmp, IInv, Types,
       TypeOK, InTrap, frames, stats
  <1>14. CASE HandlerPick
    <2>4. current' \in 0..PtaskMax /\ next' \in Ctx
      BY <1>14, Picked, PreemptAssumption, SMTT(60) DEF Ctx, Tasks, Boot
    <2>5. done' \in BOOLEAN /\ have_prev' \in BOOLEAN
      BY <1>14 DEF HandlerPick, IInv, Types, TypeOK
    <2>6. g_entry' \in Nat
      BY <1>14 DEF HandlerPick, Frames, IInv, Types, TypeOK
    <2> QED BY <1>14, <2>4, <2>5, <2>6 DEF HandlerPick, IInv, Types, TypeOK, InTrap, hw, frames
  <1>15. CASE TrapExit
    <2>1. pc' \in Pcs /\ regs' \in [Regs -> Nat]
      BY <1>15 DEF TrapExit, Frames, IInv, Types, TypeOK
    <2>2. mie' \in BOOLEAN
      BY <1>15 DEF TrapExit
    <2> QED BY <1>15, <2>1, <2>2, SMTT(60) DEF TrapExit, IInv, Types, TypeOK
  <1>16. CASE UNCHANGED vars
    BY <1>16 DEF vars, IInv, Types, TypeOK
  <1> QED BY <1>1, <1>2, <1>3, <1>4, <1>5, <1>6, <1>7, <1>8, <1>9, <1>10, <1>11, <1>12, <1>13,
             <1>14, <1>15, <1>16 DEF Next, Program, Trap, Halted

\* Where mret resumes: the boot program in preempt_wait or a task in its own code.
LEMMA ResumePoint ==
    ASSUME IInv, tpc = "exit"
    PROVE  /\ next \in Known /\ next \in Ctx
           /\ next = Boot => tf[next].mepc.at \in {"wait", "wfi", "stop"}
           /\ next # Boot => next = current /\ Within(next, tf[next].mepc)
           /\ tf[next].mepc.at \in {"wait", "wfi", "stop", "tramp", "body"}
           /\ tf[next].mepc.at = "stop" => next = Boot
  <1>1. next \in Known /\ next \in Ctx /\ next \in {Boot, current}
    BY DEF IInv, Contexts, Types, TypeOK
  <1>2. Parked(next)
    BY DEF Parked
  <1>3. CASE next = Boot
    BY <1>1, <1>2, <1>3 DEF IInv, Contexts
  <1>4. CASE next # Boot
    <2>1. next \in 1..n_tasks
      BY <1>1, <1>4 DEF Known
    <2>2. Within(next, tf[next].mepc)
      BY <1>2, <2>1 DEF IInv, Contexts
    <2> QED BY <1>1, <1>4, <2>2 DEF Within
  <1> QED BY <1>3, <1>4

\* Every step keeps the interrupt gates as the control point says.
LEMMA NextGates == IInv /\ [Next]_vars => Gates'
  <1> SUFFICES ASSUME IInv, [Next]_vars PROVE Gates'
    OBVIOUS
  <1>1. CASE ClockTick
    BY <1>1 DEF ClockTick, IInv, Gates, frames, stats
  <1>2. CASE PtaskCreate
    BY <1>2, PreemptAssumption, SMTT(60) DEF PtaskCreate, IInv, Types, TypeOK, Gates, hw, stats
  <1>3. CASE InitStart
    BY <1>3 DEF InitStart, IInv, Gates, Starting
  <1>4. CASE InitArm
    BY <1>4 DEF InitArm, IInv, Gates, Starting, frames, stats
  <1>5. CASE InitEnable
    BY <1>5, SMTT(60) DEF InitEnable, Goto, At, IInv, Gates, Starting, frames, stats
  <1>6. CASE Wait
    BY <1>6, SMTT(60) DEF Wait, Goto, At, IInv, Gates, Starting
  <1>7. CASE PreemptStop
    BY <1>7 DEF PreemptStop, Goto, At, IInv, Gates, Starting
  <1>8. CASE Report
    BY <1>8 DEF Report, Goto, At, IInv, Gates, Starting, hw
  <1>9. CASE Trampoline
    BY <1>9 DEF Trampoline, IInv, Gates, Starting
  <1>10. CASE TaskStep
    BY <1>10 DEF TaskStep, IInv, Gates, hw, stats
  <1>11. CASE TrapEntry
    BY <1>11 DEF TrapEntry, IInv, Gates
  <1>12. CASE Handler
    BY <1>12 DEF Handler, IInv, Gates
  <1>13. CASE HandlerArm
    BY <1>13 DEF HandlerArm, IInv, Gates
  <1>14. CASE HandlerPick
    BY <1>14 DEF HandlerPick, IInv, Gates, hw
  <1>15. CASE TrapExit
    <2>1. pc'.at \in {"wait", "wfi", "stop", "tramp", "body"}
      BY <1>15, ResumePoint DEF TrapExit
    <2> QED BY <1>15, <2>1 DEF TrapExit, IInv, Gates, Starting
  <1>16. CASE UNCHANGED vars
    BY <1>16 DEF vars, IInv, Gates
  <1> QED BY <1>1, <1>2, <1>3, <1>4, <1>5, <1>6, <1>7, <1>8, <1>9, <1>10, <1>11, <1>12, <1>13,
             <1>14, <1>15, <1>16 DEF Next, Program, Trap, Halted

\* Every step keeps the deadline and the stamps in order.
LEMMA NextDeadlines == IInv /\ [Next]_vars => Deadlines'
  <1> SUFFICES ASSUME IInv, [Next]_vars PROVE Deadlines'
    OBVIOUS
  <1>1. CASE ClockTick
    BY <1>1 DEF ClockTick, IInv, Deadlines, frames
  <1>2. CASE PtaskCreate
    BY <1>2 DEF PtaskCreate, IInv, Gates, Deadlines, Starting, hw
  <1>3. CASE InitStart
    BY <1>3 DEF InitStart, Goto, At, IInv, Gates, Deadlines, Starting
  <1>4. CASE InitArm
    BY <1>4, SMTT(60) DEF InitArm, SetMtimecmp, Goto, At, IInv, Gates, Deadlines, Starting
  <1>5. CASE InitEnable
    BY <1>5 DEF InitEnable, IInv, Deadlines, frames
  <1>6. CASE Wait
    BY <1>6, SMTT(60) DEF Wait, Goto, At, IInv, Deadlines, hw
  <1>7. CASE PreemptStop
    BY <1>7 DEF PreemptStop, Goto, At, Deadlines
  <1>8. CASE Report
    BY <1>8 DEF Report, Goto, At, IInv, Deadlines, hw
  <1>9. CASE Trampoline
    BY <1>9 DEF Trampoline, IInv, Deadlines, hw
  <1>10. CASE TaskStep
    BY <1>10 DEF TaskStep, IInv, Deadlines, hw
  <1>11. CASE TrapEntry
    BY <1>11, SMTT(60) DEF TrapEntry, Pending, IInv, Types, TypeOK, Deadlines, InTrap
  <1>12. CASE Handler
    BY <1>12 DEF Handler, IInv, Gates, Deadlines, Starting
  <1>13. CASE HandlerArm
    BY <1>13 DEF HandlerArm, SetMtimecmp, IInv, Gates, Deadlines, Starting
  <1>14. CASE HandlerPick
    BY <1>14 DEF HandlerPick, IInv, Deadlines, hw
  <1>15. CASE TrapExit
    BY <1>15 DEF TrapExit, IInv, Deadlines
  <1>16. CASE UNCHANGED vars
    BY <1>16 DEF vars, IInv, Deadlines
  <1> QED BY <1>1, <1>2, <1>3, <1>4, <1>5, <1>6, <1>7, <1>8, <1>9, <1>10, <1>11, <1>12, <1>13,
             <1>14, <1>15, <1>16 DEF Next, Program, Trap, Halted

\* Every step keeps the tick and switch counts paired.
LEMMA NextCounts == IInv /\ [Next]_vars => Counts'
  <1> SUFFICES ASSUME IInv, [Next]_vars PROVE Counts'
    OBVIOUS
  <1>1. CASE ClockTick
    BY <1>1 DEF ClockTick, IInv, Counts, Frames, Parked, Boot, frames, stats
  <1>2. CASE PtaskCreate
    BY <1>2 DEF PtaskCreate, IInv, Gates, Counts, Starting, Pcs, Frames, Parked, hw, stats
  <1>3. CASE InitStart
    BY <1>3 DEF InitStart, Goto, At, IInv, Gates, Counts, Starting, Frames, Parked, Boot
  <1>4. CASE InitArm
    BY <1>4, SMTT(60) DEF InitArm, Goto, At, IInv, Counts, Frames, Within, Parked, Boot, frames,
       stats
  <1>5. CASE InitEnable
    BY <1>5, SMTT(60) DEF InitEnable, Goto, At, IInv, Counts, Frames, Within, Parked, Boot, frames,
       stats
  <1>6. CASE Wait
    BY <1>6, SMTT(60) DEF Wait, Goto, At, IInv, Counts, Frames, Within, Parked, Boot, frames, stats
  <1>7. CASE PreemptStop
    BY <1>7 DEF PreemptStop, Goto, At, IInv, Counts, stats
  <1>8. CASE Report
    BY <1>8, SMTT(60) DEF Report, Goto, At, IInv, Types, Counts, InTrap
  <1>9. CASE Trampoline
    BY <1>9 DEF Trampoline, IInv, Counts, Frames, Parked, Boot, frames, stats
  <1>10. CASE TaskStep
    BY <1>10 DEF TaskStep, IInv, Counts, Frames, Parked, Boot, stats
  <1>11. CASE TrapEntry
    BY <1>11, SMTT(60) DEF TrapEntry, At, IInv, Types, TypeOK, Counts, InTrap, Frames, Within,
       Parked, Boot, stats
  <1>12. CASE Handler
    BY <1>12, SMTT(60) DEF Handler, IInv, Types, Gates, Counts, Frames, Parked, Boot, frames
  <1>13. CASE HandlerArm
    BY <1>13 DEF HandlerArm, IInv, Types, Counts, Frames, Parked, Boot, frames, stats
  <1>14. CASE HandlerPick
    BY <1>14 DEF HandlerPick, IInv, Types, Counts, Frames, Parked, Boot, frames
  <1>15. CASE TrapExit
    <2>1. pc'.at \in {"wait", "wfi", "stop", "tramp", "body"} /\ (pc'.at = "stop" => next = Boot)
      BY <1>15, ResumePoint DEF TrapExit
    <2>2. Parked(Boot)' /\ tf'[Boot].mepc.at = "stop" => done'
      BY <1>15 DEF TrapExit, IInv, Counts, Frames, Parked, Boot
    <2>3. pc'.at = "stop" => done'
      BY <1>15, <2>1 DEF TrapExit, IInv, Counts, Frames, Parked, Boot
    <2> QED BY <1>15, <2>1, <2>2, <2>3 DEF TrapExit, IInv, Counts, InTrap
  <1>16. CASE UNCHANGED vars
    BY <1>16 DEF vars, IInv, Counts, InTrap, Frames, Within, Parked, Boot
  <1> QED BY <1>1, <1>2, <1>3, <1>4, <1>5, <1>6, <1>7, <1>8, <1>9, <1>10, <1>11, <1>12, <1>13,
             <1>14, <1>15, <1>16 DEF Next, Program, Trap, Halted

\* Every step keeps each task within its quota.
LEMMA NextQuotas == IInv /\ [Next]_vars => Quotas'
  <1> SUFFICES ASSUME IInv, [Next]_vars PROVE Quotas'
    OBVIOUS
  <1>1. CASE ClockTick
    BY <1>1 DEF ClockTick, IInv, Quotas, InTrap, frames, stats
  <1>2. CASE PtaskCreate
    BY <1>2 DEF PtaskCreate, IInv, Gates, Quotas, Starting, stats
  <1>3. CASE InitStart
    BY <1>3, PreemptAssumption, SMTT(60) DEF InitStart, Quotas
  <1>4. CASE InitArm
    BY <1>4 DEF InitArm, IInv, Gates, Quotas, Starting, stats
  <1>5. CASE InitEnable
    BY <1>5 DEF InitEnable, IInv, Gates, Quotas, Starting, stats
  <1>6. CASE Wait
    BY <1>6, PreemptAssumption, SMTT(60) DEF Wait, Goto, At, IInv, Types, TypeOK, Quotas, frames,
       stats
  <1>7. CASE PreemptStop
    BY <1>7 DEF PreemptStop, Goto, At, IInv, Quotas, frames, stats
  <1>8. CASE Report
    BY <1>8 DEF Report, Goto, At, IInv, Quotas, frames
  <1>9. CASE Trampoline
    BY <1>9 DEF Trampoline, IInv, Quotas, frames, stats
  <1>10. CASE TaskStep
    BY <1>10 DEF TaskStep, IInv, Quotas, stats
  <1>11. CASE TrapEntry
    BY <1>11, PreemptAssumption, SMTT(60) DEF TrapEntry, At, IInv, Types, TypeOK, Quotas, InTrap,
       stats
  <1>12. CASE Handler
    BY <1>12, PreemptAssumption, SMTT(60) DEF Handler, IInv, Types, TypeOK, Quotas, InTrap, Frames,
       Within, Parked, Boot, frames
  <1>13. CASE HandlerArm
    BY <1>13 DEF HandlerArm, SkipAhead, SetMtimecmp, IInv, Quotas, frames, stats
  <1>14. CASE HandlerPick
    BY <1>14, PreemptAssumption, SMTT(60) DEF HandlerPick, IInv, Types, TypeOK, Quotas, Starting,
       frames
  <1>15. CASE TrapExit
    BY <1>15, PreemptAssumption, SMTT(60) DEF TrapExit, IInv, Types, TypeOK, Quotas
  <1>16. CASE UNCHANGED vars
    BY <1>16 DEF vars, IInv, Quotas
  <1> QED BY <1>1, <1>2, <1>3, <1>4, <1>5, <1>6, <1>7, <1>8, <1>9, <1>10, <1>11, <1>12, <1>13,
             <1>14, <1>15, <1>16 DEF Next, Program, Trap, Halted
=============================================================================
