--------------------------- MODULE PreemptProofs ---------------------------
(* Safety of the preemptive scheduler, and that it implements TickSched, for *)
(* every table size, quantum, quota and every moment the timer may fire.     *)
EXTENDS MCPreempt, PreemptInv

\* Zenon proves the leaves below; those that need arithmetic, strings or records cite SMT.
USE ZenonT(60)

\* A step that touches none of the contexts keeps them.
LEMMA ContextsRest ==
    ASSUME Contexts, UNCHANGED <<n_tasks, current, mscratch, live, tf, regs, tpc, pc, next>>
    PROVE  Contexts'
  BY SMTT(60) DEF Contexts, Known, Parked, Within

\* A step of the boot program keeps them.
LEMMA BootMoves ==
    ASSUME Contexts, tpc = "none", mscratch = Boot, pc'.at \in Starting \cup Waiting,
           UNCHANGED <<n_tasks, current, mscratch, live, tf, regs, tpc>>
    PROVE  Contexts'
  BY SMTT(60) DEF Contexts, Known, Parked, Within

\* A step of the handler before it picks a context keeps them.
LEMMA TrapMoves ==
    ASSUME Contexts, tpc # "none", tpc' \in InTrap \ {"exit"},
           UNCHANGED <<n_tasks, current, mscratch, live, tf>>
    PROVE  Contexts'
  BY SMTT(60) DEF Contexts, Known, Parked, Within, InTrap

\* Registering a task adds its context.
LEMMA CreateContexts == ASSUME IInv, PtaskCreate PROVE Contexts'
  <1>0. /\ pc.at = "create" /\ tpc = "none" /\ mscratch = Boot
        /\ UNCHANGED <<current, pc, mscratch, regs, live, tpc, next>>
    BY DEF PtaskCreate, IInv, Gates, Starting, InTrap, Within, Known, stats
  <1>1. CASE n_tasks >= PtaskMax
    <2>1. UNCHANGED <<n_tasks, tf>>
      BY <1>1, PreemptAssumption, SMTT(60) DEF PtaskCreate, IInv, Types, TypeOK, Starting, Waiting,
         stats
    <2> QED BY <1>0, <2>1, SMTT(60) DEF IInv, Contexts, Starting, InTrap, Within, Parked, Known
  <1>2. CASE n_tasks < PtaskMax
    <2> DEFINE n == n_tasks + 1
    <2>1. n_tasks' = n /\ n \in Tasks /\ n \in Ctx /\ n # Boot
      BY <1>2, PreemptAssumption, SMTT(60) DEF PtaskCreate, Tasks, Ctx, Boot, IInv, Types, TypeOK,
         Starting, Waiting, InTrap, stats
    <2>2. tf'[n].regs = Fresh(n) /\ tf'[n].mepc.at = "tramp" /\ \A c \in Ctx \ {n} : tf'[c] = tf[c]
      <3>1. tf' = [tf EXCEPT ![n] = [regs |-> Fresh(n), mepc |-> At("tramp"), late |-> 0, trap |-> 0]]
        BY <1>2, PreemptAssumption, SMTT(60) DEF PtaskCreate, IInv, Types, TypeOK
      <3>2. tf \in [Ctx -> Frames]
        BY DEF IInv, Types
      <3> HIDE DEF n
      <3> QED BY <2>1, <3>1, <3>2 DEF At
    <2>3. live[n] = Fresh(n)
      BY <2>1, SMTT(60) DEF IInv, Types, TypeOK, Contexts, Starting, InTrap
    <2>4. \A c \in 1..n_tasks' : c = n \/ (c \in 1..n_tasks /\ c \in Ctx \ {n})
      BY <2>1, PreemptAssumption, SMTT(60) DEF Ctx, Tasks, IInv, Types, TypeOK, Starting, InTrap,
         Within
    <2>5. Boot \in Ctx \ {n}
      BY <2>1 DEF Ctx
    <2>6. mscratch' \in Known' /\ current' \in 0..n_tasks'
      BY <1>0, <2>1, SMTT(60) DEF IInv, Types, TypeOK, Contexts, Starting, InTrap, Within, Parked,
         Known
    <2>7. \A c \in Known' : Parked(c)' => \A r \in Regs \ {"t1"} : tf'[c].regs[r] = live'[c][r]
      BY <1>0, <2>2, <2>3, <2>4, <2>5, SMTT(60) DEF IInv, Contexts, Starting, InTrap, Within,
         Parked, Known
    <2>8. \A c \in 1..n_tasks' : Parked(c)' => Within(c, tf'[c].mepc)
      BY <1>0, <2>2, <2>4, SMTT(60) DEF IInv, Gates, Contexts, InTrap, Within, Parked, Known
    <2>9. \A c \in Tasks : c > n_tasks' => live'[c] = Fresh(c)
      BY <1>0, <2>1, SMTT(60) DEF Tasks, IInv, Types, TypeOK, Contexts, InTrap, Within, Parked
    <2> QED BY <1>0, <2>6, <2>7, <2>8, <2>9 DEF IInv, Contexts, Starting, Waiting, InTrap,
               Within, Parked, Known
  <1> QED BY <1>1, <1>2, PreemptAssumption, SMTT(60) DEF IInv, Types, TypeOK, Starting, Waiting,
     InTrap, Within, Parked, Known

\* The trampoline enters the body of the current task.
LEMMA TrampolineContexts == ASSUME IInv, Trampoline PROVE Contexts'
  <1>1. /\ tpc = "none" /\ pc.at = "tramp" /\ pc' = [at |-> "body", fn |-> current]
        /\ UNCHANGED <<n_tasks, current, tpc, next, tf, mscratch, regs, live>>
    BY DEF Trampoline, frames
  <1>2. mscratch # Boot /\ mscratch = current
    BY <1>1 DEF IInv, Contexts, Starting, Waiting
  <1> QED BY <1>1, <1>2, SMTT(60) DEF IInv, Contexts, Within, Parked, Known

\* A task changes its own registers only.
LEMMA TaskContexts == ASSUME IInv, TaskStep PROVE Contexts'
  <1>1. /\ tpc = "none" /\ pc.at = "body"
        /\ UNCHANGED <<n_tasks, current, pc, tpc, next, tf, mscratch>>
    BY DEF TaskStep
  <1>2. mscratch # Boot /\ mscratch = pc.fn
    BY <1>1 DEF IInv, Contexts, Within, Starting, Waiting
  <1>3. PICK r \in Regs \ {"sp"}, v \in {0, 1} :
           regs' = [regs EXCEPT ![r] = v] /\ live' = [live EXCEPT ![pc.fn] = [live[pc.fn] EXCEPT ![r] = v]]
    BY DEF TaskStep
  <1>4. /\ \A q \in Regs \ {"t1"} : regs'[q] = live'[mscratch][q]
        /\ \A c \in Ctx \ {mscratch} : live'[c] = live[c]
    BY <1>1, <1>2, <1>3 DEF IInv, Types, TypeOK, Contexts
  <1>5. \A c \in Tasks : c > n_tasks => c \in Ctx \ {mscratch}
    BY <1>2, PreemptAssumption, SMTT(60) DEF IInv, Types, TypeOK, Contexts, Known, Ctx, Tasks, Boot
  <1> QED BY <1>1, <1>2, <1>4, <1>5, KnownCtx, SMTT(60) DEF IInv, Contexts, Parked, Known, Within

\* The entry code parks the interrupted context.
LEMMA EntryContexts == ASSUME IInv, TrapEntry PROVE Contexts'
  <1>1. /\ tpc = "none" /\ tpc' = "handler" /\ mie
        /\ UNCHANGED <<n_tasks, current, mscratch, live>>
    BY DEF TrapEntry
  <1>2. /\ \A r \in Regs \ {"t1"} : tf'[mscratch].regs[r] = regs[r]
        /\ tf'[mscratch].mepc = IF pc.at = "asleep" THEN At("wait") ELSE pc
        /\ \A c \in Ctx \ {mscratch} : tf'[c] = tf[c]
    BY DEF TrapEntry, IInv, Types, TypeOK, Starting, Waiting, InTrap, Within, Known,
       stats
  <1>3. Known \subseteq Ctx
    BY KnownCtx
  <1>4. \A c \in Known' : \A r \in Regs \ {"t1"} : tf'[c].regs[r] = live'[c][r]
    BY <1>1, <1>2, <1>3, SMTT(60) DEF IInv, Contexts, Waiting, Within, Parked, Known
  <1>5. \A c \in 1..n_tasks' : Within(c, tf'[c].mepc)
    <2> SUFFICES ASSUME NEW c \in 1..n_tasks PROVE Within(c, tf'[c].mepc)
      BY <1>1
    <2>1. CASE c = mscratch
      BY <1>1, <1>2, <2>1, SMTT(60) DEF Boot, IInv, Contexts, Waiting, Within, Parked, Known
    <2>2. CASE c # mscratch
      BY <1>1, <1>2, <1>3, <2>2 DEF IInv, Contexts, Starting, Waiting, Parked, Known
    <2> QED BY <2>1, <2>2
  <1>6. tf'[Boot].mepc.at \in {"wait", "wfi", "stop"}
    <2>1. CASE mscratch = Boot
      <3>1. mtie
        BY DEF TrapEntry
      <3>2. pc.at \in {"wait", "wfi", "asleep", "stop"}
        BY <1>1, <2>1, <3>1 DEF IInv, Gates, Contexts, Starting, Waiting
      <3> QED BY <1>2, <2>1, <3>2, SMTT(60) DEF At
    <2>2. CASE mscratch # Boot
      BY <1>2, <2>2, KnownCtx DEF IInv, Contexts, Parked
    <2> QED BY <2>1, <2>2
  <1>7. /\ mscratch' \in Known' /\ current' \in 0..n_tasks'
        /\ \A c \in Tasks : c > n_tasks' => live'[c] = Fresh(c)
    BY <1>1 DEF IInv, Contexts, Known
  <1> QED BY <1>1, <1>4, <1>5, <1>6, <1>7 DEF Contexts

\* The handler picks a context that exists.
LEMMA PickContexts == ASSUME IInv, HandlerPick PROVE Contexts'
  <1>1. tpc = "pick" /\ tpc' = "exit" /\ UNCHANGED <<n_tasks, mscratch, live, tf>>
    BY DEF HandlerPick, frames
  <1>2. next' \in Known'
    BY <1>1, Picked, SMTT(60) DEF Known, Boot
  <1> QED BY <1>1, <1>2, Picked, SMTT(60) DEF IInv, Contexts, Parked, Known, Within

\* The exit code resumes a parked context.
LEMMA ExitContexts == ASSUME IInv, TrapExit PROVE Contexts'
  <1>1. /\ tpc = "exit" /\ tpc' = "none" /\ UNCHANGED <<n_tasks, current, live, tf>>
        /\ regs' = tf[next].regs /\ pc' = tf[next].mepc /\ mscratch' = next
    BY DEF TrapExit
  <1>2. \A r \in Regs \ {"t1"} : regs'[r] = live'[mscratch'][r]
    BY <1>1, ResumePoint DEF IInv, Contexts, Parked
  <1>3. IF mscratch' = Boot THEN pc'.at \in Starting \cup Waiting
        ELSE mscratch' = current' /\ Within(mscratch', pc')
    BY <1>1, ResumePoint DEF Waiting
  <1>4. /\ \A c \in Known' : \A r \in Regs \ {"t1"} : tf'[c].regs[r] = live'[c][r]
        /\ \A c \in 1..n_tasks' : Within(c, tf'[c].mepc)
        /\ tf'[Boot].mepc.at \in {"wait", "wfi", "stop"}
        /\ \A c \in Tasks : c > n_tasks' => live'[c] = Fresh(c)
        /\ mscratch' \in Known' /\ current' \in 0..n_tasks'
    BY <1>1, ResumePoint DEF IInv, Contexts, Parked, Known
  <1> QED BY <1>1, <1>2, <1>3, <1>4 DEF Contexts

\* Every step keeps the saved and the live contexts.
LEMMA NextContexts == IInv /\ [Next]_vars => Contexts'
  <1> SUFFICES ASSUME IInv, [Next]_vars PROVE Contexts'
    OBVIOUS
  <1>1. CASE ClockTick
    <2>1. UNCHANGED <<n_tasks, current, mscratch, live, tf, regs, tpc, pc, next>>
      BY <1>1 DEF ClockTick, frames
    <2> QED BY <2>1, ContextsRest DEF IInv
  <1>2. CASE PtaskCreate
    BY <1>2, CreateContexts
  <1>3. CASE InitStart \/ InitArm \/ InitEnable
    <2>1. /\ pc.at \in Starting /\ pc'.at \in Starting \cup Waiting
          /\ UNCHANGED <<n_tasks, current, live, tf, regs, tpc>> /\ mscratch' \in {Boot, mscratch}
      BY <1>3, SMTT(60) DEF InitStart, InitArm, InitEnable, Goto, At, Starting, Waiting, frames
    <2>2. tpc = "none" /\ mscratch = Boot
      BY <2>1 DEF IInv, Gates
    <2> QED BY <2>1, <2>2, BootMoves DEF IInv
  <1>4. CASE Wait \/ PreemptStop \/ Report
    <2>1. /\ tpc = "none" /\ pc.at \in Waiting /\ pc'.at \in Waiting
          /\ UNCHANGED <<n_tasks, current, mscratch, live, tf, regs, tpc>>
      BY <1>4, SMTT(60) DEF Wait, PreemptStop, Report, Goto, At, Waiting, frames
    <2>2. mscratch = Boot
      BY <2>1 DEF IInv, Contexts, Within, Waiting
    <2> QED BY <2>1, <2>2, BootMoves DEF IInv
  <1>5. CASE Trampoline
    BY <1>5, TrampolineContexts
  <1>6. CASE TaskStep
    BY <1>6, TaskContexts
  <1>7. CASE TrapEntry
    BY <1>7, EntryContexts
  <1>8. CASE Handler \/ HandlerArm
    <2>1. /\ tpc # "none" /\ tpc' \in InTrap \ {"exit"}
          /\ UNCHANGED <<n_tasks, current, mscratch, live, tf>>
      BY <1>8 DEF Handler, HandlerArm, InTrap, frames
    <2> QED BY <2>1, TrapMoves DEF IInv
  <1>9. CASE HandlerPick
    BY <1>9, PickContexts
  <1>10. CASE TrapExit
    BY <1>10, ExitContexts
  <1>11. CASE UNCHANGED vars
    <2>1. UNCHANGED <<n_tasks, current, mscratch, live, tf, regs, tpc, pc, next>>
      BY <1>11 DEF vars
    <2> QED BY <2>1, ContextsRest DEF IInv
  <1> QED BY <1>1, <1>2, <1>3, <1>4, <1>5, <1>6, <1>7, <1>8, <1>9, <1>10, <1>11
          DEF Next, Program, Trap, Halted

\* The reset state satisfies the invariant.
LEMMA InitIInv == Init => IInv
  <1> SUFFICES ASSUME Init PROVE IInv
    OBVIOUS
  <1>1. Types
    <2>1. Boot \in Ctx /\ Fresh(Boot) \in [Regs -> Nat] /\ At("null") \in Pcs /\ At("create") \in Pcs
      BY FreshTypes DEF Ctx, At, Pcs, Starting
    <2>2. tf \in [Ctx -> Frames] /\ \A c \in Ctx : tf[c].regs \in [Regs -> Nat]
      BY <2>1, SMTT(60) DEF Frames, Init
    <2>3. live \in [Ctx -> [Regs -> Nat]] /\ \A c \in Ctx : live[c] \in [Regs -> Nat]
      BY FreshTypes DEF Init
    <2>4. done \in BOOLEAN /\ have_prev \in BOOLEAN /\ mtie \in BOOLEAN /\ mie \in BOOLEAN
      BY DEF Init
    <2> QED BY <2>1, <2>2, <2>3, <2>4, PreemptAssumption, SMTT(60) DEF Types, TypeOK, Init
  <1>2. Gates
    BY DEF Gates, At, Init
  <1>3. Contexts
    <2>1. 1..n_tasks = {} /\ Known = {Boot}
      BY SMTT(60) DEF Known, Init
    <2>2. \A c \in Ctx : live[c] = Fresh(c)
      BY DEF Init
    <2> QED BY <2>1, <2>2, SMTT(60) DEF Contexts, Parked, At, Starting, Ctx, Init
  <1>4. Counts
    BY DEF Counts, At, InTrap, Parked, Init
  <1>5. Quotas
    BY PreemptAssumption, SMTT(60) DEF Quotas, Init
  <1>6. Deadlines
    BY DEF Deadlines, Init
  <1> QED BY <1>1, <1>2, <1>3, <1>4, <1>5, <1>6 DEF IInv

(* The inductive invariant holds in every reachable state, whenever the     *)
(* timer fires.                                                             *)
THEOREM PreemptSafe == Spec => []IInv
  <1>1. IInv /\ [Next]_vars => IInv'
    BY NextTypes, NextGates, NextContexts, NextCounts, NextQuotas, NextDeadlines DEF IInv
  <1> QED BY InitIInv, <1>1, PTL DEF Spec

(* psched.c's indices, counters and trapframe pointers stay in range.       *)
THEOREM PreemptTyped == Spec => []TypeOK
  <1>1. IInv => TypeOK
    BY DEF IInv, Types
  <1> QED BY PreemptSafe, <1>1, PTL

(* trap.S's save and restore give a preempted program its registers, t1     *)
(* apart, back on its own stack, however many contexts ran in between.      *)
THEOREM ContextsPreserved == Spec => []ContextPreserved
  <1>1. IInv => ContextPreserved
    BY DEF IInv, Contexts, ContextPreserved, Running
  <1> QED BY PreemptSafe, <1>1, PTL

(* The hart always executes the code of the context mscratch names, also    *)
(* when a tick lands inside ptask_trampoline.                               *)
THEOREM BodiesOwned == Spec => []OwnBody
  <1>1. IInv => OwnBody
    <2> SUFFICES ASSUME IInv, tpc = "none"
                 PROVE  CASE pc.at = "body"  -> pc.fn = Running
                          [] pc.at = "tramp" -> Running = current
                          [] OTHER           -> Running = Boot
      BY DEF OwnBody
    <2>1. CASE mscratch = Boot
      <3>1. pc.at # "body" /\ pc.at # "tramp"
        BY <2>1 DEF IInv, Contexts, Starting, Waiting
      <3> QED BY <2>1, <3>1 DEF Running
    <2>2. CASE mscratch # Boot
      BY <2>2 DEF IInv, Contexts, Within, Running
    <2> QED BY <2>1, <2>2
  <1> QED BY PreemptSafe, <1>1, PTL

(* ptrap_handler's mtime_at_entry - deadline never wraps below zero.        *)
THEOREM LatencyMeasured == Spec => []LatencyNonNegative
  <1>1. IInv => LatencyNonNegative
    BY DEF IInv, Deadlines, LatencyNonNegative
  <1> QED BY PreemptSafe, <1>1, PTL

(* A switch cost is always the difference of two stamps of one trap.        *)
THEOREM StampsMatch == Spec => []StampsPaired
  <1>1. IInv => StampsPaired
    BY DEF IInv, Types, Gates, Counts, StampsPaired
  <1> QED BY PreemptSafe, <1>1, PTL

(* preempt_report accounts exactly one switch per tick.                     *)
THEOREM SwitchesCounted == Spec => []SwitchesMeasured
  <1>1. IInv => SwitchesMeasured
    BY DEF IInv, Gates, Counts, SwitchesMeasured
  <1> QED BY PreemptSafe, <1>1, PTL

-----------------------------------------------------------------------------
\* Task c (0 the boot context) is the one the k-th of the switches over n tasks resumes.
Turn(k, c, n) == IF k = 0 THEN c = 0 ELSE c \in 1..n /\ \E q \in Nat : k = n * q + c

\* current is where the ticks served so far lead, up to the quota.
Rotated ==
    /\ tpc \in {"none", "handler"} /\ ticks < NTicks => Turn(ticks, current, n_tasks)
    /\ tpc \in {"arm_loop", "arm_write", "pick"} /\ ticks <= NTicks =>
         Turn(ticks - 1, current, n_tasks)
    /\ tpc = "exit" /\ ticks < NTicks => next = current /\ Turn(ticks, current, n_tasks)

\* A quotient makes it c's turn.
LEMMA TurnBy ==
    ASSUME NEW n \in Nat \ {0}, NEW k \in Nat \ {0}, NEW c \in 1..n, NEW q \in Nat, k = n * q + c
    PROVE  Turn(k, c, n)
  BY DEF Turn

\* One pick leads from the k-th task to the next.
LEMMA TurnNext ==
    ASSUME NEW n \in Nat \ {0}, NEW k \in Nat, NEW c, Turn(k, c, n)
    PROVE  Turn(k + 1, (c % n) + 1, n)
  <1>1. k + 1 \in Nat \ {0}
    BY SMTT(60)
  <1>2. CASE k = 0
    <2>1. c % n = 0 /\ 1 \in 1..n /\ k + 1 = n * 0 + 1
      BY <1>2, SMTT(60) DEF Turn
    <2> QED BY <1>1, <2>1, TurnBy, SMTT(60)
  <1>3. CASE k # 0
    <2>1. PICK q \in Nat : c \in 1..n /\ k = n * q + c
      BY <1>3 DEF Turn
    <2>2. CASE c < n
      <3>1. c % n = c /\ c + 1 \in 1..n /\ k + 1 = n * q + (c + 1)
        BY <2>1, <2>2, SMTT(60)
      <3> QED BY <1>1, <3>1, TurnBy
    <2>3. CASE c = n
      <3>1. (c % n) + 1 = 1 /\ 1 \in 1..n /\ q + 1 \in Nat
        BY <2>3, SMTT(60)
      <3>2. k + 1 = n * (q + 1) + 1
        BY <2>1, <2>3, SMTT(60)
      <3> DEFINE p == q + 1
      <3> HIDE DEF p
      <3>3. p \in Nat /\ k + 1 = n * p + 1
        BY <3>1, <3>2 DEF p
      <3>4. Turn(k + 1, 1, n)
        BY <1>1, <3>1, <3>3, TurnBy
      <3> QED BY <3>1, <3>4
    <2> QED BY <2>1, <2>2, <2>3, SMTT(60)
  <1> QED BY <1>2, <1>3

\* The k-th task in closed form.
LEMMA TurnIs ==
    ASSUME NEW n \in Nat \ {0}, NEW k \in Nat \ {0}, NEW c, Turn(k, c, n)
    PROVE  c = ((k - 1) % n) + 1
  <1>1. PICK q \in Nat : c \in 1..n /\ k = n * q + c
    BY DEF Turn
  <1>2. c - 1 \in 0..(n - 1) /\ k - 1 = n * q + (c - 1)
    BY <1>1, SMTT(60)
  <1>3. \A r \in 0..(n - 1) : (n * q + r) % n = r
    BY SMTT(60)
  <1> QED BY <1>1, <1>2, <1>3, SMTT(60)

\* Every step keeps current where the tick count says.
LEMMA NextRotated == IInv /\ Rotated /\ [Next]_vars => Rotated'
  <1> SUFFICES ASSUME IInv, Rotated, [Next]_vars PROVE Rotated'
    OBVIOUS
  <1>1. CASE PtaskCreate
    BY <1>1 DEF PtaskCreate, Turn, IInv, Gates, Rotated, Starting, stats
  <1>2. CASE InitStart
    BY <1>2 DEF InitStart, IInv, Gates, Rotated, Starting
  <1>3. CASE ClockTick \/ InitArm \/ InitEnable \/ Wait \/ PreemptStop \/ Report \/ Trampoline \/ TaskStep
    <2>1. UNCHANGED <<tpc, ticks, current, n_tasks, next>>
      <3>1. CASE ClockTick \/ TaskStep \/ Trampoline
        BY <3>1 DEF ClockTick, TaskStep, Trampoline, hw, frames, stats
      <3>2. CASE InitArm \/ InitEnable
        BY <3>2 DEF InitArm, InitEnable, frames, stats
      <3>3. CASE Wait \/ PreemptStop \/ Report
        BY <3>3 DEF Wait, PreemptStop, Report, hw, frames, stats
      <3> QED BY <1>3, <3>1, <3>2, <3>3
    <2> QED BY <2>1 DEF Rotated
  <1>4. CASE TrapEntry
    BY <1>4 DEF TrapEntry, Rotated, stats
  <1>5. CASE Handler
    <2>1. ticks' - 1 = ticks
      BY <1>5, SMTT(60) DEF Handler, IInv, Types, TypeOK, Starting
    <2> QED BY <1>5, <2>1, PreemptAssumption, SMTT(60) DEF Handler, Rotated, Starting
  <1>6. CASE HandlerArm
    BY <1>6 DEF HandlerArm, Rotated, stats
  <1>7. CASE HandlerPick
    <2>1. n_tasks \in Nat \ {0} /\ ticks - 1 \in Nat /\ (ticks - 1) + 1 = ticks
      BY <1>7, PreemptAssumption, SMTT(60) DEF HandlerPick, Counts, IInv, Types, TypeOK, Gates,
         Rotated, Starting, InTrap
    <2>2. ticks <= NTicks => Turn(ticks, (current % n_tasks) + 1, n_tasks)
      BY <1>7, <2>1, TurnNext DEF HandlerPick, Rotated
    <2> QED BY <1>7, <2>2, PreemptAssumption, SMTT(60) DEF HandlerPick, IInv, Types, TypeOK, Rotated
  <1>8. CASE TrapExit
    BY <1>8 DEF TrapExit, Rotated
  <1>9. CASE UNCHANGED vars
    BY <1>9 DEF vars, Rotated
  <1> QED BY <1>1, <1>2, <1>3, <1>4, <1>5, <1>6, <1>7, <1>8, <1>9 DEF Next, Program, Trap, Halted

\* Every step of the program is a step of the abstract scheduler or none.
LEMMA StepRefines == IInv /\ Rotated /\ [Next]_vars => [TS!TSNext]_(TS!tsVars)
  <1> SUFFICES ASSUME IInv, Rotated, [Next]_vars PROVE [TS!TSNext]_(TS!tsVars)
    OBVIOUS
  <1>1. CASE PtaskCreate
    <2>1. tpc = "none" /\ ticks = 0 /\ pc.at = "create"
      BY <1>1 DEF PtaskCreate, Gates, Starting, IInv
    <2>2. CASE n_tasks >= PtaskMax
      BY <1>1, <2>1, <2>2, PreemptAssumption, SMTT(60) DEF PtaskCreate, IInv, Types, TypeOK, hw,
         stats, TS!tsVars, Running
    <2>3. CASE n_tasks < PtaskMax
      <3>1. TS!Register
        BY <1>1, <2>1, <2>3, PreemptAssumption, SMTT(60) DEF PtaskCreate, TS!Register, IInv, Types,
           TypeOK, hw, stats, Running
      <3> QED BY <3>1 DEF TS!TSNext
    <2> QED BY <2>2, <2>3, PreemptAssumption, SMTT(60) DEF IInv, Types, TypeOK
  <1>2. CASE InitStart
    BY <1>2, SMTT(60) DEF InitStart, Gates, Starting, Goto, At, IInv, TS!tsVars, Running
  <1>3. CASE ClockTick \/ InitArm \/ InitEnable \/ Wait \/ Report \/ Trampoline \/ TaskStep
    <2>1. UNCHANGED <<tpc, ticks, n_tasks, mscratch>>
      <3>1. CASE ClockTick \/ TaskStep \/ Trampoline
        BY <3>1 DEF ClockTick, TaskStep, Trampoline, hw, frames, stats
      <3>2. CASE InitArm \/ InitEnable
        BY <3>2 DEF InitArm, InitEnable, frames, stats
      <3>3. CASE Wait \/ Report
        BY <3>3 DEF Wait, Report, hw, frames, stats
      <3> QED BY <1>3, <3>1, <3>2, <3>3
    <2>2. (pc'.at \in {"report", "halt"}) = (pc.at \in {"report", "halt"})
      <3>1. CASE ClockTick \/ TaskStep
        BY <3>1 DEF ClockTick, TaskStep
      <3>2. CASE InitArm \/ InitEnable
        BY <3>2, SMTT(60) DEF InitArm, InitEnable, Goto, At
      <3>3. CASE Wait \/ Report
        BY <3>3, SMTT(60) DEF Wait, Report, Goto, At
      <3>4. CASE Trampoline
        BY <3>4, SMTT(60) DEF Trampoline
      <3> QED BY <1>3, <3>1, <3>2, <3>3, <3>4
    <2> QED BY <2>1, <2>2 DEF TS!tsVars, Running
  <1>4. CASE PreemptStop
    <2>1. tpc = "none" /\ pc.at = "stop" /\ mscratch = 0 /\ ticks >= NTicks
      BY <1>4, PreemptAssumption DEF PreemptStop, Counts, Quotas, Boot, IInv, Types, TypeOK,
         InTrap
    <2>2. TS!Stop
      BY <1>4, <2>1 DEF PreemptStop, Goto, At, TS!Stop, InTrap, frames, stats, Running
    <2> QED BY <2>2 DEF TS!TSNext
  <1>5. CASE TrapEntry
    BY <1>5 DEF TrapEntry, stats, TS!tsVars, Running
  <1>6. CASE Handler
    BY <1>6, SMTT(60) DEF Handler, IInv, Types, TypeOK, frames, TS!tsVars, Running
  <1>7. CASE HandlerArm
    BY <1>7 DEF HandlerArm, InTrap, frames, stats, TS!tsVars, Running
  <1>8. CASE HandlerPick
    BY <1>8 DEF HandlerPick, hw, frames, TS!tsVars, Running
  <1>9. CASE TrapExit
    <2>1. /\ tpc = "exit" /\ tpc' = "none" /\ mscratch' = next /\ UNCHANGED <<n_tasks, ticks>>
          /\ ticks > 0 /\ n_tasks > 0
      BY <1>9, PreemptAssumption, SMTT(60) DEF TrapExit, Counts, Gates, Starting, IInv, InTrap
    <2>2. ~(pc.at \in {"report", "halt"}) /\ ~(pc'.at \in {"report", "halt"})
      BY <1>9, ResumePoint DEF TrapExit, Gates, IInv
    <2>3. next = IF ticks >= NTicks THEN 0 ELSE ((ticks - 1) % n_tasks) + 1
      <3>1. n_tasks \in Nat \ {0} /\ ticks \in Nat \ {0} /\ NTicks \in Nat
        BY <2>1, PreemptAssumption, SMTT(60) DEF IInv, Types, TypeOK
      <3>2. CASE ticks < NTicks
        BY <2>1, <3>1, <3>2, TurnIs, SMTT(60) DEF Rotated
      <3>3. CASE ticks >= NTicks
        BY <2>1, <3>1, <3>3 DEF Quotas, Boot, IInv
      <3> QED BY <3>1, <3>2, <3>3, SMTT(60)
    <2>4. TS!Tick
      BY <2>1, <2>2, <2>3, SMTT(60) DEF TS!Tick, IInv, Types, TypeOK, Running
    <2> QED BY <2>4 DEF TS!TSNext
  <1>10. CASE UNCHANGED vars
    BY <1>10 DEF vars, TS!tsVars, Running
  <1> QED BY <1>1, <1>2, <1>3, <1>4, <1>5, <1>6, <1>7, <1>8, <1>9, <1>10 DEF Next, Program, Trap,
             Halted

(* preempt.elf implements the abstract scheduler TickSched: every trap        *)
(* resumes the next task in turn, the quota's last tick the boot context.     *)
THEOREM PreemptRefines == Spec => ImplementsTickSched
  <1>1. Init => Rotated /\ TS!TSInit
    BY SMTT(60) DEF Init, Rotated, Turn, At, Running, Boot, TS!TSInit
  <1> QED BY PreemptSafe, NextRotated, StepRefines, <1>1, PTL DEF Spec, ImplementsTickSched,
             TS!TSSpec
=============================================================================
