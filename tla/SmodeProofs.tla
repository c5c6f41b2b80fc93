---------------------------- MODULE SmodeProofs ----------------------------
(* Safety of the S-mode scheduler and its M-mode baseline, and that they     *)
(* implement TickSched, for every table size, quantum and quota, with and    *)
(* without Sstc.                                                             *)
EXTENDS MCSmode, SmodeInv

\* Zenon proves the leaves below; those that need arithmetic, strings or records cite SMT.
USE ZenonT(60)

\* A step that touches none of the contexts keeps them.
LEMMA ContextsRest ==
    ASSUME IInv, UNCHANGED <<n_tasks, current, pc, regs, tf, scratch, tpc, next, live>>
    PROVE  Contexts'
  BY DEF IInv, Contexts, Parked, Known

\* A step of the boot program that only moves its pc keeps the contexts.
LEMMA BootMoves ==
    ASSUME IInv, UNCHANGED <<n_tasks, current, regs, tf, scratch, tpc, next, live>>,
           tpc = "none", pc.at \in Starting \cup Waiting, pc'.at \in Starting \cup Waiting
    PROVE  Contexts'
  <1>1. scratch = Boot
    BY DEF IInv, Contexts, Within, Starting, Waiting
  <1> QED BY <1>1 DEF IInv, Contexts, Parked, Known

\* A step inside the trap that leaves every frame alone keeps the contexts.
LEMMA TrapMoves ==
    ASSUME IInv, UNCHANGED <<n_tasks, current, regs, tf, scratch, live>>,
           tpc # "none", tpc' # "none",
           tpc' = "exit" => next' = Boot
    PROVE  Contexts'
  BY DEF IInv, Contexts, Parked, Known

\* A new task gets a fresh frame.
LEMMA CreateContexts == ASSUME IInv, StaskCreate PROVE Contexts'
  <1>0. /\ pc.at = "create" /\ tpc = "none" /\ scratch = Boot
        /\ UNCHANGED <<current, pc, scratch, regs, live, tpc, next>>
    BY DEF StaskCreate, IInv, Starting, Gates
  <1>1. CASE n_tasks >= StaskMax
    <2>1. UNCHANGED <<n_tasks, tf>>
      BY <1>1, SmodeAssumption, SMTT(60) DEF StaskCreate, IInv, Types
    <2> QED BY <1>0, <2>1, ContextsRest
  <1>2. CASE n_tasks < StaskMax
    <2> DEFINE n == n_tasks + 1
    <2>1. n_tasks' = n /\ n \in Ctx /\ n # Boot
      BY <1>2, SmodeAssumption, SMTT(60) DEF StaskCreate, Ctx, IInv, Types, Boot
    <2>2. tf'[n].regs = Fresh(n) /\ tf'[n].epc.at = "tramp" /\ \A c \in Ctx \ {n} : tf'[c] = tf[c]
      BY <1>2, <2>1, SmodeAssumption, SMTT(60) DEF StaskCreate, At, IInv, Types
    <2>3. live[n] = Fresh(n)
      BY <2>1, SMTT(60) DEF IInv, Types, Contexts
    <2>4. \A c \in 1..n_tasks' : c = n \/ (c \in 1..n_tasks /\ c \in Ctx \ {n})
      BY <2>1, SmodeAssumption, SMTT(60) DEF Ctx, IInv, Types
    <2>5. Boot \in Ctx \ {n}
      BY <2>1, SmodeAssumption, SMTT(60) DEF Ctx, Boot
    <2>6. scratch' \in Known' /\ current' \in 0..n_tasks'
      BY <1>0, <2>1, SMTT(60) DEF IInv, Types, Contexts, Known
    <2>7. \A c \in Known' : Parked(c)' => \A r \in Regs \ {"t1"} : tf'[c].regs[r] = live'[c][r]
      BY <1>0, <2>2, <2>3, <2>4, <2>5, SMTT(60) DEF IInv, Contexts, Parked, Known
    <2>8. \A c \in 1..n_tasks' : Parked(c)' => Within(c, tf'[c].epc)
      BY <1>0, <2>2, <2>4, SMTT(60) DEF IInv, Contexts, Within, Parked
    <2>9. \A c \in Ctx : c > n_tasks' => live'[c] = Fresh(c)
      BY <1>0, <2>1, SmodeAssumption, SMTT(60) DEF IInv, Types, Contexts, Ctx
    <2>10. pc'.at \in Starting /\ \A r \in Regs \ {"t1"} : regs'[r] = live'[scratch'][r]
      BY <1>0 DEF IInv, Contexts, Starting
    <2>11. tpc' = "none" /\ scratch' = Boot /\ ~Parked(Boot)'
      BY <1>0 DEF Parked
    <2> QED BY <2>6, <2>7, <2>8, <2>9, <2>10, <2>11 DEF Contexts
  <1> QED BY <1>1, <1>2, SmodeAssumption, SMTT(60) DEF IInv, Types

\* The trampoline enters the body of the current task.
LEMMA TrampolineContexts == ASSUME IInv, Trampoline PROVE Contexts'
  <1>1. /\ tpc = "none" /\ pc.at = "tramp" /\ pc' = [at |-> "body", fn |-> current]
        /\ UNCHANGED <<n_tasks, current, tpc, next, tf, scratch, regs, live>>
    BY DEF Trampoline, frames, table
  <1>2. scratch # Boot /\ scratch = current
    BY <1>1 DEF IInv, Contexts, Starting, Waiting
  <1> QED BY <1>1, <1>2, SMTT(60) DEF IInv, Contexts, Within, Parked, Known

\* A task changes its own registers only.
LEMMA TaskContexts == ASSUME IInv, TaskStep PROVE Contexts'
  <1>1. /\ tpc = "none" /\ pc.at = "body"
        /\ UNCHANGED <<n_tasks, current, pc, tpc, next, tf, scratch>>
    BY DEF TaskStep, table
  <1>2. scratch # Boot /\ scratch = pc.fn
    BY <1>1 DEF IInv, Contexts, Within, Starting, Waiting
  <1>3. PICK r \in {"t0", "x"}, v \in {0, 1} :
           regs' = [regs EXCEPT ![r] = v] /\ live' = [live EXCEPT ![pc.fn] = [live[pc.fn] EXCEPT ![r] = v]]
    BY DEF TaskStep
  <1>4. /\ \A q \in Regs \ {"t1"} : regs'[q] = live'[scratch][q]
        /\ \A c \in Ctx \ {scratch} : live'[c] = live[c]
    BY <1>1, <1>2, <1>3 DEF IInv, Types, Contexts
  <1>5. \A c \in Ctx : c > n_tasks => c \in Ctx \ {scratch}
    BY <1>2, SmodeAssumption, SMTT(60) DEF IInv, Types, Contexts, Known, Ctx, Boot
  <1> QED BY <1>1, <1>2, <1>4, <1>5, KnownCtx, SMTT(60) DEF IInv, Contexts, Parked, Known, Within

\* The entry code parks the context on the hart.
LEMMA EntryContexts == ASSUME IInv, StrapEntry PROVE Contexts'
  <1>1. /\ tpc = "none" /\ tpc' = "handler" /\ ie /\ tie
        /\ UNCHANGED <<n_tasks, current, scratch, live>>
    BY DEF StrapEntry, setup, table, stats
  <1>2. /\ \A r \in Regs \ {"t1"} : tf'[scratch].regs[r] = regs[r]
        /\ tf'[scratch].epc = pc
        /\ \A c \in Ctx \ {scratch} : tf'[c] = tf[c]
    BY DEF StrapEntry, IInv, Types
  <1>3. Known \subseteq Ctx
    BY KnownCtx
  <1>4. \A c \in Known' : \A r \in Regs \ {"t1"} : tf'[c].regs[r] = live'[c][r]
    BY <1>1, <1>2, <1>3, SMTT(60) DEF IInv, Contexts, Parked, Known
  <1>5. \A c \in 1..n_tasks' : Within(c, tf'[c].epc)
    <2> SUFFICES ASSUME NEW c \in 1..n_tasks PROVE Within(c, tf'[c].epc)
      BY <1>1
    <2>1. CASE c = scratch
      BY <1>1, <1>2, <2>1, SMTT(60) DEF IInv, Contexts, Boot
    <2>2. CASE c # scratch
      BY <1>1, <1>2, <1>3, <2>2 DEF IInv, Contexts, Parked, Known
    <2> QED BY <2>1, <2>2
  <1>6. tf'[Boot].epc.at = "wait"
    <2>1. CASE scratch = Boot
      <3>1. ~done
        BY NotPendingOnceDone DEF StrapEntry
      <3>2. pc.at = "wait"
        BY <1>1, <2>1, <3>1 DEF Counts, IInv, Starting, Waiting, Arming, Gates, Contexts
      <3> QED BY <1>2, <2>1, <3>2
    <2>2. CASE scratch # Boot
      BY <1>1, <1>2, <1>3, <2>2 DEF IInv, Contexts, Parked, Known
    <2> QED BY <2>1, <2>2
  <1>7. scratch' \in Known' /\ current' \in 0..n_tasks' /\ \A c \in Ctx : c > n_tasks' => live'[c] = Fresh(c)
    BY <1>1 DEF IInv, Contexts, Parked, Known
  <1> QED BY <1>1, <1>4, <1>5, <1>6, <1>7 DEF Contexts

\* The handler picks a context without touching any.
LEMMA PickContexts == ASSUME IInv, HandlerPick PROVE Contexts'
  <1>1. tpc = "pick" /\ tpc' = "exit" /\ UNCHANGED <<n_tasks, scratch, live, tf>>
    BY DEF HandlerPick, frames
  <1>2. next' \in Known' /\ current' \in 0..n_tasks'
    BY <1>1, Picked, SMTT(60) DEF Known
  <1> QED BY <1>1, <1>2, Picked DEF IInv, Contexts, Parked, Known

\* The exit code resumes a parked context.
LEMMA ExitContexts == ASSUME IInv, StrapExit PROVE Contexts'
  <1>1. /\ tpc = "exit" /\ tpc' = "none" /\ UNCHANGED <<n_tasks, current, live, tf>>
        /\ regs' = tf[next].regs /\ pc' = tf[next].epc /\ scratch' = next
    BY DEF StrapExit, table
  <1>2. \A r \in Regs \ {"t1"} : regs'[r] = live'[scratch'][r]
    BY <1>1, ResumePoint DEF IInv, Contexts, Parked
  <1>3. IF scratch' = Boot THEN pc'.at \in Starting \cup Waiting
        ELSE scratch' = current' /\ Within(scratch', pc')
    BY <1>1, ResumePoint DEF Waiting
  <1>4. /\ \A c \in Known' : \A r \in Regs \ {"t1"} : tf'[c].regs[r] = live'[c][r]
        /\ \A c \in 1..n_tasks' : Within(c, tf'[c].epc)
        /\ tf'[Boot].epc.at = "wait"
        /\ \A c \in Ctx : c > n_tasks' => live'[c] = Fresh(c)
        /\ scratch' \in Known' /\ current' \in 0..n_tasks'
    BY <1>1, ResumePoint DEF IInv, Contexts, Parked, Known
  <1> QED BY <1>1, <1>2, <1>3, <1>4 DEF Contexts

\* Every step keeps the parked contexts intact.
LEMMA NextContexts == IInv /\ [Next]_vars => Contexts'
  <1> SUFFICES ASSUME IInv, [Next]_vars PROVE Contexts'
    OBVIOUS
  <1>1. CASE ClockTick
    BY <1>1, ContextsRest DEF ClockTick, table, frames
  <1>2. CASE MBoot \/ InitStart
    <2>1. /\ tpc = "none" /\ scratch = Boot /\ scratch' = scratch
          /\ pc.at \in Starting /\ pc'.at \in Starting
      BY <1>2, SMTT(60) DEF MBoot, InitStart, Goto, At, IInv, Gates, Starting
    <2>2. UNCHANGED <<n_tasks, current, regs, tf, tpc, next, live>>
      BY <1>2 DEF MBoot, InitStart, table
    <2> QED BY <2>1, <2>2, BootMoves
  <1>3. CASE StaskCreate
    BY <1>3, CreateContexts
  <1>4. CASE InitArm \/ InitEnable
    <2>1. /\ pc.at \in Starting /\ pc'.at \in Starting \cup Waiting
          /\ UNCHANGED <<n_tasks, current, regs, tf, scratch, tpc, next, live>>
      BY <1>4, SMTT(60) DEF InitArm, InitEnable, Goto, At, Starting, Waiting, table, frames
    <2>2. tpc = "none"
      BY <2>1 DEF IInv, Gates
    <2> QED BY <2>1, <2>2, BootMoves
  <1>5. CASE Wait \/ SchedStop \/ Report
    <2>1. /\ tpc = "none" /\ pc.at \in Waiting /\ pc'.at \in Waiting
          /\ UNCHANGED <<n_tasks, current, regs, tf, scratch, tpc, next, live>>
      BY <1>5, SMTT(60) DEF Wait, SchedStop, Report, Goto, At, Waiting, table, frames
    <2> QED BY <2>1, BootMoves
  <1>6. CASE Trampoline
    BY <1>6, TrampolineContexts
  <1>7. CASE TaskStep
    BY <1>7, TaskContexts
  <1>8. CASE StrapEntry
    BY <1>8, EntryContexts
  <1>9. CASE Handler
    <2>1. /\ tpc # "none" /\ tpc' # "none" /\ (tpc' = "exit" => next' = Boot)
          /\ UNCHANGED <<n_tasks, current, regs, tf, scratch, live>>
      BY <1>9 DEF Handler, PastQuota, FinalTick, OtherTick, table, frames
    <2> QED BY <2>1, TrapMoves
  <1>10. CASE HandlerArm
    <2>1. /\ tpc # "none" /\ tpc' # "none" /\ tpc' # "exit"
          /\ UNCHANGED <<n_tasks, current, regs, tf, scratch, live>>
      BY <1>10 DEF HandlerArm, table, frames
    <2> QED BY <2>1, TrapMoves
  <1>11. CASE HandlerPick
    BY <1>11, PickContexts
  <1>12. CASE StrapExit
    BY <1>12, ExitContexts
  <1>13. CASE UNCHANGED vars
    BY <1>13, ContextsRest DEF vars, table, frames
  <1> QED BY <1>1, <1>2, <1>3, <1>4, <1>5, <1>6, <1>7, <1>8, <1>9, <1>10, <1>11, <1>12, <1>13
             DEF Next, Step, Trap, Halted

\* A quotient makes it c's turn.
LEMMA TurnBy ==
    ASSUME NEW n \in Nat \ {0}, NEW k \in Nat \ {0}, NEW c \in 1..n, NEW q \in Nat, k = n * q + c
    PROVE  Turn(k, c, n)
  BY DEF Turn

\* One pick leads from the k-th task to the next.
LEMMA TurnNext ==
    ASSUME NEW n \in Nat \ {0}, NEW k \in Nat, NEW c, Turn(k, c, n)
    PROVE  Turn(k + 1, (c % n) + 1, n)
  <1>1. k + 1 \in Nat \ {0}
    BY SMTT(60)
  <1>2. CASE k = 0
    <2>1. c % n = 0 /\ 1 \in 1..n /\ k + 1 = n * 0 + 1
      BY <1>2, SMTT(60) DEF Turn
    <2> QED BY <1>1, <2>1, TurnBy, SMTT(60)
  <1>3. CASE k # 0
    <2>1. PICK q \in Nat : c \in 1..n /\ k = n * q + c
      BY <1>3 DEF Turn
    <2>2. CASE c < n
      <3>1. c % n = c /\ c + 1 \in 1..n /\ k + 1 = n * q + (c + 1)
        BY <2>1, <2>2, SMTT(60)
      <3> QED BY <1>1, <3>1, TurnBy
    <2>3. CASE c = n
      <3>1. (c % n) + 1 = 1 /\ 1 \in 1..n /\ q + 1 \in Nat
        BY <2>3, SMTT(60)
      <3>2. k + 1 = n * (q + 1) + 1
        BY <2>1, <2>3, SMTT(60)
      <3> DEFINE p == q + 1
      <3> HIDE DEF p
      <3>3. p \in Nat /\ k + 1 = n * p + 1
        BY <3>1, <3>2 DEF p
      <3>4. Turn(k + 1, 1, n)
        BY <1>1, <3>1, <3>3, TurnBy
      <3> QED BY <3>1, <3>4
    <2> QED BY <2>1, <2>2, <2>3, SMTT(60)
  <1> QED BY <1>2, <1>3

\* The k-th task in closed form.
LEMMA TurnIs ==
    ASSUME NEW n \in Nat \ {0}, NEW k \in Nat \ {0}, NEW c, Turn(k, c, n)
    PROVE  c = ((k - 1) % n) + 1
  <1>1. PICK q \in Nat : c \in 1..n /\ k = n * q + c
    BY DEF Turn
  <1>2. c - 1 \in 0..(n - 1) /\ k - 1 = n * q + (c - 1)
    BY <1>1, SMTT(60)
  <1>3. \A r \in 0..(n - 1) : (n * q + r) % n = r
    BY SMTT(60)
  <1> QED BY <1>1, <1>2, <1>3, SMTT(60)

\* Every step keeps current where the tick count says.
LEMMA NextRotated == IInv /\ [Next]_vars => Rotated'
  <1> SUFFICES ASSUME IInv, [Next]_vars PROVE Rotated'
    OBVIOUS
  <1>1. CASE ClockTick
    BY <1>1 DEF ClockTick, IInv, Rotated, table, stats
  <1>2. CASE MBoot
    BY <1>2 DEF MBoot, IInv, Rotated, table, stats
  <1>3. CASE StaskCreate
    <2>1. tpc = "none" /\ ticks = 0 /\ UNCHANGED <<tpc, ticks, current>>
      BY <1>3 DEF StaskCreate, IInv, Starting, Gates, stats
    <2> QED BY <2>1 DEF Turn, IInv, Arming, Rotated
  <1>4. CASE InitStart
    BY <1>4 DEF InitStart, IInv, Starting, Gates, Rotated, table
  <1>5. CASE InitArm
    BY <1>5 DEF InitArm, IInv, Rotated, table, stats
  <1>6. CASE InitEnable
    BY <1>6 DEF InitEnable, IInv, Rotated, table, stats
  <1>7. CASE Wait
    BY <1>7 DEF Wait, IInv, Rotated, table, stats
  <1>8. CASE SchedStop
    BY <1>8 DEF SchedStop, IInv, Rotated, table, stats
  <1>9. CASE Report
    BY <1>9 DEF Report, IInv, Rotated, table
  <1>10. CASE Trampoline
    BY <1>10 DEF Trampoline, IInv, Rotated, table, stats
  <1>11. CASE TaskStep
    BY <1>11 DEF TaskStep, IInv, Rotated, table, stats
  <1>12. CASE StrapEntry
    BY <1>12 DEF StrapEntry, IInv, Arming, Gates, Rotated, table, stats
  <1>13. CASE Handler
    <2>1. ticks < NTicks /\ Sample /\ (FinalTick \/ OtherTick) /\ UNCHANGED <<n_tasks, current>>
      BY <1>13, SmodeAssumption, SMTT(60) DEF Handler, Counts, IInv, Types, table
    <2>2. tpc = "handler" /\ ticks' = ticks + 1 /\ ticks' - 1 = ticks
      BY <1>13, <2>1, SmodeAssumption, SMTT(60) DEF Handler, Sample, IInv, Types
    <2>3. CASE FinalTick
      BY <2>1, <2>2, <2>3, SmodeAssumption, SMTT(60) DEF FinalTick, Rotated, Arming
    <2>4. CASE OtherTick
      BY <2>1, <2>2, <2>4 DEF OtherTick, IInv, Rotated, Arming
    <2> QED BY <2>1, <2>3, <2>4
  <1>14. CASE HandlerArm
    BY <1>14 DEF HandlerArm, IInv, Arming, Rotated, table, stats
  <1>15. CASE HandlerPick
    <2>1. n_tasks \in Nat \ {0} /\ ticks - 1 \in Nat /\ (ticks - 1) + 1 = ticks
      BY <1>15, Picked, SmodeAssumption, SMTT(60) DEF HandlerPick, IInv, Types, Counts, Arming
    <2>2. Turn(ticks, (current % n_tasks) + 1, n_tasks)
      BY <1>15, <2>1, TurnNext DEF HandlerPick, IInv, Rotated, Arming
    <2> QED BY <1>15, <2>2 DEF HandlerPick, Rotated, Arming
  <1>16. CASE StrapExit
    BY <1>16 DEF StrapExit, IInv, Arming, Rotated, table
  <1>17. CASE UNCHANGED vars
    BY <1>17 DEF vars, IInv, Rotated
  <1> QED BY <1>1, <1>2, <1>3, <1>4, <1>5, <1>6, <1>7, <1>8, <1>9, <1>10, <1>11, <1>12, <1>13,
             <1>14, <1>15, <1>16, <1>17 DEF Next, Step, Trap, Halted

\* The reset state satisfies the invariant, in every build.
LEMMA InitIInv == Init => IInv
  <1> SUFFICES ASSUME Init PROVE IInv
    OBVIOUS
  <1>1. trap_smode \in BOOLEAN /\ sstc \in BOOLEAN
    <2>1. PICK b \in Builds : trap_smode = b[1] /\ sstc = b[2]
      BY DEF Init
    <2>2. b \in BOOLEAN \X BOOLEAN
      BY SmodeAssumption
    <2> QED BY <2>1, <2>2
  <1>2. Types
    <2>1. Boot \in Ctx /\ Fresh(Boot) \in [Regs -> Nat] /\ At("null") \in Pcs /\ At("m_boot") \in Pcs
      BY FreshTypes, PcTypes, SmodeAssumption, SMTT(60) DEF Ctx, Boot, Starting
    <2>2. tf \in [Ctx -> Frames]
      BY <2>1, SMTT(60) DEF Frames, Init
    <2>3. live \in [Ctx -> [Regs -> Nat]]
      BY FreshTypes DEF Init
    <2>4. 0 \in Distances
      BY SmodeAssumption, SMTT(60) DEF Distances, Never
    <2>5. use_sstc \in BOOLEAN /\ tie \in BOOLEAN /\ ie \in BOOLEAN /\ done \in BOOLEAN /\ have_prev \in BOOLEAN
      BY DEF Init
    <2> QED BY <1>1, <2>1, <2>2, <2>3, <2>4, <2>5, SmodeAssumption, SMTT(60) DEF Types, Init
  <1>3. Gates
    BY DEF Gates, At, Init
  <1>4. Contexts
    <2>1. 1..n_tasks = {} /\ Known = {Boot}
      BY SMTT(60) DEF Known, Init
    <2>2. \A c \in Ctx : live[c] = Fresh(c)
      BY DEF Init
    <2> QED BY <2>1, <2>2, SmodeAssumption, SMTT(60) DEF Contexts, Parked, At, Starting, Ctx, Boot,
       Init
  <1>5. Counts /\ Quiet /\ Rotated
    BY SmodeAssumption DEF Counts, Quiet, Rotated, Turn, At, Arming, Init
  <1> QED BY <1>2, <1>3, <1>4, <1>5 DEF IInv

(* The inductive invariant holds in every reachable state of both binaries,  *)
(* whenever the timer fires.                                                 *)
THEOREM SmodeSafe == Spec => []IInv
  <1>1. IInv /\ [Next]_vars => IInv'
    BY NextTypes, NextGates, NextContexts, NextCounts, NextQuiet, NextRotated DEF IInv
  <1> QED BY InitIInv, <1>1, PTL DEF Spec

(* ssched.c's indices, counters and comparators stay in range.               *)
THEOREM SmodeTyped == Spec => []TypeOK
  <1>1. IInv => TypeOK
    <2> SUFFICES ASSUME IInv PROVE TypeOK
      OBVIOUS
    <2>1. {tie, ie, done, have_prev, use_sstc} \subseteq BOOLEAN
      BY DEF IInv, Types
    <2>2. {mtimecmp, stimecmp, deadline} \subseteq (-MaxLate)..Never
      BY DEF IInv, Types, Distances
    <2> QED BY <2>1, <2>2 DEF IInv, Types, TypeOK
  <1> QED BY SmodeSafe, <1>1, PTL

(* strap_handler serves N_TICKS ticks and never one more, so its guard is    *)
(* unreachable and lat, swc and swt are written inside their bounds.         *)
THEOREM QuotaExact == Spec => []NoTickPastQuota
  <1>1. IInv => NoTickPastQuota
    BY SmodeAssumption, SMTT(60) DEF IInv, Types, Gates, Counts, NoTickPastQuota
  <1> QED BY SmodeSafe, <1>1, PTL

(* strap.S's save and restore give a preempted program its registers, t1     *)
(* apart, back on its own stack, however many contexts ran in between.       *)
THEOREM SmodeContextsPreserved == Spec => []ContextPreserved
  <1>1. IInv => ContextPreserved
    BY DEF IInv, Contexts, ContextPreserved, Running
  <1> QED BY SmodeSafe, <1>1, PTL

(* The final tick's stimer_disarm comes before the boot context resumes: no  *)
(* timer interrupt is pending from then on.                                  *)
THEOREM QuietOnceDone == Spec => []QuietAfterDone
  <1>1. IInv => QuietAfterDone
    BY NotPendingOnceDone DEF QuietAfterDone
  <1> QED BY SmodeSafe, <1>1, PTL

-----------------------------------------------------------------------------
\* Every step of the program is a step of the abstract scheduler or none.
LEMMA StepRefines == IInv /\ [Next]_vars => [TS!TSNext]_(TS!tsVars)
  <1> SUFFICES ASSUME IInv, [Next]_vars PROVE [TS!TSNext]_(TS!tsVars)
    OBVIOUS
  <1>1. CASE StaskCreate
    <2>1. tpc = "none" /\ ticks = 0 /\ pc.at = "create"
      BY <1>1 DEF StaskCreate, Gates, Starting, IInv, stats
    <2>2. CASE n_tasks >= StaskMax
      BY <1>1, <2>1, <2>2, SmodeAssumption, SMTT(60) DEF StaskCreate, IInv, Types, Arming, setup,
         timer, stats, TS!tsVars, Running
    <2>3. CASE n_tasks < StaskMax
      <3>1. TS!Register
        BY <1>1, <2>1, <2>3, SmodeAssumption, SMTT(60) DEF StaskCreate, TS!Register, IInv, Types,
           setup, timer, stats, Running
      <3> QED BY <3>1 DEF TS!TSNext
    <2> QED BY <2>2, <2>3, SmodeAssumption, SMTT(60) DEF IInv, Types
  <1>2. CASE MBoot \/ InitStart
    <2>1. UNCHANGED <<tpc, ticks, n_tasks, scratch>>
      BY <1>2 DEF MBoot, InitStart, Gates, Starting, IInv, table, stats
    <2>2. (pc'.at \in {"report", "halt"}) = (pc.at \in {"report", "halt"})
      BY <1>2, SMTT(60) DEF MBoot, InitStart, Goto, At
    <2> QED BY <2>1, <2>2 DEF TS!tsVars, Running
  <1>3. CASE ClockTick \/ InitArm \/ InitEnable \/ Wait \/ Report \/ Trampoline \/ TaskStep
    <2>1. UNCHANGED <<tpc, ticks, n_tasks, scratch>>
      <3>1. CASE ClockTick \/ Trampoline \/ TaskStep
        BY <3>1 DEF ClockTick, Trampoline, TaskStep, table, frames, stats
      <3>2. CASE InitArm \/ InitEnable
        BY <3>2 DEF InitArm, InitEnable, table, frames, stats
      <3>3. CASE Wait \/ Report
        BY <3>3 DEF Wait, Report, table, frames, stats
      <3> QED BY <1>3, <3>1, <3>2, <3>3
    <2>2. (pc'.at \in {"report", "halt"}) = (pc.at \in {"report", "halt"})
      <3>1. CASE ClockTick \/ Trampoline \/ TaskStep
        BY <3>1, SMTT(60) DEF ClockTick, Trampoline, TaskStep
      <3>2. CASE InitArm \/ InitEnable
        BY <3>2, SMTT(60) DEF InitArm, InitEnable, Goto, At
      <3>3. CASE Wait \/ Report
        BY <3>3, SMTT(60) DEF Wait, Report, Goto, At
      <3> QED BY <1>3, <3>1, <3>2, <3>3
    <2> QED BY <2>1, <2>2 DEF TS!tsVars, Running
  <1>4. CASE SchedStop
    <2>1. tpc = "none" /\ pc.at = "stop" /\ scratch = 0 /\ ticks >= NTicks
      BY <1>4, SmodeAssumption, SMTT(60) DEF SchedStop, Counts, Boot, IInv, Arming
    <2>2. TS!Stop
      BY <1>4, <2>1 DEF SchedStop, Goto, At, TS!Stop, table, frames, stats, Running
    <2> QED BY <2>2 DEF TS!TSNext
  <1>5. CASE StrapEntry
    BY <1>5 DEF StrapEntry, IInv, setup, table, timer, stats, TS!tsVars, Running
  <1>6. CASE Handler
    <2>1. Sample /\ (FinalTick \/ OtherTick)
      BY <1>6, SmodeAssumption, SMTT(60) DEF Handler, Counts, IInv, Types, Arming
    <2> QED BY <1>6, <2>1, SmodeAssumption, SMTT(60) DEF Handler, Sample, FinalTick, OtherTick,
       IInv, Types, Arming, setup, table, frames, TS!tsVars, Running
  <1>7. CASE HandlerArm
    BY <1>7 DEF HandlerArm, table, frames, stats, TS!tsVars, Running
  <1>8. CASE HandlerPick
    BY <1>8 DEF HandlerPick, frames, TS!tsVars, Running
  <1>9. CASE StrapExit
    <2>1. /\ tpc = "exit" /\ tpc' = "none" /\ scratch' = next /\ UNCHANGED <<n_tasks, ticks>>
          /\ ticks > 0 /\ n_tasks > 0
      BY <1>9, SmodeAssumption, SMTT(60) DEF StrapExit, Counts, Gates, Starting, IInv, Arming,
         table, timer
    <2>2. ~(pc.at \in {"report", "halt"}) /\ ~(pc'.at \in {"report", "halt"})
      BY <1>9, ResumePoint DEF StrapExit, Gates, IInv
    <2>3. next = IF ticks >= NTicks THEN 0 ELSE ((ticks - 1) % n_tasks) + 1
      <3>1. n_tasks \in Nat \ {0} /\ ticks \in Nat \ {0} /\ ticks <= NTicks /\ NTicks \in Nat
        BY <2>1, SmodeAssumption, SMTT(60) DEF IInv, Types
      <3>2. CASE ticks < NTicks
        BY <2>1, <3>1, <3>2, TurnIs, SMTT(60) DEF IInv, Rotated
      <3>3. CASE ticks = NTicks
        BY <2>1, <3>1, <3>3 DEF Counts, Boot, IInv
      <3> QED BY <3>1, <3>2, <3>3, SMTT(60)
    <2>4. TS!Tick
      BY <2>1, <2>2, <2>3, SMTT(60) DEF TS!Tick, IInv, Types, Running
    <2> QED BY <2>4 DEF TS!TSNext
  <1>10. CASE UNCHANGED vars
    BY <1>10 DEF vars, Arming, TS!tsVars, Running
  <1> QED BY <1>1, <1>2, <1>3, <1>4, <1>5, <1>6, <1>7, <1>8, <1>9, <1>10 DEF Next, Step, Trap,
             Halted

(* Both binaries implement the abstract scheduler TickSched: every trap      *)
(* resumes the next task in turn, the quota's last tick the boot context.    *)
THEOREM SmodeRefines == Spec => ImplementsTickSched
  <1>1. Init => TS!TSInit
    BY SMTT(60) DEF Init, At, Running, Boot, TS!TSInit
  <1> QED BY SmodeSafe, StepRefines, <1>1, PTL DEF Spec, ImplementsTickSched, TS!TSSpec
=============================================================================
