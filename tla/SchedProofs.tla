---------------------------- MODULE SchedProofs ----------------------------
(* Safety of the cooperative scheduler, and the round-robin order of its     *)
(* console, for every table size and workload.                               *)
EXTENDS SchedConsole, TLAPS

\* Zenon proves the leaves below; those that need arithmetic, strings or records cite SMT.
USE ZenonT(60)

Inv == TypeOK /\ StackOwnership /\ SwitchDiscipline /\ CountdownExact

\* The bodies keep their locals natural numbers (tasks.c's unsigned longs).
LEMMA BodyTypes ==
    ASSUME NEW f \in Bodies, NEW l \in Locals
    PROVE  BodyStart(f) \in Locals /\ BodyStep(f, l) \in Locals
  BY SMTT(60) DEF Bodies, Locals, BodyStart, BodyStep

\* What the k-th task_create call is given: one of the bodies of tasks.c.
LEMMA JobTypes ==
    ASSUME TypeOK
    PROVE  /\ Len(jobs) \in Nat
           /\ \A k \in 1..Len(jobs) : jobs[k].fn \in Bodies
  <1>1. PICK m \in 0..MaxJobs : jobs \in [1..m -> Jobs]
    BY DEF TypeOK
  <1>2. m \in Nat /\ jobs \in Seq(Jobs) /\ Len(jobs) = m
    BY <1>1, SchedAssumption, SMTT(60)
  <1> QED BY <1>1, <1>2 DEF Jobs

\* Assigning sched_run's locals keeps the live registers a context.
LEMMA LoopTypes ==
    ASSUME TypeOK, NEW a \in Nat, NEW b \in Nat, SetLoop(a, b)
    PROVE  regs' \in Ctxs
  BY DEF TypeOK, SetLoop, Saved, Ctxs, Locals

\* The state main starts from.
LEMMA InitInv == Init => Inv
  <1> SUFFICES ASSUME Init PROVE Inv
    OBVIOUS
  <1> USE SchedAssumption DEF Init
  <1>1. TypeOK
    BY SMTT(60) DEF TypeOK, Ctxs, Locals, BssCtx, Zero, Code, Bodies, Stacks, Boot, Slots
  <1>2. StackOwnership
    BY SMTT(60) DEF StackOwnership, InTask, Boot, Bodies
  <1>3. SwitchDiscipline
    BY SMTT(60) DEF SwitchDiscipline, InTask, Bodies
  <1>4. CountdownExact
    BY DEF CountdownExact
  <1> QED BY <1>1, <1>2, <1>3, <1>4 DEF Inv

\* What sched_run's countdown needs of the number of unfinished tasks.
Counting ==
    /\ Cardinality(Unfinished) \in Nat
    /\ Unfinished = 1..num_tasks => Cardinality(Unfinished) = num_tasks
    /\ \A k \in Unfinished : Cardinality(Unfinished \ {k}) = Cardinality(Unfinished) - 1
    /\ Cardinality(Unfinished) = 0 => Unfinished = {}

\* task_create leaves the running code and the other slots alone.
LEMMA TaskCreateInv == ASSUME Inv, TaskCreate PROVE Inv'
  <1>1. /\ pc = "main" /\ called < Len(jobs) /\ called' = called + 1
        /\ UNCHANGED <<jobs, current, sched_ctx, regs, pc>>
    BY DEF TaskCreate
  <1>2. TypeOK /\ StackOwnership /\ SwitchDiscipline
    BY DEF Inv
  <1>3. ~InTask /\ ~InTask' /\ CountdownExact'
    BY <1>1 DEF InTask, Bodies, CountdownExact
  <1>4. num_tasks \in 0..MaxTasks /\ MaxTasks \in Nat /\ called \in 0..Len(jobs)
    BY <1>2, SchedAssumption DEF TypeOK
  <1>5. Len(jobs) \in Nat /\ \A k \in 1..Len(jobs) : jobs[k].fn \in Bodies
    BY <1>2, JobTypes
  <1>6. called' \in 0..Len(jobs) /\ jobs[called + 1].fn \in Bodies
    BY <1>1, <1>4, <1>5, SMTT(60)
  <1>7. CASE num_tasks >= MaxTasks
    <2>1. UNCHANGED <<num_tasks, fn, state, ctx>>
      BY <1>4, <1>7, SMTT(60) DEF TaskCreate
    <2>2. TypeOK'
      BY <1>1, <1>2, <1>6, <2>1 DEF TypeOK
    <2>3. StackOwnership' /\ SwitchDiscipline'
      BY <1>1, <1>2, <1>3, <2>1 DEF StackOwnership, SwitchDiscipline
    <2> QED BY <1>3, <2>2, <2>3 DEF Inv
  <1>8. CASE num_tasks < MaxTasks
    <2>1. PICK n : n = num_tasks + 1
      OBVIOUS
    <2>2. n \in Slots /\ n \in 0..MaxTasks /\ \A k \in 1..n : k = n \/ (k \in 1..num_tasks /\ k \in Slots)
      BY <1>4, <1>8, <2>1, SMTT(60) DEF Slots
    <2>3. /\ num_tasks' = n /\ fn' = [fn EXCEPT ![n] = jobs[called + 1].fn]
          /\ state' = [state EXCEPT ![n] = "READY"]
          /\ ctx' = [ctx EXCEPT ![n] = [ra |-> "tramp", sp |-> n, s |-> ctx[n].s]]
      BY <1>4, <1>8, <2>1, SMTT(60) DEF TaskCreate
    <2>4. /\ fn \in [Slots -> Bodies \cup {"null"}] /\ state \in [Slots -> {"READY", "DONE"}]
          /\ ctx \in [Slots -> Ctxs]
      BY <1>2 DEF TypeOK
    <2>5. [ra |-> "tramp", sp |-> n, s |-> ctx[n].s] \in Ctxs
      BY <2>2, <2>4 DEF Ctxs, Code, Stacks
    <2>6. fn' \in [Slots -> Bodies \cup {"null"}] /\ state' \in [Slots -> {"READY", "DONE"}]
      BY <1>6, <2>3, <2>4
    <2>7. ctx' \in [Slots -> Ctxs]
      BY <2>3, <2>4, <2>5
    <2>8. TypeOK'
      BY <1>1, <1>2, <1>6, <2>2, <2>3, <2>6, <2>7 DEF TypeOK
    <2>9. /\ fn'[n] \in Bodies /\ state'[n] = "READY" /\ ctx'[n].ra = "tramp" /\ ctx'[n].sp = n
      BY <1>6, <2>2, <2>3, <2>4
    <2>10. \A k \in 1..num_tasks : k \in Slots /\ k # n
      BY <1>4, <2>1, SMTT(60) DEF Slots
    <2>11. \A k \in 1..num_tasks : fn'[k] = fn[k] /\ state'[k] = state[k] /\ ctx'[k] = ctx[k]
      BY <2>3, <2>4, <2>10
    <2>12. \A k \in 1..num_tasks' : ctx'[k].sp = k
      BY <1>2, <2>2, <2>3, <2>9, <2>11 DEF StackOwnership
    <2>13. \A k \in 1..num_tasks' : /\ fn'[k] \in Bodies /\ state'[k] = "READY"
                                    /\ ctx'[k].ra \in Bodies \cup {"tramp"}
      BY <1>1, <1>2, <2>2, <2>3, <2>9, <2>11, SMTT(60) DEF SwitchDiscipline
    <2>14. StackOwnership'
      BY <1>1, <1>2, <1>3, <2>12 DEF StackOwnership
    <2>15. SwitchDiscipline'
      BY <1>1, <1>2, <1>3, <2>13 DEF SwitchDiscipline
    <2> QED BY <1>3, <2>8, <2>14, <2>15 DEF Inv
  <1> QED BY <1>4, <1>7, <1>8, SMTT(60)

\* A dispatched task resumes on its own stack, where it left off.
LEMMA DispatchInv == ASSUME Inv, Dispatch PROVE Inv'
  <1>1. TypeOK /\ StackOwnership /\ SwitchDiscipline /\ CountdownExact
    BY DEF Inv
  <1>2. PICK c : c = regs.s.y
    OBVIOUS
  <1>3. /\ pc = "for" /\ pc' = ctx[c].ra /\ current' = c /\ regs' = ctx[c]
        /\ sched_ctx' = [ra |-> "back", sp |-> regs.sp, s |-> regs.s]
        /\ c <= num_tasks /\ state[c] # "DONE"
        /\ UNCHANGED <<jobs, called, num_tasks, fn, state, ctx>>
    BY <1>2 DEF Dispatch, Restore, Saved
  <1>4. regs \in Ctxs /\ regs.sp \in Stacks /\ regs.s \in Locals /\ c \in Nat
    BY <1>1, <1>2 DEF TypeOK, Ctxs, Locals
  <1>5. c \in 1..num_tasks
    BY <1>1, <1>2, <1>3, <1>4, SchedAssumption, SMTT(60) DEF SwitchDiscipline, TypeOK
  <1>6. c \in Slots /\ c \in 0..MaxTasks
    BY <1>1, <1>5, SchedAssumption, SMTT(60) DEF TypeOK, Slots
  <1>7. state[c] = "READY" /\ ctx[c] \in Ctxs
    BY <1>1, <1>3, <1>6 DEF TypeOK
  <1>8. ctx[c].ra \in Bodies \cup {"tramp"} /\ ctx[c].sp = c
    BY <1>1, <1>5, <1>7 DEF SwitchDiscipline, StackOwnership
  <1>9. ~InTask /\ InTask' /\ pc' \notin {"null", "main", "for", "back", "halt", "park"}
    BY <1>3, <1>8 DEF InTask, Bodies
  <1>10. sched_ctx' \in Ctxs /\ pc' \in Code
    BY <1>3, <1>4, <1>8 DEF Ctxs, Code
  <1>11. TypeOK'
    BY <1>1, <1>3, <1>6, <1>7, <1>10 DEF TypeOK
  <1>12. StackOwnership'
    BY <1>1, <1>3, <1>8, <1>9 DEF StackOwnership
  <1>13. SwitchDiscipline'
    BY <1>1, <1>2, <1>3, <1>5, <1>7, <1>9 DEF SwitchDiscipline
  <1>14. Remaining' = Remaining /\ Unfinished' = Unfinished /\ ~Uncounted /\ ~Uncounted'
    BY <1>3, <1>9 DEF Remaining, Unfinished, Uncounted
  <1>15. CountdownExact'
    BY <1>1, <1>3, <1>14 DEF CountdownExact
  <1> QED BY <1>11, <1>12, <1>13, <1>15 DEF Inv

\* sched_yield takes the scheduler back to behind its call of swtch.
LEMMA YieldInv ==
    ASSUME Inv, InTask, NEW s \in Locals, SchedYield(pc, s), pc # "tramp",
           UNCHANGED <<jobs, called, num_tasks, fn, state, current, sched_ctx>>
    PROVE  Inv'
  <1>1. TypeOK /\ StackOwnership /\ SwitchDiscipline /\ CountdownExact
    BY DEF Inv
  <1>2. PICK c : c = current
    OBVIOUS
  <1>3. /\ c \in 1..num_tasks /\ sched_ctx.ra = "back" /\ sched_ctx.s.y = c
        /\ state[c] = IF pc = "park" THEN "DONE" ELSE "READY"
    BY <1>1, <1>2 DEF SwitchDiscipline
  <1>4. regs.sp = c /\ sched_ctx.sp = Boot
    BY <1>1, <1>2 DEF StackOwnership
  <1>5. /\ ctx' = [ctx EXCEPT ![c] = [ra |-> pc, sp |-> c, s |-> s]]
        /\ regs' = sched_ctx /\ pc' = "back"
    BY <1>2, <1>3, <1>4 DEF SchedYield, Restore, Saved
  <1>6. ~InTask'
    BY <1>5 DEF InTask, Bodies
  <1>7. \A k \in 1..num_tasks : k \in Slots
    BY <1>1, SchedAssumption, SMTT(60) DEF TypeOK, Slots
  <1>8. ctx \in [Slots -> Ctxs] /\ sched_ctx \in Ctxs /\ pc \in Code /\ regs \in Ctxs
    BY <1>1 DEF TypeOK
  <1>9. [ra |-> pc, sp |-> c, s |-> s] \in Ctxs
    BY <1>4, <1>8 DEF Ctxs
  <1>10. ctx' \in [Slots -> Ctxs]
    BY <1>5, <1>8, <1>9
  <1>11. TypeOK'
    BY <1>1, <1>5, <1>8, <1>10 DEF TypeOK, Code
  <1>12. ctx'[c].ra = pc /\ ctx'[c].sp = c
    BY <1>3, <1>5, <1>7, <1>8
  <1>13. \A k \in 1..num_tasks : k # c => ctx'[k] = ctx[k]
    BY <1>5, <1>7, <1>8
  <1>14. StackOwnership'
    BY <1>1, <1>4, <1>5, <1>6, <1>12, <1>13 DEF StackOwnership
  <1>15. pc = "park" \/ pc \in Bodies \cup {"tramp"}
    BY DEF InTask
  <1>16. \A k \in 1..num_tasks : state[k] = "READY" => ctx'[k].ra \in Bodies \cup {"tramp"}
    BY <1>1, <1>3, <1>12, <1>13, <1>15 DEF SwitchDiscipline
  <1>17. SwitchDiscipline'
    BY <1>1, <1>3, <1>5, <1>6, <1>16 DEF SwitchDiscipline
  <1>18. Remaining' = Remaining /\ Unfinished' = Unfinished /\ (Uncounted' <=> Uncounted)
    BY <1>3, <1>5, <1>6 DEF Remaining, Unfinished, Uncounted, InTask, Bodies
  <1>19. CountdownExact'
    BY <1>1, <1>5, <1>18 DEF CountdownExact, InTask, Bodies
  <1> QED BY <1>11, <1>14, <1>17, <1>19 DEF Inv

\* Every step preserves the invariant.
LEMMA StepInv == ASSUME Inv, Counting, [Next]_vars PROVE Inv'
  <1> USE SchedAssumption DEF Inv
  <1>t. num_tasks \in Nat /\ regs.s.x \in Nat /\ regs.s.y \in Nat
    BY SMTT(60) DEF TypeOK, Ctxs, Locals
  <1>u. Cardinality(Unfinished) \in Nat
    BY DEF Counting
  <1>1. CASE TaskCreate
    BY <1>1, TaskCreateInv
  <1>2. CASE SchedRun
    <2>1. TypeOK'
      BY <1>2, <1>t, LoopTypes DEF SchedRun, TypeOK, Code
    <2> USE <1>2 DEF SchedRun, SetLoop, Saved
    <2>2. StackOwnership'
      BY DEF StackOwnership, InTask, Bodies
    <2>3. SwitchDiscipline'
      BY DEF SwitchDiscipline, InTask, Bodies
    <2>4. Cardinality(Unfinished) = num_tasks
      BY DEF Counting, SwitchDiscipline, Unfinished
    <2>5. CountdownExact'
      BY <2>4, SMTT(60) DEF CountdownExact, Remaining, Uncounted, Unfinished, InTask, Bodies,
         TypeOK, Ctxs
    <2> QED BY <2>1, <2>2, <2>3, <2>5
  <1>3. CASE While
    <2>0. regs' \in Ctxs
      BY <1>3, <1>t, LoopTypes DEF While, TypeOK
    <2>1. TypeOK'
      BY <1>3, <2>0 DEF While, TypeOK, Code
    <2> USE <1>3 DEF While, SetLoop, Saved
    <2>2. StackOwnership'
      BY SMTT(60) DEF StackOwnership, InTask, Bodies
    <2>3. SwitchDiscipline'
      BY <1>t, SMTT(60) DEF SwitchDiscipline, InTask, Bodies
    <2>4. Unfinished' = Unfinished
      BY DEF Unfinished
    <2>5. CountdownExact'
      BY <1>t, <2>4, SMTT(60) DEF CountdownExact, Remaining, Uncounted, InTask, Bodies
    <2> QED BY <2>1, <2>2, <2>3, <2>5
  <1>4. CASE ForSkip
    <2>0. /\ pc' = pc \/ pc' = "while"
          /\ regs' = regs \/ SetLoop(regs.s.x, regs.s.y + 1)
          /\ UNCHANGED <<jobs, called, num_tasks, fn, state, ctx, current, sched_ctx>>
      BY <1>4 DEF ForSkip
    <2>a. regs' \in Ctxs
      BY <1>t, <2>0, LoopTypes, SMTT(60) DEF TypeOK
    <2>1. TypeOK'
      BY <2>0, <2>a DEF TypeOK, Code
    <2> USE <1>4 DEF ForSkip, SetLoop, Saved
    <2>2. StackOwnership'
      BY SMTT(60) DEF StackOwnership, InTask, Bodies
    <2>3. SwitchDiscipline'
      BY <1>t, SMTT(60) DEF SwitchDiscipline, InTask, Bodies
    <2>4. Unfinished' = Unfinished
      BY DEF Unfinished
    <2>5. CountdownExact'
      BY <1>t, <2>4, SMTT(60) DEF CountdownExact, Remaining, Uncounted, InTask, Bodies
    <2> QED BY <2>1, <2>2, <2>3, <2>5
  <1>5. CASE Dispatch
    BY <1>5, DispatchInv
  <1>6. CASE Back
    <2>0. state[regs.s.y] = "DONE" => regs.s.x >= 1
      BY <1>6, <1>u, SMTT(60) DEF Back, CountdownExact, Remaining, Uncounted, InTask, Bodies
    <2>a. regs' \in Ctxs
      <3> DEFINE left == IF state[regs.s.y] = "DONE" THEN regs.s.x - 1 ELSE regs.s.x
      <3>1. left \in Nat /\ regs.s.y + 1 \in Nat
        BY <1>t, <2>0, SMTT(60)
      <3>2. SetLoop(left, regs.s.y + 1)
        BY <1>6 DEF Back
      <3> HIDE DEF left
      <3> QED BY <3>1, <3>2, LoopTypes
    <2>1. TypeOK'
      BY <1>6, <2>a DEF Back, TypeOK, Code
    <2> USE <1>6 DEF Back, SetLoop, Saved
    <2>2. StackOwnership'
      BY DEF StackOwnership, InTask, Bodies
    <2>3. SwitchDiscipline'
      BY <1>t, SMTT(60) DEF SwitchDiscipline, InTask, Bodies
    <2>4. Unfinished' = Unfinished
      BY DEF Unfinished
    <2>5. CountdownExact'
      BY <2>0, <2>4, <1>u, <1>t, SMTT(60) DEF CountdownExact, Remaining, Uncounted, InTask, Bodies
    <2> QED BY <2>1, <2>2, <2>3, <2>5
  <1>7. CASE Trampoline
    <2> USE <1>7 DEF Trampoline, Saved
    <2>0. fn[current] \in Bodies /\ BodyStart(fn[current]) \in Locals
      BY BodyTypes DEF SwitchDiscipline, InTask, TypeOK, Ctxs
    <2>1. TypeOK'
      BY <2>0 DEF TypeOK, Ctxs, Code
    <2>2. StackOwnership'
      BY <2>0 DEF StackOwnership, InTask
    <2>3. SwitchDiscipline'
      BY <2>0 DEF SwitchDiscipline, InTask, Bodies
    <2>4. CountdownExact'
      BY <2>0 DEF CountdownExact, Remaining, Uncounted, Unfinished, InTask, Bodies
    <2> QED BY <2>1, <2>2, <2>3, <2>4
  <1>8. CASE BodyIterate
    <2>1. InTask /\ pc # "tramp" /\ BodyStep(pc, regs.s) \in Locals
      BY <1>8, BodyTypes DEF BodyIterate, InTask, Bodies, TypeOK, Ctxs
    <2> QED BY <1>8, <2>1, YieldInv DEF BodyIterate
  <1>9. CASE BodyReturn
    <2> USE <1>9 DEF BodyReturn
    <2>0. current \in 1..num_tasks /\ current \in Slots /\ state[current] = "READY"
      BY SMTT(60) DEF SwitchDiscipline, InTask, TypeOK, Slots, Bodies
    <2>1. TypeOK'
      BY <2>0 DEF TypeOK, Code
    <2>2. StackOwnership'
      BY DEF StackOwnership, InTask
    <2>3. SwitchDiscipline'
      BY <2>0, SMTT(60) DEF SwitchDiscipline, InTask, Bodies, TypeOK
    <2>4. Unfinished' = Unfinished \ {current} /\ current \in Unfinished
      BY <2>0, SMTT(60) DEF Unfinished, TypeOK, Slots
    <2>5. Cardinality(Unfinished') = Cardinality(Unfinished) - 1
      BY <2>4 DEF Counting
    <2>6. CountdownExact'
      BY <2>5, <1>u, SMTT(60) DEF CountdownExact, Remaining, Uncounted, InTask, Bodies
    <2> QED BY <2>1, <2>2, <2>3, <2>6
  <1>10. CASE Park
    <2>1. InTask /\ pc = "park" /\ regs.s \in Locals
      BY <1>10 DEF Park, InTask, TypeOK, Ctxs
    <2> QED BY <1>10, <2>1, YieldInv DEF Park
  <1>11. CASE UNCHANGED vars
    BY <1>11 DEF vars, TypeOK, StackOwnership, SwitchDiscipline, CountdownExact, InTask,
                 Remaining, Uncounted, Unfinished
  <1>12. CASE Halted
    BY <1>12, <1>11 DEF Halted
  <1> QED BY <1>1, <1>2, <1>3, <1>4, <1>5, <1>6, <1>7, <1>8, <1>9, <1>10, <1>11, <1>12 DEF Next

-----------------------------------------------------------------------------
(* The console: what Inv needs besides to show the round-robin order.      *)

\* task_create: the table holds the first MAX_TASKS calls, all of them at last.
Registered ==
    /\ num_tasks = IF called < MaxTasks THEN called ELSE MaxTasks
    /\ pc # "main" => called = Len(jobs)
    /\ \A k \in 1..num_tasks : fn[k] = jobs[k].fn

\* A body f in its loop, with the locals it would have if it ran alone.
Alone(f, s, n) ==
    /\ s.x \in IF f = "spinner" THEN 0..n ELSE 1..(n + 1)
    /\ f = "fibonacci" => s.z = Lines(f, s.x) /\ s.y = Lines(f, s.x - 1)

Bodied ==
    \A k \in 1..num_tasks :
        /\ Frame(k).ra \in {"tramp", "park", fn[k]}
        /\ pc = "main" => Frame(k).ra = "tramp"
        /\ Frame(k).ra # "tramp" => Alone(fn[k], Frame(k).s, jobs[k].n)

\* A task is DONE once its trampoline parks it, with all its lines printed.
Ended ==
    \A k \in 1..num_tasks :
        /\ state[k] = "DONE" <=> Frame(k).ra = "park"
        /\ Frame(k).ra = "park" => Printed(k) = jobs[k].n

\* The first slot the sweep has not served.
Cursor == IF InTask THEN current
          ELSE IF pc = "for" THEN regs.s.y
          ELSE IF pc = "back" THEN regs.s.y + 1 ELSE 0

Share(k, r) == IF jobs[k].n <= r THEN jobs[k].n ELSE r

\* In round r every served task is one line ahead of the others.
Level(r) ==
    \A k \in 1..num_tasks : Printed(k) = Share(k, IF k < Cursor THEN r + 1 ELSE r)

Levelled == \E r \in Nat : Level(r)

CInv == Registered /\ Bodied /\ Ended /\ Levelled

\* A step that prints nothing.
Still == \A k \in 1..num_tasks : Printed(k)' = Printed(k)

\* The k-th slot holds the k-th call, a body with at most MaxIter iterations.
LEMMA JobsKnown ==
    ASSUME TypeOK, Registered
    PROVE  /\ num_tasks \in Nat /\ num_tasks <= MaxTasks /\ num_tasks <= Len(jobs)
           /\ \A k \in 1..num_tasks : /\ k \in Slots /\ k \in 1..Len(jobs)
                                      /\ jobs[k].n \in 0..MaxIter /\ jobs[k].n \in Nat
  <1>1. PICK m \in 0..MaxJobs : jobs \in [1..m -> Jobs]
    BY DEF TypeOK
  <1>2. m \in Nat /\ jobs \in Seq(Jobs) /\ Len(jobs) = m
    BY <1>1, SchedAssumption, SMTT(60)
  <1>3. called \in Nat /\ called <= m /\ num_tasks \in Nat /\ num_tasks <= MaxTasks
    BY <1>2, SchedAssumption, SMTT(60) DEF TypeOK
  <1>4. num_tasks <= m
    BY <1>3, SchedAssumption, SMTT(60) DEF Registered
  <1>5. \A k \in 1..m : jobs[k].n \in 0..MaxIter
    BY <1>1 DEF Jobs
  <1> QED BY <1>2, <1>3, <1>4, <1>5, SchedAssumption, SMTT(60) DEF Slots

\* A context's frame is a context.
LEMMA FrameTypes ==
    ASSUME TypeOK, NEW k \in Slots
    PROVE  Frame(k) \in Ctxs
  <1>1. ctx[k] \in Ctxs /\ [ra |-> pc, sp |-> regs.sp, s |-> regs.s] \in Ctxs
    BY DEF TypeOK, Ctxs
  <1> QED BY <1>1 DEF Frame

\* A step in the scheduler moves no task.
LEMMA FrameOutside ==
    ASSUME ~InTask, ~InTask', UNCHANGED ctx
    PROVE  \A k : Frame(k)' = Frame(k)
  BY DEF Frame

LEMMA PrintedKept ==
    ASSUME NEW k, UNCHANGED <<num_tasks, fn>>, Frame(k)' = Frame(k)
    PROVE  Printed(k)' = Printed(k)
  BY DEF Printed

\* What a step that moves no task keeps.
LEMMA TasksKept ==
    ASSUME Registered, Bodied, Ended, UNCHANGED <<jobs, called, num_tasks, fn, state>>,
           pc # "main" \/ called = Len(jobs), pc' # "main",
           \A k \in 1..num_tasks : Frame(k)' = Frame(k)
    PROVE  Registered' /\ Bodied' /\ Ended'
  <1>1. Registered'
    BY DEF Registered
  <1>2. Bodied'
    BY DEF Bodied, Alone
  <1>3. \A k \in 1..num_tasks : Printed(k)' = Printed(k)
    BY PrintedKept
  <1>4. Ended'
    BY <1>3 DEF Ended
  <1> QED BY <1>1, <1>2, <1>4

LEMMA LevelKept ==
    ASSUME NEW r \in Nat, Level(r), UNCHANGED <<jobs, num_tasks>>,
           \A k \in 1..num_tasks : Printed(k)' = Printed(k),
           \A k \in 1..num_tasks : (k < Cursor)' <=> k < Cursor
    PROVE  Level(r)'
  BY DEF Level, Share

\* The slot at the cursor has been served.
LEMMA LevelServed ==
    ASSUME TypeOK, Registered, NEW r \in Nat, Level(r), UNCHANGED <<jobs, num_tasks>>,
           NEW c \in 1..num_tasks, Cursor = c, Cursor' = c + 1,
           \A k \in 1..num_tasks : k # c => Printed(k)' = Printed(k),
           Printed(c)' = Share(c, r + 1)
    PROVE  Level(r)'
  <1>1. SUFFICES ASSUME NEW k \in 1..num_tasks
                 PROVE  Printed(k)' = Share(k, IF k < c + 1 THEN r + 1 ELSE r)
    BY DEF Level, Share
  <1>2. CASE k = c
    BY <1>2, SMTT(60)
  <1>3. CASE k # c
    <2>1. k \in Nat /\ c \in Nat /\ (k < c + 1 <=> k < c)
      BY <1>3, JobsKnown, SMTT(60)
    <2> QED BY <1>3, <2>1 DEF Level
  <1> QED BY <1>2, <1>3

\* A task that has ended is served by being passed over.
LEMMA EndedServed ==
    ASSUME TypeOK, Registered, Ended, NEW r \in Nat, Level(r), NEW k \in 1..num_tasks,
           Frame(k).ra = "park", ~(k < Cursor)
    PROVE  Printed(k) = Share(k, r + 1)
  <1>1. jobs[k].n \in Nat /\ Printed(k) = jobs[k].n /\ Printed(k) = Share(k, r)
    BY JobsKnown DEF Ended, Level
  <1> QED BY <1>1, SMTT(60) DEF Share

\* A step that moves neither a task nor the cursor.
LEMMA QuietKeeps ==
    ASSUME Inv, CInv, UNCHANGED <<jobs, called, num_tasks, fn, state>>,
           pc # "main" \/ called = Len(jobs), pc' # "main",
           \A k \in 1..num_tasks : Frame(k)' = Frame(k),
           \A k \in 1..num_tasks : (k < Cursor)' <=> k < Cursor
    PROVE  CInv' /\ Still
  <1>1. Registered' /\ Bodied' /\ Ended'
    BY TasksKept DEF CInv
  <1>2. PICK r \in Nat : Level(r)
    BY DEF CInv, Levelled
  <1>3. \A k \in 1..num_tasks : Printed(k)' = Printed(k)
    BY PrintedKept
  <1>4. Level(r)'
    BY <1>2, <1>3, LevelKept
  <1> QED BY <1>1, <1>3, <1>4 DEF CInv, Levelled, Still

\* The scheduler passes the slot c, whose task has ended.
LEMMA PassKeeps ==
    ASSUME Inv, CInv, UNCHANGED <<jobs, called, num_tasks, fn, state>>,
           pc # "main", pc' # "main",
           \A k \in 1..num_tasks : Frame(k)' = Frame(k),
           NEW c \in 1..num_tasks, Cursor = c, Cursor' = c + 1, Frame(c).ra = "park"
    PROVE  CInv' /\ Still
  <1>1. Registered' /\ Bodied' /\ Ended'
    BY TasksKept DEF CInv
  <1>2. PICK r \in Nat : Level(r)
    BY DEF CInv, Levelled
  <1>3. \A k \in 1..num_tasks : Printed(k)' = Printed(k)
    BY PrintedKept
  <1>4. c \in Nat /\ ~(c < Cursor)
    BY SMTT(60)
  <1>5. Printed(c)' = Share(c, r + 1)
    BY <1>2, <1>3, <1>4, EndedServed DEF CInv, Inv
  <1>6. Level(r)'
    BY <1>2, <1>3, <1>5, LevelServed DEF CInv, Inv
  <1> QED BY <1>1, <1>3, <1>6 DEF CInv, Levelled, Still

\* main calls sched_run, and sched_run begins a sweep or returns.
LEMMA SchedRunKeeps == ASSUME Inv, CInv, SchedRun PROVE CInv' /\ Still
  <1>1. /\ pc = "main" /\ pc' = "while" /\ called = Len(jobs)
        /\ UNCHANGED <<jobs, called, num_tasks, fn, state, ctx>>
    BY DEF SchedRun
  <1>2. ~InTask /\ ~InTask' /\ Cursor = 0 /\ Cursor' = 0
    BY <1>1 DEF InTask, Bodies, Cursor
  <1> QED BY <1>1, <1>2, FrameOutside, QuietKeeps

LEMMA WhileKeeps == ASSUME Inv, CInv, While PROVE CInv' /\ Still
  <1>1. /\ pc = "while" /\ pc' \in {"for", "halt"} /\ (pc' = "for" => regs'.s.y = 1)
        /\ UNCHANGED <<jobs, called, num_tasks, fn, state, ctx>>
    BY SMTT(60) DEF While, SetLoop, Saved
  <1>2. ~InTask /\ ~InTask' /\ Cursor = 0 /\ Cursor' \in {0, 1}
    BY <1>1 DEF InTask, Bodies, Cursor
  <1>3. \A k \in 1..num_tasks : ~(k < Cursor) /\ ~(k < Cursor')
    BY <1>2, SMTT(60)
  <1> QED BY <1>1, <1>2, <1>3, FrameOutside, QuietKeeps

\* The end of a sweep: the next round begins.
LEMMA SweepKeeps ==
    ASSUME Inv, CInv, ForSkip, regs.s.y > num_tasks
    PROVE  CInv' /\ Still
  <1>0. regs.s.y \in Nat /\ num_tasks \in Nat
    BY SchedAssumption, SMTT(60) DEF Inv, TypeOK, Ctxs, Locals
  <1>1. /\ pc = "for" /\ pc' = "while"
        /\ UNCHANGED <<jobs, called, num_tasks, fn, state, ctx>>
    BY <1>0, SMTT(60) DEF ForSkip
  <1>2. ~InTask /\ ~InTask' /\ Cursor = regs.s.y /\ Cursor' = 0
    BY <1>1 DEF InTask, Bodies, Cursor
  <1>3. \A k : Frame(k)' = Frame(k)
    BY <1>1, <1>2, FrameOutside
  <1>4. Registered' /\ Bodied' /\ Ended'
    BY <1>1, <1>3, TasksKept DEF CInv
  <1>5. PICK r \in Nat : Level(r)
    BY DEF CInv, Levelled
  <1>6. \A k \in 1..num_tasks : Printed(k)' = Printed(k) /\ k < Cursor /\ ~(k < Cursor')
    BY <1>0, <1>1, <1>2, <1>3, PrintedKept, SMTT(60)
  <1>7. Level(r + 1)'
    BY <1>1, <1>5, <1>6 DEF Level, Share
  <1> QED BY <1>4, <1>5, <1>6, <1>7, SMTT(60) DEF CInv, Levelled, Still

\* A finished task is skipped.
LEMMA SkipKeeps ==
    ASSUME Inv, CInv, ForSkip, ~(regs.s.y > num_tasks)
    PROVE  CInv' /\ Still
  <1>0. regs.s.y \in Nat /\ num_tasks \in Nat
    BY SchedAssumption, SMTT(60) DEF Inv, TypeOK, Ctxs, Locals
  <1>1. /\ pc = "for" /\ pc' = "for" /\ state[regs.s.y] = "DONE" /\ regs'.s.y = regs.s.y + 1
        /\ UNCHANGED <<jobs, called, num_tasks, fn, state, ctx>>
    BY <1>0, SMTT(60) DEF ForSkip, SetLoop, Saved
  <1>2. PICK c : c = regs.s.y
    OBVIOUS
  <1>3. c \in 1..num_tasks
    BY <1>0, <1>1, <1>2, SMTT(60) DEF Inv, SwitchDiscipline
  <1>4. ~InTask /\ ~InTask' /\ Cursor = c /\ Cursor' = c + 1
    BY <1>1, <1>2 DEF InTask, Bodies, Cursor
  <1>5. Frame(c).ra = "park"
    BY <1>1, <1>2, <1>3 DEF CInv, Ended
  <1> QED BY <1>1, <1>3, <1>4, <1>5, FrameOutside, PassKeeps

\* swtch returned in sched_run.
LEMMA BackKeeps == ASSUME Inv, CInv, Back PROVE CInv' /\ Still
  <1>1. /\ pc = "back" /\ pc' = "for" /\ regs'.s.y = regs.s.y + 1
        /\ UNCHANGED <<jobs, called, num_tasks, fn, state, ctx>>
    BY DEF Back, SetLoop, Saved
  <1>2. ~InTask /\ ~InTask' /\ Cursor' = Cursor
    BY <1>1 DEF InTask, Bodies, Cursor
  <1> QED BY <1>1, <1>2, FrameOutside, QuietKeeps

\* A switch into a task takes up its frame.
LEMMA DispatchKeeps == ASSUME Inv, CInv, Dispatch PROVE CInv' /\ Still
  <1>1. /\ pc = "for" /\ pc' = ctx[regs.s.y].ra /\ current' = regs.s.y /\ regs' = ctx[regs.s.y]
        /\ regs.s.y <= num_tasks /\ state[regs.s.y] # "DONE"
        /\ UNCHANGED <<jobs, called, num_tasks, fn, state, ctx>>
    BY DEF Dispatch, Restore
  <1>2. PICK c : c = regs.s.y
    OBVIOUS
  <1>3. c \in 1..num_tasks /\ c \in Slots /\ state[c] = "READY" /\ ctx[c].ra \in Bodies \cup {"tramp"}
    <2>1. c \in Nat /\ num_tasks \in Nat /\ num_tasks <= MaxTasks /\ MaxTasks \in Nat
      BY <1>2, SchedAssumption, SMTT(60) DEF Inv, TypeOK, Ctxs, Locals
    <2>2. c \in 1..num_tasks /\ c \in Slots
      BY <1>1, <1>2, <2>1, SMTT(60) DEF Inv, SwitchDiscipline, Slots
    <2>3. state[c] = "READY"
      BY <1>1, <1>2, <2>2 DEF Inv, TypeOK
    <2> QED BY <2>2, <2>3 DEF Inv, SwitchDiscipline
  <1>4. ~InTask /\ InTask' /\ Cursor = c /\ Cursor' = c /\ pc' # "main"
    BY <1>1, <1>2, <1>3 DEF InTask, Bodies, Cursor
  <1>5. ctx[c] \in Ctxs
    BY <1>3 DEF Inv, TypeOK
  <1>6. [ra |-> ctx[c].ra, sp |-> ctx[c].sp, s |-> ctx[c].s] = ctx[c]
    BY <1>5 DEF Ctxs
  <1>7. \A k : Frame(k)' = Frame(k)
    BY <1>1, <1>2, <1>4, <1>6 DEF Frame
  <1> QED BY <1>1, <1>4, <1>7, QuietKeeps

\* A parked task yields again.
LEMMA ParkKeeps == ASSUME Inv, CInv, Park PROVE CInv' /\ Still
  <1>1. PICK c : c = current
    OBVIOUS
  <1>2. /\ c \in 1..num_tasks /\ c \in Slots /\ pc = "park" /\ InTask
        /\ sched_ctx.ra = "back" /\ sched_ctx.s.y = c
    BY <1>1, SchedAssumption, SMTT(60) DEF Park, Inv, SwitchDiscipline, InTask, TypeOK, Slots
  <1>3. /\ pc' = "back" /\ regs' = sched_ctx /\ current' = c
        /\ ctx' = [ctx EXCEPT ![c] = [ra |-> "park", sp |-> regs.sp, s |-> regs.s]]
        /\ UNCHANGED <<jobs, called, num_tasks, fn, state>>
    BY <1>1, <1>2 DEF Park, SchedYield, Restore, Saved
  <1>4. ~InTask' /\ Cursor = c /\ Cursor' = c + 1
    BY <1>1, <1>2, <1>3 DEF InTask, Bodies, Cursor
  <1>5. DOMAIN ctx = Slots
    BY DEF Inv, TypeOK
  <1>6. Frame(c).ra = "park"
    BY <1>1, <1>2 DEF Frame
  <1>7. \A k : Frame(k)' = Frame(k)
    BY <1>1, <1>2, <1>3, <1>4, <1>5, SMTT(60) DEF Frame
  <1> QED BY <1>2, <1>3, <1>4, <1>6, <1>7, PassKeeps

-----------------------------------------------------------------------------
(* The bodies of tasks.c, alone.                                           *)

LEMMA StartAlone ==
    ASSUME NEW f \in Bodies, NEW n \in Nat
    PROVE  /\ Alone(f, BodyStart(f), n)
           /\ f = "spinner" => BodyStart(f).x = 0
           /\ f # "spinner" => BodyStart(f).x = 1
  <1>1. CASE f = "heartbeat"
    <2>1. BodyStart(f) = [x |-> 1, y |-> 0, z |-> 0]
      BY <1>1 DEF BodyStart
    <2> QED BY <1>1, <2>1, SMTT(60) DEF Alone
  <1>2. CASE f = "fibonacci"
    <2>1. BodyStart(f) = [x |-> 1, y |-> 0, z |-> 1]
      BY <1>2 DEF BodyStart
    <2> QED BY <1>2, <2>1, LinesAssumption, SMTT(60) DEF Alone
  <1>3. CASE f = "spinner"
    <2>1. BodyStart(f) = [x |-> 0, y |-> 0, z |-> 0]
      BY <1>3 DEF BodyStart
    <2> QED BY <1>3, <2>1, SMTT(60) DEF Alone
  <1> QED BY <1>1, <1>2, <1>3 DEF Bodies

LEMMA StepAlone ==
    ASSUME NEW f \in Bodies, NEW s \in Locals, NEW n \in 0..MaxIter,
           Alone(f, s, n), BodyMore(f, s, n)
    PROVE  /\ Alone(f, BodyStep(f, s), n)
           /\ BodyStep(f, s).x = s.x + 1
           /\ f = "spinner" => BodyLine(f, s) = Lines(f, s.x + 1) /\ s.x < n
           /\ f # "spinner" => BodyLine(f, s) = Lines(f, s.x) /\ s.x >= 1 /\ s.x - 1 < n
  <1>0. n \in Nat /\ s.x \in Nat /\ n <= MaxIter /\ MaxIter \in Nat
    BY SchedAssumption, SMTT(60) DEF Locals
  <1>1. CASE f = "heartbeat"
    <2>1. s.x \in 1..MaxIter /\ s.x <= n
      BY <1>0, <1>1, SMTT(60) DEF Alone, BodyMore
    <2>2. BodyLine(f, s) = s.x
      BY <1>1 DEF BodyLine
    <2>3. Lines(f, s.x) = s.x
      BY <1>1, <2>1, LinesAssumption
    <2>4. BodyStep(f, s).x = s.x + 1
      BY <1>1 DEF BodyStep, Locals
    <2> QED BY <1>0, <1>1, <2>1, <2>2, <2>3, <2>4, SMTT(60) DEF Alone
  <1>2. CASE f = "fibonacci"
    <2>1. s.x \in 1..MaxIter /\ s.x <= n /\ s.z = Lines(f, s.x) /\ s.y = Lines(f, s.x - 1)
      BY <1>0, <1>2, SMTT(60) DEF Alone, BodyMore
    <2>2. BodyLine(f, s) = s.z
      BY <1>2 DEF BodyLine
    <2>3. Lines(f, s.x + 1) = Lines(f, s.x) + Lines(f, s.x - 1)
      BY <1>2, <2>1, LinesAssumption
    <2>4. /\ BodyStep(f, s).x = s.x + 1 /\ BodyStep(f, s).y = s.z
          /\ BodyStep(f, s).z = s.y + s.z
      BY <1>2 DEF BodyStep
    <2>5. s.y \in Nat /\ s.z \in Nat /\ (s.x + 1) - 1 = s.x
      BY <1>0, SMTT(60) DEF Locals
    <2> QED BY <1>0, <1>2, <2>1, <2>2, <2>3, <2>4, <2>5, SMTT(60) DEF Alone
  <1>3. CASE f = "spinner"
    <2>1. s.x + 1 \in 1..MaxIter /\ s.x < n
      BY <1>0, <1>3, SMTT(60) DEF Alone, BodyMore
    <2>2. BodyLine(f, s) = s.x % 4
      BY <1>3 DEF BodyLine
    <2>3. Lines(f, s.x + 1) = s.x % 4
      <3>1. Lines(f, s.x + 1) = ((s.x + 1) - 1) % 4
        BY <1>3, <2>1, LinesAssumption
      <3> QED BY <1>0, <3>1, SMTT(60)
    <2>4. BodyStep(f, s).x = s.x + 1
      BY <1>3 DEF BodyStep, Locals
    <2> QED BY <1>0, <1>3, <2>1, <2>2, <2>3, <2>4, SMTT(60) DEF Alone
  <1> QED BY <1>1, <1>2, <1>3 DEF Bodies

\* The loop ends when every line is printed.
LEMMA EndAlone ==
    ASSUME NEW f \in Bodies, NEW s \in Locals, NEW n \in Nat, Alone(f, s, n), ~BodyMore(f, s, n)
    PROVE  IF f = "spinner" THEN s.x = n ELSE s.x - 1 = n
  BY SMTT(60) DEF Alone, BodyMore, Locals

\* A step of the task c alone.
LEMMA OneMoves ==
    ASSUME CInv, UNCHANGED <<jobs, called, num_tasks, fn>>, pc # "main", pc' # "main",
           NEW c \in 1..num_tasks,
           \A k \in 1..num_tasks : k # c => Frame(k)' = Frame(k) /\ state'[k] = state[k],
           NEW s, (Frame(c).s)' = s, (Frame(c).ra)' \in {"park", fn[c]},
           Alone(fn[c], s, jobs[c].n),
           state'[c] = "DONE" <=> (Frame(c).ra)' = "park",
           (Frame(c).ra)' = "park" => Printed(c)' = jobs[c].n
    PROVE  /\ Registered' /\ Bodied' /\ Ended'
           /\ \A k \in 1..num_tasks : k # c => Printed(k)' = Printed(k)
  <1>1. Registered'
    BY DEF CInv, Registered
  <1>2. Bodied'
    BY SMTT(60) DEF CInv, Bodied, Alone
  <1>3. \A k \in 1..num_tasks : k # c => Printed(k)' = Printed(k)
    BY PrintedKept
  <1>4. Ended'
    BY <1>3 DEF CInv, Ended
  <1> QED BY <1>1, <1>2, <1>3, <1>4

\* What is known of the running task c.
LEMMA RunningTask ==
    ASSUME Inv, CInv, InTask, NEW c, c = current
    PROVE  /\ c \in 1..num_tasks /\ c \in Slots /\ fn[c] \in Bodies /\ Cursor = c
           /\ Frame(c).ra = pc /\ Frame(c).s = regs.s /\ regs.s \in Locals
           /\ jobs[c].n \in 0..MaxIter /\ jobs[c].n \in Nat
           /\ pc \in Bodies => pc = fn[c] /\ Alone(pc, regs.s, jobs[c].n) /\ state[c] = "READY"
           /\ pc = "tramp" => state[c] = "READY"
           /\ sched_ctx.ra = "back" /\ sched_ctx.s.y = c
  <1>1. /\ c \in 1..num_tasks /\ fn[c] \in Bodies /\ sched_ctx.ra = "back" /\ sched_ctx.s.y = c
        /\ state[c] = IF pc = "park" THEN "DONE" ELSE "READY"
    BY DEF Inv, SwitchDiscipline
  <1>2. c \in Slots /\ jobs[c].n \in 0..MaxIter /\ jobs[c].n \in Nat
    BY <1>1, JobsKnown DEF Inv, CInv
  <1>3. Frame(c).ra = pc /\ Frame(c).s = regs.s /\ Cursor = c
    BY DEF Frame, Cursor
  <1>4. regs.s \in Locals
    BY DEF Inv, TypeOK, Ctxs
  <1>5. ASSUME pc \in Bodies PROVE pc = fn[c] /\ Alone(pc, regs.s, jobs[c].n) /\ state[c] = "READY"
    <2>1. pc # "tramp" /\ pc # "park"
      BY <1>5 DEF Bodies
    <2>2. pc \in {"tramp", "park", fn[c]} /\ (pc # "tramp" => Alone(fn[c], regs.s, jobs[c].n))
      BY <1>1, <1>3 DEF CInv, Bodied
    <2> QED BY <1>1, <2>1, <2>2
  <1> QED BY <1>1, <1>2, <1>3, <1>4, <1>5

\* The lines printed, from the locals of a started task.
LEMMA PrintedIs ==
    ASSUME NEW c \in 1..num_tasks, num_tasks \in Nat
    PROVE  Printed(c) = IF Frame(c).ra = "tramp" THEN 0
                        ELSE IF fn[c] = "spinner" THEN Frame(c).s.x ELSE Frame(c).s.x - 1
  BY SMTT(60) DEF Printed

\* task_trampoline calls the body: no line is printed yet.
LEMMA TrampolineKeeps ==
    ASSUME Inv, CInv, Trampoline
    PROVE  CInv' /\ Still
  <1>1. PICK c : c = current
    OBVIOUS
  <1>2. InTask /\ pc = "tramp"
    BY DEF Trampoline, InTask
  <1>3. /\ c \in 1..num_tasks /\ fn[c] \in Bodies /\ Cursor = c /\ jobs[c].n \in Nat
        /\ Frame(c).ra = "tramp" /\ state[c] = "READY"
    BY <1>1, <1>2, RunningTask
  <1>4. /\ pc' = fn[c] /\ regs'.s = BodyStart(fn[c]) /\ current' = c
        /\ UNCHANGED <<jobs, called, num_tasks, fn, state, ctx>>
    BY <1>1 DEF Trampoline, Saved
  <1>5. InTask' /\ Cursor' = c /\ pc' \notin {"main", "tramp", "park"}
    BY <1>3, <1>4 DEF InTask, Bodies, Cursor
  <1>6. (Frame(c).ra)' = fn[c] /\ (Frame(c).s)' = BodyStart(fn[c])
    BY <1>4, <1>5 DEF Frame
  <1>7. \A k \in 1..num_tasks : k # c => Frame(k)' = Frame(k)
    BY <1>1, <1>4 DEF Frame
  <1>8. /\ Registered' /\ Bodied' /\ Ended'
        /\ \A k \in 1..num_tasks : k # c => Printed(k)' = Printed(k)
    BY <1>2, <1>3, <1>4, <1>5, <1>6, <1>7, StartAlone, OneMoves
  <1>9. num_tasks \in Nat
    BY SMTT(60) DEF Inv, TypeOK
  <1>10. Printed(c) = 0
    BY <1>3, <1>9, PrintedIs
  <1>11. Printed(c)' = 0
    BY <1>3, <1>4, <1>6, StartAlone, SMTT(60) DEF Printed
  <1>12. \A k \in 1..num_tasks : Printed(k)' = Printed(k)
    BY <1>8, <1>10, <1>11
  <1>13. PICK r \in Nat : Level(r)
    BY DEF CInv, Levelled
  <1>14. Level(r)'
    BY <1>3, <1>4, <1>5, <1>12, <1>13, LevelKept
  <1> QED BY <1>8, <1>12, <1>14 DEF CInv, Levelled, Still

\* The body returns: every line is printed.
LEMMA BodyReturnKeeps ==
    ASSUME Inv, CInv, BodyReturn
    PROVE  CInv' /\ Still
  <1>1. PICK c : c = current
    OBVIOUS
  <1>2. InTask /\ pc \in Bodies /\ pc # "main" /\ pc # "tramp"
    BY DEF BodyReturn, InTask, Bodies
  <1>3. /\ c \in 1..num_tasks /\ c \in Slots /\ fn[c] \in Bodies /\ Cursor = c /\ jobs[c].n \in Nat
        /\ Frame(c).ra = pc /\ Frame(c).s = regs.s /\ regs.s \in Locals
        /\ pc = fn[c] /\ Alone(pc, regs.s, jobs[c].n)
    BY <1>1, <1>2, RunningTask
  <1>4. /\ pc' = "park" /\ regs' = regs /\ current' = c
        /\ state' = [state EXCEPT ![c] = "DONE"]
        /\ UNCHANGED <<jobs, called, num_tasks, fn, ctx>>
    BY <1>1 DEF BodyReturn
  <1>5. InTask' /\ Cursor' = c
    BY <1>4 DEF InTask, Cursor
  <1>6. (Frame(c).ra)' = "park" /\ (Frame(c).s)' = regs.s
    BY <1>4, <1>5 DEF Frame
  <1>7. state'[c] = "DONE" /\ \A k \in 1..num_tasks : k # c => state'[k] = state[k]
    BY <1>3, <1>4, SMTT(60) DEF Inv, TypeOK
  <1>8. \A k \in 1..num_tasks : k # c => Frame(k)' = Frame(k)
    BY <1>1, <1>4 DEF Frame
  <1>9. num_tasks \in Nat
    BY SMTT(60) DEF Inv, TypeOK
  <1>10. IF fn[c] = "spinner" THEN regs.s.x = jobs[c].n ELSE regs.s.x - 1 = jobs[c].n
    BY <1>1, <1>3, EndAlone, SMTT(60) DEF BodyReturn
  <1>11. Printed(c) = jobs[c].n /\ Printed(c)' = jobs[c].n
    BY <1>2, <1>3, <1>4, <1>6, <1>9, <1>10, SMTT(60) DEF Printed
  <1>12. /\ Registered' /\ Bodied' /\ Ended'
         /\ \A k \in 1..num_tasks : k # c => Printed(k)' = Printed(k)
    BY <1>2, <1>3, <1>4, <1>6, <1>7, <1>8, <1>11, OneMoves
  <1>13. \A k \in 1..num_tasks : Printed(k)' = Printed(k)
    BY <1>11, <1>12
  <1>14. PICK r \in Nat : Level(r)
    BY DEF CInv, Levelled
  <1>15. Level(r)'
    BY <1>3, <1>4, <1>5, <1>13, <1>14, LevelKept
  <1> QED BY <1>12, <1>13, <1>15 DEF CInv, Levelled, Still

\* One iteration of a body: the running task's next line, and a yield.
LEMMA IterateStep ==
    ASSUME Inv, CInv, BodyIterate, NEW c, c = current
    PROVE  /\ c \in 1..num_tasks /\ c \in Slots /\ Cursor = c /\ Cursor' = c + 1
           /\ Printed(c) \in Nat /\ Printed(c) < jobs[c].n /\ Printed(c)' = Printed(c) + 1
           /\ out' = Append(out, <<c, Lines(fn[c], Printed(c) + 1)>>)
           /\ UNCHANGED <<jobs, called, num_tasks, fn, state>>
           /\ Registered' /\ Bodied' /\ Ended'
           /\ \A k \in 1..num_tasks : k # c => Printed(k)' = Printed(k)
  <1>1. InTask /\ pc \in Bodies /\ pc \notin {"main", "tramp", "park"}
    BY DEF BodyIterate, InTask, Bodies
  <1>2. /\ c \in 1..num_tasks /\ c \in Slots /\ fn[c] \in Bodies /\ Cursor = c
        /\ Frame(c).ra = pc /\ Frame(c).s = regs.s /\ regs.s \in Locals
        /\ jobs[c].n \in 0..MaxIter /\ jobs[c].n \in Nat
        /\ pc = fn[c] /\ Alone(pc, regs.s, jobs[c].n) /\ state[c] = "READY"
        /\ sched_ctx.ra = "back" /\ sched_ctx.s.y = c
    BY <1>1, RunningTask
  <1>3. /\ BodyMore(pc, regs.s, jobs[c].n)
        /\ out' = Append(out, <<c, BodyLine(pc, regs.s)>>)
        /\ ctx' = [ctx EXCEPT ![c] = [ra |-> pc, sp |-> regs.sp, s |-> BodyStep(pc, regs.s)]]
        /\ pc' = "back" /\ regs' = sched_ctx /\ current' = c
        /\ UNCHANGED <<jobs, called, num_tasks, fn, state>>
    BY <1>2 DEF BodyIterate, SchedYield, Restore, Saved
  <1>4. /\ Alone(pc, BodyStep(pc, regs.s), jobs[c].n)
        /\ BodyStep(pc, regs.s).x = regs.s.x + 1
        /\ pc = "spinner" => BodyLine(pc, regs.s) = Lines(pc, regs.s.x + 1) /\ regs.s.x < jobs[c].n
        /\ pc # "spinner" => /\ BodyLine(pc, regs.s) = Lines(pc, regs.s.x)
                             /\ regs.s.x >= 1 /\ regs.s.x - 1 < jobs[c].n
    BY <1>2, <1>3, StepAlone, SMTT(60)
  <1>5. ~InTask' /\ Cursor' = c + 1
    BY <1>2, <1>3 DEF InTask, Bodies, Cursor
  <1>6. DOMAIN ctx = Slots /\ num_tasks \in Nat
    BY SMTT(60) DEF Inv, TypeOK
  <1>7. (Frame(c).ra)' = pc /\ (Frame(c).s)' = BodyStep(pc, regs.s)
    BY <1>2, <1>3, <1>5, <1>6 DEF Frame
  <1>8. \A k \in 1..num_tasks : k # c => Frame(k)' = Frame(k)
    BY <1>3, SMTT(60) DEF Frame
  <1>9. regs.s.x \in Nat
    BY <1>2 DEF Locals
  <1>10. /\ Printed(c) = IF pc = "spinner" THEN regs.s.x ELSE regs.s.x - 1
         /\ Printed(c)' = IF pc = "spinner" THEN regs.s.x + 1 ELSE (regs.s.x + 1) - 1
    <2>1. ~(c > num_tasks) /\ ~(c > num_tasks') /\ fn'[c] = pc /\ fn[c] = pc
      BY <1>2, <1>3, <1>6, SMTT(60)
    <2>2. (Frame(c).ra)' # "tramp" /\ (Frame(c).s.x)' = regs.s.x + 1
      BY <1>1, <1>4, <1>7
    <2>3. Frame(c).ra # "tramp" /\ Frame(c).s.x = regs.s.x
      BY <1>1, <1>2
    <2> QED BY <2>1, <2>2, <2>3 DEF Printed
  <1>11. /\ Printed(c) \in Nat /\ Printed(c) < jobs[c].n /\ Printed(c)' = Printed(c) + 1
         /\ BodyLine(pc, regs.s) = Lines(pc, Printed(c) + 1)
    BY <1>4, <1>9, <1>10, SMTT(60)
  <1>12. /\ Registered' /\ Bodied' /\ Ended'
         /\ \A k \in 1..num_tasks : k # c => Printed(k)' = Printed(k)
    <2>1. /\ UNCHANGED <<jobs, called, num_tasks, fn>> /\ pc # "main" /\ pc' # "main"
          /\ c \in 1..num_tasks
          /\ \A k \in 1..num_tasks : k # c => Frame(k)' = Frame(k) /\ state'[k] = state[k]
      BY <1>1, <1>2, <1>3, <1>8
    <2>2. PICK s : s = BodyStep(pc, regs.s)
      OBVIOUS
    <2>3. /\ (Frame(c).s)' = s /\ (Frame(c).ra)' = fn[c] /\ (Frame(c).ra)' # "park"
          /\ Alone(fn[c], s, jobs[c].n) /\ state'[c] # "DONE"
      BY <1>1, <1>2, <1>3, <1>4, <1>7, <2>2
    <2> QED BY <2>1, <2>3, OneMoves
  <1> QED BY <1>2, <1>3, <1>5, <1>11, <1>12

LEMMA BodyIterateKeeps == ASSUME Inv, CInv, BodyIterate PROVE CInv'
  <1>1. PICK c : c = current
    OBVIOUS
  <1>2. /\ c \in 1..num_tasks /\ Cursor = c /\ Cursor' = c + 1
        /\ Printed(c) < jobs[c].n /\ Printed(c)' = Printed(c) + 1
        /\ UNCHANGED <<jobs, called, num_tasks, fn, state>>
        /\ Registered' /\ Bodied' /\ Ended'
        /\ \A k \in 1..num_tasks : k # c => Printed(k)' = Printed(k)
    BY <1>1, IterateStep
  <1>3. PICK r \in Nat : Level(r)
    BY DEF CInv, Levelled
  <1>4. jobs[c].n \in Nat /\ c \in Nat
    BY <1>2, JobsKnown, SMTT(60) DEF Inv, CInv
  <1>5. Printed(c) = r
    BY <1>2, <1>3, <1>4, SMTT(60) DEF Level, Share
  <1>6. Printed(c)' = Share(c, r + 1)
    BY <1>2, <1>4, <1>5, SMTT(60) DEF Share
  <1>7. Level(r)'
    BY <1>2, <1>3, <1>6, LevelServed DEF Inv, CInv
  <1> QED BY <1>2, <1>7 DEF CInv, Levelled

-----------------------------------------------------------------------------
\* Before sched_run no task has run.
LEMMA NotStarted ==
    ASSUME TypeOK, CInv, pc = "main"
    PROVE  ~InTask /\ Cursor = 0 /\ (\A k : Frame(k) = ctx[k]) /\ \A k \in Slots : Printed(k) = 0
  <1>1. ~InTask /\ Cursor = 0
    BY DEF InTask, Bodies, Cursor
  <1>2. \A k : Frame(k) = ctx[k]
    BY <1>1 DEF Frame
  <1>3. ASSUME NEW k \in Slots PROVE Printed(k) = 0
    <2>1. CASE k > num_tasks
      BY <2>1 DEF Printed
    <2>2. CASE ~(k > num_tasks)
      <3>1. k \in 1..num_tasks
        BY <2>2, SchedAssumption, SMTT(60) DEF Slots, TypeOK
      <3> QED BY <3>1 DEF Printed, CInv, Bodied
    <2> QED BY <2>1, <2>2
  <1> QED BY <1>1, <1>2, <1>3

\* task_create: one more task at its trampoline, or a full table.
LEMMA TaskCreateKeeps ==
    ASSUME Inv, CInv, TaskCreate
    PROVE  CInv' /\ \A k \in Slots : Printed(k)' = Printed(k)
  <1>1. /\ pc = "main" /\ pc' = "main" /\ jobs' = jobs /\ called < Len(jobs) /\ called' = called + 1
    BY DEF TaskCreate
  <1>2. /\ num_tasks \in Nat /\ num_tasks <= MaxTasks /\ called \in Nat /\ Len(jobs) \in Nat
        /\ MaxTasks \in Nat
    <2>1. PICK m \in 0..MaxJobs : jobs \in [1..m -> Jobs]
      BY DEF Inv, TypeOK
    <2>2. Len(jobs) = m /\ m \in Nat
      BY <2>1, SchedAssumption, SMTT(60)
    <2> QED BY <2>2, SchedAssumption, SMTT(60) DEF Inv, TypeOK
  <1>3. num_tasks = IF called < MaxTasks THEN called ELSE MaxTasks
    BY DEF CInv, Registered
  <1>4. \A k \in 1..num_tasks : /\ fn[k] = jobs[k].fn /\ ctx[k].ra = "tramp"
                                /\ state[k] # "DONE"
    BY <1>1, NotStarted, SMTT(60) DEF Inv, CInv, Registered, Bodied, SwitchDiscipline
  <1>5. /\ num_tasks' = IF called + 1 < MaxTasks THEN called + 1 ELSE MaxTasks
        /\ num_tasks' \in Nat /\ num_tasks' <= MaxTasks
        /\ \A k \in 1..num_tasks' : /\ fn'[k] = jobs[k].fn /\ ctx'[k].ra = "tramp"
                                    /\ state'[k] # "DONE"
    <2>1. CASE num_tasks >= MaxTasks
      <3>1. UNCHANGED <<num_tasks, fn, state, ctx>>
        BY <1>2, <2>1, SMTT(60) DEF TaskCreate
      <3> QED BY <1>2, <1>3, <1>4, <2>1, <3>1, SMTT(60)
    <2>2. CASE num_tasks < MaxTasks
      <3>1. PICK t : t = num_tasks + 1
        OBVIOUS
      <3>2. /\ num_tasks' = t /\ fn' = [fn EXCEPT ![t] = jobs[called + 1].fn]
            /\ state' = [state EXCEPT ![t] = "READY"]
            /\ ctx' = [ctx EXCEPT ![t] = [ra |-> "tramp", sp |-> t, s |-> ctx[t].s]]
        BY <1>2, <2>2, <3>1, SMTT(60) DEF TaskCreate
      <3>3. called = num_tasks /\ t \in Slots /\ t \in Nat /\ called + 1 = t
        BY <1>2, <1>3, <2>2, <3>1, SMTT(60) DEF Slots
      <3>4. DOMAIN fn = Slots /\ DOMAIN state = Slots /\ DOMAIN ctx = Slots
        BY DEF Inv, TypeOK
      <3>5. fn'[t] = jobs[t].fn /\ ctx'[t].ra = "tramp" /\ state'[t] = "READY"
        BY <3>2, <3>3, <3>4
      <3>6. \A k \in 1..num_tasks : fn'[k] = fn[k] /\ ctx'[k] = ctx[k] /\ state'[k] = state[k]
        <4>1. \A k \in 1..num_tasks : k \in Slots /\ k # t
          BY <1>2, <3>1, SMTT(60) DEF Slots
        <4> QED BY <3>2, <3>4, <4>1
      <3>7. \A k \in 1..t : k = t \/ k \in 1..num_tasks
        BY <1>2, <3>1, SMTT(60)
      <3>8. num_tasks' = IF called + 1 < MaxTasks THEN called + 1 ELSE MaxTasks
        BY <1>2, <2>2, <3>1, <3>2, <3>3, SMTT(60)
      <3>9. num_tasks' \in Nat /\ num_tasks' <= MaxTasks
        BY <1>2, <2>2, <3>1, <3>2, SMTT(60)
      <3>10. \A k \in 1..num_tasks' : /\ fn'[k] = jobs[k].fn /\ ctx'[k].ra = "tramp"
                                      /\ state'[k] # "DONE"
        BY <1>4, <3>2, <3>5, <3>6, <3>7, SMTT(60)
      <3> QED BY <3>8, <3>9, <3>10
    <2> QED BY <1>2, <2>1, <2>2, SMTT(60)
  <1>6. ~InTask' /\ Cursor' = 0 /\ \A k : Frame(k)' = ctx'[k]
    BY <1>1 DEF InTask, Bodies, Cursor, Frame
  <1>7. \A k \in Slots : Printed(k)' = 0
    <2> SUFFICES ASSUME NEW k \in Slots PROVE Printed(k)' = 0
      OBVIOUS
    <2>1. CASE k > num_tasks'
      BY <2>1 DEF Printed
    <2>2. CASE ~(k > num_tasks')
      <3>1. k \in 1..num_tasks'
        BY <1>2, <1>5, <2>2, SMTT(60) DEF Slots
      <3> QED BY <1>5, <1>6, <3>1 DEF Printed
    <2> QED BY <2>1, <2>2
  <1>8. Registered'
    BY <1>1, <1>5 DEF Registered
  <1>9. Bodied'
    BY <1>5, <1>6 DEF Bodied
  <1>10. Ended'
    BY <1>5, <1>6 DEF Ended
  <1>11. \A k \in 1..num_tasks' : k \in Slots /\ jobs[k].n \in Nat
    <2>1. PICK m \in 0..MaxJobs : jobs \in [1..m -> Jobs]
      BY DEF Inv, TypeOK
    <2>2. Len(jobs) = m /\ m \in Nat
      BY <2>1, SchedAssumption, SMTT(60)
    <2>3. num_tasks' <= m
      BY <1>1, <1>2, <1>5, <2>2, SMTT(60)
    <2>4. \A k \in 1..m : jobs[k].n \in Nat
      BY <2>1, SchedAssumption, SMTT(60) DEF Jobs
    <2> QED BY <1>2, <1>5, <2>2, <2>3, <2>4, SMTT(60) DEF Slots
  <1>12. Level(0)'
    BY <1>1, <1>6, <1>7, <1>11, SMTT(60) DEF Level, Share
  <1>13. \A k \in Slots : Printed(k) = 0
    BY <1>1, NotStarted DEF Inv
  <1> QED BY <1>7, <1>8, <1>9, <1>10, <1>12, <1>13 DEF CInv, Levelled

LEMMA InitCInv == Init => CInv
  <1> SUFFICES ASSUME Init PROVE CInv
    OBVIOUS
  <1>1. num_tasks = 0 /\ called = 0 /\ pc = "main" /\ 0 \in Nat
    BY DEF Init
  <1>2. \A k : k \notin 1..num_tasks
    BY <1>1, SMTT(60)
  <1>3. Registered
    BY <1>1, <1>2, SchedAssumption, SMTT(60) DEF Registered
  <1>4. Bodied /\ Ended
    BY <1>2 DEF Bodied, Ended
  <1>5. Level(0)
    BY <1>2 DEF Level
  <1> QED BY <1>1, <1>3, <1>4, <1>5 DEF CInv, Levelled

\* A line is printed by the body's iteration and by nothing else.
LEMMA QuietSteps ==
    ASSUME Inv, CInv, SchedRun \/ While \/ ForSkip \/ Dispatch \/ Back \/ Trampoline \/ BodyReturn \/ Park
    PROVE  CInv' /\ Still /\ UNCHANGED <<jobs, num_tasks, out>>
  <1>1. CASE SchedRun
    BY <1>1, SchedRunKeeps DEF SchedRun
  <1>2. CASE While
    BY <1>2, WhileKeeps DEF While
  <1>3. CASE ForSkip
    BY <1>3, SweepKeeps, SkipKeeps DEF ForSkip
  <1>4. CASE Dispatch
    BY <1>4, DispatchKeeps DEF Dispatch
  <1>5. CASE Back
    BY <1>5, BackKeeps DEF Back
  <1>6. CASE Trampoline
    BY <1>6, TrampolineKeeps DEF Trampoline
  <1>7. CASE BodyReturn
    BY <1>7, BodyReturnKeeps DEF BodyReturn
  <1>8. CASE Park
    BY <1>8, ParkKeeps DEF Park
  <1> QED BY <1>1, <1>2, <1>3, <1>4, <1>5, <1>6, <1>7, <1>8

\* Nothing moves in main's halt.
LEMMA HaltKeeps ==
    ASSUME CInv, UNCHANGED vars
    PROVE  CInv' /\ \A k \in Slots : Printed(k)' = Printed(k)
  <1>1. \A k : Frame(k)' = Frame(k)
    BY DEF vars, Frame, InTask
  <1>2. \A k : Printed(k)' = Printed(k)
    BY <1>1 DEF vars, Printed
  <1>3. Cursor' = Cursor
    BY DEF vars, Cursor, InTask
  <1>4. Registered'
    BY DEF vars, CInv, Registered
  <1>5. Bodied'
    BY <1>1 DEF vars, CInv, Bodied, Alone
  <1>6. Ended'
    BY <1>1, <1>2 DEF vars, CInv, Ended
  <1>7. PICK r \in Nat : Level(r)
    BY DEF CInv, Levelled
  <1>8. Level(r)'
    BY <1>2, <1>3, <1>7 DEF vars, Level, Share
  <1> QED BY <1>2, <1>4, <1>5, <1>6, <1>7, <1>8 DEF CInv, Levelled

LEMMA NextCInv == Inv /\ CInv /\ [Next]_vars => CInv'
  <1> SUFFICES ASSUME Inv, CInv, [Next]_vars PROVE CInv'
    OBVIOUS
  <1>1. CASE TaskCreate
    BY <1>1, TaskCreateKeeps
  <1>2. CASE BodyIterate
    BY <1>2, BodyIterateKeeps
  <1>3. CASE UNCHANGED vars
    BY <1>3, HaltKeeps
  <1>4. CASE SchedRun \/ While \/ ForSkip \/ Dispatch \/ Back \/ Trampoline \/ BodyReturn \/ Park
    BY <1>4, QuietSteps
  <1> QED BY <1>1, <1>2, <1>3, <1>4 DEF Next, Halted

-----------------------------------------------------------------------------
(* The step simulation: an iteration is PrintLine, any other step a stutter. *)

\* The lines counted for every slot of the table.
Counts == [k \in Slots |-> Printed(k)]

\* A still step leaves the empty slots empty.
LEMMA StillCounts ==
    ASSUME TypeOK, UNCHANGED num_tasks, Still
    PROVE  Counts' = Counts
  <1>1. ASSUME NEW k \in Slots PROVE Printed(k)' = Printed(k)
    <2>1. CASE k > num_tasks
      BY <2>1 DEF Printed
    <2>2. CASE ~(k > num_tasks)
      <3>1. k \in 1..num_tasks
        BY <2>2, SchedAssumption, SMTT(60) DEF Slots, TypeOK
      <3> QED BY <3>1 DEF Still
    <2> QED BY <2>1, <2>2
  <1> QED BY <1>1 DEF Counts

\* The pending tasks of the console are registered tasks with lines left.
LEMMA PendingTasks ==
    ASSUME Inv, CInv, pc # "main", NEW j \in RR!Pending
    PROVE  j \in 1..num_tasks /\ j \in Slots /\ Counts[j] = Printed(j) /\ Printed(j) < jobs[j].n
  <1>1. j \in 1..MaxTasks /\ j <= Len(jobs) /\ Counts[j] < jobs[j].n
    BY DEF RR!Pending, Counts
  <1>2. num_tasks = IF Len(jobs) < MaxTasks THEN Len(jobs) ELSE MaxTasks
    BY DEF CInv, Registered
  <1>3. Len(jobs) \in Nat /\ MaxTasks \in Nat
    <2>1. PICK m \in 0..MaxJobs : jobs \in [1..m -> Jobs]
      BY DEF Inv, TypeOK
    <2> QED BY <2>1, SchedAssumption, SMTT(60)
  <1>4. j \in 1..num_tasks /\ j \in Slots
    BY <1>1, <1>2, <1>3, SMTT(60) DEF Slots
  <1> QED BY <1>1, <1>4 DEF Counts

\* The task at the cursor is the one the round-robin order names.
LEMMA RunningIsNext ==
    ASSUME Inv, CInv, pc # "main", NEW c \in 1..num_tasks, Cursor = c, Printed(c) < jobs[c].n
    PROVE  c \in RR!Pending /\ RR!IsNextTask(c)
  <1>1. /\ num_tasks \in Nat /\ num_tasks <= MaxTasks /\ num_tasks <= Len(jobs)
        /\ \A k \in 1..num_tasks : k \in Slots /\ k \in Nat /\ jobs[k].n \in Nat /\ k <= Len(jobs)
    BY JobsKnown, SMTT(60) DEF Inv, CInv
  <1>2. Counts[c] = Printed(c)
    BY <1>1 DEF Counts
  <1>3. c \in RR!Pending
    BY <1>1, <1>2 DEF RR!Pending, Counts, Slots
  <1>4. PICK r \in Nat : Level(r)
    BY DEF CInv, Levelled
  <1>5. Printed(c) = r
    BY <1>1, <1>4, SMTT(60) DEF Level, Share
  <1>6. ASSUME NEW j \in RR!Pending
        PROVE  Counts[c] < Counts[j] \/ (Counts[c] = Counts[j] /\ c <= j)
    <2>1. j \in 1..num_tasks /\ Counts[j] = Printed(j) /\ Printed(j) < jobs[j].n
      BY <1>6, PendingTasks
    <2>2. Printed(j) = IF j < c THEN r + 1 ELSE r
      BY <1>1, <1>4, <2>1, SMTT(60) DEF Level, Share
    <2> QED BY <1>1, <1>2, <1>5, <2>1, <2>2, SMTT(60)
  <1> QED BY <1>3, <1>6 DEF RR!IsNextTask, Counts

\* BodyIterate is PrintLine for the running task.
LEMMA IteratePrints ==
    ASSUME Inv, CInv, BodyIterate
    PROVE  RR!PrintLine
  <1>1. PICK c : c = current
    OBVIOUS
  <1>2. /\ c \in 1..num_tasks /\ c \in Slots /\ Cursor = c
        /\ Printed(c) \in Nat /\ Printed(c) < jobs[c].n /\ Printed(c)' = Printed(c) + 1
        /\ out' = Append(out, <<c, Lines(fn[c], Printed(c) + 1)>>)
        /\ UNCHANGED <<jobs, num_tasks>>
        /\ \A k \in 1..num_tasks : k # c => Printed(k)' = Printed(k)
    BY <1>1, IterateStep
  <1>3. c \in RR!Pending /\ RR!IsNextTask(c)
    <2>1. pc # "main"
      BY DEF BodyIterate, Bodies
    <2> QED BY <1>2, <2>1, RunningIsNext
  <1>4. fn[c] = jobs[c].fn
    BY <1>2 DEF CInv, Registered
  <1>5. ASSUME NEW k \in Slots, k # c PROVE Printed(k)' = Printed(k)
    <2>1. CASE k > num_tasks
      BY <1>2, <2>1 DEF Printed
    <2>2. CASE ~(k > num_tasks)
      <3>1. k \in 1..num_tasks
        BY <2>2, SchedAssumption, SMTT(60) DEF Slots, Inv, TypeOK
      <3> QED BY <1>2, <1>5, <3>1
    <2> QED BY <2>1, <2>2
  <1>6. Counts' = [Counts EXCEPT ![c] = @ + 1]
    BY <1>2, <1>5 DEF Counts
  <1>7. out' = Append(out, <<c, Lines(jobs[c].fn, Counts[c] + 1)>>)
    BY <1>2, <1>4 DEF Counts
  <1> QED BY <1>2, <1>3, <1>6, <1>7 DEF RR!PrintLine, Counts

LEMMA StepRefines ==
    ASSUME Inv, CInv, [Next]_vars
    PROVE  [RR!PrintLine]_(RR!absVars)
  <1>1. CASE BodyIterate
    BY <1>1, IteratePrints
  <1>2. CASE TaskCreate
    <2>1. Counts' = Counts /\ UNCHANGED <<jobs, out>>
      BY <1>2, TaskCreateKeeps DEF Counts, TaskCreate
    <2> QED BY <2>1 DEF RR!absVars, Counts
  <1>3. CASE UNCHANGED vars
    <2>1. Counts' = Counts /\ UNCHANGED <<jobs, out>>
      BY <1>3, HaltKeeps DEF Counts, vars
    <2> QED BY <2>1 DEF RR!absVars, Counts
  <1>4. CASE SchedRun \/ While \/ ForSkip \/ Dispatch \/ Back \/ Trampoline \/ BodyReturn \/ Park
    <2>1. Counts' = Counts /\ UNCHANGED <<jobs, out>>
      BY <1>4, QuietSteps, StillCounts DEF Inv
    <2> QED BY <2>1 DEF RR!absVars, Counts
  <1> QED BY <1>1, <1>2, <1>3, <1>4 DEF Next, Halted

LEMMA InitRefines == Init => RR!RRInit
  <1> SUFFICES ASSUME Init PROVE RR!RRInit
    OBVIOUS
  <1>1. num_tasks = 0 /\ out = <<>>
    BY DEF Init
  <1>2. \A k \in Slots : Printed(k) = 0
    BY <1>1, SchedAssumption, SMTT(60) DEF Printed, Slots
  <1> QED BY <1>1, <1>2 DEF RR!RRInit, Slots

-----------------------------------------------------------------------------
(* The number of unfinished tasks.                                           *)
INSTANCE FiniteSetTheorems

LEMMA TypedCounts == TypeOK => Counting
  <1> SUFFICES ASSUME TypeOK PROVE Counting
    OBVIOUS
  <1>1. num_tasks \in Nat
    BY SchedAssumption, SMTT(60) DEF TypeOK
  <1>2. IsFiniteSet(1..num_tasks) /\ Cardinality(1..num_tasks) = num_tasks
    BY <1>1, FS_Interval, SMTT(60)
  <1>3. IsFiniteSet(Unfinished)
    BY <1>2, FS_Subset DEF Unfinished
  <1>4. Cardinality(Unfinished) \in Nat
    BY <1>3, FS_CardinalityType
  <1>5. \A k \in Unfinished : Cardinality(Unfinished \ {k}) = Cardinality(Unfinished) - 1
    BY <1>3, FS_RemoveElement
  <1>6. Cardinality(Unfinished) = 0 => Unfinished = {}
    BY <1>3, FS_EmptySet
  <1> QED BY <1>2, <1>4, <1>5, <1>6 DEF Counting

LEMMA NextInv == Inv /\ [Next]_vars => Inv'
  BY StepInv, TypedCounts DEF Inv

(* The scheduler's table, contexts and registers keep their types, contexts *)
(* keep their stacks, switches land where they left off, and the countdown  *)
(* of sched_run is exact, for every MAX_TASKS and every workload.           *)
THEOREM SchedSafe == Spec => [](TypeOK /\ StackOwnership /\ SwitchDiscipline /\ CountdownExact)
  BY InitInv, NextInv, PTL DEF Spec, Inv

(* A context runs, and is resumed, on the stack task_create gave it, and    *)
(* the boot code on the boot stack.                                         *)
THEOREM StacksOwned == Spec => []StackOwnership
  BY SchedSafe, PTL

(* ctx_switch resumes a context at the point it left from: a task in its    *)
(* body or at the trampoline, sched_run behind its call.                    *)
THEOREM SwitchesLand == Spec => []SwitchDiscipline
  BY SchedSafe, PTL

\* The types of sched.h's task_t and context_t hold for every MAX_TASKS.
THEOREM SchedTyped == Spec => []TypeOK
  BY SchedSafe, PTL

\* main's halt is reached only with every accepted task DONE (sched_run's loop).
THEOREM HaltSafe == Spec => []HaltOnlyWhenAllDone
  <1>1. Inv => HaltOnlyWhenAllDone
    <2> SUFFICES ASSUME Inv, pc = "halt" PROVE \A k \in 1..num_tasks : state[k] = "DONE"
      BY DEF HaltOnlyWhenAllDone
    <2>1. Counting
      BY TypedCounts DEF Inv
    <2>2. Cardinality(Unfinished) = 0
      BY <2>1, SMTT(60) DEF Counting, Inv, CountdownExact, SwitchDiscipline, Remaining, Uncounted,
         InTask, Bodies
    <2>3. Unfinished = {}
      BY <2>1, <2>2 DEF Counting
    <2> QED BY <2>3 DEF Unfinished
  <1> QED BY <1>1, InitInv, NextInv, PTL DEF Spec

(* The console of demo.elf is a round-robin console: each line printed by a  *)
(* body of tasks.c is the next line of the task RoundRobin names, with the   *)
(* text it has when the body runs alone, for every MAX_TASKS, every list of  *)
(* task_create calls and every number of iterations.                         *)
THEOREM ConsoleRoundRobin == Spec => RR!RRSafety
  <1>1. Init => Inv /\ CInv
    BY InitInv, InitCInv
  <1>2. Inv /\ CInv /\ [Next]_vars => (Inv /\ CInv)'
    BY NextInv, NextCInv
  <1>3. Inv /\ CInv /\ [Next]_vars => [RR!PrintLine]_(RR!absVars)
    BY StepRefines
  <1> QED BY <1>1, <1>2, <1>3, InitRefines, PTL DEF Spec, RR!RRSafety
=============================================================================
