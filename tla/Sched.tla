-------------------------------- MODULE Sched --------------------------------
(***************************************************************************)
(* The cooperative round-robin scheduler of demo.elf: the task table and   *)
(* loop of sched.c, the register switch of switch.S, the bodies of tasks.c *)
(* and the bring-up of boot.S and main.c, on one hart with interrupts off. *)
(*                                                                         *)
(* The live registers that swtch switches are one record: ra, sp and the   *)
(* callee-saved registers, which hold the locals of the running C          *)
(* function (i, a, b of a body; remaining and i of sched_run).  A stack    *)
(* pointer is abstracted to the stack it points into, a code address to    *)
(* the point of the program it names.                                      *)
(***************************************************************************)
EXTENDS Naturals, Sequences, FiniteSets

CONSTANTS MaxTasks,    \* MAX_TASKS
          MaxJobs,     \* bound: task_create calls made before sched_run
          MaxIter      \* bound: iterations of a body (ITERATIONS is 5)

ASSUME SchedAssumption == MaxTasks \in Nat /\ MaxJobs \in Nat /\ MaxIter \in Nat

Bodies == {"heartbeat", "fibonacci", "spinner"}
Code   == Bodies \cup {"null", "tramp", "park", "while", "for", "back", "main", "halt"}
Slots  == 1..MaxTasks
Boot   == 0                \* the stack set up by boot.S
Stacks == 0..MaxTasks      \* stack k is tasks[k - 1].stack

Locals == [x : Nat, y : Nat, z : Nat]
Ctxs   == [ra : Code, sp : Stacks, s : Locals]
Zero   == [x |-> 0, y |-> 0, z |-> 0]
BssCtx == [ra |-> "null", sp |-> Boot, s |-> Zero]

Jobs == [fn : Bodies, n : 0..MaxIter]

VARIABLES
    jobs,       \* the task_create calls tasks_register makes
    called,     \* how many of them were made so far
    num_tasks,
    fn,         \* tasks[k].fn
    state,      \* tasks[k].state
    ctx,        \* tasks[k].ctx
    current,    \* slot of *current, 0 for the null pointer
    sched_ctx,
    regs,       \* the live sp and callee-saved registers, and ra
    pc,
    out         \* the console

vars == <<jobs, called, num_tasks, fn, state, ctx, current, sched_ctx, regs, pc, out>>

-----------------------------------------------------------------------------
(* The bodies of tasks.c.  x is i; y and z are fibonacci's a and b.        *)

BodyStart(f) == CASE f = "heartbeat" -> [x |-> 1, y |-> 0, z |-> 0]
                  [] f = "fibonacci" -> [x |-> 1, y |-> 0, z |-> 1]
                  [] f = "spinner"   -> [x |-> 0, y |-> 0, z |-> 0]

BodyMore(f, l, n) == IF f = "spinner" THEN l.x < n ELSE l.x <= n

BodyLine(f, l) == CASE f = "heartbeat" -> l.x
                    [] f = "fibonacci" -> l.z
                    [] f = "spinner"   -> l.x % 4

BodyStep(f, l) == IF f = "fibonacci"
                  THEN [x |-> l.x + 1, y |-> l.z, z |-> l.y + l.z]
                  ELSE [l EXCEPT !.x = @ + 1]

-----------------------------------------------------------------------------
\* boot.S: BSS cleared, so the table and the scheduler context are zero.
Init ==
    /\ jobs \in UNION {[1..m -> Jobs] : m \in 0..MaxJobs}
    /\ called = 0
    /\ num_tasks = 0
    /\ fn = [k \in Slots |-> "null"]
    /\ state = [k \in Slots |-> "READY"]
    /\ ctx = [k \in Slots |-> BssCtx]
    /\ current = 0
    /\ sched_ctx = BssCtx
    /\ regs = [ra |-> "main", sp |-> Boot, s |-> Zero]
    /\ pc = "main"
    /\ out = <<>>

(* swtch(old, new): the caller's registers, with ra the return address r   *)
(* of the call, go to the old context; the registers come from new, and    *)
(* ret jumps to the restored ra.                                           *)
Saved(r, s) == [ra |-> r, sp |-> regs.sp, s |-> s]

\* Mutant: the switch reloads everything but sp.
RestoreKeepsSp(new) == regs' = [new EXCEPT !.sp = regs.sp] /\ pc' = new.ra

Restore(new) == regs' = new /\ pc' = new.ra

\* sched_run assigns remaining and i.
SetLoop(remaining, i) == regs' = Saved(regs.ra, [x |-> remaining, y |-> i, z |-> 0])

\* Mutant: the switch does not save s0-s11.
SchedYieldDropsS(r, s) ==
    /\ ctx' = [ctx EXCEPT ![current].ra = r]
    /\ Restore(sched_ctx)

\* sched_yield: swtch(&current->ctx, &sched_ctx).
SchedYield(r, s) ==
    /\ ctx' = [ctx EXCEPT ![current] = Saved(r, s)]
    /\ Restore(sched_ctx)

\* Mutant: the table-full test is off by one.
TaskCreateOverflow ==
    /\ pc = "main"
    /\ called < Len(jobs)
    /\ called' = called + 1
    /\ num_tasks <= MaxTasks
    /\ num_tasks' = num_tasks + 1
    /\ UNCHANGED <<jobs, fn, state, ctx, current, sched_ctx, regs, pc, out>>

\* Mutant: the faked context has no return address.
TaskCreateNoRa ==
    /\ pc = "main"
    /\ called < Len(jobs)
    /\ called' = called + 1
    /\ num_tasks < MaxTasks
    /\ num_tasks' = num_tasks + 1
    /\ fn' = [fn EXCEPT ![num_tasks + 1] = jobs[called + 1].fn]
    /\ ctx' = [ctx EXCEPT ![num_tasks + 1].sp = num_tasks + 1]
    /\ UNCHANGED <<jobs, state, current, sched_ctx, regs, pc, out>>

TaskCreate ==
    /\ pc = "main"
    /\ called < Len(jobs)
    /\ called' = called + 1
    /\ \/ /\ num_tasks >= MaxTasks
          /\ UNCHANGED <<num_tasks, fn, state, ctx>>
       \/ /\ num_tasks < MaxTasks
          /\ num_tasks' = num_tasks + 1
          /\ fn' = [fn EXCEPT ![num_tasks + 1] = jobs[called + 1].fn]
          /\ state' = [state EXCEPT ![num_tasks + 1] = "READY"]
          /\ ctx' = [ctx EXCEPT ![num_tasks + 1] =
                       [ra |-> "tramp", sp |-> num_tasks + 1, s |-> ctx[num_tasks + 1].s]]
    /\ UNCHANGED <<jobs, current, sched_ctx, regs, pc, out>>

\* main calls sched_run: remaining (x) = num_tasks.
SchedRun ==
    /\ pc = "main"
    /\ called = Len(jobs)
    /\ SetLoop(num_tasks, 0)
    /\ pc' = "while"
    /\ UNCHANGED <<jobs, called, num_tasks, fn, state, ctx, current, sched_ctx, out>>

\* while (remaining > 0): start the next sweep, or return to main and halt.
While ==
    /\ pc = "while"
    /\ \/ /\ regs.s.x > 0
          /\ SetLoop(regs.s.x, 1)
          /\ pc' = "for"
       \/ /\ regs.s.x = 0
          /\ pc' = "halt"
          /\ UNCHANGED regs
    /\ UNCHANGED <<jobs, called, num_tasks, fn, state, ctx, current, sched_ctx, out>>

\* for (i ...): end of the sweep, or a finished task is skipped (continue).
ForSkip ==
    /\ pc = "for"
    /\ \/ /\ regs.s.y > num_tasks
          /\ pc' = "while"
          /\ UNCHANGED regs
       \/ /\ regs.s.y <= num_tasks
          /\ state[regs.s.y] = "DONE"
          /\ SetLoop(regs.s.x, regs.s.y + 1)
          /\ UNCHANGED pc
    /\ UNCHANGED <<jobs, called, num_tasks, fn, state, ctx, current, sched_ctx, out>>

\* current = t; swtch(&sched_ctx, &t->ctx).
Dispatch ==
    /\ pc = "for"
    /\ regs.s.y <= num_tasks
    /\ state[regs.s.y] # "DONE"
    /\ current' = regs.s.y
    /\ sched_ctx' = Saved("back", regs.s)
    /\ Restore(ctx[regs.s.y])
    /\ UNCHANGED <<jobs, called, num_tasks, fn, state, ctx, out>>

\* Mutant: remaining-- whenever a task comes back.
BackAlwaysCounts ==
    /\ pc = "back"
    /\ SetLoop(IF regs.s.x > 0 THEN regs.s.x - 1 ELSE 0, regs.s.y + 1)
    /\ pc' = "for"
    /\ UNCHANGED <<jobs, called, num_tasks, fn, state, ctx, current, sched_ctx, out>>

\* Mutant: a finished task is not counted down.
BackNeverCounts ==
    /\ pc = "back"
    /\ SetLoop(regs.s.x, regs.s.y + 1)
    /\ pc' = "for"
    /\ UNCHANGED <<jobs, called, num_tasks, fn, state, ctx, current, sched_ctx, out>>

\* swtch returned in sched_run: if (t->state == TASK_DONE) remaining--.
Back ==
    /\ pc = "back"
    /\ SetLoop(IF state[regs.s.y] = "DONE" THEN regs.s.x - 1 ELSE regs.s.x, regs.s.y + 1)
    /\ pc' = "for"
    /\ UNCHANGED <<jobs, called, num_tasks, fn, state, ctx, current, sched_ctx, out>>

\* task_trampoline, first switch in: current->fn().
Trampoline ==
    /\ pc = "tramp"
    /\ regs' = Saved(regs.ra, BodyStart(fn[current]))
    /\ pc' = fn[current]
    /\ UNCHANGED <<jobs, called, num_tasks, fn, state, ctx, current, sched_ctx, out>>

\* One iteration of a body: print its line, advance the locals, yield.
BodyIterate ==
    /\ pc \in Bodies
    /\ BodyMore(pc, regs.s, jobs[current].n)
    /\ out' = Append(out, <<current, BodyLine(pc, regs.s)>>)
    /\ SchedYield(pc, BodyStep(pc, regs.s))
    /\ UNCHANGED <<jobs, called, num_tasks, fn, state, current, sched_ctx>>

\* The body returns into the trampoline: current->state = TASK_DONE.
BodyReturn ==
    /\ pc \in Bodies
    /\ ~BodyMore(pc, regs.s, jobs[current].n)
    /\ state' = [state EXCEPT ![current] = "DONE"]
    /\ pc' = "park"
    /\ UNCHANGED <<jobs, called, num_tasks, fn, ctx, current, sched_ctx, regs, out>>

\* for (;;) sched_yield() of a finished task.
Park ==
    /\ pc = "park"
    /\ SchedYield("park", regs.s)
    /\ UNCHANGED <<jobs, called, num_tasks, fn, state, current, sched_ctx, out>>

\* main's for (;;) wfi.
Halted == pc = "halt" /\ UNCHANGED vars

Next == \/ TaskCreate \/ SchedRun \/ While \/ ForSkip \/ Dispatch \/ Back
        \/ Trampoline \/ BodyIterate \/ BodyReturn \/ Park \/ Halted

Spec == Init /\ [][Next]_vars

\* A hart with interrupts off keeps executing its next instruction.
FairSpec == Spec /\ WF_vars(Next)

-----------------------------------------------------------------------------
InTask == pc \in Bodies \cup {"tramp", "park"}

\* remaining of sched_run: live in the scheduler, saved while a task runs.
Remaining == IF InTask THEN sched_ctx.s.x ELSE regs.s.x

\* A task is DONE and sched_run has not yet executed its remaining--.
Uncounted == pc = "park" \/ (pc = "back" /\ state[regs.s.y] = "DONE")

Unfinished == {k \in 1..num_tasks : state[k] # "DONE"}

\* The type of every variable of the scheduler (sched.h's task_t and context_t).
TypeOK ==
    /\ jobs \in UNION {[1..m -> Jobs] : m \in 0..MaxJobs}
    /\ called \in 0..Len(jobs)
    /\ num_tasks \in 0..MaxTasks
    /\ fn \in [Slots -> Bodies \cup {"null"}]
    /\ state \in [Slots -> {"READY", "DONE"}]
    /\ ctx \in [Slots -> Ctxs]
    /\ current \in 0..MaxTasks
    /\ sched_ctx \in Ctxs
    /\ regs \in Ctxs
    /\ pc \in Code

(* A context never runs on, and is never saved with, another's stack:      *)
(* swtch carries sp with the context, so a task's frames stay in its own   *)
(* stack[] and the scheduler's in the boot stack (sched.c, task_create).   *)
StackOwnership ==
    /\ regs.sp = IF InTask THEN current ELSE Boot
    /\ InTask => sched_ctx.sp = Boot
    /\ \A k \in 1..num_tasks : ctx[k].sp = k

(* Every switch lands where the context left off: a ready task resumes in  *)
(* its body or its trampoline, a task always returns to the sched_run      *)
(* iteration that dispatched it, and only its own end marks it DONE.       *)
SwitchDiscipline ==
    /\ pc # "null"
    /\ \A k \in 1..num_tasks : /\ fn[k] \in Bodies
                               /\ state[k] = "READY" => ctx[k].ra \in Bodies \cup {"tramp"}
    /\ pc = "main" => \A k \in 1..num_tasks : state[k] = "READY"
    /\ pc = "for" => regs.s.y >= 1
    /\ pc = "back" => regs.s.y \in 1..num_tasks
    /\ pc = "halt" => regs.s.x = 0
    /\ InTask => /\ current \in 1..num_tasks
                 /\ sched_ctx.ra = "back"
                 /\ sched_ctx.s.y = current
                 /\ state[current] = IF pc = "park" THEN "DONE" ELSE "READY"

(* sched_run's countdown is exact: remaining is the number of unfinished   *)
(* tasks, plus the one that finished in the switch the scheduler has not   *)
(* yet returned from.  A task counted down twice, or never, would end the  *)
(* loop early or never end it.                                             *)
CountdownExact ==
    pc # "main" => Remaining = Cardinality(Unfinished) + (IF Uncounted THEN 1 ELSE 0)

\* sched_run returns, and main halts, only when every accepted task is DONE.
HaltOnlyWhenAllDone == pc = "halt" => \A k \in 1..num_tasks : state[k] = "DONE"

\* Every run of demo.elf reaches the final halt of main.
EventuallyHalts == <>(pc = "halt")
=============================================================================
