# Verification of riscv-baremetal-demo

TLA+ models of the bare-metal RISC-V programs under `src/`, TLC configurations
that check them on small instances, and TLAPS proofs about the three schedulers,
the two-hart bring-up, the virtio-blk driver and the shell for every instance. `PROJECT.json` lists the
components, runs, mutants, the line map, findings, hazards and theorems in
machine-readable form.

Contents: 1 the system, 2 modules and how they follow the code, 3 the runs,
4 bounds and fairness, 5 proofs, 6 where the code and its comments disagree,
7 what is not modelled, 8 plan.

## 1. The system

The repository builds one ELF image per program. All images share `boot.S`
(stack, `.bss`, call of `main`) and the polled UART driver `uart.c`; they do not
share state and never run together, so each is a system of its own. They fall
into six larger programs and about 150 small demos.

| Part | State | Operations | What makes it hard |
|---|---|---|---|
| Cooperative scheduler (`sched.c`, `switch.S`, `tasks.c`, `main.c`) | task table, `current`, `sched_ctx`, live registers | `task_create`, `sched_run`, `sched_yield`, `task_trampoline`, `swtch` | `sched_run` keeps `remaining` and `i` in registers that `swtch` swaps; a finished task is counted once; full table |
| Preemptive scheduler (`preempt/`) | trapframes, `mscratch`, deadline and comparator, `done`, statistics | `ptask_create`, `preempt_init`, `preempt_wait`, `trap_entry`, `ptrap_handler`, `preempt_stop`, `preempt_report` | a tick between any two instructions; late ticks; a tick after the quota; stamps written by two handler calls |
| S-mode scheduler and its M-mode baseline (`smode/`) | the same, plus delegation, `mcounteren`, Sstc or the ecall rearm | `m_boot`, `stask_create`, `sched_init`, `sched_wait`, `strap_entry`, `strap_handler`, `stimer_arm`, `stimer_disarm` | two privilege modes, two rearm paths, the last tick must leave the comparator quiet |
| Two-hart bring-up (`smp/`) | shared words, release and done flags, the UART lock | hart 0's main, hart 1's main, `spin_lock`, `spin_unlock`, `locked_puts` and the other locked prints | weak memory, `.bss` cleared while hart 1 runs, a timeout racing a late answer |
| virtio-blk driver (`virtio-blk/`) | device status, queue registers, rings, status byte, buffers | probe, handshake, queue setup, `virtio_kick_wait`, `blk_write`, `blk_read` | driver and device run concurrently; fences; an abandoned request completes later |
| UART shell (`shell/`) | line buffer, cursor, screen, `mscratch` | `read_line`, dispatch, `echo`, `regs` trap | stale bytes after the terminator, a full line, repeated traps |
| Demos (one directory each) | the trap CSRs, mode, CLINT, PLIC, PMP entries, page tables and cached translations, C counters | `main` in M-mode, an S- or U-mode payload, one or two trap entries | a trap in the middle of straight-line code, an interrupt that fires for ever, a handler that returns to the wrong mode or with a register changed, a stale translation, a protection bound off by one |

### Correctness properties wanted, per part

* Cooperative scheduler: contexts own their stacks, a switch resumes where the
  context left off, `remaining` is exact, `main` halts and only when all tasks
  are done, and the console is the round-robin interleaving of the tasks' lines.
* Tick schedulers: interrupted code finds its registers, a task enters its own
  body, latencies are not negative, stamps pair up, the quota is respected, the
  report is reached, and each tick switches to the next task.
* Two harts: lines are whole, hart 1 starts and answers once, no `.bss` store lands
  late, the report uses the stamps hart 1 wrote, a verdict is always printed.
* virtio-blk: DRIVER_OK only after a complete handshake, the device never sees
  half a chain, a request is served at most once, success means it ran, PASS
  means the data is on disk.
* Shell: the screen shows the line that is stored; the command that runs is the
  one typed.
* Demos: every `check()` holds wherever a timer fires, the save area pointer is
  intact at every trap, interrupted registers come back, a RESULT is reached.

## 2. Modules

| Module | Models | Role |
|---|---|---|
| `RoundRobin` | – | what the cooperative scheduler promises: the console, line by line |
| `Sched` | `sched.c`, `switch.S`, `tasks.c`, `main.c` | detailed model |
| `SchedConsole`, `MCSched` | – | the lines each task has printed, read off its context: the mapping to `RoundRobin` |
| `SchedProofs` | – | inductive invariants, theorems and the step simulation of `RoundRobin` |
| `TickSched` | – | what both tick schedulers promise: registration, one switch per tick, one stop |
| `Preempt`, `MCPreempt` | `preempt/` | detailed model; refines `TickSched` |
| `Smode`, `MCSmode` | `smode/` | detailed model of both builds; refines `TickSched` |
| `PreemptInv`, `SmodeInv` | – | inductive invariants, and their parts about types, gates and counts |
| `PreemptProofs`, `SmodeProofs` | – | the saved contexts, theorems and the step simulation of `TickSched` |
| `Rendezvous` | – | what the two-hart program promises: a console with one holder, one start, one answer, one verdict |
| `Smp`, `MCSmp` | `smp/` | two harts with store buffers; refines `Rendezvous` |
| `BlockService` | – | what the virtio-blk path promises main: two requests, served at most once, truthful codes |
| `VirtioBlk`, `MCVirtioBlk` | `virtio-blk/` | driver with store buffers, and the device (external); refines `BlockService` |
| `Shell`, `MCShell` | `shell/` | line editor, dispatch, trap |
| `SmpProofs`, `VirtioBlkProofs`, `ShellProofs` | – | inductive invariants, theorems and the two step simulations |
| `Pmp`, `Sv39` | – | physical memory protection and the Sv39 page walk (external) |
| `Hart` | – | the hart, CLINT and PLIC the demos run on (external) |
| `GateDemos`, `RouteDemos`, `TrapDemos`, `ModeDemos`, `CounterDemos`, `IrqDemos`, `PendDemos`, `PmpDemos`, `VmDemos`, `StateDemos` | 101 demo directories | the demos as programs for `Hart` |
| `Demos`, `MCDemos` | – | boots one demo; execution, interrupts, time, properties |

**Sched.** `swtch` is one step: it stores `ra`, `sp` and `s0-s11` (the locals
`x, y, z`) of one context and loads another. `sched_run`'s `remaining` and `i`
are the live registers' locals, so a switch that loses a register loses the loop
state, as on the hart. One action per loop decision and per task iteration.
`out` is the console, one entry per line. What a body prints when it runs alone is
the parameter `Lines` of `SchedConsole`, known to the proofs by its recurrence
(`LinesAssumption`: a counter, the Fibonacci step, the four spinner signs) and given
to TLC as functions. How many lines a task has printed is its loop variable:
live while the task runs, in its saved context while it does not (`Frame`,
`Printed`), so a switch that lost it would show as a wrong line.

**Preempt and Smode.** The program counter `pc` belongs to the interrupted
context and `tpc` to the trap code; `TrapEntry` may happen between any two
steps of the program. `live` is a ghost copy of each context's registers, which
the handler must give back. Time is relative: `due` and `deadline` are distances
that `ClockTick` decreases, down to `-MaxLate`. The statistics printed at the
end are left out. In `Preempt` the timer is rearmed on the last tick as well, so
`ticks` may exceed `N_TICKS` until `preempt_stop` masks it; `SwitchesMeasured`
and the refinement hold in these cases too.

**Smp.** Each hart writes shared words through a buffer that drains in any order
between fences (RVWMO between two plain stores to different words). Programs are
sequences of operations (`Bss`, `Release`, `Report`, ...), one step each. UART
writes reach the device in program order, as on the emulated board; the lock's
`fence rw,w` would not order device output on a weaker one. `smp_release` lies
in `.bss`, which hart 0 clears while hart 1 already polls it: that order is
explored. `MCSmp` maps it to `Rendezvous`, which has no buffers, flags or lock word:
hart 1 is started when `smp_release` reaches memory and has finished when
`hart1_done` does, its time stamps and stack pointer are what is in memory by then
(`Arrived`), and the console's holder is the hart past `spin_lock` until its
release reaches memory (`Holder`).

**VirtioBlk.** The handshake and the queue setup are the register writes in
order, in both interface versions; the driver's memory writes drain from a
buffer that the fences of `virtio_kick_wait` empty; the device takes a request,
moves data and publishes the used entry in three steps, at any time, also after
the driver gave up. `MCVirtioBlk` maps it to `BlockService`, which has no rings,
registers or fences: a request is asked when `avail_idx` reaches memory and served
when the device moves its data. After a timeout (`late`) the service promises less:
what is served may be either request, and the code tells nothing.

**Shell.** Keys are a character, an erase key, enter or something ignored. The
terminal's screen is modelled next to the buffer, which keeps stale bytes.

**Hart and the demos.** An instruction is a record: a state change, a check, a
print, a window, a poll, a jump, a trap, a return. A demo is its procedures, each
a sequence of instructions in source order, with consecutive readbacks of
one register merged. `Hart` gives CSR writes their legal-value masks, `sie`,
`sip` and `sstatus` their views, traps their stacking and delegation, interrupts
their priority and vectoring. `csrrw t0, xscratch, t0` is `SwapIn`/`SwapOut`;
`Clobber` names the registers the entry and the C handler leave changed; only an
interrupt of the final `wfi` loop finds code that needs none of them, a poll or a
spin loop keeps its count in one. Where an entry goes on using its `t0` after the
call of C, `FromC` lets the handler return with `t0` kept or changed. If it changed,
the loads through it (`LoadBack`) bring nothing back and the exit swap leaves a
"stray" address in `mscratch`; what the program does from there (`Astray`) is not
followed. A `wfi` puts the hart to sleep until an interrupt that `mie` enables is
pending (`Wake`); a loop that tests a flag and then sleeps (`SleepUntil`) is two
instructions, with room for the trap in between. The budget of 10^8 passes that
`stvec-vectored` gives this loop is never used up, because every pass takes a wake-up.
Digests and printed text are left out.
After the RESULT line the demo parks (or the finisher powers the board off). `TrapCap` saturates the counters so
that an interrupt storm is a cycle that `EventuallyVerdict` rejects.

Every fetch, every access to the words a demo probes and every UART access is
checked: the page tables the demo wrote are walked (`Sv39`), the result is matched against the PMP entries
(`Pmp`, with NAPOT, NA4 and TOR ranges, priority and the lock bit), and MPRV
lends an M-mode access the mode in MPP. A translation that was used stays in
`dev.tlb` and is used again, right or stale, until a fence. The hart may drop it
earlier (`Evict`), except in the two demos that print a stale value and so rely on
its being kept (`KeepsStale`). `sfence.vma` drops everything whatever its
operands, as on the emulated hart. Where a demo adapts to the hart, `Harts`
boots it on each kind: the width of the ASID field, the paging modes, a `sip.STIP`
that can or cannot be written, with and without `cbo.zero`.

## 3. Runs

| Run | Question | Result |
|---|---|---|
| `sched` | Is every workload run to completion with private stacks, exact countdown and the round-robin console? | holds, 22 566 states |
| `preempt` | With a tick between any two steps, is the interrupted context kept (apart from t1), are samples sane, is `TickSched` implemented, is the report reached? | holds, 770 180 states |
| `preempt_t1` | Is the *full* context kept, as `psched.h:3` says? | violated |
| `smode` | The same for both S-mode builds on a hart with Sstc, and is the quota never exceeded? | holds, 21 079 states |
| `smode_nosstc` | Does the fallback without Sstc ever report? | violated |
| `smp` | Is the report faithful, is there always a verdict, is `Rendezvous` (whole lines, one start, one answer) implemented? | holds, 5 382 states |
| `virtio` | Is the protocol respected, is there always a result, is `BlockService` (no request served twice, honest PASS) implemented? | holds, 14 918 states |
| `virtio_late_read` | Does `blk_read` returning 0 mean that it read? | violated |
| `shell` | Do screen, buffer and executed command agree? | holds, 5 527 states |
| `shell_regs` | Does every trap find the bank in `mscratch`? | violated |
| `demos` | 101 demos: all checks hold, no wild save, registers kept, RESULT reached? | holds, 6 803 states |
| `demos_save` | Is the minimal save set of `mie-msie-gate` sufficient, as `msie_trap.S:13` says? | violated |

Each property of a passing run has a mutant: a definition of the model changed
as a plausible slip in the code would (a dropped guard, a lost register, a
missing fence, a swapped order), under which TLC reports the property violated.
Mutated forms sit before the definition they change, marked `\* Mutant:`.

## 4. Bounds and fairness

* `sched`: 2 slots, up to 3 registrations, up to 2 iterations: table overflow,
  zero-length tasks and tasks of different length all occur.
* `preempt`, `smode`: 2 slots and 3 registrations (overflow), a quota of 4 ticks
  (both tasks twice, so a stamp pairs across a full round). In `preempt` time stops
  `MaxLate` after an expired comparator; a quantum of 1 with lateness up to 2 lets the
  handler overrun its quantum, so that the skip-ahead loop of `timer_arm` runs and the
  deadline can be past again when it is programmed. In `smode` time runs on and only
  the lateness told apart is capped, so a quantum of 2 and a cap of 1 do the same.
  `MaxExtra` caps the ticks past the quota in `preempt`.
* `smp`: a timeout of 2 and a cycle counter capped at 3: the answer may come
  before, at and after the timeout. Both harts read this one counter: `rdcycle` of two
  harts is assumed synchronised, as on the emulated board, and `ReportFaithful`, which
  orders stamps of both, depends on it.
* `virtio`: 2 slots, so the scan skips one and may find none; one write and one read.
* `shell`: command names of one or two letters and a line of 5 characters, long enough for `echo` with an argument and
  short enough to fill.
* `demos`: `TrapCap` = 6, above every count a demo checks; the identity window of the
  virtual memory demos has 4 pages instead of 128 (`MAP_PAGES`), enough for the
  text, the data and the page that is remapped. The programs are finite.

Fairness is what the hart guarantees. A hart executes its next instruction
(weak fairness of the program), a pending enabled interrupt is taken, `mtime`
advances, a store buffer drains, the device answers. `Smode` adds strong fairness
for leaving the loop of `stimer_arm`, because one pass of it takes less than a
quantum. `VirtioBlk` has no fairness of the timeout: `EventuallyResult` shows that a device
that answers is always heard, and says nothing of a silent device, where the bounded
poll alone would have to end the wait. In `Demos` a timer may come
due before any instruction; only `mideleg-mtip-route` (`Timely`) is given the
assumption its code relies on, that a few instructions after arming are faster
than the timer. Two reads of a counter never return the same value.

## 5. Proofs

The theorems hold for every value of the constants that satisfies the named
assumptions in the table. Each rests on an inductive invariant, found and first checked
with TLC on the instance of the run, with one step lemma (or one case) per
action. `theorems` in `PROJECT.json` lists the results; the ones below are
properties that the runs check, except `LinesWhole` and `PassHonest`, which the
runs check as part of the refinements.

| Module | Assumption | Proved |
|---|---|---|
| `SchedProofs` | `SchedAssumption` (three naturals); for the console also `LinesAssumption` | `TypeOK`, `StackOwnership`, `SwitchDiscipline`, `CountdownExact`, `HaltOnlyWhenAllDone`, and that `Sched` implements `RoundRobin` without its fairness (`RRSafety`) |
| `PreemptInv`, `PreemptProofs` | `PreemptAssumption` | `TypeOK`, `ContextPreserved`, `OwnBody`, `LatencyNonNegative`, `StampsPaired`, `SwitchesMeasured`, and that `Preempt` implements `TickSched` |
| `SmodeInv`, `SmodeProofs` | `SmodeAssumption` | `TypeOK`, `ContextPreserved`, `NoTickPastQuota`, `QuietAfterDone`, and that `Smode` implements `TickSched` |
| `SmpProofs` | `SmpAssumption` | `TypeOK`, `LinesWhole`, `NoLateClear`, `ReportFaithful`, and that `Smp` implements `Rendezvous` |
| `VirtioBlkProofs` | `VirtioAssumption` (at least one slot) | `TypeOK`, `ReadyMeansConfigured`, `ChainWhole`, `SuccessMeansDone`, `PassHonest`, and that `VirtioBlk` implements `BlockService` |
| `ShellProofs` | `ShellAssumption` (`LineMax` > 3) | `TypeOK`, `ScreenShowsLine`, `CommandAsTyped` |

**Sched.** `Inv` is the conjunction of the four invariants; none is inductive
alone. `HaltOnlyWhenAllDone` says nothing before the halt: it follows from
`CountdownExact`, which relates `remaining` to the number of unfinished tasks
and is off by one exactly while a task is DONE and `sched_run` has not
decremented yet (`Uncounted`). `CountdownExact` needs to know that the
saved `sched_ctx` is what comes back and that `current` and `i` name the same
slot, which is `SwitchDiscipline`; that needs each context to be on its own
stack (`StackOwnership`). The only action that changes the set of
unfinished tasks is `BodyReturn`, where `FS_RemoveElement` gives the cardinality;
`Counting` collects the facts about cardinalities that the steps use.

*The console.* `CInv` holds next to `Inv`. `Registered`: the table is the first
`MAX_TASKS` calls, all of them once `sched_run` starts. `Bodied`: a task that has
started has the locals it would have alone after as many lines (`StartAlone`,
`StepAlone`, `EndAlone` for the three bodies). `Ended`: a task is DONE exactly
when it is parked, with all its lines printed. `Levelled`: there is a round `r` in
which the tasks the sweep has passed (slots below `Cursor`) have `r + 1` lines and
the others `r`, or all of theirs if they have fewer. The order of the console alone is
not inductive: that the running task is the next in turn follows from where the sweep
stands, and that its line is right from locals that other tasks' runs left alone.
`BodyIterate` is then `PrintLine`, and every other action a stutter.

**Preempt.** `IInv` adds what holds between the moments the properties speak of.
`Contexts`: the frame of every context that is not running holds its registers
(apart from `t1`) and a pc in its own code; a property that looks only at the
running context cannot be inductive, because the next context comes out of such a
frame. `Gates`: interrupts are off until `preempt_init` is done and inside the
trap, so no second trap overwrites a frame in use. `Counts` and `Quotas`: how
`ticks`, `swn`, the stamps and `done` move together inside the trap, step by
step, and that ticks past the quota find the boot context. `Deadlines`: whenever
a tick can be taken the comparator holds the deadline the handler will subtract.
For the refinement, `Rotated` says that `current` is where `ticks` steps of the
round robin lead (`Turn`, with `TurnNext` for one more step and `TurnIs` for the
closed form), and `StepRefines` shows that every action is
a registration, a switch, the stop or a stutter of `TickSched`.

**Smode.** The same shape; `Quiet` (once `done`, the comparator stays at its
maximum) replaces `Quotas`, because here the last tick does disarm: the quota is
exact, and `done` holds exactly when `ticks` is `N_TICKS`. Both builds and both
rearm paths are covered.

**Smp.** The properties speak of memory, the argument of what is still in the two
store buffers. `Locks`: a hart past `spin_lock` holds the lock word and nobody
has a store to it in flight; the only store that may be pending is a release, or
hart 0's clear while hart 1 still waits. `Boot`: until hart 0 executes the store to
`smp_release`, which follows its fence, hart 1 is at its first wait and the flag
reads 0. `Published`: which of hart 1's words are drained at each
of its instructions, and in which order the stamps lie. `Reads`: after
`hart1_done` was seen, what hart 0 has read is what is in memory, and hart 0 leaves
its wait only with the flag seen or the time over.

*The rendezvous.* The abstract steps happen where a store drains, which is not where
the hart executed it. A drained `smp_release` starts hart 1 (`StartLands`), a
drained `hart1_done` is its answer (`ResultLands`) and finds the payload already
in memory (`Delivered`, from the fence before it), a drained 0 in the lock word lets go
of the console (`ReleaseLands`). For the last of these `Locks` is sharper than mutual
exclusion needs: a lock word that is not 0 has a holder or a release on its way, so the
holder is a function of the state. `Decide` is hart 0's look at the flag when its wait
is over; a result that lands after it changes nothing that was printed. `StepRefines`
puts the cases together; `SmpRefines` has no liveness in it.

**VirtioBlk.** `Stage` numbers the points of a request, from `blk_op`'s stores over
the fences of the kick to the return. `Setup`: what `virtio_init` has written at
each of its steps, and that nothing is shared before DRIVER_OK. `Chain`: at
each stage, which of the four words may still be in the store buffer and what the
driver last stored to them; the first fence makes the chain complete before `avail_idx`
is stored, the second makes `avail_idx` visible before the notification. `Counts`:
how `taken`, `used_idx` and `used_seen` follow `avail_idx`. `Verdict`: unless the
write was abandoned (`Clean`), the device has in hand only the chain of the current
request, so a status byte that was poisoned and reads OK speaks of it. `PassHonest` needs none of
the return codes: the pattern reaches `rbuf` only from a disk that holds
it, also when a late completion is taken for the read. `SuccessMeansDone` and `ChainWhole`
exclude a timed-out write as the run does; `virtio_late_read` shows why.

*The block service.* `Polled` holds next to `IInv`: `used_seen` has counted one used
entry per request that did not time out, and a request that was served has a status byte
the device wrote. The service's steps are again not the driver's: `Ask` is
the drain of `avail_idx` (`DrainSim`), `Serve` the device's `DevMove`. `DevMoveSim`
shows that without a timeout the device moves data only for the request main waits for and
only once: a chain in its hands is not in the used ring, and the used ring has every
earlier request. `ReadStatusSim` shows that the entry the poll saw is this request's, so
the code is 0 or the device's error and never the poison. After a timeout neither
holds, and both steps fall under the weaker promise of `late`.

**Shell.** `Mirror` relates the buffer to the keys typed up to the cursor only (what lies
behind is stale) and to the terminator once the line is run; `Shown` relates the
screen to the buffer. `DispatchFaithful` then follows from lemmas about the C string
functions on a buffer with that terminator (`CStr`, `streq`, `is_echo`).

The leaves are proved by Zenon unless they cite SMT, which is reserved for
arithmetic, strings and records.

Model-checked only: liveness (the `Eventually...` properties and the fairness of
`RoundRobin`, so that no accepted line is lost), that the recurrence of
`LinesAssumption` is met by the functions of `MCSched` (TLC evaluates it), and the
demos, which are fixed programs without parameters, so that TLC's search is exhaustive.

## 6. Where code and comments disagree

Five runs show a disagreement (`findings` quotes both sides): the lost `t1` of
`preempt/trap.S`; the fallback of `smode/` that never fires; the late
completion taken for the next request in `virtio-blk/virtio.c`; `mscratch` after
the first trap of `shell/trap.S`; the save set of `mie-msie-gate/msie_trap.S`.

**`t0` across the C call.** Ten modelled entries (`BaseInT0`: the eight of `MinimalEntry`,
`umode` and `mpp-encoding`) keep the address of the save area in `t0` over the call of
their C handler and then reload registers and `mscratch` through it. `t0` is
caller-saved. Other entries reload it and say why (`ssg_trap.S:67`, `stos_trap.S:67`: "t0 is
caller-saved: the C call may have clobbered it. Reload."). `mcause-warl` and
`sepc-warl`, which are not modelled, have the same entry. `NoWildSave` shows that a stray address
arises nowhere else; `ChecksHold` and `EventuallyVerdict` speak of the runs where the
compiled handler leaves `t0` alone.

**Sleeping after the wake-up.** `stvec-vectored` (`stvv_main.c:135`) and `scause-bit` (`scb_main.c:201`) test
a flag and then execute `wfi` with interrupts open. A timer taken in between has been
disarmed by its handler, and the hart sleeps for ever, although `phase_timer` promises
"nonzero on timeout" (`stvv_main.c:121`). TLC reaches this state; `EventuallyVerdict`
excludes exactly it (`Overslept`) and shows that no other poll hangs.

Observed while reading and not covered by a run (some are listed as hazards):

* several demo entries save fewer registers than they change (`t1`, `t2` or
  `t0`); `Unsaved` in `Demos` names them per demo, and `ContextKept` shows that
  nothing else is lost;
* `mtvec-vectored` never clears `mtv_return_m`, so the timer trap resumes at
  `mtv_m_resume` and not, as `mtv_main.c:87` says, "where it fired"; and
  `mtv_trap.S:19` says that the interrupted `t0` is preserved "across the
  whole trap", but it is swapped back before the C call, which may change it;
* the exit service of `ecall` only replaces the resume pc (`ecall_main.c:118`): `mstatus.MPP` is still
  S, so `m_report` runs in S-mode, where `ecall_main.c:219` says "M-mode report";
* `smode/strap.S` loses the interrupted `t1` as `preempt/trap.S` does: it stamps the
  counters through `t1` (`strap.S:45`) before it stores it (`strap.S:55`), where `ssched.h:10`
  promises "the full interrupted context"; `ContextPreserved` leaves `t1` out;
* `sip-stip-mideleg-reconcile` relies on the reset value of `stimecmp`;
* `menvcfg-stce` writes an exception bit to `mideleg`;
* `mstatus-mprv-load` says "TOR entry over exactly the test page"
  (`mprv_main.c:197`); `pmpcfg0` = 0x08 makes entry 0 the range below the page, and
  the page is denied because no entry matches it;
* the header of `sfence-vma-rs1-scoped` expects a stale value at the second
  address in phase B (`srs_main.c:71`), the check at `srs_main.c:404` the fresh
  one, which is what the model computes;
* `mstatus-sd-summary` calls FS = 2 "Initial" and 1 "Clean", the other way
  round from `sstatus-fs-dirty`;
* counter demos require two successive reads to differ;
* `stvec-vectored-mode` links through `t0`, which its header says is restored;
* the entries of `shell` and `sstatus-fs-off-fp-trap` change `t1` (`shell` also `t2`),
  which the `asm` statement that traps does not declare.

In `smp`, hart 1 stopping for ever with the lock held would block hart 0's
timeout line; `FairSpec` assumes that both harts run.

## 7. Not modelled

`components` in `PROJECT.json` names every directory with the reason. In short:

* latency benchmarks: their outcome is the speed of the emulated hart;
* CSR readback demos: straight-line code whose result is a property of the hart;
* rounding modes, exception flags and integer instruction semantics: 64-bit data
  and no control;
* single-hart atomics: no second actor;
* `mtvec-vectored`: its timer trap returns through whatever is in `ra`, which the
  compiler decides;
* UART baud setup, number formatting, digests.

Five hazards have no property: the trap return of `mtvec-vectored` above, and the
following. The lock's `fence rw,w` does not order device
output on a hart with a weaker UART than the emulated one (`smp/spinlock.c:18`). A
virtqueue of fewer than three entries (`virtio.c:155`) needs a device that offers
one. Equal counter reads (`st_main.c:232`) depend on the host's clock. A fence for one
address that leaves the others cached (`srs_main.c:404`) needs a hart that scopes its
fences; the model's drops everything.

## 8. Plan

1. Fairness in `Rendezvous` and `BlockService`, so that reaching a verdict is part of
   what TLC checks the refinements for.
2. The sort and the statistics of the latency benchmarks as operators checked
   against their definitions.
