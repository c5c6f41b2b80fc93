-------------------------------- MODULE Smp --------------------------------
(***************************************************************************)
(* The two-hart bring-up of smp.elf: smp_boot.S, smp_main.c, hart1.c,      *)
(* smp_print.c and spinlock.c.  Each hart runs its program, a sequence of  *)
(* operations, against a memory with a store buffer per hart: a store      *)
(* becomes visible at any later moment, stores to different words in any   *)
(* order, and a fence waits for the buffer to drain (RVWMO as far as this  *)
(* code can tell).  Loads are performed in program order: every load of    *)
(* another hart's data follows an amoswap.aq or a fence.                   *)
(*                                                                         *)
(* Cycle stamps count from the release: 0 is a cleared word, 1 + n a stamp *)
(* taken n units after hart 0's release stamp.                             *)
(***************************************************************************)
EXTENDS Integers, Sequences

CONSTANTS Timeout,    \* HART1_TIMEOUT_CYCLES
          MaxCycle    \* bound: the counter stops here

ASSUME SmpAssumption == Timeout \in Nat \ {0} /\ MaxCycle \in Nat /\ MaxCycle >= Timeout

Harts == {0, 1}

\* The words of .bss the harts share.
Words == {"smp_release", "hart1_done", "t_release", "t1_entry", "t1_printed", "t1_sp",
          "uart_lock"}
None == -1

VARIABLES
    mem,      \* word -> value
    buf,      \* hart -> word -> value waiting in the store buffer, or None
    pc,       \* hart -> index of its next operation
    step,     \* hart -> progress inside a locked line
    mid,      \* harts whose line is partly on the console
    got,      \* hart 0's locals: the last value it loaded from each word
    cycle     \* the cycle counter

vars == <<mem, buf, pc, step, mid, got, cycle>>

-----------------------------------------------------------------------------
Op(o, w) == [op |-> o, word |-> w]
Line   == Op("line", "uart_lock")
Fence  == Op("fence", "uart_lock")
Clear(w) == Op("clear", w)
Stamp(w) == Op("stamp", w)
Set(w)   == Op("set", w)
Get(w)   == Op("get", w)
Await(w) == Op("await", w)
Poll     == Op("poll", "hart1_done")
Check    == Op("check", "hart1_done")
Park     == Op("park", "uart_lock")

\* smp_boot.S on hart 0: the bss_loop.
Bss == << Clear("smp_release"), Clear("hart1_done"), Clear("t_release"), Clear("t1_entry"),
          Clear("t1_printed"), Clear("t1_sp"), Clear("uart_lock") >>

\* Mutant: hart 1 is released before the banner.
ReleaseFirst == << Set("smp_release"), Line, Line, Line, Line, Stamp("t_release"), Fence, Line >>

\* smp_main up to the release, and the line after it.
Release == << Line, Line, Line, Line, Stamp("t_release"), Fence, Set("smp_release"), Line >>

\* The wait, and the verification report.
Report == << Poll, Check, Line, Get("t_release"), Line, Get("t1_entry"), Line,
             Get("t1_printed"), Line, Line, Get("t1_entry"), Get("t_release"),
             Get("t1_printed"), Line, Line, Get("t1_sp"), Line, Line, Line, Line, Park >>

\* Mutant: the timeout branch does not park the hart.
GiveUpFallsOff == << Line >>

\* The timeout branch.
GiveUp == << Line, Park >>

Code0 == Bss \o Release \o Report \o GiveUp
Reported == Len(Bss) + Len(Release) + Len(Report)
TimedOut == Reported + 1

\* Mutant: no fence before hart1_done = 1.
Code1NoFence == << Await("smp_release"), Stamp("t1_entry"), Fence, Set("t1_sp"),
                   Line, Line, Line, Line, Stamp("t1_printed"), Set("hart1_done"), Park >>

\* smp_boot.S on hart 1, then hart1_main.
Code1 == << Await("smp_release"), Stamp("t1_entry"), Fence, Set("t1_sp"), Line, Line, Line, Line,
            Stamp("t1_printed"), Fence, Set("hart1_done"), Park >>

Code(h) == IF h = 0 THEN Code0 ELSE Code1
At(h, o) == Code(h)[pc[h]].op = o
Word(h) == Code(h)[pc[h]].word
Advance(h) == pc' = [pc EXCEPT ![h] = pc[h] + 1]

\* RAM reads zero at reset; both harts start at _start.
Init ==
    /\ mem = [w \in Words |-> 0]
    /\ buf = [h \in Harts |-> [w \in Words |-> None]]
    /\ pc = [h \in Harts |-> 1]
    /\ step = [h \in Harts |-> "lock"]
    /\ mid = {}
    /\ got = [w \in Words |-> 0]
    /\ cycle = 0

-----------------------------------------------------------------------------
\* The counter runs from the release stamp on; before it, nothing reads it.
ClockTick ==
    /\ cycle < MaxCycle
    /\ mem["t_release"] # 0 \/ buf[0]["t_release"] > 0
    /\ cycle' = cycle + 1
    /\ UNCHANGED <<mem, buf, pc, step, mid, got>>

Load(h, w) == IF buf[h][w] = None THEN mem[w] ELSE buf[h][w]

\* A store enters the hart's buffer, behind an earlier one to the same word.
Store(h, w, v) ==
    /\ buf[h][w] = None
    /\ buf' = [buf EXCEPT ![h] = [@ EXCEPT ![w] = v]]

\* A buffered store reaches memory.
Drain(h) ==
    /\ \E w \in Words :
         /\ buf[h][w] # None
         /\ mem' = [mem EXCEPT ![w] = buf[h][w]]
         /\ buf' = [buf EXCEPT ![h] = [@ EXCEPT ![w] = None]]
    /\ UNCHANGED <<pc, step, mid, got, cycle>>

BssClear(h) ==
    /\ At(h, "clear")
    /\ Store(h, Word(h), 0)
    /\ Advance(h)
    /\ UNCHANGED <<mem, step, mid, got, cycle>>

\* word = rdcycle()
DoStamp(h) ==
    /\ At(h, "stamp")
    /\ Store(h, Word(h), 1 + cycle)
    /\ Advance(h)
    /\ UNCHANGED <<mem, step, mid, got, cycle>>

\* smp_release = 1, hart1_done = 1, t1_sp = sp (1: a pointer into the slice).
DoSet(h) ==
    /\ At(h, "set")
    /\ Store(h, Word(h), 1)
    /\ Advance(h)
    /\ UNCHANGED <<mem, step, mid, got, cycle>>

\* mem_fence
DoFence(h) ==
    /\ At(h, "fence")
    /\ \A w \in Words : buf[h][w] = None
    /\ Advance(h)
    /\ UNCHANGED <<mem, buf, step, mid, got, cycle>>

DoGet(h) ==
    /\ At(h, "get")
    /\ got' = [got EXCEPT ![Word(h)] = Load(h, Word(h))]
    /\ Advance(h)
    /\ UNCHANGED <<mem, buf, step, mid, cycle>>

\* hart1_wait leaves its loop.
DoAwait(h) ==
    /\ At(h, "await")
    /\ Load(h, Word(h)) # 0
    /\ Advance(h)
    /\ UNCHANGED <<mem, buf, step, mid, got, cycle>>

\* while (!hart1_done && rdcycle() < deadline)
DoPoll(h) ==
    /\ At(h, "poll")
    /\ Load(h, "hart1_done") # 0 \/ cycle >= Timeout
    /\ Advance(h)
    /\ UNCHANGED <<mem, buf, step, mid, got, cycle>>

\* if (!hart1_done): the flag is read again.
DoCheck(h) ==
    /\ At(h, "check")
    /\ pc' = [pc EXCEPT ![h] = IF Load(h, "hart1_done") = 0 THEN TimedOut ELSE pc[h] + 1]
    /\ UNCHANGED <<mem, buf, step, mid, got, cycle>>

\* Mutant: the value the swap returns is ignored.
SpinLockBlind(h) ==
    /\ At(h, "line") /\ step[h] = "lock"
    /\ buf[h]["uart_lock"] = None
    /\ mem' = [mem EXCEPT !["uart_lock"] = 1]
    /\ step' = [step EXCEPT ![h] = "first"]
    /\ UNCHANGED <<buf, pc, mid, got, cycle>>

(* spin_lock: the amoswap is atomic on memory and follows the hart's own   *)
(* earlier store to the lock.  A swap that returns 1 leaves the lock as it *)
(* was, and the hart spins.                                                *)
SpinLock(h) ==
    /\ At(h, "line") /\ step[h] = "lock"
    /\ buf[h]["uart_lock"] = None
    /\ mem["uart_lock"] = 0
    /\ mem' = [mem EXCEPT !["uart_lock"] = 1]
    /\ step' = [step EXCEPT ![h] = "first"]
    /\ UNCHANGED <<buf, pc, mid, got, cycle>>

\* The characters of a line, in two parts.
PutFirst(h) ==
    /\ At(h, "line") /\ step[h] = "first"
    /\ mid' = mid \union {h}
    /\ step' = [step EXCEPT ![h] = "last"]
    /\ UNCHANGED <<mem, buf, pc, got, cycle>>

PutLast(h) ==
    /\ At(h, "line") /\ step[h] = "last"
    /\ mid' = mid \ {h}
    /\ step' = [step EXCEPT ![h] = "unlock"]
    /\ UNCHANGED <<mem, buf, pc, got, cycle>>

\* Mutant: the lock is never stored back to 0.
SpinUnlockKeeps(h) ==
    /\ At(h, "line") /\ step[h] = "unlock"
    /\ step' = [step EXCEPT ![h] = "lock"]
    /\ Advance(h)
    /\ UNCHANGED <<mem, buf, mid, got, cycle>>

\* spin_unlock: fence rw,w, then the store of 0.
SpinUnlock(h) ==
    /\ At(h, "line") /\ step[h] = "unlock"
    /\ \A w \in Words : buf[h][w] = None
    /\ Store(h, "uart_lock", 0)
    /\ step' = [step EXCEPT ![h] = "lock"]
    /\ Advance(h)
    /\ UNCHANGED <<mem, mid, got, cycle>>

(* The loops that only look: a spinning amoswap, the two waits while their *)
(* flags are clear, and the final wfi loops.                               *)
Spin(h) ==
    /\ \/ At(h, "park")
       \/ At(h, "await") /\ Load(h, Word(h)) = 0
       \/ At(h, "poll") /\ Load(h, "hart1_done") = 0 /\ cycle < Timeout
       \/ At(h, "line") /\ step[h] = "lock" /\ mem["uart_lock"] = 1
    /\ UNCHANGED vars

Step(h) == \/ DoStamp(h) \/ DoSet(h) \/ DoFence(h)
           \/ SpinLock(h) \/ PutFirst(h) \/ PutLast(h) \/ SpinUnlock(h)
Hart0 == Step(0) \/ BssClear(0) \/ DoGet(0) \/ DoPoll(0) \/ DoCheck(0)
Hart1 == Step(1) \/ DoAwait(1)

Next == Hart0 \/ Hart1 \/ (\E h \in Harts : Drain(h)) \/ (\E h \in Harts : Spin(h)) \/ ClockTick

Spec == Init /\ [][Next]_vars

\* Both harts run, the counter advances and the buffers drain.
FairSpec ==
    /\ Spec
    /\ WF_vars(Hart0) /\ WF_vars(Hart1) /\ WF_vars(ClockTick)
    /\ WF_vars(Drain(0)) /\ WF_vars(Drain(1))

-----------------------------------------------------------------------------
\* The types of the shared words and of each hart's progress.
TypeOK ==
    /\ mem \in [Words -> 0..(1 + MaxCycle)]
    /\ buf \in [Harts -> [Words -> None..(1 + MaxCycle)]]
    /\ pc[0] \in 1..Len(Code0) /\ pc[1] \in 1..Len(Code1)
    /\ step \in [Harts -> {"lock", "first", "last", "unlock"}]
    /\ mid \subseteq Harts /\ cycle \in 0..MaxCycle

(* Lines from the two harts never interleave: at most one hart has part of *)
(* a line on the console (smp.h, uart_lock; smp_print.c).                  *)
LinesWhole == \A h, k \in mid : h = k

(* Once hart 1 has left its wait, no BSS-clearing store of hart 0 is still *)
(* on its way to memory, where it would undo what hart 1 writes.           *)
NoLateClear == pc[1] > 1 => \A w \in Words \ {"uart_lock"} : buf[0][w] # 0

(* The report's differences are taken of what hart 1 published: hart 0     *)
(* prints it only after hart 1 is done, and neither latency wraps.         *)
ReportFaithful ==
    pc[0] = Reported =>
        /\ At(1, "park")
        /\ 1 <= got["t_release"]
        /\ got["t_release"] <= got["t1_entry"]
        /\ got["t1_entry"] <= got["t1_printed"]
        /\ got["t1_sp"] = 1

\* Hart 0 reaches a verdict: the report or the timeout line.
EventuallyVerdict == <>(At(0, "park"))
=============================================================================
