-------------------------------- MODULE Hart --------------------------------
(***************************************************************************)
(* The hart and the CLINT as the demo programs under src/ use them: the    *)
(* privilege mode, the trap and interrupt CSRs with the legal values of a  *)
(* write, the trap entry and return the privileged architecture defines,   *)
(* memory protection and translation (modules Pmp and Sv39) with the cache *)
(* of translations, and the instructions the demos are written in.  None of this is code of *)
(* the repository; it is the machine (QEMU virt) that code runs on.        *)
(*                                                                         *)
(* A program is a sequence of instructions.  An instruction is a record    *)
(* whose fields are evaluated in the state it executes in, so a program    *)
(* reads the CSRs, the devices and its own variables directly.             *)
(***************************************************************************)
EXTENDS Pmp, Sv39

VARIABLES demo,   \* the demo image that was booted
          priv,   \* the privilege mode of the hart
          pc,     \* [proc, at]: the procedure and the instruction in it
          csr,    \* the control and status registers
          dev,    \* the CLINT (msip, the timer comparators), the PLIC, the counters and
                  \* the TLB, the translations the hart has cached
          mem,    \* the demo's C variables; ram and pt where it has memory and page
                  \* tables of its own
          fails,  \* how many of the demo's checks have failed
          verdict,\* the RESULT line
          frame,  \* the trap being handled: the registers the code it interrupted can
                  \* spare, the ones the handler leaves changed, and whether t0 still
                  \* holds the address of the save area
          lost    \* registers of interrupted code that came back changed

hartVars == <<demo, priv, pc, csr, dev, mem, fails, verdict, frame, lost>>

Modes == {"M", "S", "U"}

\* The standard interrupts, highest priority first, and their cause codes.
Priority == <<"MEI", "MSI", "MTI", "SEI", "SSI", "STI">>
Interrupts == {Priority[i] : i \in 1..Len(Priority)}
Code == [SSI |-> 1, MSI |-> 3, STI |-> 5, MTI |-> 7, SEI |-> 9, MEI |-> 11]

\* mideleg: the supervisor interrupts can be delegated, the hypervisor bits
\* (0x1444, here "H") always read set, every other bit reads zero.
Delegable == {"SSI", "STI", "SEI"}
DelegableTraps == {"fetch_misaligned", "illegal", "breakpoint", "load_fault", "store_fault",
                   "ecall_u", "ecall_s", "fetch_page", "load_page", "store_page"}

\* The registers only M-mode may access.
MachineRegs == {"pmp", "mstatus", "mpp", "mie", "mip", "mideleg", "medeleg", "menvcfg", "mtvec",
                "mscratch", "mepc", "mcause", "mtval", "mhartid", "mcounteren"}

\* The mstatus bits that sstatus shows.
SView == {"SIE", "SPIE", "SPP", "SUM", "MXR", "FS0", "FS1"}

Nowhere == [proc |-> "none", at |-> 0]
At(p) == [proc |-> p, at |-> 1]
Direct(p) == [base |-> p, vectored |-> FALSE]
Vectored(p) == [base |-> p, vectored |-> TRUE]

\* The registers a C function may change, which an assembly trap entry has
\* to save before it calls one.
CallerSaved == {"ra", "t0", "t1", "t2", "t3-t6", "a0", "a1-a7"}

-----------------------------------------------------------------------------
\* Reset values; QEMU enters the image in M-mode with every trap CSR clear.
ResetCsr == [mstatus |-> {}, mpp |-> "U", mie |-> {}, mip |-> {}, mideleg |-> {"H"},
             medeleg |-> {}, menvcfg |-> {}, satp |-> Bare, pmp |-> ResetPmp, stip_sticks |-> FALSE,
             satp_modes |-> {"bare", "sv39", "sv48", "sv57"}, asidlen |-> 16,
             zicboz |-> TRUE, mcounteren |-> {}, scounteren |-> {},
             mhartid |-> 0, mtvec |-> Direct("none"), mscratch |-> "none",
             mepc |-> Nowhere, mcause |-> "none", mtval |-> 0,
             stvec |-> Direct("none"), sscratch |-> "none",
             sepc |-> Nowhere, scause |-> "none", stval |-> 0]
\* Both comparators reset to 0, so both timers are due until they are written.
ResetDev == [msip |-> 0, mtimer |-> "due", stimer |-> "due", count |-> 0, tlb |-> {}, asleep |-> FALSE,
             plic |-> [line |-> FALSE, pending |-> FALSE, claimed |-> FALSE, enabled |-> {}]]

\* mip as it reads: the bits software latched and the ones devices drive.
\* With menvcfg.STCE the supervisor timer bit is the stimecmp comparator, on a
\* hart where a write of the bit does not stick.  Context 0 of the PLIC drives
\* the machine external interrupt, context 1 the supervisor one.
Mip == (IF "STCE" \in csr.menvcfg /\ ~csr.stip_sticks THEN csr.mip \ {"STI"} ELSE csr.mip)
       \cup (IF dev.msip = 1 THEN {"MSI"} ELSE {})
       \cup (IF dev.mtimer = "due" THEN {"MTI"} ELSE {})
       \cup (IF dev.stimer = "due" /\ "STCE" \in csr.menvcfg THEN {"STI"} ELSE {})
       \cup (IF dev.plic.pending THEN {IF c = 0 THEN "MEI" ELSE "SEI" : c \in dev.plic.enabled} ELSE {})

\* The two bits of mstatus.FS: Off is 0 and Dirty is 3, which SD sums up.
FS_MASK == {"FS0", "FS1"}

\* What csrr returns: sie, sip and sstatus are views of the M-mode registers.
Read(r) == CASE r = "mip" -> Mip
             [] r = "mstatus" -> csr.mstatus \cup (IF FS_MASK \subseteq csr.mstatus THEN {"SD"} ELSE {})
             [] r = "sip" -> Mip \cap csr.mideleg
             [] r = "sie" -> csr.mie \cap csr.mideleg
             [] r = "sstatus" -> csr.mstatus \cap SView
             [] OTHER -> csr[r]

\* c with v written to r.  A bit that is read-only keeps its value; a write of satp
\* with a mode the hart does not have changes nothing, and keeps asidlen bits of ASID.
Masked(old, v, mask) == (old \ mask) \cup (v \cap mask)
Write(c, r, v) ==
  CASE r = "mideleg" -> [c EXCEPT !.mideleg = Masked(@, v, Delegable)]
    [] r = "medeleg" -> [c EXCEPT !.medeleg = Masked(@, v, DelegableTraps)]
    [] r = "mie"     -> [c EXCEPT !.mie = Masked(@, v, Interrupts)]
    [] r = "mip"     -> [c EXCEPT !.mip = Masked(@, v, IF "STCE" \in c.menvcfg THEN {"SSI", "SEI"} ELSE Delegable)]
    [] r = "sie"     -> [c EXCEPT !.mie = Masked(@, v, c.mideleg)]
    [] r = "sip"     -> [c EXCEPT !.mip = Masked(@, v, ({"SSI"} \cup (IF c.stip_sticks THEN {"STI"} ELSE {})) \cap c.mideleg)]
    [] r = "mpp"     -> [c EXCEPT !.mpp = IF v \in Modes THEN v ELSE @]
    [] r = "mstatus" -> [c EXCEPT !.mstatus = v \ {"SD"}]
    [] r = "sstatus" -> [c EXCEPT !.mstatus = Masked(@, v, SView)]
    [] r = "satp"    -> [c EXCEPT !.satp = IF v.mode \in c.satp_modes
                                           THEN [v EXCEPT !.asid = @ % 2^c.asidlen] ELSE @]
    [] OTHER         -> [c EXCEPT ![r] = v]

-----------------------------------------------------------------------------
\* Traps.

\* The interrupts that may be taken now, into M-mode and into S-mode.
IntoM == {i \in (Mip \cap csr.mie) \ csr.mideleg : priv # "M" \/ "MIE" \in csr.mstatus}
IntoS == {i \in Mip \cap csr.mie \cap csr.mideleg : priv = "U" \/ (priv = "S" /\ "SIE" \in csr.mstatus)}
Deliverable == IF IntoM # {} THEN IntoM ELSE IntoS
Highest(I) == Priority[CHOOSE i \in 1..Len(Priority) :
                         Priority[i] \in I /\ \A j \in 1..i-1 : Priority[j] \notin I]

Target(tvec, cause) ==
  [proc |-> tvec.base,
   at |-> IF tvec.vectored /\ cause \in Interrupts THEN Code[cause] + 1 ELSE 1]

\* Trap entry: the cause, the pc and the trap value are recorded, the interrupt enable is
\* stacked and cleared, the handler runs in the mode the trap goes to.
TrapM(cause, tval) ==
  /\ csr' = [csr EXCEPT !.mcause = cause, !.mepc = pc, !.mtval = tval, !.mpp = priv,
                        !.mstatus = (@ \ {"MIE", "MPIE"})
                                    \cup (IF "MIE" \in @ THEN {"MPIE"} ELSE {})]
  /\ priv' = "M"
  /\ pc' = Target(csr.mtvec, cause)
TrapS(cause, tval) ==
  /\ csr' = [csr EXCEPT !.scause = cause, !.sepc = pc, !.stval = tval,
                        !.mstatus = (@ \ {"SIE", "SPIE", "SPP"})
                                    \cup (IF "SIE" \in @ THEN {"SPIE"} ELSE {})
                                    \cup (IF priv = "S" THEN {"SPP"} ELSE {})]
  /\ priv' = "S"
  /\ pc' = Target(csr.stvec, cause)

Ecall == CASE priv = "M" -> "ecall_m" [] priv = "S" -> "ecall_s" [] OTHER -> "ecall_u"

\* Trap return: the stacked enable and mode come back; MPRV does not leave M-mode.
LeftBehind(mode) == IF mode = "M" THEN {} ELSE {"MPRV"}
ReturnM ==
  /\ csr' = [csr EXCEPT !.mpp = "U",
                        !.mstatus = (@ \ ({"MIE"} \cup LeftBehind(csr.mpp))) \cup {"MPIE"}
                                    \cup (IF "MPIE" \in @ THEN {"MIE"} ELSE {})]
  /\ priv' = csr.mpp
  /\ pc' = csr.mepc
ReturnS ==
  /\ csr' = [csr EXCEPT !.mstatus = (@ \ {"SIE", "SPP", "MPRV"}) \cup {"SPIE"}
                                    \cup (IF "SPIE" \in @ THEN {"SIE"} ELSE {})]
  /\ priv' = IF "SPP" \in csr.mstatus THEN "S" ELSE "U"
  /\ pc' = csr.sepc

-----------------------------------------------------------------------------
\* The instructions.

Do(c, d, m) == [kind |-> "do", csr |-> c, dev |-> d, mem |-> m]
\* An instruction that raises c with trap value v, in code that can spare the
\* registers R: the ones its asm statement names, or all of them when the trap
\* does not come back to it.
Raise(c, v, R) == [kind |-> "insn", cause |-> c, tval |-> v, free |-> R]
Leave(c) == Raise(c, 0, CallerSaved)
\* Trap values that are not an address: the bits of the instruction, its own pc.
InsnBits == -1
OwnPc == -2
Illegal == Raise("illegal", InsnBits, {})

\* The mode a CSR instruction needs; mstatus.TVM takes satp from S-mode.
Access(r, op) == IF \/ r \in MachineRegs /\ priv # "M"
                    \/ priv = "U"
                    \/ r = "satp" /\ priv = "S" /\ "TVM" \in csr.mstatus
                 THEN Illegal ELSE op
Csrw(r, v) == Access(r, Do(Write(csr, r, v), dev, mem))
\* csrr into the variable f.
Csrr(f, r) == Access(r, Do(csr, dev, [mem EXCEPT ![f] = Read(r)]))
\* csrs and csrc change the register the view shows, through the view's mask.
Base(r) == CASE r = "sie" -> csr.mie [] r = "sip" -> csr.mip
             [] r = "sstatus" -> csr.mstatus [] OTHER -> csr[r]
Csrs(r, v) == Access(r, Do(Write(csr, r, Base(r) \cup v), dev, mem))
Csrc(r, v) == Access(r, Do(Write(csr, r, Base(r) \ v), dev, mem))
\* The handler steps over the trapping instruction: xepc += 4.
Skip(r) == Access(r, Do([csr EXCEPT ![r] = [@ EXCEPT !.at = @ + 1]], dev, mem))
Store(f, v) == Do(csr, [dev EXCEPT ![f] = v], mem)
Let(m) == Do(csr, dev, m)
\* csrrw t0, xscratch, t0 on entry and on exit: the address of the save area
\* and the interrupted t0 change places.  With anything else in xscratch the
\* entry saves registers through a wild pointer; an exit whose t0 no longer
\* holds the address leaves what it does hold, a stray one, for the next trap.
Swapped(old, from, to) == IF old = from THEN to ELSE IF old = "stray" THEN "stray" ELSE "wild"
SwapIn(r) == Access(r, Do([csr EXCEPT ![r] = Swapped(@, "area", "t0")], dev, mem))
SwapOut(r) == Access(r, Do([csr EXCEPT ![r] = Swapped(@, "t0", IF frame.base THEN "area" ELSE "stray")], dev, mem))

\* rdcycle, rdtime or rdinstret into the variable f, enabled below M-mode by bit
\* b of mcounteren and in U-mode by that of scounteren too.  Two reads never
\* return the same value: a demo polls until they differ, or relies on it.
Rd(f, b, R) == IF priv = "M" \/ (b \in csr.mcounteren /\ (priv = "S" \/ b \in csr.scounteren))
               THEN Do(csr, [dev EXCEPT !.count = @ + 1], [mem EXCEPT ![f] = dev.count + 1])
               ELSE Raise("illegal", InsnBits, R)

\* A floating-point instruction that changes the demo's variables to m, and one
\* that only reads a floating-point register into them: illegal with FS off.
FpOp(c, m) == IF csr.mstatus \cap FS_MASK = {} THEN Illegal ELSE Do(c, dev, m)
FpWrite(m) == FpOp([csr EXCEPT !.mstatus = @ \cup FS_MASK], m)
FpRead(m) == FpOp(csr, m)
\* cbo.zero of the block f: below M-mode menvcfg.CBZE has to allow it.
CboZero(f) == IF csr.zicboz /\ (priv = "M" \/ "CBZE" \in csr.menvcfg) THEN Let([mem EXCEPT ![f] = 0]) ELSE Illegal

-----------------------------------------------------------------------------
\* Memory.

\* mstatus.MPRV lends a load or store of M-mode the mode MPP names.
DataMode == IF priv = "M" /\ "MPRV" \in csr.mstatus THEN csr.mpp ELSE priv
Translated(mode) == mode # "M" /\ csr.satp.mode = "sv39"
\* The leaf for an address: a cached one if there is one, right or stale.
Cached(w) == {e \in dev.tlb : e.asid = csr.satp.asid /\ e.vpn = VPN(w)}
Lookup(w) == IF Cached(w) # {} THEN (CHOOSE e \in Cached(w) : TRUE).leaf
             ELSE Walk(mem.pt, csr.satp.root, w)
Physical(mode, w) == IF Translated(mode) THEN Lookup(w).page * PageWords + (w % PageWords) ELSE w
\* A user page is S-mode data with sstatus.SUM only; sstatus.MXR makes what can
\* be executed readable.
PageGrants(leaf, mode, k) ==
  /\ leaf.kind = "leaf"
  /\ IF "U" \in leaf.perm THEN mode = "U" \/ (k # "X" /\ "SUM" \in csr.mstatus) ELSE mode = "S"
  /\ k \in leaf.perm \/ (k = "R" /\ "MXR" \in csr.mstatus /\ "X" \in leaf.perm)

PageFault == [R |-> "load_page", W |-> "store_page", X |-> "fetch_page"]
AccessFault == [R |-> "load_fault", W |-> "store_fault", X |-> "fetch_fault"]
\* The exception an access of kind k to the word w raises.
Fault(mode, k, w) ==
  CASE Translated(mode) /\ ~PageGrants(Lookup(w), mode, k) -> PageFault[k]
    [] ~PmpAllows(csr.pmp, mode, k, Physical(mode, w)) -> AccessFault[k]
    [] OTHER -> "none"
DataFault(k, w) ==
  LET f == Fault(DataMode, k, w)
  IN  IF f = "none" /\ Physical(DataMode, w) \notin DOMAIN mem.ram THEN AccessFault[k] ELSE f
\* An access leaves its translation in the cache.
Filled(w) == IF Translated(DataMode)
             THEN [dev EXCEPT !.tlb = @ \cup {[asid |-> csr.satp.asid, vpn |-> VPN(w), leaf |-> Lookup(w)]}]
             ELSE dev
\* A load of the word w into the variable f and a store of v, in code that can
\* spare the registers R.
Load(f, w, R) == [kind |-> "load", access |-> "R", word |-> w, to |-> f, free |-> R]
StoreAt(w, v, R) == [kind |-> "store", access |-> "W", word |-> w, value |-> v, free |-> R]

\* Where the program's text and the UART are, and the address in a page of its own
\* that demos load from, store to and jump to.
TextWord == 2^29
UartWord == 2^26
FAULT_VA == TextWord + 128 * PageWords
Fetched == IF pc.proc = "fault_va" THEN FAULT_VA ELSE TextWord

\* csrw pmpcfg0 and csrw pmpaddr<i-1>.
Csrw_pmpcfg0(s) == Csrw("pmp", WriteCfg(csr.pmp, Pmpcfg(s)))
Csrw_pmpaddr(i, v) == Csrw("pmp", WriteAddr(csr.pmp, i + 1, v))
\* pmpaddr0 = -1, pmpcfg0 = 0x1f: one entry grants the modes below M all of memory.
OpenPmp == Csrw("pmp", WriteCfg(WriteAddr(csr.pmp, 1, OnesAddr), Pmpcfg(<<Allow("NAPOT")>>)))

-----------------------------------------------------------------------------
\* The UART interrupt at the PLIC: a received byte raises the line and reading it
\* lowers the line; a claim takes the pending bit, and the line can set it again
\* only once the claim is completed.  EnableUart stands for the priority, enable
\* and threshold writes of a context.
Gateway(p) == [p EXCEPT !.pending = @ \/ (p.line /\ ~p.claimed)]
EnableUart(c) == Store("plic", [dev.plic EXCEPT !.enabled = @ \cup {c}])
ReceiveByte == Store("plic", Gateway([dev.plic EXCEPT !.line = TRUE]))
ReadByte == Store("plic", [dev.plic EXCEPT !.line = FALSE])
Claim(f, c) ==
  LET granted == dev.plic.pending /\ c \in dev.plic.enabled
  IN  Do(csr, IF granted THEN [dev EXCEPT !.plic.pending = FALSE, !.plic.claimed = TRUE] ELSE dev,
         [mem EXCEPT ![f] = IF granted THEN "uart" ELSE "none"])
Complete == Store("plic", Gateway([dev.plic EXCEPT !.claimed = FALSE]))

Chk(b) == [kind |-> "check", ok |-> b]       \* check(cond, msg)
\* UART output, slow enough for a timer to fire.
Say == [kind |-> "print", access |-> "W", word |-> UartWord, free |-> {}]
Spin == [kind |-> "spin"]                    \* a bounded window, longer than any timer distance
Wait(b) == [kind |-> "wait", until |-> b]    \* poll until b, failing when the budget runs out
Loop(b) == [kind |-> "loop", until |-> b]    \* poll until b for ever
Goto(p) == [kind |-> "goto", to |-> At(p)]
If(b, p) == [kind |-> "if", cond |-> b, to |-> At(p)]
Branch(b, n) == [kind |-> "if", cond |-> b, to |-> [pc EXCEPT !.at = @ + n]]
\* The registers the trap entry and the C function it calls leave changed.
Clobber(R) == [kind |-> "clobber", regs |-> R]
\* The C handler returns to an entry that goes on using its t0 as the address of
\* the save area.  The calling convention lets the handler change t0: then the
\* loads of R through it bring nothing back.
FromC == [kind |-> "from_c"]
LoadBack(R) == Clobber(CallerSaved \ ({"t0"} \cup (IF frame.base THEN R ELSE {})))
\* mstatus.TSR, TVM and TW make sret, sfence.vma and wfi illegal in S-mode.
Trapped(bit) == priv = "U" \/ (priv = "S" /\ bit \in csr.mstatus)
Mret == IF priv # "M" THEN Illegal ELSE [kind |-> "mret"]
Sret == IF Trapped("TSR") THEN Illegal ELSE [kind |-> "sret"]
\* Whatever its operands, sfence.vma drops every cached translation.
SfenceVma == IF Trapped("TVM") THEN Illegal ELSE Store("tlb", {})
\* wfi retires and the hart sleeps until an interrupt that mie enables is pending,
\* whether or not it may be taken.
Wfi == IF Trapped("TW") THEN Illegal ELSE Store("asleep", TRUE)
\* while (!b) wfi; the test and the wfi are two instructions.
SleepUntil(b) == <<Branch(b, 3), Wfi, Branch(TRUE, -2)>>
Result == [kind |-> "result"]                \* the RESULT line and the finisher write
Park == [kind |-> "park"]                    \* for (;;) wfi

\* Trap counters saturate, which keeps a trap that re-fires for ever a cycle.
TrapCap == 6
Bump(n) == IF n < TrapCap THEN n + 1 ELSE n

Slow == {"print", "spin", "wait", "loop", "park"}
Armed == dev.mtimer = "armed" \/ dev.stimer = "armed"

\* The instruction after the current one.
After == [pc EXCEPT !.at = @ + 1]
=============================================================================
