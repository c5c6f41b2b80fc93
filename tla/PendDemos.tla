------------------------------ MODULE PendDemos ------------------------------
(***************************************************************************)
(* The demos about the pending and enable registers themselves: which bits *)
(* of sip, sie and mie a write changes, and the PLIC as the source of the  *)
(* external interrupt, polled in M-mode and delegated to S-mode.           *)
(***************************************************************************)
EXTENDS IrqDemos

AllOnes == Interrupts   \* ~0UL, as far as the legal values keep it
PendVars == [m_traps |-> 0, m_cause |-> "none", before |-> {}, after |-> {}, sie_boot |-> {}, b |-> 0,
             rd |-> {}, sticky |-> {}, claimed |-> "none", claimed2 |-> "none", s_traps |-> 0, s_cause |-> "none",
             s_epc |-> Nowhere, s_claim |-> "none", done |-> FALSE, mideleg |-> {}, mideleg_seen |-> {}]

-----------------------------------------------------------------------------
\* sip-seip-write: S-mode cannot change the external pending bit, while the
\* software bit it may change shows that the write took place.
seipw_m_trap_entry == <<SwapIn("mscratch"), CountM, Skip("mepc"), SwapOut("mscratch"), Mret>>
\* The bits that stuck account for all that changed.
Stuck == Read("sip") \cap {"SSI", "STI"}
seipw_s_main ==
  <<Say, Csrc("sstatus", {"SIE"}), Chk(~SIE), Chk(Read("sie") = {}), Say,
    Csrr("before", "sip"), Say, If("SEI" \in mem.before, "abort"), Chk("SEI" \notin mem.before), Say,
    Csrw("sip", AllOnes), Say, Chk("SEI" \notin Read("sip")), Chk("SSI" \in Read("sip")),
    Chk(Read("sip") = mem.before \cup Stuck), Chk(mem.m_traps = 0), Say,
    Csrw("sip", {}), Say, Chk(Read("sip") = mem.before \ {"SSI", "STI"}), Chk(mem.m_traps = 0), Say>> \o Finish
seipw_abort == <<Chk(FALSE), Result, Park>>
seipw_main ==
  <<Say, Csrw("mtvec", Direct("m_trap_entry")), Chk(~csr.mtvec.vectored), Csrw("mscratch", "area"),
    Store("mtimer", "off"), Csrs("menvcfg", {"STCE"}), Chk("STCE" \in csr.menvcfg), Say,
    OpenPmp, Chk(csr.pmp.cfg = Pmpcfg(<<Allow("NAPOT")>>)),
    Csrw("mcounteren", Counters), Csrw("mideleg", {"SSI"}), Chk(csr.mideleg \cap Delegable = {"SSI"}), Say>>
  \o DropByMret("s_main")

-----------------------------------------------------------------------------
\* sip-stip-write: S-mode sets the timer pending bit.  Where the bit sticks, it
\* must trap exactly once when SIE opens; where it does not, it must not trap.
ssw_trap_handler ==
  <<IF First THEN Do(Write(csr, "sip", csr.mip \ {"STI"}), dev, [mem EXCEPT !.cause = csr.scause, !.epc = csr.sepc])
    ELSE Let([mem EXCEPT !.bad_seen = TRUE]),
    IF First THEN Let([mem EXCEPT !.ip_after = Read("sip")]) ELSE Let(mem), Counted>>
ssw_trap_entry == SstcEntry(ssw_trap_handler)
ssw_s_main ==
  <<Say, Store("stimer", "off"), Chk(dev.stimer = "off"), Csrs("sie", {"STI"}), Chk("STI" \in Read("sie")),
    Csrc("sstatus", {"SIE"}), Chk(~SIE), Say, Csrs("sip", {"STI"}), Say,
    If("STI" \in Read("sip"), "open_gate_and_wait"),
    Chk(mem.trap_count = 0), Spin, Say, Chk(mem.trap_count = 0), Say>> \o Finish
ssw_open_gate_and_wait == <<Csrs("sstatus", {"SIE"}), Wait(mem.trap_count # 0), Goto("s_main_after")>>
ssw_s_main_after ==
  <<Say, Chk(mem.trap_count = 1), Chk(SIE), Chk(mem.cause = "STI" /\ mem.epc.proc = "open_gate_and_wait"),
    Chk("STI" \notin mem.ip_after), Say, Spin, Chk(mem.trap_count = 1), Say, Chk("STI" \notin Read("sip")), Say>>
  \o Finish
ssw_main ==
  <<Say, Csrs("menvcfg", {"STCE"}), Chk("STCE" \in csr.menvcfg), Say,
    Store("mtimer", "off"), Store("stimer", "off"), OpenPmp, Csrw("mcounteren", Counters),
    Csrw("mideleg", {"STI"}), Chk("STI" \in csr.mideleg), Say,
    Csrw("mtvec", Direct("m_trap_entry")), Csrw("mscratch", "area"),
    Csrw("stvec", Direct("s_trap_entry")), Csrw("sscratch", "area"), Chk(~csr.stvec.vectored), Say>>
  \o DropByMret("s_main")

-----------------------------------------------------------------------------
\* sie-stie-write: of an all-ones write, sie keeps the delegated bit alone.
stw_trap_entry == <<Let([mem EXCEPT !.m_traps = Bump(@)]), Park>>
stw_main ==
  <<Say, Chk(Read("sie") = {} /\ csr.mideleg = {"H"}),
    Csrw("mtvec", Direct("stw_trap_entry")), Chk(csr.mtvec = Direct("stw_trap_entry")), Say,
    Csrw("mideleg", {"STI"}), Chk(csr.mideleg = {"H", "STI"}), Say,
    Csrw("sie", AllOnes), Say, Chk(Read("sie") = {"STI"}), Csrw("sie", {}), Chk(Read("sie") = {}), Say,
    Csrs("sie", {"STI"}), Chk(Read("sie") = {"STI"}), Csrc("sie", {"STI"}), Chk(Read("sie") = {}), Say,
    Csrw("sie", {}), Csrw("mideleg", {"H"}), Say, Chk(Read("sie") = {} /\ csr.mideleg = {"H"}),
    Chk(mem.m_traps = 0), Say>> \o Finish

\* mie-write-readback: with MIE clear, an all-ones mie enables interrupts that
\* are pending at boot, and none is taken.
mwr_trap_entry == <<SwapIn("mscratch"), CountM, Skip("mepc"), SwapOut("mscratch"), Mret>>
Bit(b) == {i \in Interrupts : Code[i] = b}
mwr_main ==
  <<Say, Chk(~MIE)>> \o Install("mwr_trap_entry")
  \o <<Csrr("sie_boot", "mie"), Say, Chk(~MIE), Csrw("mie", AllOnes), Csrr("after", "mie"), Say,
       Csrw("mie", {}), Chk(csr.mie = {}), Say, Goto("per_bit")>>
\* for (b = 0; b < 12; b++)
mwr_per_bit ==
  <<Csrw("mie", Bit(mem.b)), Csrr("rd", "mie"), Say, Chk(mem.rd \in {{}, Bit(mem.b)}),
    Let([mem EXCEPT !.sticky = @ \cup mem.rd, !.b = @ + 1]), If(mem.b < 12, "per_bit"), Goto("all_ones")>>
mwr_all_ones ==
  <<Chk(mem.sticky # {} \/ mem.after = {}), Say, Csrw("mie", AllOnes), Csrr("rd", "mie"), Say,
    Chk(mem.rd = mem.after), Chk(mem.rd = mem.sticky), Csrw("mie", mem.sie_boot), Say,
    Chk(csr.mie = mem.sie_boot), Chk(~MIE), Chk(mem.m_traps = 0), Result, Park>>

-----------------------------------------------------------------------------
\* plic: claim and complete by polling.  The byte looped back through the UART
\* raises its interrupt line.
plic_main ==
  <<Say, Claim("claimed", 0), Chk(mem.claimed = "none"), EnableUart(0), Chk(0 \in dev.plic.enabled), Say,
    ReceiveByte, Wait(dev.plic.pending), Chk(dev.plic.pending), Say,
    Claim("claimed", 0), Say, Chk(mem.claimed = "uart"), Chk(~dev.plic.pending),
    ReadByte, Chk(~dev.plic.pending), Say, Complete, Say,
    Claim("claimed2", 0), Chk(mem.claimed2 = "none"), Result, Park>>

\* mideleg-route: the timer interrupt, not delegated, traps to M-mode; the
\* external one to S-mode, whose handler claims it, reads the byte, completes.
midr_m_trap_entry ==
  <<SwapIn("mscratch"), CountM,
    IF csr.mcause = "ecall_s" THEN Csrr("mideleg_seen", "mideleg") ELSE Csrc("mip", {"STI"}),
    IF csr.mcause = "ecall_s" THEN Skip("mepc") ELSE Let(mem),
    SwapOut("mscratch"), Mret>>
midr_s_trap_entry ==
  <<SwapIn("sscratch"), Let([mem EXCEPT !.s_traps = Bump(@), !.s_cause = csr.scause, !.s_epc = csr.sepc]),
    Claim("s_claim", 1), ReadByte, Complete, Let([mem EXCEPT !.done = TRUE]), SwapOut("sscratch"), Sret>>
midr_smode_arm_and_wait ==
  <<Let([mem EXCEPT !.done = FALSE]), Csrs("sie", {"SEI"}), Csrs("sstatus", {"SIE"}), Let(mem), Loop(mem.done)>>
midr_smode_main ==
  midr_smode_arm_and_wait
  \o <<Say, Chk(mem.s_traps = 1), Chk(mem.s_cause = "SEI"), Chk(mem.s_epc = [proc |-> "smode_main", at |-> 4]),
       Chk(mem.s_claim = "uart"), Say, Raise(Ecall, 0, {}), Chk(mem.mideleg_seen = mem.mideleg),
       Result, Csrc("sstatus", {"SIE"}), Park>>
midr_main ==
  <<Csrw("mtvec", Direct("m_trap_entry")), Csrw("mscratch", "area"), Say,
    Csrw("mideleg", {}), Csrr("before", "mideleg"), Csrw("mideleg", {"SEI"}), Csrr("mideleg", "mideleg"), Say,
    Chk(mem.mideleg = mem.before \cup {"SEI"}), Chk("STI" \notin mem.mideleg),
    Csrw("medeleg", {}), Chk(csr.medeleg = {}), Csrs("mie", {"STI"}), Csrs("mstatus", {"MIE"}), Csrs("mip", {"STI"}),
    Say, Chk(mem.m_traps = 1), Chk(mem.m_cause = "STI"), Csrw("mie", {}), Csrw("mip", {}),
    Csrw("stvec", Direct("s_trap_entry")), Csrw("sscratch", "area"), OpenPmp, EnableUart(1), Chk(1 \in dev.plic.enabled), Say,
    ReceiveByte, Wait(dev.plic.pending), Chk(dev.plic.pending), Say>> \o DropBySret("smode_main")

-----------------------------------------------------------------------------
\* stvec-vectored: the timer interrupt enters at entry 5 of a table of 16, the
\* external one at entry 9.  A stub records the entry it stands for; the common
\* handler logs the trap, silences its source and raises its done flag.
StvvVars == [m_traps |-> 0, m_cause |-> "none", zero |-> {}, entry |-> 0, ev |-> <<>>, unexpected |-> 0,
             timer_done |-> FALSE, ext_done |-> FALSE, claimed |-> "none", now |-> 0]
stvv_stub(n) == <<SwapIn("sscratch"), Let([mem EXCEPT !.entry = n]), Goto("stvv_common")>>
stvv_stubs == [k \in 1..48 |-> stvv_stub((k - 1) \div 3)[((k - 1) % 3) + 1]]
stvv_table == [k \in 1..16 |-> [kind |-> "goto", to |-> [proc |-> "stvv_stubs", at |-> 3 * k - 2]]]
stvv_common ==
  <<If(Len(mem.ev) >= 4, "stvv_overflow"),
    Let([mem EXCEPT !.ev = Append(@, [scause |-> csr.scause, entry |-> mem.entry])]),
    If(csr.scause = "STI", "stvv_timer_isr"), If(csr.scause = "SEI", "stvv_ext_isr"),
    Let([mem EXCEPT !.unexpected = Bump(@)]), Goto("stvv_resume")>>
stvv_timer_isr == <<Store("stimer", "off"), Let([mem EXCEPT !.timer_done = TRUE]), Goto("stvv_resume")>>
stvv_ext_isr == <<Claim("claimed", 1), ReadByte, Complete, Let([mem EXCEPT !.ext_done = TRUE]), Goto("stvv_resume")>>
stvv_resume == <<SwapOut("sscratch"), Sret>>
stvv_m_trap_entry == <<SwapIn("mscratch"), CountM, SwapOut("mscratch"), Park>>
\* A phase that times out goes to the end of smode_main.  The sleeping polls stop after
\* 10^8 passes, which is out of reach: every pass takes a wake-up.
stvv_phase_timer ==
  <<Rd("now", "TM", {}), Csrs("sie", {"STI"}), Store("stimer", "armed"), Say, Csrs("sstatus", {"SIE"})>>
  \o SleepUntil(mem.timer_done)
  \o <<Csrc("sstatus", {"SIE"}), Csrc("sie", {"STI"}), If(~mem.timer_done, "smode_end"),
    Say, Chk(mem.ev = <<[scause |-> "STI", entry |-> 5]>>), Chk(dev.stimer = "off")>>
stvv_phase_ext ==
  <<ReceiveByte, Wait(dev.plic.pending), If(~dev.plic.pending, "smode_end"), Say,
    Csrs("sie", {"SEI"}), Csrs("sstatus", {"SIE"})>> \o SleepUntil(mem.ext_done)
  \o <<Csrc("sstatus", {"SIE"}), Csrc("sie", {"SEI"}),
    If(~mem.ext_done, "smode_end"), Say, Chk(Len(mem.ev) = 2 /\ mem.ev[2] = [scause |-> "SEI", entry |-> 9]),
    Chk(mem.claimed = "uart"), Goto("smode_end")>>
stvv_smode_main ==
  <<Say, Chk(csr.stvec = Vectored("stvv_table")), Say>> \o stvv_phase_timer \o stvv_phase_ext
stvv_smode_end == <<Chk(Len(mem.ev) = 2), Chk(mem.unexpected = 0), Result, Park>>
stvv_main ==
  <<Say, Csrw("mtvec", Direct("m_trap_entry")), Csrw("mscratch", "area"), Csrs("menvcfg", {"STCE"}), Say,
    Chk("STCE" \in csr.menvcfg), Csrw("mideleg", {}), Csrr("zero", "mideleg"), Say, Csrw("mideleg", {"STI", "SEI"}), Say,
    Chk(csr.mideleg = mem.zero \cup {"STI", "SEI"}), Csrw("medeleg", {}), Say, Chk(csr.medeleg = {}),
    Csrw("mcounteren", Counters), Store("mtimer", "off"), Store("stimer", "off"), OpenPmp,
    Csrw("stvec", Vectored("stvv_table")), Csrw("sscratch", "area"), Say, Chk(csr.stvec = Vectored("stvv_table")),
    EnableUart(1), Say, Chk(1 \in dev.plic.enabled), Chk(mem.m_traps = 0)>> \o DropBySret("smode_main")
=============================================================================
