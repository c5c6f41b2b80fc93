------------------------------ MODULE IrqDemos ------------------------------
(***************************************************************************)
(* More interrupt demos: an external interrupt the handler cannot clear    *)
(* and has to mask instead, one-shot timers disarmed by their handler,     *)
(* vectored dispatch in S-mode, and an interrupt that lands on a wfi.      *)
(***************************************************************************)
EXTENDS CounterDemos

\* The m_regs and s_regs arrays of the demos that drop to S-mode.
IrqVars == [m_traps |-> 0, m_cause |-> "none", m_epc |-> Nowhere, m_ecalls |-> 0, target |-> Nowhere,
            s_traps |-> 0, s_cause |-> "none", s_epc |-> Nowhere, s_sip |-> {}, done |-> FALSE,
            gated |-> FALSE, t0 |-> "none", entry_pc |-> "none", bad |-> FALSE,
            boot_mstatus |-> {}, boot_mpp |-> "U"]

Opened(p) == mem.s_epc = [proc |-> p, at |-> 2]   \* the instruction after csrs sstatus, SIE

-----------------------------------------------------------------------------
\* mideleg-seip-route: S-mode cannot clear the external interrupt M-mode pended
\* in mip, so the handler clears SIE and SPIE and returns with the gate closed.
seip_m_trap_entry == <<SwapIn("mscratch"), CountM, SwapOut("mscratch"), Mret>>
seip_s_trap_entry ==
  <<SwapIn("sscratch"), Let(RecordS(mem)), Csrc("sstatus", {"SIE", "SPIE"}), SwapOut("sscratch"), Sret>>
seip_smode_main ==
  <<Csrs("sie", {"SEI"}), Chk("SEI" \in Read("sie")), Say,
    Let([mem EXCEPT !.done = FALSE]), Spin, Chk(NoTraps), Say, Goto("open_gate")>>
\* Opening the gate: the interrupt is taken at once, exactly once, into S-mode.
seip_delivered(p, n, m) ==
  Chk(mem.s_traps = n /\ mem.s_cause = "SEI" /\ Opened(p) /\ "SEI" \in mem.s_sip /\ mem.m_traps = m)
seip_open_gate ==
  <<Csrs("sstatus", {"SIE"}), Wait(mem.done), Csrc("sstatus", {"SIE"}), Say,
    seip_delivered("open_gate", 1, 0), Spin, Chk(mem.s_traps = 1 /\ mem.m_traps = 0), Say, Result, Park>>
\* The part of main that mideleg-seip-route and mideleg-seip-clear share.
seip_setup ==
  <<Csrw("mtvec", Direct("m_trap_entry")), Csrw("mscratch", "area"),
    Chk(csr.mtvec = Direct("m_trap_entry")), Chk(csr.mideleg = {"H"}), Say,
    Csrw("mideleg", {}), Chk(csr.mideleg = {"H"}), Say,
    Csrw("mideleg", {"SEI"}), Chk(csr.mideleg = {"H", "SEI"}), Say,
    Csrw("mideleg", {"H", "SEI"}), Chk(csr.mideleg = {"H", "SEI"}), Say,
    Csrw("medeleg", {}), Chk(csr.medeleg = {}), Say,
    Csrw("stvec", Direct("s_trap_entry")), Csrw("sscratch", "area"),
    Chk(csr.stvec = Direct("s_trap_entry")), OpenPmp, Csrw("mcounteren", Counters),
    Csrw("mie", {}), Chk(csr.mie = {}), Csrc("mstatus", {"MIE"}), Chk(~MIE),
    Store("mtimer", "off"), Chk(dev.mtimer = "off"), Chk(Mip = {}),
    Csrs("mip", {"SEI"}), Chk(Mip = {"SEI"}), Say>>
seip_main == seip_setup \o DropBySret("smode_main")

-----------------------------------------------------------------------------
\* mideleg-seip-clear: the same interrupt delegated, not delegated and delegated
\* again; an ecall brings S-mode back to M-mode, at the target main stored.
ecall_to_mmode == <<Leave(Ecall), Park>>
\* The handler masks an interrupt it cannot clear: MIE and MPIE.
seipc_m_trap_entry ==
  <<SwapIn("mscratch"), Let([mem EXCEPT !.m_cause = csr.mcause, !.m_epc = csr.mepc]),
    If(csr.mcause \notin Interrupts \cup {"ecall_s"}, "m_park"),
    IF csr.mcause = "ecall_s"
    THEN Do([csr EXCEPT !.mepc = mem.target, !.mpp = "M"], dev, [mem EXCEPT !.m_ecalls = Bump(@)])
    ELSE Do(Write(csr, "mstatus", csr.mstatus \ {"MIE", "MPIE"}), dev, [mem EXCEPT !.m_traps = Bump(@)]),
    SwapOut("mscratch"), Mret>>
seipc_m_park == <<SwapOut("mscratch"), Park>>
seipc_s_trap_entry == seip_s_trap_entry
seipc_smode_main == <<Csrc("sstatus", {"SIE"})>> \o seip_smode_main
seipc_open_gate ==
  <<Csrs("sstatus", {"SIE"}), Wait(mem.done), Csrc("sstatus", {"SIE"}), Say,
    seip_delivered("open_gate", 1, 0)>> \o ecall_to_mmode
\* Phase B: not delegated, and held back by mie.SEIE and mstatus.MIE in turn.
seipc_phase_b ==
  <<Say, Csrw("mideleg", {"H"}), Chk(csr.mideleg = {"H"}), Csrs("mip", {"SEI"}), Chk(Mip = {"SEI"}), Say,
    Csrc("mie", {"SEI"}), Chk(csr.mie = {}), Spin, Chk(mem.s_traps = 1 /\ mem.m_traps = 0), Say,
    Csrs("mie", {"SEI"}), Chk(csr.mie = {"SEI"}), Spin, Chk(mem.s_traps = 1 /\ mem.m_traps = 0), Say,
    Goto("open_mie")>>
seipc_open_mie ==
  <<Csrs("mstatus", {"MIE"}), Wait(mem.m_traps # 0), Say,
    Chk(mem.m_traps = 1 /\ mem.m_cause = "SEI" /\ mem.m_epc = [proc |-> "open_mie", at |-> 2]),
    Chk(mem.s_traps = 1 /\ mem.m_ecalls = 1), Csrc("mie", {"SEI"}), Chk(csr.mie = {}),
    Csrw("mideleg", {"H", "SEI"}), Chk(csr.mideleg = {"H", "SEI"}), Say,
    Let([mem EXCEPT !.target = At("phase_d")])>> \o DropBySret("smode_phase_c")
seipc_smode_phase_c ==
  <<Let([mem EXCEPT !.done = FALSE]), Csrc("sstatus", {"SIE"}), Csrs("sie", {"SEI"}),
    Chk("SEI" \in Read("sie")), Say, Goto("open_again")>>
seipc_open_again ==
  <<Csrs("sstatus", {"SIE"}), Wait(mem.done), Csrc("sstatus", {"SIE"}), Say,
    seip_delivered("open_again", 2, 1)>> \o ecall_to_mmode
seipc_phase_d ==
  <<Csrs("mip", {"SEI"}), Chk(Mip = {"SEI"}), Say, Csrc("mip", {"SEI"}), Chk(Mip = {}),
    Csrc("mie", {"SEI"}), Chk(csr.mie = {}), Chk(~MIE), Spin,
    Chk(mem.s_traps = 2 /\ mem.m_traps = 1 /\ mem.m_ecalls = 2), Say,
    Csrw("mideleg", {"H"}), Chk(csr.mideleg = {"H"}),
    Do([csr EXCEPT !.mstatus = mem.boot_mstatus, !.mpp = mem.boot_mpp], dev, mem), Say,
    Chk(csr.mstatus = mem.boot_mstatus /\ csr.mpp = mem.boot_mpp), Say, Result, Park>>
seipc_main ==
  <<Let([mem EXCEPT !.boot_mstatus = csr.mstatus, !.boot_mpp = csr.mpp]), Say>>
  \o seip_setup \o <<Let([mem EXCEPT !.target = At("phase_b")])>> \o DropBySret("smode_main")

-----------------------------------------------------------------------------
\* sie-ssip-clear-suppresses: with SIE set, sie.SSIE holds back the software
\* interrupt M-mode pended.
ssc_m_trap_entry == <<SwapIn("mscratch"), CountM, SwapOut("mscratch"), Park>>
ssc_s_trap_entry ==
  <<SwapIn("sscratch"), Let(RecordS(mem)), Csrc("sip", {"SSI"}), SwapOut("sscratch"), Sret>>
ssc_gated_window == <<Spin, Let([mem EXCEPT !.gated = @ \/ "SSI" \in Read("sip")])>>
ssc_smode_main ==
  <<Chk(SIE), Say, Chk("SSI" \notin Read("sie")), Say>> \o ssc_gated_window
  \o <<Say, Chk(mem.gated /\ mem.s_traps = 0), Chk("SSI" \notin Read("sie")),
       Let([mem EXCEPT !.done = FALSE]), Goto("open_gate_and_wait")>>
ssc_open_gate_and_wait == <<Csrs("sie", {"SSI"}), Wait(mem.s_traps # 0), Goto("smode_after")>>
ssc_smode_after ==
  <<Say, Chk(mem.s_traps = 1), Chk("SSI" \in Read("sie")), Chk(mem.s_cause = "SSI"),
    Chk(mem.s_epc.proc = "open_gate_and_wait" /\ "SSI" \in mem.s_sip),
    Chk("SSI" \notin Read("sip") /\ mem.m_traps = 0), Say,
    Spin, Say, Chk(mem.s_traps = 1), Say>> \o Finish
\* SPIE is set before the sret, so S-mode starts with SIE set.
ssc_drop_to_smode ==
  <<Csrs("sstatus", {"SPP", "SPIE"}), Csrw("mpp", "S"), Csrw("sepc", At("smode_main")), Sret, Park>>
ssc_main ==
  <<Csrw("mtvec", Direct("m_trap_entry")), Csrw("mscratch", "area"), Say,
    Csrw("mideleg", {"SSI"}), Chk("SSI" \in csr.mideleg /\ "SEI" \notin csr.mideleg), Say,
    Csrw("medeleg", {}), Chk(csr.medeleg = {}),
    Csrw("stvec", Direct("s_trap_entry")), Csrw("sscratch", "area"), OpenPmp, Csrw("mcounteren", Counters),
    Csrw("mie", {}), Csrc("mstatus", {"MIE"}), Csrs("mip", {"SSI"}), Chk("SSI" \in Mip), Say,
    Csrw("sie", {}), Chk(Read("sie") = {}), Say>> \o ssc_drop_to_smode

-----------------------------------------------------------------------------
\* stvec-vectored-mode: an illegal word enters at the base of the table, the
\* software interrupt at the slot of its code.  A slot links through t0.
stvm_table == <<Goto("slot0"), Goto("slot1")>>
stvm_slot0 == <<Let([mem EXCEPT !.t0 = "BASE"]), Goto("stvm_s_entry")>>
stvm_slot1 == <<Let([mem EXCEPT !.t0 = "BASE+4"]), Goto("stvm_s_entry")>>
stvm_s_entry ==
  <<SwapIn("sscratch"), Let([RecordS(mem) EXCEPT !.entry_pc = mem.t0]),
    CASE csr.scause \in Interrupts -> Csrc("sip", {"SSI"})
      [] csr.scause = "illegal" -> Skip("sepc")
      [] OTHER -> Let([mem EXCEPT !.bad = TRUE]),
    Clobber({"t0"}), SwapOut("sscratch"), Sret>>
stvm_m_trap_entry == <<SwapIn("mscratch"), CountM, SwapOut("mscratch"), Mret>>
stvm_smode_main ==
  <<Csrs("sie", {"SSI"}), Let([mem EXCEPT !.done = FALSE]),
    Csrs("sstatus", {"SIE"}), Spin, Csrc("sstatus", {"SIE"}), Chk(NoTraps), Say,
    Csrc("sstatus", {"SIE"}), Let([mem EXCEPT !.done = FALSE]), Goto("illegal_word")>>
stvm_illegal_word ==
  <<Illegal, Wait(mem.done), Say,
    Chk(mem.s_traps = 1 /\ mem.entry_pc = "BASE" /\ mem.s_cause = "illegal"
        /\ mem.s_epc = At("illegal_word") /\ mem.m_traps = 0), Say,
    Csrc("sstatus", {"SIE"}), Csrs("sip", {"SSI"}), Chk(Read("sip") = {"SSI"}), Say,
    Let([mem EXCEPT !.done = FALSE]), Goto("open_gate")>>
stvm_open_gate ==
  <<Csrs("sstatus", {"SIE"}), Wait(mem.done), Csrc("sstatus", {"SIE"}), Say,
    Chk(mem.s_traps = 2 /\ mem.entry_pc = "BASE+4" /\ mem.s_cause = "SSI" /\ Opened("open_gate")), Say,
    Chk(Read("sip") = {} /\ ~mem.bad /\ mem.m_traps = 0),
    Csrs("sstatus", {"SIE"}), Spin, Csrc("sstatus", {"SIE"}), Say,
    Chk(mem.s_traps = 2 /\ mem.m_traps = 0), Result, Park>>
stvm_main ==
  <<Csrw("mtvec", Direct("m_trap_entry")), Csrw("mscratch", "area"), Say,
    Csrw("medeleg", {}), Csrw("medeleg", {"illegal"}), Chk(csr.medeleg = {"illegal"}), Say,
    Csrw("mideleg", {}), Csrw("mideleg", csr.mideleg \cup {"SSI"}), Chk(csr.mideleg = {"H", "SSI"}), Say,
    Csrw("stvec", Vectored("stvm_table")), Chk(csr.stvec = Vectored("stvm_table")), Say,
    Csrw("sscratch", "area"), OpenPmp, Csrw("mie", {}), Csrc("mstatus", {"MIE"}), Csrc("mip", {"SSI"}), Say>>
  \o DropBySret("smode_main")

-----------------------------------------------------------------------------
\* stvec-direct: the handler of the S-mode ecall makes the checks and reports.
svd_main ==
  <<Say, Csrw("stvec", Direct("svd_trap_entry")), Chk(csr.stvec = Direct("svd_trap_entry")), Say,
    Csrs("medeleg", {"ecall_s"}), Chk("ecall_s" \in csr.medeleg), Say,
    OpenPmp, Csrw("sscratch", "area"), If(fails # 0, "ecall_park")>> \o DropByMret("ecall_site")
svd_ecall_site == <<Leave(Ecall), Park>>
svd_trap_entry ==
  <<SwapIn("sscratch"), Let([mem EXCEPT !.s_traps = Bump(@), !.s_cause = csr.scause, !.s_epc = csr.sepc]), Say,
    Chk(mem.s_traps = 1), Chk(mem.s_cause = "ecall_s"), Chk(mem.s_epc = At("ecall_site")),
    Chk(csr.stval = 0), Result, Park>>

\* sip-ssip: a write of sip.SSIP takes effect only when it is delegated.
SipVars == [traps |-> 0, boot_sip |-> {}, boot_mip |-> {}]
sip_trap_entry ==
  <<SwapIn("mscratch"), Let([mem EXCEPT !.traps = Bump(@)]), Clobber({"t1"}), SwapOut("mscratch"), Mret>>
sip_main ==
  <<Say, Chk("MSI" \notin csr.mie /\ ~MIE)>> \o Install("sip_trap_entry")
  \o <<Let([mem EXCEPT !.boot_sip = Read("sip"), !.boot_mip = Mip]), Say, Chk("SSI" \notin csr.mideleg),
       Csrs("sip", {"SSI"}), Chk(Read("sip") = mem.boot_sip /\ "SSI" \notin Mip), Say,
       Csrw("mideleg", csr.mideleg \cup {"SSI"}), Chk("SSI" \in csr.mideleg), Say,
       Csrs("sip", {"SSI"}), Say, Chk("SSI" \in Read("sip") /\ Read("sip") \ {"SSI"} = mem.boot_sip \ {"SSI"}),
       Chk("SSI" \in Mip /\ Mip \ {"SSI"} = mem.boot_mip \ {"SSI"}), Say,
       Csrc("sip", {"SSI"}), Say, Chk(Read("sip") = mem.boot_sip /\ Mip \ {"SSI"} = mem.boot_mip \ {"SSI"}),
       Chk("SSI" \notin Mip), Csrw("mideleg", csr.mideleg \ {"SSI"}), Say,
       Chk(csr.mideleg = {"H"} /\ Read("sip") = mem.boot_sip), Chk(mem.traps = 0),
       Chk("MSI" \notin csr.mie /\ ~MIE), Result, Park>>

-----------------------------------------------------------------------------
\* wfi-resume-pc: three times, a pending software interrupt lands on the wfi;
\* the handler steps over it and every register comes back.
RpcVars == [traps |-> 0, mcause |-> "none", mepc |-> Nowhere, wfi_addr |-> Nowhere,
            resume_pc |-> Nowhere, before |-> 0]
\* Mutant: the entry returns without swapping mscratch back (rpc_trap.S:123).
rpc_trap_entry_no_swap ==
  <<SwapIn("mscratch"), Do(csr, [dev EXCEPT !.msip = 0],
       [mem EXCEPT !.mcause = csr.mcause, !.mepc = csr.mepc, !.traps = Bump(@)]),
    Skip("mepc"), Clobber({}), Mret>>
rpc_trap_entry ==
  <<SwapIn("mscratch"), Do(csr, [dev EXCEPT !.msip = 0],
       [mem EXCEPT !.mcause = csr.mcause, !.mepc = csr.mepc, !.traps = Bump(@)]),
    Skip("mepc"), Clobber({}), SwapOut("mscratch"), Mret>>
rpc_one_run ==
  <<Let([mem EXCEPT !.wfi_addr = [pc EXCEPT !.at = @ + 2]]), Csrs("mstatus", {"MIE"}), Wfi,
    Let([mem EXCEPT !.resume_pc = pc])>>
rpc_run ==
  <<Let([mem EXCEPT !.before = mem.traps, !.mcause = "none", !.mepc = Nowhere]),
    Store("msip", 0), Chk(dev.msip = 0), Store("msip", 1), Chk(dev.msip = 1), Say>>
  \o rpc_one_run
  \o <<Csrc("mstatus", {"MIE"}), Say, Chk(mem.traps = mem.before + 1 /\ mem.mcause = "MSI"),
       Chk(mem.mepc = mem.wfi_addr /\ mem.resume_pc = Next4(mem.wfi_addr)), Chk(dev.msip = 0),
       Chk(lost = {}), Say>>
rpc_main ==
  <<Say>> \o Install("rpc_trap_entry")
  \o <<Csrs("mie", {"MSI"}), Csrc("mstatus", {"MIE"}), Store("msip", 0),
       Csrs("mstatus", {"MIE"}), Spin, Csrc("mstatus", {"MIE"}), Chk(mem.traps = 0), Say>>
  \o rpc_run \o rpc_run \o rpc_run \o <<Csrc("mie", {"MSI"}), Result, Park>>

-----------------------------------------------------------------------------
\* mtimecmp-oneshot and stimecmp-one-shot: one arming of the timer is one trap.
\* The gate is opened for the poll loop only.
OneShotVars == [trap_count |-> 0, flag |-> FALSE, cause |-> "none", epc |-> Nowhere, ip_after |-> {"MTI", "STI"},
                cmp_after |-> "due", bad_seen |-> FALSE, m_writes |-> 0, s_writes |-> 0,
                save_epc |-> Nowhere, epc_adj |-> Nowhere, site |-> Nowhere, v |-> "SENTINEL", stce |-> FALSE]
First == mem.trap_count = 0
Counted == Let([mem EXCEPT !.trap_count = Bump(@), !.flag = TRUE])
\* The first trap is recorded and the timer disarmed; a second one is bad.
os_trap_handler ==
  <<IF First THEN Do(csr, [dev EXCEPT !.mtimer = "off"], [mem EXCEPT !.cause = csr.mcause, !.epc = csr.mepc])
    ELSE Let([mem EXCEPT !.bad_seen = TRUE]),
    IF First THEN Let([mem EXCEPT !.ip_after = Mip]) ELSE Let(mem), Counted>>
os_trap_entry ==
  <<SwapIn("mscratch")>> \o os_trap_handler \o <<Clobber({}), SwapOut("mscratch"), Mret>>
os_wait(r, b, next) ==
  <<Let([mem EXCEPT !.flag = FALSE]), Csrs(r, {b}), Loop(mem.flag), Csrc(r, {b}), Goto(next)>>
InLoop == mem.epc = [proc |-> "wait", at |-> 3]
\* A window with the gate open.
quiet_window(r, b) == <<Csrs(r, {b}), Spin, Csrc(r, {b})>>
os_main ==
  <<Say, Csrw("mtvec", Direct("os_trap_entry")), Csrw("mscratch", "area"), Say, Chk(~csr.mtvec.vectored),
    Store("mtimer", "off"), Csrs("mie", {"MTI"}), Say, Store("mtimer", "armed"), Goto("wait")>>
os_after ==
  <<Say, Chk(mem.trap_count = 1), Chk(mem.cause = "MTI"), Chk(InLoop), Chk("MTI" \notin mem.ip_after)>>
  \o quiet_window("mstatus", "MIE") \o <<Say, Chk(mem.trap_count = 1), Say>> \o Finish

\* write_stimecmp_m and write_stimecmp_s count the writes.
stimecmp(v, who) == Do(csr, [dev EXCEPT !.stimer = v], [mem EXCEPT ![who] = Bump(@)])
\* A supervisor timer trap is disarmed, any other first trap only recorded.
sstc_handler(disarms, epc) ==
  <<IF First THEN Let([mem EXCEPT !.cause = csr.scause, !.epc = epc]) ELSE Let([mem EXCEPT !.bad_seen = TRUE]),
    IF First /\ disarms THEN stimecmp("off", "s_writes") ELSE Let(mem),
    IF First /\ disarms THEN Let([mem EXCEPT !.ip_after = Read("sip"), !.cmp_after = dev.stimer]) ELSE Let(mem),
    Counted>>
stos_trap_handler == sstc_handler(TRUE, csr.sepc)
stos_trap_entry == SstcEntry(stos_trap_handler)
stos_s_main ==
  <<Say, Chk(dev.stimer = "off"), Chk("STI" \notin Read("sip")), Say, Csrs("sie", {"STI"}), Say,
    stimecmp("armed", "s_writes"), Goto("wait")>>
OneShotFired == mem.trap_count = 1 /\ mem.cause = "STI" /\ InLoop /\ "STI" \notin mem.ip_after /\ mem.cmp_after = "off"
stos_s_main_after ==
  <<Say, Chk(OneShotFired), Say>> \o quiet_window("sstatus", "SIE")
  \o <<Say, Chk(mem.trap_count = 1), Chk(dev.stimer = "off"),
       Chk(mem.m_writes = 1 /\ mem.s_writes = 2), Say>> \o Finish
stos_main ==
  <<Say, Csrs("menvcfg", {"STCE"}), Chk("STCE" \in csr.menvcfg), Say,
    Store("mtimer", "off"), stimecmp("off", "m_writes"), OpenPmp, Csrw("mcounteren", Counters),
    Csrw("mideleg", {"STI"}), Chk("STI" \in csr.mideleg), Say,
    Csrw("mtvec", Direct("m_trap_entry")), Csrw("mscratch", "area"),
    Csrw("stvec", Direct("s_trap_entry")), Csrw("sscratch", "area"), Chk(~csr.stvec.vectored), Say>>
  \o DropByMret("s_main")

-----------------------------------------------------------------------------
\* menvcfg-stce: S-mode may access stimecmp exactly when menvcfg.STCE sticks;
\* then the one-shot timer.
ReadStimecmp == IF priv = "M" \/ ("STCE" \in csr.menvcfg /\ "TM" \in csr.mcounteren)
                THEN Let([mem EXCEPT !.v = dev.stimer]) ELSE Illegal
menv_s_trap_handler == sstc_handler(csr.scause = "STI", mem.save_epc)
\* An exception is stepped over before the handler runs.
menv_strap_entry ==
  <<SwapIn("sscratch"), Let([mem EXCEPT !.save_epc = csr.sepc]),
    IF csr.scause \in Interrupts THEN Let(mem) ELSE Skip("sepc"), Let([mem EXCEPT !.epc_adj = csr.sepc])>>
  \o menv_s_trap_handler \o <<Clobber({}), SwapOut("sscratch"), Sret>>
menv_s_main ==
  <<Let([mem EXCEPT !.trap_count = 0]), Let([mem EXCEPT !.site = After]), ReadStimecmp, Say,
    Chk(mem.stce = (mem.trap_count = 0)), If(mem.trap_count # 0, "no_access"),
    Csrs("sie", {"STI"}), Say, stimecmp("armed", "s_writes"), Goto("wait")>>
menv_no_access ==
  <<Chk(mem.trap_count = 1 /\ mem.cause = "illegal" /\ mem.epc = mem.site
        /\ mem.epc_adj = Next4(mem.site) /\ mem.v = "SENTINEL"), Say>> \o Finish
menv_s_main_after ==
  <<Say, Chk(OneShotFired)>> \o quiet_window("sstatus", "SIE")
  \o <<Say, Chk(mem.trap_count = 1), Chk(dev.stimer = "off" /\ mem.s_writes = 2), Say>> \o Finish
menv_main ==
  <<Say, Csrc("menvcfg", {"STCE"}), Chk(csr.menvcfg = {}), Csrw("menvcfg", {"STCE"}),
    Chk("STCE" \in csr.menvcfg), Csrw("menvcfg", {}), Chk(csr.menvcfg = {}), Say,
    Csrs("menvcfg", {"STCE"}), Let([mem EXCEPT !.stce = "STCE" \in csr.menvcfg]), Say,
    Csrw("mideleg", {"H", "STI"}), Chk({"H", "STI"} \subseteq csr.mideleg), Say, Csrw("mcounteren", Counters),
    OpenPmp, Csrw("mtvec", Direct("m_trap_entry")), Csrw("mscratch", "area"),
    Csrw("stvec", Direct("s_trap_entry")), Csrw("sscratch", "area"), Chk(~csr.stvec.vectored)>>
  \o DropByMret("s_main")
=============================================================================
