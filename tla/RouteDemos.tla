----------------------------- MODULE RouteDemos -----------------------------
(***************************************************************************)
(* The demos that route an interrupt to S-mode with mideleg, or show that  *)
(* it cannot be routed, and hold it back with sstatus.SIE or sie.  main    *)
(* sets the hart up in M-mode and drops to S-mode, where the test runs.    *)
(***************************************************************************)
EXTENDS Hart

SIE == "SIE" \in csr.mstatus
NoTraps == mem.s_traps = 0 /\ mem.m_traps = 0
DropVars == [m_traps |-> 0, m_cause |-> "none", s_traps |-> 0, s_cause |-> "none",
             s_epc |-> Nowhere, s_sip |-> {}, done |-> FALSE]

\* drop_to_smode: sret into the S-mode program, SPP and MPP set first.
DropBySret(p) ==
  <<Csrs("sstatus", {"SPP"}), Csrw("mpp", "S"), Csrw("sepc", At(p)), Sret, Park>>
\* The same with mret: MPP = S and mepc.
DropByMret(p) == <<Csrw("mpp", "S"), Csrw("mepc", At(p)), Mret, Park>>

\* The parts of a handler that work on the m_regs and s_regs arrays.
CountM == Let([mem EXCEPT !.m_traps = Bump(@), !.m_cause = csr.mcause])
RecordS(m) == [m EXCEPT !.s_traps = Bump(@), !.s_cause = csr.scause, !.s_epc = csr.sepc,
                        !.s_sip = Read("sip"), !.done = TRUE]

-----------------------------------------------------------------------------
\* mideleg-ssip-route: only a delegated software interrupt traps to S-mode.
mssr_m_trap_entry == <<SwapIn("mscratch"), CountM, SwapOut("mscratch"), Mret>>
mssr_s_trap_entry ==
  <<SwapIn("sscratch"), Do(Write(csr, "sip", csr.mip \ {"SSI"}), dev, RecordS(mem)),
    SwapOut("sscratch"), Sret>>
mssr_smode_main ==
  <<Csrs("sie", {"SSI"}),
    \* nothing pending
    Csrs("sstatus", {"SIE"}), Spin, Csrc("sstatus", {"SIE"}), Chk(NoTraps), Say,
    \* the machine software interrupt pends, and is not delegated
    Csrc("sstatus", {"SIE"}), Store("msip", 1), Chk(dev.msip = 1), Say,
    Csrs("sstatus", {"SIE"}), Spin, Csrc("sstatus", {"SIE"}), Chk(NoTraps), Chk(dev.msip = 1),
    Store("msip", 0), Chk(dev.msip = 0), Say,
    \* the supervisor software interrupt is
    Csrc("sstatus", {"SIE"}), Csrs("sip", {"SSI"}), Chk(Read("sip") = {"SSI"}), Say,
    Let([mem EXCEPT !.done = FALSE]), Goto("open_gate")>>
mssr_open_gate ==
  <<Csrs("sstatus", {"SIE"}), Wait(mem.done), Csrc("sstatus", {"SIE"}), Say,
    Chk(mem.s_traps = 1 /\ mem.s_cause = "SSI"),
    Chk(mem.s_epc = [proc |-> "open_gate", at |-> 2]), Chk("SSI" \in mem.s_sip),
    Chk(Read("sip") = {} /\ mem.m_traps = 0), Say,
    Csrs("sstatus", {"SIE"}), Spin, Csrc("sstatus", {"SIE"}),
    Chk(mem.s_traps = 1 /\ mem.m_traps = 0), Say, Result, Park>>
mssr_main ==
  <<Csrw("mtvec", Direct("m_trap_entry")), Csrw("mscratch", "area"), Say,
    Csrw("mideleg", {}), Csrw("mideleg", {"SSI"}), Chk(csr.mideleg = {"H", "SSI"}), Say,
    Csrw("medeleg", {}), Chk(csr.medeleg = {}), Say,
    Csrw("stvec", Direct("s_trap_entry")), Csrw("sscratch", "area"), OpenPmp,
    Csrw("mie", {}), Csrc("mstatus", {"MIE"}), Store("msip", 0), Csrc("mip", {"SSI"}), Say>>
  \o DropBySret("smode_main")

-----------------------------------------------------------------------------
\* mideleg-mtip-route: the machine timer cannot be delegated, so it traps to
\* M-mode although the hart sits in S-mode.
\* Mutant: a0, which the handler computes with, is not restored.
mtip_m_trap_entry_no_a0 ==
  <<SwapIn("mscratch"),
    Do(csr, [dev EXCEPT !.mtimer = "off"],
       [mem EXCEPT !.m_traps = Bump(@), !.m_cause = csr.mcause, !.done = TRUE]),
    Clobber({"a0"}), SwapOut("mscratch"), Mret>>
mtip_m_trap_entry ==
  <<SwapIn("mscratch"),
    Do(csr, [dev EXCEPT !.mtimer = "off"],
       [mem EXCEPT !.m_traps = Bump(@), !.m_cause = csr.mcause, !.done = TRUE]),
    SwapOut("mscratch"), Mret>>
mtip_s_trap_entry ==
  <<SwapIn("sscratch"), Do(csr, [dev EXCEPT !.mtimer = "off"], RecordS(mem)),
    SwapOut("sscratch"), Sret>>
mtip_smode_main ==
  <<Say, Store("mtimer", "armed"), Chk(dev.mtimer # "off"), Say,
    Wait(mem.done), Say,
    Chk(mem.m_traps = 1 /\ mem.m_cause = "MTI" /\ mem.s_traps = 0 /\ dev.mtimer = "off"),
    Spin, Say, Chk(mem.m_traps = 1 /\ mem.s_traps = 0), Say, Result, Park>>
mtip_main ==
  <<Chk(csr.mideleg = {"H"}), Say,
    Csrw("mtvec", Direct("m_trap_entry")), Csrw("mscratch", "area"),
    Chk(csr.mtvec = Direct("m_trap_entry")), Say,
    Csrw("stvec", Direct("s_trap_entry")), Csrw("sscratch", "area"),
    Chk(csr.stvec = Direct("s_trap_entry")), Say,
    Csrw("mideleg", {}), Chk(csr.mideleg = {"H"}), Say,
    Csrw("mideleg", {"MTI"}), Chk(csr.mideleg = {"H"}), Say,
    Csrw("mideleg", {"H", "MTI"}), Chk(csr.mideleg = {"H"}), Say,
    Csrw("medeleg", {}), Chk(csr.medeleg = {}),
    Store("mtimer", "off"), Chk(dev.mtimer = "off" /\ "MTI" \notin Mip),
    Csrw("mie", {"MTI"}), Chk(csr.mie = {"MTI"}),
    Csrs("mstatus", {"MIE"}), Chk("MIE" \in csr.mstatus), OpenPmp,
    Csrc("mip", {"MTI"}), Say, Chk("MTI" \notin csr.mideleg)>>
  \o DropBySret("smode_main")

-----------------------------------------------------------------------------
\* mstatus-sie-toggle: M-mode drops to S-mode twice with SSIP pending, once
\* with mstatus.SIE clear and once with it set; an ecall comes back.
MsgVars == [m_traps |-> 0, m_cause |-> "none", m_epc |-> Nowhere,
            s_traps |-> 0, s_cause |-> "none", s_epc |-> Nowhere,
            resume_pc |-> Nowhere, expect_ecall |-> FALSE]
msg_m_handler ==
  <<Let([mem EXCEPT !.m_traps = Bump(@), !.m_cause = csr.mcause, !.m_epc = csr.mepc]),
    If(~(csr.mcause = "ecall_s" /\ mem.expect_ecall), "unexpected"),
    Do([csr EXCEPT !.mpp = "M", !.mepc = mem.resume_pc], dev, [mem EXCEPT !.expect_ecall = FALSE])>>
\* Every register is saved on the stack, around the C handler.
msg_m_trap_entry == msg_m_handler \o <<Clobber({}), Mret>>
msg_s_handler ==
  <<Do(Write(csr, "sip", csr.mip \ {"SSI"}), dev,
       [mem EXCEPT !.s_cause = csr.scause, !.s_epc = csr.sepc, !.s_traps = Bump(@)])>>
\* Every register is saved in the area sscratch points at.
msg_s_trap_entry ==
  <<SwapIn("sscratch")>> \o msg_s_handler \o <<Clobber({}), SwapOut("sscratch"), Sret>>
\* msg_phase1 and msg_phase2: sret to the landing pad, to come back at next.
msg_phase(next) ==
  <<Csrw("sepc", At("smode_landing")), Csrs("sstatus", {"SPP"}), Csrw("sscratch", "area"),
    Let([mem EXCEPT !.resume_pc = At(next), !.expect_ecall = TRUE]), Sret>>
smode_landing == <<Spin, Leave(Ecall), Goto("smode_landing")>>
InPad(p) == p.proc = "smode_landing"
msg_main ==
  <<Csrw("mtvec", Direct("msg_m_trap_entry")), Csrw("stvec", Direct("msg_s_trap_entry")), OpenPmp, Say,
    Chk("ecall_s" \notin csr.medeleg),
    Csrw("mie", {}), Csrc("mstatus", {"MIE"}), Chk(csr.mie = {}),
    Csrs("mideleg", {"SSI"}), Chk("SSI" \in csr.mideleg), Say,
    Csrs("sie", {"SSI"}), Chk("SSI" \in Read("sie")), Say,
    Csrc("mstatus", {"SIE"}), Chk(~SIE /\ "SIE" \notin Read("sstatus")), Say,
    Csrs("mip", {"SSI"}), Chk("SSI" \in Mip), Say>>
  \o msg_phase("gate_closed")
msg_gate_closed ==
  <<Say, Chk(mem.s_traps = 0), Chk(mem.m_traps = 1 /\ mem.m_cause = "ecall_s" /\ InPad(mem.m_epc)),
    Chk("SSI" \in Mip /\ "SSI" \in Read("sie") /\ ~SIE),
    Csrs("mstatus", {"SIE"}), Chk(SIE /\ "SIE" \in Read("sstatus") /\ "SSI" \in Mip), Say>>
  \o msg_phase("gate_open")
msg_gate_open ==
  <<Say, Chk(mem.s_traps = 1 /\ mem.s_cause = "SSI" /\ InPad(mem.s_epc)),
    Chk(mem.m_traps = 2 /\ mem.m_cause = "ecall_s"), Chk("SSI" \notin Mip), Chk(SIE),
    Chk(mem.s_traps = 1), Say, Spin, Result, Park>>

-----------------------------------------------------------------------------
\* sstatus-sie-gate, sie-stie-gate and stimecmp-one-shot: the Sstc supervisor
\* timer, delegated, in S-mode.
SstcVars == [trap_count |-> 0, scause |-> "none", sepc |-> Nowhere, stip_gated |-> FALSE,
             bad_seen |-> FALSE, flag |-> FALSE, sip_after |-> {"STI"}, cmp_after |-> "due"]
\* The handler disarms stimecmp in the first trap; a second one is recorded.
SstcHandler ==
  <<IF mem.trap_count = 0
    THEN Do(csr, [dev EXCEPT !.stimer = "off"],
            [mem EXCEPT !.scause = csr.scause, !.sepc = csr.sepc, !.trap_count = Bump(@), !.flag = TRUE])
    ELSE Let([mem EXCEPT !.bad_seen = TRUE, !.trap_count = Bump(@), !.flag = TRUE])>>
\* A full save in the area sscratch points at.  The exit reloads sscratch
\* with the address of the area and t0 from its slot.
SstcEntry(handler) ==
  <<SwapIn("sscratch")>> \o handler \o <<Clobber({}), SwapOut("sscratch"), Sret>>
\* An M-mode trap is not expected: print it and park.
Unexpected == <<SwapIn("mscratch"), Say, Park>>
\* Polling sip for a whole window: what it saw of STIP.
GatedWindow == <<Spin, Let([mem EXCEPT !.stip_gated = @ \/ "STI" \in Read("sip")])>>

SstcMain(s_entry, s_main) ==
  <<Csrs("menvcfg", {"STCE"}), Chk("STCE" \in csr.menvcfg), Say,
    Store("mtimer", "off"), Store("stimer", "off"), OpenPmp,
    Csrw("mideleg", {"STI"}), Chk("STI" \in csr.mideleg), Say,
    Csrw("mtvec", Direct("m_trap_entry")), Csrw("mscratch", "area"),
    Csrw("stvec", Direct(s_entry)), Csrw("sscratch", "area"), Chk(~csr.stvec.vectored), Say>>
  \o DropByMret(s_main)

\* sstatus-sie-gate
ssg_trap_entry == SstcEntry(SstcHandler)
ssg_main == SstcMain("ssg_trap_entry", "s_main")
ssg_s_main ==
  <<Csrc("sstatus", {"SIE"}), Chk(~SIE), Chk(dev.stimer = "off"), Say,
    Csrs("sie", {"STI"}), Say,
    Store("stimer", "armed"), Chk(dev.stimer # "off"), Say>>
  \o GatedWindow
  \o <<Say, Chk(mem.stip_gated), Chk(mem.trap_count = 0), Chk(~SIE), Goto("open_gate_and_wait")>>
ssg_open_gate_and_wait == <<Csrs("sstatus", {"SIE"}), Wait(mem.trap_count # 0), Goto("s_main_after")>>
ssg_s_main_after ==
  <<Say, Chk(mem.trap_count = 1), Chk(SIE), Chk(mem.scause = "STI"),
    Chk(mem.sepc.proc = "open_gate_and_wait"),
    Chk(dev.stimer = "off" /\ "STI" \notin Read("sip")), Say,
    Spin, Chk(mem.trap_count = 1), Say, Spin, Result, Park>>

\* sie-stie-gate
stg_trap_entry == SstcEntry(SstcHandler)
stg_main == SstcMain("stg_trap_entry", "s_main")
stg_s_main ==
  <<Csrs("sstatus", {"SIE"}), Chk(SIE), Chk("STI" \notin Read("sie")), Say,
    Chk(dev.stimer = "off"), Say,
    Store("stimer", "armed"), Chk(dev.stimer # "off"), Say>>
  \o GatedWindow
  \o <<Say, Chk(mem.stip_gated), Chk(mem.trap_count = 0), Chk("STI" \notin Read("sie")),
       Goto("open_gate_and_wait")>>
stg_open_gate_and_wait == <<Csrs("sie", {"STI"}), Wait(mem.trap_count # 0), Goto("s_main_after")>>
stg_s_main_after ==
  <<Say, Chk(mem.trap_count = 1), Chk("STI" \in Read("sie")), Chk(mem.scause = "STI"),
    Chk(mem.sepc.proc = "open_gate_and_wait"),
    Chk(dev.stimer = "off" /\ "STI" \notin Read("sip")), Say,
    Spin, Chk(mem.trap_count = 1), Say, Spin, Result, Park>>
=============================================================================
