------------------------------ MODULE GateDemos ------------------------------
(***************************************************************************)
(* The M-mode interrupt-gate demos: a pending machine interrupt is held    *)
(* back by one enable bit (mie.MSIE, mie.MTIE, mstatus.MIE), then let      *)
(* through, and must trap exactly once.  Every demo is its main and its    *)
(* trap entry; consecutive readback checks are one check.                  *)
(***************************************************************************)
EXTENDS Hart

MIE == "MIE" \in csr.mstatus
Traps(n) == mem.trap_count = n

\* csrw mtvec; csrw mscratch; and the readback of mtvec.
Install(entry) ==
  <<Csrw("mtvec", Direct(entry)), Csrw("mscratch", "area"),
    Chk(csr.mtvec = Direct(entry)), Say>>
\* Mutant: main returns instead of looping in wfi.
FinishReturns == <<Spin, Result>>
\* The drain before the finisher write, the verdict and the final wfi loop.
Finish == <<Spin, Result, Park>>

\* An entry that saves t0, t1, ra and a0 around the C handler, the swap of
\* mscratch first and last; the address of the save area stays in t0 across the
\* call.
MinimalEntry(c_handle) ==
  <<SwapIn("mscratch")>> \o c_handle
    \o <<FromC, LoadBack({"t1", "ra", "a0"}), SwapOut("mscratch"), Mret>>

GateVars == [trap_count |-> 0, last_mcause |-> "none", last_mepc |-> Nowhere]
\* What every C handler of this family records about the trap.
Count(m) == [m EXCEPT !.trap_count = Bump(@), !.last_mcause = csr.mcause, !.last_mepc = csr.mepc]

-----------------------------------------------------------------------------
\* mie-msie-gate: mie.MSIE gates a pending machine software interrupt.
\* Mutant: the handler does not acknowledge the interrupt.
msie_c_handle_no_ack == <<Let(Count(mem))>>
msie_c_handle == <<Do(csr, [dev EXCEPT !.msip = 0], Count(mem))>>
msie_trap_entry == MinimalEntry(msie_c_handle)
msie_main ==
  <<Store("mtimer", "off"),
    Chk(csr.mie = {} /\ ~MIE /\ "MSI" \notin Mip /\ dev.msip = 0), Say>>
  \o Install("msie_trap_entry")
  \o <<Csrs("mstatus", {"MIE"}), Chk(MIE), Say,
       Csrw("mie", {}), Chk(csr.mie = {}), Say,
       \* phase A: pended, MSIE clear
       Store("msip", 1), Chk(dev.msip = 1), Chk("MSI" \in Mip), Say,
       Spin, Chk(Traps(0) /\ "MSI" \in Mip), Say,
       \* phase B: MSIE set
       Csrs("mie", {"MSI"}), Chk(csr.mie = {"MSI"}), Say,
       Wait(mem.trap_count >= 1), Say,
       Chk(mem.last_mcause = "MSI" /\ Traps(1)),
       \* phase C: quiet
       Chk("MSI" \notin Mip), Say, Spin, Chk(Traps(1)),
       Chk(MIE /\ csr.mie = {"MSI"}), Say>>
  \o Finish

-----------------------------------------------------------------------------
\* mie-mtie-gate: mie.MTIE gates a pending machine timer interrupt.
mtie_c_handle == <<Do(csr, [dev EXCEPT !.mtimer = "off"], Count(mem))>>
mtie_trap_entry == MinimalEntry(mtie_c_handle)
mtie_main ==
  <<Store("mtimer", "off"),
    Chk(csr.mie = {} /\ ~MIE /\ "MTI" \notin Mip /\ dev.mtimer = "off"), Say>>
  \o Install("mtie_trap_entry")
  \o <<Csrs("mstatus", {"MIE"}), Chk(MIE), Say,
       Csrw("mie", {}), Chk(csr.mie = {}), Say,
       Store("mtimer", "armed"), Wait("MTI" \in Mip), Chk("MTI" \in Mip), Say,
       Spin, Chk(Traps(0) /\ "MTI" \in Mip), Say,
       Csrs("mie", {"MTI"}), Chk(csr.mie = {"MTI"}), Say,
       Wait(mem.trap_count >= 1), Say,
       Chk(mem.last_mcause = "MTI" /\ Traps(1)),
       Chk("MTI" \notin Mip), Say, Spin, Chk(Traps(1)),
       Chk(MIE /\ csr.mie = {"MTI"}), Say>>
  \o Finish

-----------------------------------------------------------------------------
\* mie-stie: mie.STIE does not let the machine timer through, MTIE does.
stie_c_handle == <<Do(csr, [dev EXCEPT !.mtimer = "off"], Count(mem))>>
stie_trap_entry == MinimalEntry(stie_c_handle)
\* Mutant: MTIE instead of STIE in the gated phase.
stie_main_wrong_bit ==
  <<Store("mtimer", "off"),
    Chk(csr.mie = {} /\ ~MIE /\ "MTI" \notin Mip), Say>>
  \o Install("stie_trap_entry")
  \o <<Csrs("mstatus", {"MIE"}), Chk(MIE), Say,
       Csrw("mie", {"MTI"}), Chk(csr.mie = {"MTI"}), Say,
       Store("mtimer", "armed"), Wait("MTI" \in Mip), Chk("MTI" \in Mip), Say,
       Spin, Chk(Traps(0) /\ "MTI" \in Mip), Say,
       Csrw("mie", {"STI", "MTI"}), Chk(csr.mie = {"STI", "MTI"}), Say,
       Wait(mem.trap_count >= 1), Say,
       Chk(mem.last_mcause = "MTI" /\ Traps(1)),
       Chk("MTI" \notin Mip), Say, Spin, Chk(Traps(1)),
       Chk(MIE /\ csr.mie = {"STI", "MTI"}), Say>>
  \o Finish
stie_main ==
  <<Store("mtimer", "off"),
    Chk(csr.mie = {} /\ ~MIE /\ "MTI" \notin Mip), Say>>
  \o Install("stie_trap_entry")
  \o <<Csrs("mstatus", {"MIE"}), Chk(MIE), Say,
       Csrw("mie", {"STI"}), Chk(csr.mie = {"STI"}), Say,
       Store("mtimer", "armed"), Wait("MTI" \in Mip), Chk("MTI" \in Mip), Say,
       Spin, Chk(Traps(0) /\ "MTI" \in Mip), Say,
       Csrw("mie", {"STI", "MTI"}), Chk(csr.mie = {"STI", "MTI"}), Say,
       Wait(mem.trap_count >= 1), Say,
       Chk(mem.last_mcause = "MTI" /\ Traps(1)),
       Chk("MTI" \notin Mip), Say, Spin, Chk(Traps(1)),
       Chk(MIE /\ csr.mie = {"STI", "MTI"}), Say>>
  \o Finish

-----------------------------------------------------------------------------
\* mie-global: mstatus.MIE gates a pending, enabled software interrupt, and
\* the handler sees the bits the trap entry stacked.
MigVars == [trap_count |-> 0, last_mcause |-> "none", last_mepc |-> Nowhere,
            last_entry_mstatus |-> {}, last_entry_mpp |-> "U"]
mig_c_handle ==
  <<Do(csr, [dev EXCEPT !.msip = 0],
       [Count(mem) EXCEPT !.last_entry_mstatus = csr.mstatus, !.last_entry_mpp = csr.mpp])>>
mig_trap_entry == MinimalEntry(mig_c_handle)
mig_main ==
  <<Chk(csr.mie = {} /\ ~MIE), Say>>
  \o Install("mig_trap_entry")
  \o <<Csrs("mie", {"MSI"}), Chk(csr.mie = {"MSI"}), Say,
       Csrc("mstatus", {"MIE"}), Chk(~MIE), Say,
       \* phase 1: gated, then withdrawn
       Store("msip", 1), Chk(dev.msip = 1), Chk("MSI" \in Mip), Say, Spin,
       Chk(Traps(0)), Chk("MSI" \in Mip), Say,
       Store("msip", 0), Chk(dev.msip = 0 /\ "MSI" \notin Mip), Say,
       \* phase 2: pended again, the gate opened
       Store("msip", 1), Chk(dev.msip = 1), Say,
       Csrw("mstatus", csr.mstatus \cup {"MIE"}),
       Chk(MIE /\ csr.mstatus \ {"MPIE"} = {"MIE"}), Say,
       Wait(mem.trap_count >= 1), Say,
       Chk(mem.last_mcause = "MSI" /\ Traps(1)),
       Chk("MIE" \notin mem.last_entry_mstatus /\ "MPIE" \in mem.last_entry_mstatus
           /\ mem.last_entry_mpp = "M"), Say,
       Chk(dev.msip = 0 /\ "MSI" \notin Mip), Spin, Chk(Traps(1)), Say,
       \* the gate closed again
       Csrc("mstatus", {"MIE"}), Chk(~MIE), Say,
       Store("msip", 1), Chk(dev.msip = 1 /\ "MSI" \in Mip), Spin, Chk(Traps(1)), Say,
       Store("msip", 0), Chk(dev.msip = 0), Chk(csr.mie = {"MSI"}), Say>>
  \o Finish

-----------------------------------------------------------------------------
\* mie-toggle: mstatus.MIE gates a timer that comes due while it is clear.
toggle_c_handle == <<Do(csr, [dev EXCEPT !.mtimer = "off"], Count(mem))>>
mie_toggle_trap_entry == MinimalEntry(toggle_c_handle)
toggle_main ==
  Install("mie_toggle_trap_entry")
  \o <<Csrs("mie", {"MTI"}), Csrc("mstatus", {"MIE"}), Chk("MTI" \in csr.mie /\ ~MIE), Say,
       Store("mtimer", "armed"), Chk(dev.mtimer # "off"),
       Spin, Chk(Traps(0) /\ "MTI" \in Mip), Say,
       Csrs("mstatus", {"MIE"}), Chk(MIE), Say,
       Wait(mem.trap_count >= 1),
       Chk(Traps(1) /\ mem.last_mcause = "MTI" /\ dev.mtimer = "off" /\ "MTI" \notin Mip), Say,
       Spin, Chk(Traps(1) /\ "MTI" \notin Mip), Say,
       Csrc("mie", {"MTI"}), Csrc("mstatus", {"MIE"}), Say, Result, Park>>

-----------------------------------------------------------------------------
\* mie-msip: mie.MSIE gates the software interrupt, opened and closed again.
mie_c_handle == <<Do(csr, [dev EXCEPT !.msip = 0], Count(mem))>>
mie_trap_entry == MinimalEntry(mie_c_handle)
mie_main ==
  <<Chk(csr.mie = {} /\ ~MIE), Say>>
  \o Install("mie_trap_entry")
  \o <<Csrs("mstatus", {"MIE"}), Chk(MIE), Say,
       Csrw("mie", {}), Chk(csr.mie = {}), Say,
       Store("msip", 1), Chk(dev.msip = 1), Spin, Chk(Traps(0)), Say,
       Store("msip", 0), Chk(dev.msip = 0), Say,
       Csrs("mie", {"MSI"}), Chk(csr.mie = {"MSI"}), Say,
       Store("msip", 0), Csrc("mstatus", {"MIE"}), Store("msip", 1), Chk(dev.msip = 1),
       Csrs("mstatus", {"MIE"}), Say,
       Wait(mem.trap_count >= 1), Say,
       Chk(mem.last_mcause = "MSI" /\ Traps(1)), Chk(dev.msip = 0),
       Spin, Chk(Traps(1)), Say,
       Csrc("mie", {"MSI"}), Chk(csr.mie = {}), Say,
       Store("msip", 1), Chk(dev.msip = 1), Spin, Chk(Traps(1)), Say,
       Store("msip", 0), Chk(dev.msip = 0), Chk(MIE), Say>>
  \o Finish

-----------------------------------------------------------------------------
\* msip: the software interrupt delivered twice, once for each set.
msip_c_handle == <<Do(csr, [dev EXCEPT !.msip = 0], Count(mem))>>
msip_trap_entry == MinimalEntry(msip_c_handle)
\* Pend with the gate closed, open it, wait for trap number n, stay quiet.
msip_round(n) ==
  <<Csrc("mstatus", {"MIE"}), Store("msip", 1), Chk(dev.msip = 1),
    Csrs("mstatus", {"MIE"}), Say,
    Wait(mem.trap_count >= n), Say,
    Chk(mem.last_mcause = "MSI" /\ Traps(n)), Chk(dev.msip = 0),
    Spin, Chk(Traps(n)), Say>>
msip_main ==
  <<Spin>> \o Install("msip_trap_entry")
  \o <<Csrs("mie", {"MSI"}), Csrs("mstatus", {"MIE"}), Chk("MSI" \in csr.mie /\ MIE), Say,
       Chk(dev.msip = 0), Spin, Chk(Traps(0)), Say>>
  \o msip_round(1) \o msip_round(2)
  \o <<Csrc("mie", {"MSI"}), Result, Park>>
=============================================================================
