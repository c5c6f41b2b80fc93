---------------------------- MODULE CounterDemos ----------------------------
(***************************************************************************)
(* The demos of the counter-enable registers: a counter read in S-mode or  *)
(* U-mode is illegal, and stepped over, until mcounteren and, for U-mode,  *)
(* scounteren enable it.                                                   *)
(***************************************************************************)
EXTENDS ModeDemos

Counters == {"CY", "TM", "IR"}
SENTINEL == -1   \* what the destination of a read holds before it
CtrVars == [s |-> Bank, after |-> Nowhere, m |-> Bank, mc |-> {}, site |-> Nowhere,
            v |-> SENTINEL, c0 |-> 0, c1 |-> 0]

\* All ones and then v are written to a counter-enable register and read back.
EnableRegister(r, v) == <<Csrw(r, Counters), Chk(csr[r] = Counters), Say, Csrw(r, v), Chk(csr[r] = v), Say>>
\* The gated read is stepped over and leaves its destination alone.
GatedRead(b) == <<Site, Rd("v", b, {}), Say, Chk(SteppedOver(1) /\ mem.v = SENTINEL), Say>>
\* Two reads, taken without a further trap.
OpenReads(b) ==
  <<Rd("c0", b, {}), Rd("c1", b, {}), Say, Chk(mem.s.traps = 1 /\ mem.c0 > 0 /\ mem.c1 > mem.c0), Say>>
smode_setup(m, s) == probe_setup(m, s) \o DropByMret("smode_test")

-----------------------------------------------------------------------------
\* mcounteren: M-mode reads the cycle counter whatever mcounteren holds.
mce_main ==
  <<Say, Rd("c0", "CY", {}), Rd("c1", "CY", {}), Chk(mem.c1 > mem.c0), Say>>
  \o EnableRegister("mcounteren", {})
  \o <<Rd("c0", "CY", {}), Rd("c1", "CY", {}), Chk(mem.c1 > mem.c0), Say,
       Csrw("mcounteren", {}), Chk(csr.mcounteren = {}), Say, Result, Park>>

\* scounteren-trap: an ecall to M-mode opens the cycle counter for S-mode.
\* The M-mode entry saves nothing; the ecall's asm names t0, t1 and t2.
mt_trap_entry ==
  <<If(csr.mcause # "ecall_s", "park"), Csrs("mcounteren", {"CY"}),
    Let([mem EXCEPT !.mc = csr.mcounteren, !.m.traps = Bump(@)]), Skip("mepc"), Clobber({"t0", "t1", "t2"}), Mret>>
st_trap_entry == probe_s_trap_entry
st_smode_test ==
  <<Say>> \o GatedRead("CY")
  \o <<Raise(Ecall, 0, {"t0", "t1", "t2"}), Say, Chk(mem.m.traps = 1 /\ "CY" \in mem.mc)>>
  \o OpenReads("CY") \o <<Result, Park>>
st_main == <<Say>> \o EnableRegister("mcounteren", {}) \o smode_setup("mt_trap_entry", "st_trap_entry")

\* mcounteren-cy-gate: the same with an M-mode entry that keeps t0, t1 and t2.
mcg_mtrap_entry ==
  <<SwapIn("mscratch"), If(csr.mcause # "ecall_s", "park"), RecordM, Csrw("mcounteren", {"CY"}),
    Let([mem EXCEPT !.mc = csr.mcounteren]), Skip("mepc"), SwapOut("mscratch"), Mret>>
mcg_strap_entry == probe_s_trap_entry
mcg_smode_test ==
  <<Say>> \o GatedRead("CY")
  \o <<Site, Raise(Ecall, 0, {}), Say,
       Chk(mem.m.traps = 1 /\ mem.m.cause = "ecall_s" /\ mem.m.epc = mem.site /\ mem.mc = {"CY"})>>
  \o OpenReads("CY") \o <<Result, Park>>
mcg_main ==
  <<Say>> \o EnableRegister("mcounteren", {}) \o <<Csrw("mscratch", "area")>>
  \o smode_setup("mcg_mtrap_entry", "mcg_strap_entry")

\* mcounteren-time-gate: TM is gated while CY is open.
mtg_mtrap_entry == <<Park>>
mtg_strap_entry == probe_s_trap_entry
mtg_smode_test == <<Say>> \o GatedRead("TM") \o OpenReads("CY") \o <<Result, Park>>
mtg_main == <<Say>> \o EnableRegister("mcounteren", {"CY"}) \o smode_setup("mtg_mtrap_entry", "mtg_strap_entry")

\* mcounteren-ir-gate: IR is gated; the M-mode entry opens it and goes on to
\* the second phase.
mir_mtrap_entry ==
  <<SwapIn("mscratch"), RecordM, If(csr.mcause # "ecall_s", "park"), Csrw("mcounteren", Counters),
    Do([csr EXCEPT !.mepc = At("smode_phase_b"), !.mpp = "S"], dev, [mem EXCEPT !.mc = csr.mcounteren]),
    Clobber({"t1", "t2"}), SwapOut("mscratch"), Mret>>
mir_strap_entry == probe_s_trap_entry
mir_smode_phase_a ==
  <<Say>> \o GatedRead("IR")
  \o <<Rd("c0", "CY", {}), Say, Chk(mem.s.traps = 1 /\ mem.c0 > 0), Site, Leave(Ecall), Park>>
mir_smode_phase_b ==
  <<Say, Chk(mem.m.cause = "ecall_s" /\ mem.m.epc = mem.site /\ mem.m.traps = 1 /\ mem.mc = Counters)>>
  \o OpenReads("IR") \o <<Result, Park>>
mir_main ==
  <<Say>> \o EnableRegister("mcounteren", {"CY", "TM"}) \o <<Csrw("mscratch", "area")>>
  \o smode_setup("mir_mtrap_entry", "mir_strap_entry")

-----------------------------------------------------------------------------
\* scounteren-cy-gate, -ir-gate and -tm-gate: U-mode code reads the counter with
\* the scounteren bit clear, then set, and signals S-mode with an ecall.
HIST_N == 8
\* t0, t1 and a0 are the registers of the U-mode code.
ScVars == [hist |-> <<>>, t0 |-> 0, t1 |-> 0, a0 |-> "none", bad |-> FALSE, m |-> Bank,
           m_phase |-> 0, boot |-> [mc |-> {}, sc |-> {}, deleg |-> {}]]
Resume(sig) == CASE sig = "SIG_A" -> "phase_a_done" [] sig = "SIG_B" -> "phase_b_done"
               [] sig = "SIG_C" -> "phase_c_done" [] OTHER -> "unexpected"
\* An illegal read is stepped over, in U-mode; a signal resumes the S-mode
\* procedure it stands for; any other trap the one that reports it.
sc_handle ==
  <<LET next == IF csr.scause = "ecall_u" THEN Resume(mem.a0) ELSE "unexpected"
        m == [mem EXCEPT !.hist = IF Len(@) < HIST_N
                                  THEN Append(@, [cause |-> csr.scause, epc |-> csr.sepc,
                                                  t0 |-> mem.t0, t1 |-> mem.t1, a0 |-> mem.a0]) ELSE @]
    IN  IF csr.scause = "illegal" THEN Do([csr EXCEPT !.sepc.at = @ + 1], dev, m)
        ELSE Do([csr EXCEPT !.mstatus = @ \cup {"SPP"}, !.sepc = At(next)], dev,
                [m EXCEPT !.bad = @ \/ next = "unexpected"])>>
\* t0, t1 and s0 are kept around the C handler.
sc_trap_entry(handle) ==
  <<SwapIn("sscratch")>> \o handle \o <<Clobber(CallerSaved \ {"t0", "t1"}), SwapOut("sscratch"), Sret>>
sccy_mt_trap_entry == <<Park>>
sccy_unexpected == <<Say, Park>>
\* The U-mode code keeps t0 across the read, and nothing else.
sc_payload_gated(b, sig) ==
  <<Let([mem EXCEPT !.t0 = SENTINEL]), Rd("t0", b, CallerSaved \ {"t0"}),
    Let([mem EXCEPT !.a0 = sig]), Leave(Ecall)>>
sc_payload_open(b, sig) ==
  <<Rd("t0", b, {}), Rd("t1", b, {}), Let([mem EXCEPT !.a0 = sig]), Leave(Ecall)>>
drop_to_umode(p) == <<Csrw("sepc", At(p)), Csrc("sstatus", {"SPP"}), Sret, Park>>
In(p, at) == [proc |-> p, at |-> at]
\* Trap n is the gated read in payload p; the signal at its end; the signal of
\* a payload whose two reads were open.
GatedAt(n, p) == /\ mem.hist[n].cause = "illegal" /\ mem.hist[n].epc = In(p, 2) /\ mem.hist[n].t0 = SENTINEL
SignalAt(n, p, sig) == /\ mem.hist[n].cause = "ecall_u" /\ mem.hist[n].epc = In(p, 4) /\ mem.hist[n].a0 = sig
SampledAt(n) == mem.hist[n].t1 > mem.hist[n].t0 /\ mem.hist[n].t0 # 0
sc_phase_a_done(b) ==
  <<Say, Chk(Len(mem.hist) = 2 /\ GatedAt(1, "u_payload_a") /\ SignalAt(2, "u_payload_a", "SIG_A")), Say,
    Csrs("scounteren", {b}), Chk(b \in csr.scounteren), Say>> \o drop_to_umode("u_payload_b")
sc_phase_b_done ==
  <<Say, Chk(Len(mem.hist) = 3 /\ SignalAt(3, "u_payload_b", "SIG_B") /\ SampledAt(3)), Result, Park>>
sc_smode_test == <<Say>> \o drop_to_umode("u_payload_a")
\* medeleg gives illegal instructions and the ecalls of U-mode to S-mode.
sc_setup ==
  <<Csrw("mtvec", Direct("mt_trap_entry")), Csrw("stvec", Direct("trap_entry")), Csrw("sscratch", "area"),
    Csrw("medeleg", {"illegal", "ecall_u"}), Chk({"illegal", "ecall_u"} \subseteq csr.medeleg), OpenPmp, Say>>
  \o DropByMret("smode_test")
sc_main(b) ==
  <<Say>> \o EnableRegister("scounteren", {}) \o <<Csrw("mcounteren", {b}), Chk(b \in csr.mcounteren), Say>>
  \o sc_setup

sccy_handle == sc_handle
sccy_trap_entry == sc_trap_entry(sccy_handle)
sccy_u_payload_a == sc_payload_gated("CY", "SIG_A")
sccy_u_payload_b == sc_payload_open("CY", "SIG_B")
sccy_phase_a_done == sc_phase_a_done("CY")
sccy_phase_b_done == sc_phase_b_done
sccy_smode_test == sc_smode_test
sccy_main == sc_main("CY")
scir_handle == sc_handle
scir_trap_entry == sc_trap_entry(scir_handle)
scir_u_payload_a == sc_payload_gated("IR", "SIG_A")
scir_u_payload_b == sc_payload_open("IR", "SIG_B")
scir_phase_a_done == sc_phase_a_done("IR")
scir_phase_b_done == sc_phase_b_done
scir_main == sc_main("IR")
sctg_handle == sc_handle
sctg_trap_entry == sc_trap_entry(sctg_handle)
sctg_u_payload_a == sc_payload_gated("TM", "SIG_A")
sctg_u_payload_b == sc_payload_open("TM", "SIG_B")
sctg_phase_a_done == sc_phase_a_done("TM")
sctg_phase_b_done == sc_phase_b_done
sctg_main == sc_main("TM")

-----------------------------------------------------------------------------
\* mcounteren-cy-u-read and mcounteren-tm-u-gate: the counter is open to U-mode
\* first; an ecall of S-mode has M-mode close it, and in the second demo open
\* it again and put everything back.
s_ecall == <<Leave(Ecall), Park>>
FromSEcall == mem.m.cause = "ecall_s" /\ mem.m.epc = At("s_ecall")
ucount_main(b) ==
  <<Let([mem EXCEPT !.boot = [mc |-> csr.mcounteren, sc |-> csr.scounteren, deleg |-> csr.medeleg]]), Say,
    Chk(mem.boot.mc = {}), Say>>
  \o EnableRegister("mcounteren", {b}) \o <<Csrw("scounteren", {b}), Chk(csr.scounteren = {b}), Say>> \o sc_setup
open_done(n, p, sig) ==
  <<Say, Chk(Len(mem.hist) = n /\ SignalAt(n, p, sig) /\ SampledAt(n)), Say, Goto("s_ecall")>>
gated_done == Chk(Len(mem.hist) = 3 /\ GatedAt(2, "u_payload_b") /\ SignalAt(3, "u_payload_b", "SIG_B"))
\* M-mode sets mcounteren to v, scounteren having kept b, and goes on at p.
Regate(b, v, phase, p) ==
  <<Chk(csr.scounteren = {b}), Csrw("mcounteren", v), Chk(csr.mcounteren = v), Say,
    If(fails # 0, "park"), Let([mem EXCEPT !.m_phase = phase])>> \o DropByMret(p)

\* The entry saves nothing: it calls C, which does not come back.
mcyu_mt_trap_entry == <<RecordM, Goto("m_handle")>>
mcyu_m_handle == <<Say, Chk(FromSEcall)>> \o Regate("CY", {}, 1, "phase_b_start")
mcyu_handle == sc_handle
mcyu_trap_entry == sc_trap_entry(mcyu_handle)
mcyu_smode_test == sc_smode_test
mcyu_u_payload_a == sc_payload_open("CY", "SIG_A")
mcyu_u_payload_b == sc_payload_gated("CY", "SIG_B")
mcyu_phase_a_done == open_done(1, "u_payload_a", "SIG_A")
mcyu_phase_b_start == <<Say>> \o drop_to_umode("u_payload_b")
mcyu_phase_b_done == <<Say, gated_done, Say, Result, Park>>
mcyu_main == ucount_main("CY")

mtmu_mt_trap_entry == mcyu_mt_trap_entry
mtmu_m_handle ==
  <<Say, Chk(FromSEcall), If(mem.m_phase = 0, "m_close"), If(mem.m_phase = 1, "m_reopen"),
    If(mem.m_phase = 2, "m_restore"), Say, Park>>
mtmu_m_close == Regate("TM", {}, 1, "phase_b_start")
mtmu_m_reopen == Regate("TM", {"TM"}, 2, "phase_c_start")
mtmu_m_restore ==
  <<Csrw("mcounteren", mem.boot.mc), Chk(csr.mcounteren = mem.boot.mc),
    Csrw("scounteren", mem.boot.sc), Chk(csr.scounteren = mem.boot.sc),
    Csrw("medeleg", mem.boot.deleg), Chk(csr.medeleg = mem.boot.deleg),
    Chk(mem.m.traps = 3), Say, Result, Park>>
mtmu_handle == sc_handle
mtmu_trap_entry == sc_trap_entry(mtmu_handle)
mtmu_smode_test == sc_smode_test
mtmu_u_payload_a == sc_payload_open("TM", "SIG_A")
mtmu_u_payload_b == sc_payload_gated("TM", "SIG_B")
mtmu_u_payload_c == sc_payload_open("TM", "SIG_C")
mtmu_phase_a_done == open_done(1, "u_payload_a", "SIG_A")
mtmu_phase_b_start == <<Say>> \o drop_to_umode("u_payload_b")
mtmu_phase_b_done == <<Say, gated_done, Say, Goto("s_ecall")>>
mtmu_phase_c_start == <<Say>> \o drop_to_umode("u_payload_c")
mtmu_phase_c_done == open_done(4, "u_payload_c", "SIG_C")
mtmu_main == ucount_main("TM")
=============================================================================
