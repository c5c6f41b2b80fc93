------------------------------ MODULE ModeDemos ------------------------------
(***************************************************************************)
(* The demos of privilege modes and trap vectors: which mode mret and sret *)
(* go to (MPP, SPP), which instructions a mode may execute (sret, satp,    *)
(* sfence.vma, wfi, a machine CSR), where a trap lands and what the handler*)
(* finds there.                                                            *)
(***************************************************************************)
EXTENDS GateDemos, TrapDemos

Next4(a) == [a EXCEPT !.at = @ + 1]   \* the address after a 4-byte instruction

-----------------------------------------------------------------------------
\* mpp-encoding: mret with each of the four encodings of MPP; the reserved
\* one is not stored, so it enters U-mode.
NPHASES == 4
phase_mpp == <<"U", "S", "reserved", "M">>
phase_mcause == <<"ecall_u", "ecall_s", "ecall_u", "ecall_m">>
phase_entry_mpp == <<"U", "S", "U", "M">>
InPhase(table) == table[(mem.phase % NPHASES) + 1]
MppVars == [phase |-> 0, trap |-> Bank, written |-> "U", readback |-> "U", payload_addr |-> Nowhere]
mpp_handle == <<Let([mem EXCEPT !.trap = LogM(@)])>>
mpp_trap_entry ==
  <<SwapIn("mscratch")>> \o mpp_handle
    \o <<FromC, AnswerM("phase_done"), LoadBack({"t1"}), SwapOut("mscratch"), Mret>>
write_mpp(v) == <<Csrw("mpp", "U"), Csrw("mpp", v)>>
run_phase ==
  <<Let([mem EXCEPT !.trap = Bank])>> \o write_mpp(InPhase(phase_mpp))
  \o <<Let([mem EXCEPT !.written = InPhase(phase_mpp), !.readback = csr.mpp]), Say,
       Let([mem EXCEPT !.payload_addr = At("payload")]), Csrw("mepc", At("payload")), Mret>>
mpp_payload == <<Leave(Ecall), Park>>
mpp_phase_done ==
  <<Say, Chk(mem.trap = [traps |-> 1, cause |-> InPhase(phase_mcause), epc |-> mem.payload_addr,
                         tval |-> 0, from |-> InPhase(phase_entry_mpp)]),
    Chk(mem.readback = IF mem.phase = 2 THEN "U" ELSE mem.written),
    Let([mem EXCEPT !.phase = @ + 1]), If(mem.phase >= NPHASES, "finish")>> \o run_phase
mpp_main ==
  <<Say, Csrw("mtvec", Direct("mpp_trap_entry")), Csrw("mscratch", "area"), OpenPmp>> \o run_phase

-----------------------------------------------------------------------------
\* sstatus-spp and sstatus-spp-u-trap: SPP holds the mode a trap into S-mode
\* came from, S for two ecalls of one site, U for one.
SppVars == [m |-> Bank, count |-> 0, log |-> <<>>, calls |-> 0]
spp_m_trap_entry == <<SwapIn("mscratch"), RecordM, SwapOut("mscratch"), Park>>
\* Any other cause, or a trap past the expected number, parks.
spp_s_trap_entry(c, n) ==
  <<SwapIn("sscratch"), Let([mem EXCEPT !.count = Bump(@)]),
    If(csr.scause # c \/ mem.count > n, "s_unexpected"),
    Let([mem EXCEPT !.log = Append(@, LogS(Bank))]), Skip("sepc"), SwapOut("sscratch"), Sret>>
spp_s_unexpected == <<SwapOut("sscratch"), Park>>
spp_setup(c) ==
  <<Csrw("mtvec", Direct("m_trap_entry")), Csrw("mscratch", "area"),
    Csrs("medeleg", {c}), Chk(c \in csr.medeleg), Say,
    Csrw("stvec", Direct("s_trap_entry")), Csrw("sscratch", "area"),
    Chk(csr.stvec = Direct("s_trap_entry")), OpenPmp, Say>>
\* noinline: every call of it traps at the same address.
trap_once(n, back) ==
  <<Raise(Ecall, 0, {}), Let([mem EXCEPT !.calls = @ + 1]), If(mem.calls < n, "trap_once"), Goto(back)>>
\* The n logged traps have cause c, came from mode p and from one site.
Came(n, c, p) == /\ mem.count = n /\ Len(mem.log) = n /\ mem.m.traps = 0
                 /\ \A i, j \in 1..Len(mem.log) : /\ mem.log[i].cause = c /\ mem.log[i].from = p
                                                  /\ mem.log[i].epc = mem.log[j].epc
spp_verdict == <<Say, Result, Park>>
ssp_s_trap_entry == spp_s_trap_entry("ecall_s", 2)
ssp_trap_once == trap_once(2, "s_payload")
ssp_s_payload == <<If(mem.calls = 0, "trap_once"), Say, Chk(Came(2, "ecall_s", "S"))>> \o spp_verdict
ssp_main ==
  spp_setup("ecall_s")
  \o <<Csrs("sstatus", {"SPP"}), Csrw("mpp", "S"), Csrw("sepc", At("s_payload")), Sret>>
sppu_m_trap_entry == spp_m_trap_entry
sppu_s_trap_entry == spp_s_trap_entry("ecall_u", 1)
sppu_trap_once == trap_once(1, "u_payload")
sppu_u_payload == <<If(mem.calls = 0, "trap_once"), Say, Chk(Came(1, "ecall_u", "U"))>> \o spp_verdict
sppu_main ==
  spp_setup("ecall_u")
  \o <<Csrc("sstatus", {"SPP"}), Csrw("mpp", "U"), Csrw("mepc", At("u_payload")), Mret>>

-----------------------------------------------------------------------------
\* sstatus-spp-sret-u: sret with SPP clear enters U-mode, where a read of
\* sstatus is illegal.
SpuVars == [m |-> Bank, s_traps |-> 0, expected_site |-> Nowhere, v |-> {}]
\* The M-mode entry continues in C without an mret.
spu_m_trap_entry == <<SwapIn("mscratch"), RecordM, SwapOut("mscratch"), Goto("m_after_trap")>>
spu_s_trap_entry == <<SwapIn("sscratch"), Let([mem EXCEPT !.s_traps = Bump(@)]), SwapOut("sscratch"), Park>>
u_site == Let([mem EXCEPT !.expected_site = After])
spu_u_landing == <<u_site, Csrr("v", "sstatus"), Park>>
spu_m_after_trap ==
  <<Say, Chk(mem.m = [traps |-> 1, cause |-> "illegal", epc |-> mem.expected_site,
                      tval |-> InsnBits, from |-> "U"] /\ mem.s_traps = 0)>> \o spp_verdict
spu_setup ==
  <<Csrw("mtvec", Direct("m_trap_entry")), Csrw("mscratch", "area"),
    Csrw("medeleg", {}), Chk(csr.medeleg = {}), Say,
    Csrw("stvec", Direct("s_trap_entry")), Csrw("sscratch", "area"),
    Chk(csr.stvec = Direct("s_trap_entry")), Say>>
spu_main ==
  spu_setup
  \o <<OpenPmp, Csrc("sstatus", {"SPP"}), Chk("SPP" \notin Read("sstatus")), Say,
       Csrw("sepc", At("u_landing")), Sret>>

-----------------------------------------------------------------------------
\* sret-to-umode-fault: sret returns in S-mode, is illegal in U-mode.
StuVars == [m |-> Bank, s_traps |-> 0, expected_site |-> Nowhere, control_sret_site |-> Nowhere,
            control_ok |-> FALSE, control_after |-> FALSE, ecall_site |-> Nowhere,
            ecall |-> Bank, expect_ecall |-> FALSE]
stu_m_trap_entry ==
  <<SwapIn("mscratch"), RecordM, If(csr.mcause # "ecall_s" \/ ~mem.expect_ecall, "m_to_cont"),
    Let([mem EXCEPT !.ecall = mem.m]), AnswerM("phase2_drop"),
    Let([mem EXCEPT !.expect_ecall = FALSE]), SwapOut("mscratch"), Mret>>
stu_m_to_cont == <<SwapOut("mscratch"), Goto("m_after_trap")>>
stu_s_trap_entry == spu_s_trap_entry
stu_s_landing ==
  <<Let([mem EXCEPT !.control_ok = TRUE, !.control_sret_site = [pc EXCEPT !.at = @ + 3]]),
    Csrw("sepc", [pc EXCEPT !.at = @ + 3]), Csrs("sstatus", {"SPP"}), Sret,
    Let([mem EXCEPT !.control_after = TRUE, !.ecall_site = After]), Leave(Ecall), Park>>
stu_phase2_drop == <<Csrw("sepc", At("u_landing")), Csrc("sstatus", {"SPP"}), Sret>>
stu_u_landing == <<u_site, Sret, Park>>
stu_m_after_trap ==
  <<Say, Chk(mem.control_ok /\ mem.control_after /\ mem.control_sret_site # Nowhere
             /\ mem.ecall.cause = "ecall_s" /\ mem.ecall.epc = mem.ecall_site),
    Chk(mem.m = [traps |-> 2, cause |-> "illegal", epc |-> mem.expected_site,
                 tval |-> InsnBits, from |-> "U"] /\ mem.s_traps = 0)>> \o spp_verdict
stu_main ==
  spu_setup
  \o <<Csrw("mie", {}), Chk(csr.mie = {}), Csrc("mstatus", {"MIE"}), Say, OpenPmp,
       Let([mem EXCEPT !.expect_ecall = TRUE]),
       Csrw("sepc", At("s_landing")), Csrs("sstatus", {"SPP"}), Sret>>

-----------------------------------------------------------------------------
\* mstatus-tsr-trap and mstatus-tvm-trap: a pad of S-mode code runs twice, with
\* the bit clear and set; what the bit forbids traps and is stepped over, an
\* ecall at its end goes back to main.
NLOG == 8   \* the size of the cause, epc and tval arrays
PadVars == [log |-> <<>>, phase |-> 0, expect_ecall |-> FALSE, resume_pc |-> Nowhere, satp_rb |-> SatpSv39(0, "none"),
            boot |-> [bits |-> {}, mpp |-> "U"], pre |-> {}, traps_p1 |-> 0]
\* A trap that is neither the probe of phase p nor the expected ecall parks.
pad_m_handler(p) ==
  <<Let([mem EXCEPT !.log = IF Len(@) < NLOG THEN Append(@, [cause |-> csr.mcause, epc |-> csr.mepc]) ELSE @]),
    If(~(\/ csr.mcause = "illegal" /\ mem.phase = p
         \/ csr.mcause = "ecall_s" /\ mem.expect_ecall), "park"),
    IF csr.mcause = "illegal" THEN Skip("mepc")
    ELSE Do([csr EXCEPT !.mpp = "M", !.mepc = mem.resume_pc], dev, [mem EXCEPT !.expect_ecall = FALSE])>>
\* Every register is saved on the stack, so sscratch and mscratch are not used.
pad_m_trap_entry(handler) == handler \o <<Clobber({}), Mret>>
run_pad(p) ==
  <<Let([mem EXCEPT !.phase = p]), Csrw("sepc", At("smode_pad")), Csrs("sstatus", {"SPP"}),
    Let([mem EXCEPT !.resume_pc = [pc EXCEPT !.at = @ + 2], !.expect_ecall = TRUE]), Sret,
    Let([mem EXCEPT !.phase = 0])>>
Pad(at) == [proc |-> "smode_pad", at |-> at]
Trap(c, at) == [cause |-> c, epc |-> Pad(at)]
pad_setup(entry, bit) ==
  <<Csrw("mtvec", Direct(entry)), OpenPmp, Let([mem EXCEPT !.boot = [bits |-> csr.mstatus, mpp |-> csr.mpp]]), Say,
    Chk(bit \notin mem.boot.bits)>> \o NoInterrupts
SetBit(bit) ==
  <<Let([mem EXCEPT !.pre = csr.mstatus]), Csrs("mstatus", {bit}), Say,
    Chk(bit \in csr.mstatus /\ csr.mstatus \ {bit} = mem.pre \ {bit})>>
ClearBit(bit) == <<Csrc("mstatus", {bit}), Chk(bit \notin csr.mstatus), Say>>
RestoreMstatus ==
  <<Csrw("mstatus", mem.boot.bits), Csrw("mpp", mem.boot.mpp),
    Chk([bits |-> csr.mstatus, mpp |-> csr.mpp] = mem.boot), Say>>
FirstPass == Let([mem EXCEPT !.traps_p1 = Len(mem.log)])

tsr_m_handler == pad_m_handler(2)
tsr_m_trap_entry == pad_m_trap_entry(tsr_m_handler)
tsr_smode_pad == <<Csrs("sstatus", {"SPP"}), Csrw("sepc", Pad(4)), Sret, Leave(Ecall)>>
tsr_main ==
  pad_setup("tsr_m_trap_entry", "TSR") \o run_pad(1)
  \o <<FirstPass, Say, Chk(mem.log = <<Trap("ecall_s", 4)>>)>>
  \o SetBit("TSR") \o run_pad(2)
  \o <<Say, Chk(mem.log = <<Trap("ecall_s", 4), Trap("illegal", 3), Trap("ecall_s", 4)>>)>>
  \o ClearBit("TSR") \o RestoreMstatus \o Finish

tvt_m_handler == pad_m_handler(1)
tvt_m_trap_entry == pad_m_trap_entry(tvt_m_handler)
tvt_smode_pad == <<Csrw("satp", Bare), Csrr("satp_rb", "satp"), SfenceVma, Leave(Ecall)>>
tvt_main ==
  pad_setup("tvt_m_trap_entry", "TVM") \o SetBit("TVM") \o run_pad(1)
  \o <<FirstPass, Say,
       Chk(mem.log = <<Trap("illegal", 1), Trap("illegal", 2), Trap("illegal", 3), Trap("ecall_s", 4)>>),
       Chk(csr.satp = Bare)>>
  \o ClearBit("TVM") \o run_pad(2)
  \o <<Say, Chk(Len(mem.log) = mem.traps_p1 + 1 /\ mem.log[Len(mem.log)] = Trap("ecall_s", 4)),
       Chk(mem.satp_rb = Bare)>>
  \o RestoreMstatus \o Finish

-----------------------------------------------------------------------------
\* mstatus-tw-trap, mhartid-s-mode-read, mhartid-u-mode-read: what the mode may
\* not execute is illegal, is handled in S-mode and stepped over.
ProbeVars == [s |-> Bank, after |-> Nowhere, m_traps |-> 0, site |-> Nowhere, v |-> "SENTINEL",
              boot_medeleg |-> {}, boot_pmpcfg0 |-> <<>>, result |-> FALSE]
\* t1 is left changed.
probe_s_trap_entry ==
  <<SwapIn("sscratch"), Let([mem EXCEPT !.s = LogS(@)]), Skip("sepc"),
    Let([mem EXCEPT !.after = csr.sepc]), Clobber({"t1"}), SwapOut("sscratch"), Sret>>
probe_setup(m, s) ==
  <<Csrw("mtvec", Direct(m)), Csrw("stvec", Direct(s)), Csrw("sscratch", "area"),
    Csrw("medeleg", {"illegal"}), Chk("illegal" \in csr.medeleg), OpenPmp, Say>>
\* csrr into a variable that holds the sentinel.
ReadOver(r) == Access(r, Let([mem EXCEPT !.v = "value"]))
SteppedOver(n) == /\ mem.s.traps = n /\ mem.s.cause = "illegal" /\ mem.s.epc = mem.site
                  /\ mem.after = Next4(mem.site)

tw_strap_entry == probe_s_trap_entry
tw_mtrap_entry == <<Park>>
tw_smode_test == <<Say, Site, Wfi, Say, Chk(SteppedOver(1)), Result, Park>>
tw_main ==
  <<Say, Csrs("mstatus", {"TW"}), Chk("TW" \in csr.mstatus), Say>>
  \o probe_setup("tw_mtrap_entry", "tw_strap_entry") \o DropByMret("smode_test")

CountAndPark == <<Let([mem EXCEPT !.m_traps = Bump(@)]), Park>>
mhs_st_trap_entry == probe_s_trap_entry
mhs_mt_trap_entry == CountAndPark
mhs_smode_test ==
  <<Say, Site, ReadOver("mhartid"), Say, Chk(SteppedOver(1) /\ mem.v = "SENTINEL"), Say,
    ReadOver("sstatus"), Chk(mem.s.traps = 1 /\ mem.v # "SENTINEL"), Say,
    Chk(mem.m_traps = 0), Result, Park>>
mhs_main ==
  <<Say, Chk(csr.mhartid = 0), Say>>
  \o probe_setup("mhs_mt_trap_entry", "mhs_st_trap_entry") \o DropByMret("smode_test")

mhu_st_trap_entry == probe_s_trap_entry
\* The ecall at the end puts pmpcfg0 and medeleg back and writes the finisher.
mhu_mt_trap_entry ==
  <<If(csr.mcause # "ecall_u", "mt_unexpected"), Csrw_pmpcfg0(mem.boot_pmpcfg0), Csrw("medeleg", mem.boot_medeleg),
    If(~mem.result, "mt_park"), Result, Park>>
mhu_mt_unexpected == CountAndPark
mhu_umode_test ==
  <<Say, Site, ReadOver("mhartid"), Say, Chk(SteppedOver(1) /\ mem.v = "SENTINEL"), Say,
    Site, ReadOver("sstatus"), Say, Chk(SteppedOver(2) /\ mem.v = "SENTINEL"), Say,
    Chk(mem.m_traps = 0), Let([mem EXCEPT !.result = fails = 0]), Leave(Ecall), Park>>
mhu_main ==
  <<Say, Csrr("boot_medeleg", "medeleg"), Let([mem EXCEPT !.boot_pmpcfg0 = csr.pmp.cfg]), Chk(csr.mhartid = 0), Say>>
  \o probe_setup("mhu_mt_trap_entry", "mhu_st_trap_entry")
  \o <<Csrw("mpp", "U"), Csrw("mepc", At("umode_test")), Mret, Park>>

-----------------------------------------------------------------------------
\* mtval-fault-address: a load and a store to an unmapped address, each
\* resumed at the address main stored for it.
mfa_trap_entry == ebt_trap_entry
fault_at(i, c) ==
  <<Let([mem EXCEPT !.brk[i] = After, !.resume[i] = Next4(After)]),
    Raise(c, UNMAPPED_ADDR, {"a0", "a1-a7"}), Let([mem EXCEPT !.marker[i] = TRUE])>>
mfa_main ==
  <<Say, Csrw("mtvec", Direct("mfa_trap_entry")), Csrw("mscratch", "area"), Csrc("mstatus", {"MIE"}),
    Chk(csr.mtvec = Direct("mfa_trap_entry") /\ csr.mie = {}), Say>>
  \o fault_at(1, "load_fault") \o fault_at(2, "store_fault")
  \o <<Say, Chk(mem.count = 2), Chk(mem.log[1].cause = "load_fault" /\ mem.log[2].cause = "store_fault"),
       Chk(\A i \in 1..2 : /\ mem.log[i].epc = mem.brk[i] /\ mem.resume[i] = Next4(mem.brk[i])
                           /\ mem.log[i].tval = UNMAPPED_ADDR /\ mem.marker[i])>> \o Finish

\* mret-no-restore: what the handler leaves in a0-a7 is what the code finds.
MnrVars == [m |-> Bank, site |-> Nowhere, a |-> "none", pre |-> "none", post |-> "none"]
mnr_trap_entry ==
  <<SwapIn("mscratch"), RecordM, Skip("mepc"), SwapOut("mscratch"),
    Let([mem EXCEPT !.a = "POST"]), Clobber({"t1", "a0", "a1-a7"}), Mret>>
mnr_main ==
  <<Say, Csrw("mtvec", Direct("mnr_trap_entry")), Csrw("mscratch", "area"), Csrc("mstatus", {"MIE"}),
    Chk(csr.mtvec = Direct("mnr_trap_entry") /\ csr.mie = {}), Say,
    Let([mem EXCEPT !.a = "PRE", !.pre = "PRE"]), Site, Raise(Ecall, 0, {"a0", "a1-a7"}),
    Let([mem EXCEPT !.post = mem.a]), Say,
    Chk(mem.m.traps = 1 /\ mem.m.cause = "ecall_m" /\ mem.m.tval = 0 /\ mem.m.epc = mem.site),
    Chk(mem.pre = "PRE" /\ mem.post = "POST")>> \o Finish

-----------------------------------------------------------------------------
\* mcause-interrupt-bit and mtvec-mode0-direct: an ecall and a timer interrupt
\* through one entry, told apart by mcause; both land at the base of mtvec.
TellVars == [ecall |-> 0, ecall_mepc |-> Nowhere, timer |-> 0, unexpected |-> 0, site |-> Nowhere,
             landing |-> "none"]
tell_c_handle ==
  <<CASE csr.mcause = "ecall_m" ->
           Do([csr EXCEPT !.mepc.at = @ + 1], dev,
              [mem EXCEPT !.ecall = Bump(@), !.ecall_mepc = csr.mepc, !.landing = pc.proc])
      [] csr.mcause = "MTI" ->
           Do(csr, [dev EXCEPT !.mtimer = "off"], [mem EXCEPT !.timer = Bump(@), !.landing = pc.proc])
      [] OTHER -> Let([mem EXCEPT !.unexpected = Bump(@)])>>
\* The timer is armed again when it is found to be due already; with MTIE set
\* a due timer is taken first and disarmed by the handler.
tell_main(entry) ==
  <<Store("mtimer", "off")>> \o Install(entry)
  \o <<Csrs("mstatus", {"MIE"}), Say, Spin, Chk(mem.ecall + mem.timer + mem.unexpected = 0), Say,
       Site, Raise(Ecall, 0, {}), Wait(mem.ecall >= 1), Say,
       Chk(mem.ecall = 1 /\ mem.ecall_mepc = mem.site /\ mem.landing = csr.mtvec.base
           /\ mem.timer = 0 /\ mem.unexpected = 0),
       Csrs("mie", {"MTI"}), Store("mtimer", "armed"), Chk(dev.mtimer # "due"), Say,
       Wait(mem.timer >= 1), Say,
       Chk(mem.timer = 1 /\ mem.landing = csr.mtvec.base /\ mem.unexpected = 0), Say,
       Chk(dev.mtimer = "off"), Spin, Chk(mem.timer = 1), Csrc("mie", {"MTI"}),
       Chk(mem.unexpected = 0), Say, Result, Park>>
mib_c_handle == tell_c_handle
mib_trap_entry == MinimalEntry(mib_c_handle)
mib_main == tell_main("mib_trap_entry")
d0_c_handle == tell_c_handle
\* t0 is swapped back before the C call and its value after the call is the
\* one the second swap parks.
d0_trap_entry ==
  <<SwapIn("mscratch"), SwapOut("mscratch")>> \o d0_c_handle
    \o <<Clobber({"t0"}), SwapIn("mscratch"), SwapOut("mscratch"), Mret>>
d0_main == tell_main("d0_trap_entry")

\* mtvec-direct-vectoring: an illegal word and an ecall land at the base.
DvmVars == [ill |-> Bank, ecall |-> Bank, unexpected |-> 0, ill_site |-> Nowhere, ecall_site |-> Nowhere,
            ill_landing |-> "none", ecall_landing |-> "none"]
dvm_trap_entry ==
  <<SwapIn("mscratch"),
    CASE csr.mcause = "illegal" -> Let([mem EXCEPT !.ill = LogM(@), !.ill_landing = pc.proc])
      [] csr.mcause = "ecall_m" -> Let([mem EXCEPT !.ecall = LogM(@), !.ecall_landing = pc.proc])
      [] OTHER -> Let([mem EXCEPT !.unexpected = Bump(@)]),
    Skip("mepc"), SwapOut("mscratch"), Mret>>
dvm_main ==
  Install("dvm_trap_entry")
  \o <<Let([mem EXCEPT !.ill_site = After]), Illegal,
       Let([mem EXCEPT !.ecall_site = After]), Raise(Ecall, 0, {}), Say,
       Chk(mem.ill.traps = 1 /\ mem.ecall.traps = 1 /\ mem.unexpected = 0
           /\ mem.ill.cause = "illegal" /\ mem.ecall.cause = "ecall_m"
           /\ mem.ill.epc = mem.ill_site /\ mem.ecall.epc = mem.ecall_site),
       Chk({mem.ill_landing, mem.ecall_landing} = {csr.mtvec.base}), Say, Result, Park>>

-----------------------------------------------------------------------------
\* mip-msip, mip-msip-write, mip-pending-no-trap: pending bits with every
\* interrupt disabled.  mip.MSIP follows the CLINT word, not a CSR write.
MipVars == [traps |-> 0, boot |-> {}]
msip_cycle ==
  <<Store("msip", 1), Chk(dev.msip = 1 /\ "MSI" \in Mip /\ Mip \ {"MSI"} = mem.boot), Say,
    Store("msip", 0), Chk(dev.msip = 0 /\ "MSI" \notin Mip /\ Mip \ {"MSI"} = mem.boot), Say>>
mmsp_main ==
  <<Say, Chk("MSI" \notin csr.mie /\ ~MIE /\ "MSI" \notin Mip /\ dev.msip = 0),
    Let([mem EXCEPT !.boot = Mip \ {"MSI"}]), Chk(("MTI" \in Mip) = (dev.mtimer = "due")), Say>>
  \o msip_cycle \o msip_cycle \o <<Chk("MSI" \notin csr.mie /\ ~MIE), Say>> \o Finish

mmsw_trap_entry == <<Let([mem EXCEPT !.traps = Bump(@)]), Park>>
mmsw_main ==
  <<Say, Chk(Mip = {"MTI"} /\ csr.mie = {} /\ csr.mstatus = {}),
    Csrw("mtvec", Direct("mmsw_trap_entry")), Chk(csr.mtvec = Direct("mmsw_trap_entry")),
    Csrs("mip", {"SSI"}), Chk(Mip = {"MTI", "SSI"}), Csrc("mip", {"SSI"}), Chk(Mip = {"MTI"}), Say,
    Csrs("mip", {"MSI"}), Chk(Mip = {"MTI"}), Spin, Chk(Mip = {"MTI"} /\ mem.traps = 0), Say,
    Csrc("mip", {"MSI"}), Chk(Mip = {"MTI"}), Say,
    Chk("MSI" \notin csr.mie /\ ~MIE /\ mem.traps = 0), Say, Result, Park>>

\* The entry steps over an instruction, whatever trapped.
mpnt_trap_entry ==
  <<SwapIn("mscratch"), Let([mem EXCEPT !.traps = Bump(@)]), Skip("mepc"), SwapOut("mscratch"), Mret>>
mpnt_main ==
  <<Say, Chk("MSI" \notin csr.mie /\ ~MIE /\ "MSI" \notin Mip),
    Csrc("mie", {"MSI"}), Csrc("mstatus", {"MIE"}), Chk("MSI" \notin csr.mie /\ ~MIE)>>
  \o Install("mpnt_trap_entry")
  \o <<Store("msip", 1), Chk(dev.msip = 1 /\ "MSI" \in Mip), Say,
       Spin, Chk("MSI" \in Mip /\ mem.traps = 0), Say,
       Store("msip", 0), Chk(dev.msip = 0 /\ "MSI" \notin Mip), Say,
       Chk("MSI" \notin csr.mie /\ ~MIE /\ mem.traps = 0), Say, Result, Park>>
=============================================================================
