------------------------------ MODULE PmpDemos ------------------------------
(***************************************************************************)
(* The physical memory protection demos: an entry is programmed, read back *)
(* and written again where the lock bit should hold, then loads and stores *)
(* on both sides of each of its bounds either go through or trap.  The     *)
(* trap entry resumes at an address the probe leaves in the save area.     *)
(* An address is a word address; where the linker places an array is one   *)
(* fixed, suitably aligned place.                                          *)
(***************************************************************************)
EXTENDS PendDemos

PmpSave == [traps |-> 0, seen |-> 0, cause |-> "none", epc |-> Nowhere, tval |-> 0, resume |-> Nowhere]
PmpVars == [save |-> PmpSave, got |-> "none", rb |-> "none", q0 |-> 0, boot_pmp |-> ResetPmp,
            boot |-> [bits |-> {}, mpp |-> "U"], set_rb |-> {}, clr_rb |-> {}, ram |-> <<>>]
WithRam(words) == [PmpVars EXCEPT !.ram = [w \in words |-> "boot"]]

\* The trap entries: s is the save area with the trap counted or flagged.
Caught(s) == Let([mem EXCEPT !.save = [s EXCEPT !.cause = csr.mcause, !.epc = csr.mepc, !.tval = csr.mtval]])
ResumeEntry(s) ==
  <<SwapIn("mscratch"), Caught(s), Csrw("mepc", mem.save.resume), SwapOut("mscratch"), Mret>>
pmp_trap_entry == ResumeEntry([mem.save EXCEPT !.seen = 1])
plb_trap_entry == ResumeEntry([mem.save EXCEPT !.seen = Bump(@)])
tor_trap_entry == ResumeEntry([mem.save EXCEPT !.traps = Bump(@), !.seen = 1])
\* pmp-napot-match probes with MPRV set, and mret would leave MPP at U under it.
pnm_trap_entry ==
  <<SwapIn("mscratch"), Csrc("mstatus", {"MPRV"}), Caught([mem.save EXCEPT !.traps = Bump(@), !.seen = 1]),
    Csrw("mepc", mem.save.resume), SwapOut("mscratch"), Mret>>

\* la t0, 1f; the resume address and a clear flag are stored, n instructions
\* before the access, and label 1 is k after it.
Aim(n, k) == Let([mem EXCEPT !.save.resume = [pc EXCEPT !.at = @ + n + k], !.save.seen = 0])
\* The one trap since was c, at the access k before the label, for the word w.
TrappedOnce(c, w, k) ==
  /\ mem.save.seen = 1 /\ mem.save.cause = c /\ mem.save.tval = w
  /\ mem.save.epc = [mem.save.resume EXCEPT !.at = @ - k]
NotTrapped == mem.save.seen = 0
PutGot(v) == Let([mem EXCEPT !.got = v])

\* pmpaddr of the naturally aligned region of 2^(k+1) words at base.
NapotAddr(base, k) == base + 2^k - 1
CfgIs(s) == Chk(csr.pmp.cfg = Pmpcfg(s))
AddrIs(i, v) == Chk(csr.pmp.addr[i + 1] = v)

-----------------------------------------------------------------------------
\* pmp: a locked no-access entry over a page binds M-mode too.
SCRATCH == TextWord + 2^14
OUTSIDE == SCRATCH + PageWords
NAPOT_4K == NapotAddr(SCRATCH, 9)
Vector(entry) == <<Csrw("mtvec", Direct(entry)), Csrw("mscratch", "area")>>
Reachable(w, v) == <<StoreAt(w, v, {}), Load("got", w, {}), Chk(mem.got = v), Say>>
test_load == <<Aim(1, 1), Load("got", SCRATCH, {"t0", "t1"}), Say, Chk(TrappedOnce("load_fault", SCRATCH, 1))>>
test_store == <<Aim(1, 1), StoreAt(SCRATCH, "42", {"t0", "t1"}), Say, Chk(TrappedOnce("store_fault", SCRATCH, 1))>>
pmp_main ==
  <<Say>> \o Reachable(SCRATCH, "A5") \o Vector("pmp_trap_entry")
  \o <<Say, Csrw_pmpaddr(0, NAPOT_4K), Csrw_pmpcfg0(<<Locked("NAPOT")>>), Say, CfgIs(<<Locked("NAPOT")>>),
       Csrw_pmpcfg0(<<>>), Say, CfgIs(<<Locked("NAPOT")>>)>>
  \o Reachable(OUTSIDE, "88") \o test_load \o test_store \o <<Result, Park>>

\* pmp-lock-bit: writes of all ones to the configuration and the address of a
\* locked entry are ignored; the other entries take them, locks included.
plb_test_load == test_load
plb_main ==
  <<Say>> \o Reachable(SCRATCH, "A5") \o Vector("plb_trap_entry")
  \o <<Say, Csrw_pmpaddr(0, NAPOT_4K), Csrw_pmpcfg0(<<Locked("NAPOT")>>), Say,
       AddrIs(0, NAPOT_4K), CfgIs(<<Locked("NAPOT")>>),
       Csrw_pmpcfg0([i \in 1..Entries |-> OnesCfg]), Say, Chk(csr.pmp.cfg[1] = Locked("NAPOT")),
       Csrw_pmpaddr(0, OnesAddr), Say, AddrIs(0, NAPOT_4K)>>
  \o Reachable(OUTSIDE, "88") \o plb_test_load \o <<Result, Park>>

\* pmp-tor: the bottom of a locked TOR entry is the address of the entry below,
\* whose own configuration is cleared.  Label 1 is past the sd of the byte.
test_lbu(w) == <<Aim(1, 2), Load("got", w, {"t0", "t1"}), Let([mem EXCEPT !.rb = mem.got]), Say>>
TestDenied(w) == test_lbu(w) \o <<Chk(TrappedOnce("load_fault", w, 2))>>
TestGranted(w, v) == test_lbu(w) \o <<Chk(NotTrapped /\ mem.rb = v)>>
pmt_main ==
  <<Say>> \o Reachable(SCRATCH, "fill") \o Reachable(SCRATCH - 1, "5A") \o Vector("pmp_trap_entry")
  \o <<Csrw_pmpaddr(0, SCRATCH), Csrw_pmpaddr(1, OUTSIDE), Csrw_pmpcfg0(<<Allow("TOR"), Locked("TOR")>>), Say,
       CfgIs(<<Allow("TOR"), Locked("TOR")>>), Csrw_pmpcfg0(<<>>), Say, CfgIs(<<OFF, Locked("TOR")>>)>>
  \o Reachable(OUTSIDE, "88") \o TestGranted(SCRATCH - 1, "5A") \o TestDenied(SCRATCH) \o <<Result, Park>>

\* pmp-napot-size: the trailing ones of pmpaddr give the size, 4 KiB and then,
\* in a second entry, 64 KiB.
END_64K == SCRATCH + 2^14
FAR_SENTINEL == END_64K + 1
PROBE_OUTSIDE == END_64K + 2
pns_fill == <<Say>> \o Reachable(SCRATCH + 1023, "FF") \o Reachable(SCRATCH + 1024, "00")
            \o Reachable(SCRATCH + 2048, "00") \o Reachable(END_64K - 1, "FF") \o Reachable(FAR_SENTINEL, "A5")
pns_main ==
  pns_fill \o Vector("pmp_trap_entry")
  \o <<Csrw_pmpaddr(0, NAPOT_4K), Csrw_pmpcfg0(<<Locked("NAPOT")>>), AddrIs(0, NAPOT_4K), CfgIs(<<Locked("NAPOT")>>)>>
  \o Reachable(PROBE_OUTSIDE, "88")
  \o TestGranted(SCRATCH + 2048, "00") \o TestDenied(SCRATCH + 1023) \o TestGranted(SCRATCH + 1024, "00")
  \o <<Csrw_pmpaddr(1, NapotAddr(SCRATCH, 13)), Csrw_pmpcfg0(<<Locked("NAPOT"), Locked("NAPOT")>>),
       AddrIs(1, NapotAddr(SCRATCH, 13)), CfgIs(<<Locked("NAPOT"), Locked("NAPOT")>>)>>
  \o TestDenied(SCRATCH + 2048) \o TestDenied(END_64K - 1) \o test_lbu(END_64K) \o <<Chk(NotTrapped)>>
  \o TestGranted(FAR_SENTINEL, "A5") \o <<Result, Park>>

-----------------------------------------------------------------------------
\* pmp-tor-bottom and pmp-tor-top: the first and the last word of a locked TOR
\* region and their neighbours outside it.
START == TextWord + 3 * PageWords
END == START + PageWords
tor_setup(entry) ==
  <<Say>> \o Vector(entry)
  \o <<Csrw("medeleg", {}), Csrw("mideleg", {}), Csrw("mie", {}), Csrc("mstatus", {"MIE"}),
       Let([mem EXCEPT !.boot_pmp = csr.pmp, !.boot = [bits |-> csr.mstatus, mpp |-> csr.mpp]]),
       Say, Chk(mem.boot_pmp = ResetPmp)>>
\* The destination register holds a poison value before the load.
probe_load_byte(w) == <<Aim(2, 1), PutGot("POISON"), Load("got", w, {"t0", "t1"}), Say>>
Denied(w) == probe_load_byte(w) \o <<Chk(TrappedOnce("load_fault", w, 1)), Chk(mem.got = "POISON"), Say>>
Granted(w, v) == probe_load_byte(w) \o <<Chk(NotTrapped), Chk(mem.got = v), Say>>
Still(w, v) == <<Load("rb", w, {}), Chk(mem.rb = v), Say>>
tor_region(w, v) == Reachable(START, "fill") \o Reachable(END - 1, "fill") \o Reachable(w, v)
tor_program ==
  <<Csrw_pmpaddr(0, START), Csrw_pmpaddr(1, END), Csrw_pmpcfg0(<<Allow("TOR"), Locked("TOR")>>), Say,
    AddrIs(0, START), AddrIs(1, END), CfgIs(<<Allow("TOR"), Locked("TOR")>>),
    Csrw_pmpcfg0(<<>>), Say, CfgIs(<<OFF, Locked("TOR")>>)>>
tor_quiet == <<Let([mem EXCEPT !.q0 = mem.save.traps]), Spin, Say, Chk(mem.save.traps = mem.q0)>>
\* The locked entry, and the address below it that is its bottom, cannot be put
\* back.
tor_restore ==
  <<Csrw_pmpaddr(0, 0), Csrw_pmpaddr(1, 0), Csrw_pmpcfg0(<<>>), Say,
    AddrIs(0, START), AddrIs(1, END), CfgIs(<<OFF, Locked("TOR")>>)>> \o RestoreMstatus \o Finish
tor_bot_probes == Denied(START) \o Still(START - 1, "5A") \o Granted(START - 1, "5A")
tor_bot_main ==
  tor_setup("tor_trap_entry") \o tor_region(START - 1, "5A") \o tor_program \o tor_bot_probes
  \o tor_quiet \o tor_restore
tor_top_probes == Denied(END - 1) \o Still(END, "A5") \o Granted(END, "A5")
tor_top_setup == tor_setup("tor_trap_entry") \o tor_region(END, "A5")
tor_top_program == tor_program
tor_top_restore == tor_quiet \o tor_restore
tor_top_main == tor_top_setup \o tor_top_program \o tor_top_probes \o tor_top_restore

-----------------------------------------------------------------------------
\* pmp-na4-match and pmp-na4-low-edge: a locked four-byte entry, and the word
\* above and below it.
na4_setup(canary, neighbour) ==
  tor_setup("tor_trap_entry") \o Reachable(canary, "canary") \o Reachable(neighbour, "neighbour")
na4_program(canary) ==
  <<Csrw_pmpaddr(0, canary), Csrw_pmpcfg0(<<Locked("NA4")>>), Say, AddrIs(0, canary), CfgIs(<<Locked("NA4")>>)>>
na4_restore(canary) ==
  tor_quiet
  \o <<Csrw_pmpaddr(0, mem.boot_pmp.addr[1]), Csrw_pmpcfg0(mem.boot_pmp.cfg), Say, AddrIs(0, canary), CfgIs(<<Locked("NA4")>>)>>
  \o RestoreMstatus \o Finish
CANARY_ADDR == TextWord + 2 * PageWords
na4_probes == Denied(CANARY_ADDR) \o Still(CANARY_ADDR + 1, "neighbour") \o Granted(CANARY_ADDR + 1, "neighbour")
na4_main ==
  na4_setup(CANARY_ADDR, CANARY_ADDR + 1) \o na4_program(CANARY_ADDR) \o na4_probes \o na4_restore(CANARY_ADDR)
LOW_CANARY == CANARY_ADDR + 256
low_setup == na4_setup(LOW_CANARY, LOW_CANARY - 1) \o na4_program(LOW_CANARY)
low_probes == Granted(LOW_CANARY - 1, "neighbour") \o Denied(LOW_CANARY) \o Still(LOW_CANARY - 1, "neighbour")
low_main == low_setup \o low_probes \o na4_restore(LOW_CANARY)

\* pmp-napot-encode: an address register keeps every NAPOT pattern, whatever the
\* size it encodes.
patterns == <<NapotAddr(TextWord + 2^11, 9), NapotAddr(TextWord + 2^20, 13), NapotAddr(TextWord + 2^25, 17)>>
ReadsBack(v) == <<Csrw_pmpaddr(0, v), Say, AddrIs(0, v)>>
pne_main ==
  <<Say, Let([mem EXCEPT !.boot_pmp = csr.pmp]), Say>>
  \o ReadsBack(patterns[1]) \o ReadsBack(patterns[2]) \o ReadsBack(patterns[3])
  \o <<Csrw_pmpcfg0(<<Deny("NAPOT")>>), Say, Chk(csr.pmp.cfg[1] = Deny("NAPOT")),
       Csrw_pmpcfg0(<<Allow("NAPOT")>>), Say, Chk(csr.pmp.cfg[1] = Allow("NAPOT")),
       Csrw_pmpaddr(0, mem.boot_pmp.addr[1]), Csrw_pmpaddr(1, mem.boot_pmp.addr[2]), Csrw_pmpcfg0(mem.boot_pmp.cfg), Say,
       Chk(csr.pmp = mem.boot_pmp), Say>> \o Finish

-----------------------------------------------------------------------------
\* pmp-napot-match: unlocked entries bind an access of M-mode that MPRV checks as
\* S-mode.  In the 16 KiB the second entry grants, the first denies a page.
ADDR_IN_LO == TextWord + 2 * PageWords
ADDR_IN_HI == ADDR_IN_LO + 1023
ADDR_BELOW == ADDR_IN_LO - 1
ADDR_ABOVE == ADDR_IN_LO + 1024
PMPCFG0_VAL == <<Deny("NAPOT"), Allow("NAPOT")>>
LendS == <<Csrw("mpp", "S"), Csrs("mstatus", {"MPRV"})>>
probe_load(w) == <<Aim(4, 1)>> \o LendS \o <<PutGot("POISON"), Load("got", w, {"t0", "t1"}), Csrc("mstatus", {"MPRV"})>>
probe_store(w) == <<Aim(3, 1)>> \o LendS \o <<StoreAt(w, "stored", {"t0"}), Csrc("mstatus", {"MPRV"})>>
report_load(w, denied, v) ==
  probe_load(w)
  \o <<Say, Chk(IF denied THEN TrappedOnce("load_fault", w, 1) /\ mem.got = "POISON" ELSE NotTrapped /\ mem.got = v)>>
report_store(w, denied) ==
  probe_store(w)
  \o IF denied THEN <<Say, Chk(TrappedOnce("store_fault", w, 1))>>
     ELSE <<Say, Chk(NotTrapped), Load("rb", w, {}), Chk(mem.rb = "stored")>>
pnm_setup ==
  tor_setup("pnm_trap_entry") \o Reachable(ADDR_IN_LO, "in") \o Reachable(ADDR_IN_HI, "in2")
  \o Reachable(ADDR_BELOW, "lo") \o Reachable(ADDR_ABOVE, "hi")
pnm_probes ==
  <<Csrw_pmpaddr(0, NapotAddr(ADDR_IN_LO, 9)), Csrw_pmpaddr(1, NapotAddr(TextWord, 11)), Csrw_pmpcfg0(PMPCFG0_VAL), Say,
    AddrIs(0, NapotAddr(ADDR_IN_LO, 9)), AddrIs(1, NapotAddr(TextWord, 11)), CfgIs(PMPCFG0_VAL)>>
  \o report_load(ADDR_IN_LO, TRUE, "none") \o report_load(ADDR_IN_HI, TRUE, "none")
  \o report_load(ADDR_BELOW, FALSE, "lo") \o report_load(ADDR_ABOVE, FALSE, "hi")
  \o report_store(ADDR_IN_LO, TRUE) \o report_store(ADDR_BELOW, FALSE) \o report_store(ADDR_ABOVE, FALSE)
pnm_restore ==
  tor_quiet
  \o <<Csrw_pmpaddr(0, mem.boot_pmp.addr[1]), Csrw_pmpaddr(1, mem.boot_pmp.addr[2]), Csrw_pmpcfg0(mem.boot_pmp.cfg), Say,
       Chk(csr.pmp = mem.boot_pmp)>> \o RestoreMstatus \o Finish
pnm_main == pnm_setup \o pnm_probes \o pnm_restore

-----------------------------------------------------------------------------
\* pmp-priority: of two entries over the same page the lower-numbered one
\* decides, first granting S-mode the page and, swapped, denying it.  A third
\* entry grants the upper half of memory, not the UART: S-mode does not print.
PpVars == [m |-> Bank, s |-> Bank, s_resume |-> Nowhere, target |-> "none", site |-> Nowhere,
           boot_medeleg |-> {}, boot_pmp |-> ResetPmp, rbA |-> ResetPmp, rbB |-> ResetPmp, rst |-> ResetPmp,
           pA_canary |-> "none", pA_control |-> "none", pB_control |-> "none", pA |-> Bank, t1 |-> "none",
           ram |-> [w \in {SCRATCH, OUTSIDE} |-> IF w = OUTSIDE THEN "5A" ELSE "boot"]]
BROAD == NapotAddr(TextWord, 28)
PageRW == Cfg("NAPOT", {"R", "W"}, FALSE)
PMPCFG0_PHASEA == <<PageRW, Deny("NAPOT"), Allow("NAPOT")>>
PMPCFG0_PHASEB == <<Deny("NAPOT"), PageRW, Allow("NAPOT")>>
program_pmp(cfg, a, f) ==
  <<Csrw_pmpaddr(0, a[1]), Csrw_pmpaddr(1, a[2]), Csrw_pmpaddr(2, a[3]), Csrw_pmpcfg0(cfg), Csrr(f, "pmp")>>
PageTwice == <<NAPOT_4K, NAPOT_4K, BROAD>>
Programmed(rb, cfg) == rb.cfg = Pmpcfg(cfg) /\ \A i \in 1..3 : rb.addr[i] = PageTwice[i]
pp_m_trap_entry == route_m_trap_entry
pp_s_trap_entry ==
  <<SwapIn("sscratch"), Let([mem EXCEPT !.s = LogS(@)]), If(mem.s_resume = Nowhere, "park"),
    Csrw("sepc", mem.s_resume), SwapOut("sscratch"), Sret>>
\* Label 2 is the ecall.
pp_smode_phaseA ==
  <<Let([mem EXCEPT !.s_resume = [pc EXCEPT !.at = @ + 6]]), StoreAt(SCRATCH, "A5", {"t1"}),
    Load("t1", SCRATCH, {"t1"}), Let([mem EXCEPT !.pA_canary = mem.t1]),
    Load("t1", OUTSIDE, {"t1"}), Let([mem EXCEPT !.pA_control = mem.t1]), Leave(Ecall), Park>>
pp_phase2_mmode ==
  <<Let([mem EXCEPT !.pA = mem.m])>> \o program_pmp(PMPCFG0_PHASEB, PageTwice, "rbB")
  \o <<Let([mem EXCEPT !.target = "report_mmode"])>> \o DropBySret("smode_phaseB")
pp_smode_phaseB ==
  <<Load("t1", OUTSIDE, {"t1"}), Let([mem EXCEPT !.pB_control = mem.t1]), Site, Load("t1", SCRATCH, CallerSaved), Park>>
pp_restore ==
  program_pmp(mem.boot_pmp.cfg, mem.boot_pmp.addr, "rst")
  \o <<Csrw("medeleg", mem.boot_medeleg), Say, Chk(csr.medeleg = mem.boot_medeleg), Chk(mem.rst = mem.boot_pmp)>>
pp_report_mmode ==
  pp_restore
  \o <<Chk(Programmed(mem.rbA, PMPCFG0_PHASEA)),
       Chk(mem.s.traps = 0 /\ mem.pA_canary = "A5" /\ mem.pA_control = "5A"
           /\ mem.pA.traps = 1 /\ mem.pA.cause = "ecall_s" /\ mem.pA.from = "S"),
       Chk(Programmed(mem.rbB, PMPCFG0_PHASEB)),
       Chk(mem.pB_control = "5A" /\ mem.m.traps = 2 /\ mem.m.cause = "load_fault" /\ mem.m.epc = mem.site
           /\ mem.m.tval = SCRATCH /\ mem.m.from = "S" /\ mem.s.traps = 0), Say,
       Spin, Chk(mem.m.traps = 2 /\ mem.s.traps = 0), Say>> \o Finish
pp_main ==
  InstallBoth
  \o <<Let([mem EXCEPT !.boot_medeleg = csr.medeleg]), Csrr("boot_pmp", "pmp"), Say>>
  \o program_pmp(PMPCFG0_PHASEA, PageTwice, "rbA")
  \o <<Say>> \o NoInterrupts \o <<Let([mem EXCEPT !.target = "phase2_mmode"])>> \o DropBySret("smode_phaseA")

-----------------------------------------------------------------------------
\* mstatus-mprv-load: the entry is meant to cover the page, but its range ends
\* where the page begins; the load checked as U-mode faults because no entry
\* covers the page at all.
MprvVars == [m |-> Bank, v |-> "none", site |-> Nowhere, traps_b |-> 0, boot_pmp |-> ResetPmp,
             boot |-> [bits |-> {}, mpp |-> "U"], ram |-> SCRATCH :> "canary"]
mprv_m_handler == <<RecordM, If(csr.mcause # "load_fault", "park"), Skip("mepc")>>
\* Every register is saved, t0 by way of mscratch, and MPRV is off before the
\* first store.
mprv_m_trap_entry == <<Csrw("mscratch", "t0"), Csrc("mstatus", {"MPRV"})>> \o mprv_m_handler \o <<Mret>>
probe_load_u ==
  <<Let([mem EXCEPT !.v = "POISON", !.site = Next4(Next4(pc))]), Csrs("mstatus", {"MPRV"}), Load("v", SCRATCH, {}),
    Csrc("mstatus", {"MPRV"})>>
probe_load_m == probe_load_u
PlainLoad == <<Csrw("mpp", "U"), Csrc("mstatus", {"MPRV"}), Load("v", SCRATCH, {})>>
mprv_program ==
  <<Csrw_pmpaddr(0, SCRATCH), Csrw_pmpaddr(1, OUTSIDE), Csrw_pmpcfg0(<<Deny("TOR")>>), CfgIs(<<Deny("TOR")>>)>>
mprv_phases ==
  PlainLoad \o <<Say, Chk(mem.m.traps = 0), Chk(mem.v = "canary"), Let([mem EXCEPT !.traps_b = mem.m.traps])>>
  \o probe_load_u
  \o <<Say, Chk(mem.m.traps = mem.traps_b + 1 /\ mem.m.cause = "load_fault" /\ mem.m.epc = mem.site
                /\ mem.m.tval = SCRATCH), Chk(mem.v = "POISON"),
       Csrw("mpp", "M"), Let([mem EXCEPT !.traps_b = mem.m.traps])>>
  \o probe_load_m \o <<Say, Chk(mem.m.traps = mem.traps_b), Chk(mem.v = "canary")>>
mprv_restore ==
  mprv_program \o PlainLoad
  \o <<Say, Chk(mem.v = "canary"), Csrw_pmpcfg0(<<>>), CfgIs(<<>>)>> \o RestoreMstatus \o Finish
mprv_main ==
  <<Say, Csrw("mtvec", Direct("mprv_m_trap_entry")), Csrw("medeleg", {}), Csrw("mideleg", {}), Csrw("mie", {}),
    Csrc("mstatus", {"MIE"}),
    Let([mem EXCEPT !.boot_pmp = csr.pmp, !.boot = [bits |-> csr.mstatus, mpp |-> csr.mpp]]), Say,
    Chk("MPRV" \notin mem.boot.bits /\ mem.boot_pmp = ResetPmp), Say>>
  \o mprv_program \o <<AddrIs(0, SCRATCH), AddrIs(1, OUTSIDE), Say>> \o mprv_phases \o mprv_restore

\* mstatus-mprv-readback: MPRV is set and cleared alone.
mprv_trap_entry == <<Caught([mem.save EXCEPT !.traps = Bump(@)]), Park>>
mprv_probes ==
  <<Csrs("mstatus", {"MPRV"}), Csrr("set_rb", "mstatus"), Csrc("mstatus", {"MPRV"}), Csrr("clr_rb", "mstatus")>>
rdb_main ==
  <<Say, Csrw("mtvec", Direct("mprv_trap_entry")), Let([mem EXCEPT !.boot.bits = csr.mstatus]), Say>> \o mprv_probes
  \o <<Say, Chk(mem.set_rb = mem.boot.bits \cup {"MPRV"}), Chk(mem.clr_rb = mem.boot.bits),
       Say, Chk(csr.mstatus = mem.boot.bits), Chk(mem.save.traps = 0), Say, Result, Park>>
=============================================================================
