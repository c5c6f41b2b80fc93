------------------------------ MODULE VmDemos ------------------------------
(***************************************************************************)
(* The virtual memory demos: page tables written by hand, a drop to S-mode *)
(* under Sv39, accesses that are mapped, not mapped or not granted, and    *)
(* the translations the hart keeps until a fence.                          *)
(***************************************************************************)
EXTENDS PmpDemos, FiniteSets

\* What main, the phases and the trap entries share.
Phase == [rb |-> "none", rb2 |-> "none", site |-> Nowhere, m |-> Bank]
VmVars(tables, pages) ==
  [m |-> Bank, s |-> Bank, s_resume |-> Nowhere, target |-> "none", t0 |-> "none", t1 |-> "none",
   pA |-> Phase, pB |-> Phase, pC |-> Phase, pD |-> Phase, pE |-> Phase,
   satp_rb |-> Bare, satpB_rb |-> Bare, satpE_rb |-> Bare, boot_medeleg |-> {}, rbA |-> {}, rbB |-> {},
   pt |-> [t \in DOMAIN tables |-> <<>>], ram |-> [w \in pages |-> "boot"]]

\* The identity window: MAP_PAGES pages from the start of RAM; the code maps 128.
MAP_PAGES == 4
RW == {"R", "W"}
Window == [i \in 0..MAP_PAGES-1 |-> Leaf(Page(TextWord) + i, RWX)]
\* scratch1 to scratch4, beyond the window: reached through the test page only.
scratch(i) == TextWord + (32 + i) * PageWords
Scratch(n) == {scratch(i) : i \in 1..n}
Holds(w, c) == <<Load("t0", w, {}), Chk(mem.t0 = c)>>
Plant(w, c) == <<StoreAt(w, c, {})>> \o Holds(w, c)
set_satp(v) == <<Csrw("satp", v), SfenceVma>>

\* main up to the tables, the tables built and checked, and satp set.
vm_setup == InstallBoth \o <<Let([mem EXCEPT !.boot_medeleg = csr.medeleg]), OpenPmp, CfgIs(<<Allow("NAPOT")>>), Say>> \o NoInterrupts
\* Every entry above the last level is a pure pointer and every leaf a page.
WellFormed(pt) ==
  /\ \A t \in {"root_pt", "root1", "root2", "l1_test", "l1_t1", "l1_t2", "l1a", "l1b", "l1_id"} \cap DOMAIN pt :
       \A i \in DOMAIN pt[t] : pt[t][i].kind = "table"
  /\ \A t \in {"l0_test", "l0_t1", "l0_t2", "l0a", "l0b", "l0_id"} \cap DOMAIN pt :
       \A i \in DOMAIN pt[t] : pt[t][i].kind = "leaf"
build(tables) == <<Let([mem EXCEPT !.pt = tables]), Chk(WellFormed(mem.pt))>>
\* Entry 0 of a leaf table is pointed at another page.
Remap(t, w) == <<Let([mem EXCEPT !.pt[t] = 0 :> Leaf(Page(w), RW)]), Chk(Entry(mem.pt, t, 0) = Leaf(Page(w), RW))>>

-----------------------------------------------------------------------------
\* sfence-vma-remap: the leaf of the test page is rewritten; the load sees the
\* old page until a fence.
TEST_VA == 2^28
svr_s_trap_entry == <<SwapIn("sscratch"), Let([mem EXCEPT !.s = LogS(@)]), Park>>
phase_body(f) ==
  <<Load("t0", TEST_VA, {"t0"}), Let([mem EXCEPT ![f].rb = mem.t0]), Let([mem EXCEPT ![f].site = After]),
    Leave(Ecall), Park>>
\* Between phases the registers of the ecall are kept and the next stop is named.
Keep(f) == Let([mem EXCEPT ![f].m = mem.m])
Onward(mid, phase) == <<Let([mem EXCEPT !.target = mid])>> \o DropBySret(phase)
Ecalled(f) == mem[f].m.cause = "ecall_s" /\ mem[f].m.epc = mem[f].site

svr_tables == [root_pt |-> 1 :> Table("l1_test") @@ 2 :> Table("l1_id"), l1_test |-> 0 :> Table("l0_test"),
               l0_test |-> 0 :> Leaf(Page(scratch(1)), RW), l1_id |-> 0 :> Table("l0_id"), l0_id |-> Window]
svr_main ==
  vm_setup \o Plant(scratch(1), "A") \o Plant(scratch(2), "B") \o build(svr_tables)
  \o set_satp(SatpSv39(0, "root_pt")) \o <<Csrr("satp_rb", "satp"), Say>> \o Onward("mid_to_B", "smode_phaseA")
svr_mid_to_B ==
  <<Keep("pA")>> \o Remap("l0_test", scratch(2)) \o Onward("mid_to_C", "smode_phaseB")
svr_mid_to_C == <<Keep("pB"), SfenceVma>> \o Onward("report_mmode", "smode_phaseC")
\* Translation and protection are off again before the report.
BackToBare == set_satp(Bare) \o <<Csrw_pmpcfg0(<<>>), Csrw_pmpaddr(0, 0), Say>>
Restored == csr.satp = Bare /\ csr.pmp.cfg = Pmpcfg(<<>>)
Quiet(m, s) == <<Spin, Chk(mem.m.traps = m /\ mem.s.traps = s), Say>>
svr_report_mmode ==
  <<Keep("pC")>> \o BackToBare
  \o <<Chk(mem.satp_rb = SatpSv39(0, "root_pt")),
       Chk(mem.pA.rb = "A"), Chk(mem.pB.rb = "A"), Chk(mem.pC.rb = "B")>>
  \o Holds(scratch(1), "A") \o Holds(scratch(2), "B")
  \o <<Chk(mem.s.traps = 0 /\ mem.m.traps = 3), Chk(\A f \in {"pA", "pB", "pC"} : Ecalled(f)), Chk(Restored)>>
  \o Quiet(3, 0) \o Finish

-----------------------------------------------------------------------------
\* sfence-vma-rs1-scoped: two pages are rewritten and one address is fenced; on
\* this machine the other page goes fresh too.
TEST_VA2 == 3 * 2^28
srs_phase_body(f) ==
  <<Load("t0", TEST_VA, {"t0"}), Let([mem EXCEPT ![f].rb = mem.t0]),
    Load("t0", TEST_VA2, {"t0"}), Let([mem EXCEPT ![f].rb2 = mem.t0]),
    Let([mem EXCEPT ![f].site = After]), Leave(Ecall), Park>>
srs_tables == [root_pt |-> 1 :> Table("l1_t1") @@ 2 :> Table("l1_id") @@ 3 :> Table("l1_t2"),
               l1_t1 |-> 0 :> Table("l0_t1"), l0_t1 |-> 0 :> Leaf(Page(scratch(1)), RW),
               l1_t2 |-> 0 :> Table("l0_t2"), l0_t2 |-> 0 :> Leaf(Page(scratch(3)), RW),
               l1_id |-> 0 :> Table("l0_id"), l0_id |-> Window]
Canaries == Plant(scratch(1), "A") \o Plant(scratch(2), "B") \o Plant(scratch(3), "C") \o Plant(scratch(4), "D")
Intact == Holds(scratch(1), "A") \o Holds(scratch(2), "B") \o Holds(scratch(3), "C") \o Holds(scratch(4), "D")
srs_main ==
  vm_setup \o Canaries \o build(srs_tables)
  \o set_satp(SatpSv39(0, "root_pt")) \o <<Csrr("satp_rb", "satp"), Say>> \o Onward("mid_to_B", "smode_phaseA")
srs_mid_to_B ==
  <<Keep("pA")>> \o Remap("l0_t1", scratch(2)) \o Remap("l0_t2", scratch(4)) \o <<SfenceVma>> \o Onward("mid_to_C", "smode_phaseB")
srs_mid_to_C == <<Keep("pB"), SfenceVma>> \o Onward("report_mmode", "smode_phaseC")
srs_report_mmode ==
  <<Keep("pC")>> \o BackToBare
  \o <<Chk(mem.satp_rb = SatpSv39(0, "root_pt")),
       Chk(mem.pA.rb = "A" /\ mem.pA.rb2 = "C"), Chk(mem.pB.rb = "B" /\ mem.pB.rb2 = "D"),
       Chk(mem.pC.rb = "B" /\ mem.pC.rb2 = "D")>> \o Intact
  \o <<Chk(mem.s.traps = 0 /\ mem.m.traps = 3), Chk(\A f \in {"pA", "pB", "pC"} : Ecalled(f)), Chk(Restored)>>
  \o Quiet(3, 0) \o Finish

-----------------------------------------------------------------------------
\* sfence-vma-rs2-scoped: two address spaces map the test page; both leaves are
\* rewritten and one ASID is fenced.
srs2_tables == [root1 |-> 1 :> Table("l1a") @@ 2 :> Table("l1_id"), l1a |-> 0 :> Table("l0a"),
                l0a |-> 0 :> Leaf(Page(scratch(1)), RW),
                root2 |-> 1 :> Table("l1b") @@ 2 :> Table("l1_id"), l1b |-> 0 :> Table("l0b"),
                l0b |-> 0 :> Leaf(Page(scratch(2)), RW), l1_id |-> 0 :> Table("l0_id"), l0_id |-> Window]
srs2_main ==
  vm_setup \o Canaries \o build(srs2_tables)
  \o set_satp(SatpSv39(1, "root1")) \o <<Csrr("satp_rb", "satp"), Say>> \o Onward("mid_to_B", "smode_phaseA")
srs2_mid_to_B ==
  <<Keep("pA")>> \o set_satp(SatpSv39(2, "root2")) \o <<Csrr("satpB_rb", "satp")>> \o Onward("mid_to_C", "smode_phaseB")
srs2_mid_to_C ==
  <<Keep("pB")>> \o Remap("l0a", scratch(3)) \o Remap("l0b", scratch(4)) \o Onward("mid_to_D", "smode_phaseC")
srs2_mid_to_D == <<Keep("pC"), SfenceVma>> \o Onward("mid_to_E", "smode_phaseD")
srs2_mid_to_E ==
  <<Keep("pD")>> \o set_satp(SatpSv39(1, "root1")) \o <<Csrr("satpE_rb", "satp")>> \o Onward("report_mmode", "smode_phaseE")
srs2_restore == <<Keep("pE")>> \o BackToBare
srs2_report_mmode ==
  srs2_restore
  \o <<Chk(mem.satp_rb = SatpSv39(1, "root1") /\ mem.satpB_rb = SatpSv39(2, "root2") /\ mem.satpE_rb = SatpSv39(1, "root1")),
       Chk(mem.pA.rb = "A"), Chk(mem.pB.rb = "B"), Chk(mem.pC.rb = "B"), Chk(mem.pD.rb = "D"), Chk(mem.pE.rb = "C")>>
  \o Intact
  \o <<Chk(mem.s.traps = 0 /\ mem.m.traps = 5), Chk(\A f \in {"pA", "pB", "pC", "pD", "pE"} : Ecalled(f)), Chk(Restored)>>
  \o Quiet(5, 0) \o Finish
-----------------------------------------------------------------------------
\* medeleg-load-pagefault, -store-pagefault, -instr-pagefault and
\* -store-access-fault: an access to the page after the window faults into
\* S-mode with its medeleg bit set, and into M-mode with it clear.
mlpf_s_trap_entry == pp_s_trap_entry
id_tables == [root_pt |-> 2 :> Table("l1_id"), l1_id |-> 0 :> Table("l0_id"), l0_id |-> Window]
FaultVpn0 == 128
\* medeleg as written in phase A, and the two phases with the access op at the
\* instruction after the site; label 2 is the ecall.
Delegate(c) == <<Csrw("medeleg", {c}), Csrr("rbA", "medeleg"), Say>>
ResumeAt(n) == Let([mem EXCEPT !.s_resume = [pc EXCEPT !.at = @ + n]])
PhaseSite(f, n) == Let([mem EXCEPT ![f].site = [pc EXCEPT !.at = @ + n]])
mlpf_smode_phaseA == <<ResumeAt(3), PhaseSite("pA", 1), Load("t1", FAULT_VA, {"t0", "t1"}), Leave(Ecall), Park>>
mlpf_phase2_mmode(c) ==
  <<Keep("pA"), Let([mem EXCEPT !.target = "report_mmode"]), Csrw("medeleg", csr.medeleg \ {c}),
    Csrr("rbB", "medeleg")>> \o DropBySret("smode_phaseB")
mlpf_smode_phaseB == <<PhaseSite("pB", 1), Load("t1", FAULT_VA, CallerSaved), Park>>
\* The first trap went to S-mode and the second to M-mode, with the same cause,
\* pc and trap value each.
RoutedBothWays(c, siteA, siteB) ==
  <<Chk(c \in mem.rbA), Chk(mem.s.traps = 1), Chk(mem.s.cause = c), Chk(mem.s.epc = siteA),
    Chk(mem.s.tval = FAULT_VA), Chk(mem.s.from = "S"), Chk(mem.pA.m.traps = 1 /\ mem.pA.m.cause = "ecall_s"),
    Chk(c \notin mem.rbB), Chk(mem.m.traps = 2), Chk(mem.m.cause = c), Chk(mem.m.epc = siteB),
    Chk(mem.m.tval = FAULT_VA), Chk(mem.m.from = "S"), Chk(mem.s.traps = 1)>> \o Quiet(2, 1)
mlpf_report_mmode == <<Say>> \o RoutedBothWays("load_page", mem.pA.site, mem.pB.site) \o Finish
vm_main(c) ==
  vm_setup \o build(id_tables) \o <<Chk(Entry(mem.pt, "l0_id", FaultVpn0) = Invalid)>>
  \o set_satp(SatpSv39(0, "root_pt")) \o <<Chk(csr.satp = SatpSv39(0, "root_pt")), Say>>
  \o Delegate(c) \o Onward("phase2_mmode", "smode_phaseA")
mlpf_main == vm_main("load_page")

mspf_smode_phaseA == <<ResumeAt(3), PhaseSite("pA", 1), StoreAt(FAULT_VA, "deadbeef", {"t0", "t1"}), Leave(Ecall), Park>>
mspf_phase2_mmode == mlpf_phase2_mmode("store_page")
mspf_smode_phaseB == <<PhaseSite("pB", 1), StoreAt(FAULT_VA, "deadbeef", CallerSaved), Park>>
mspf_report_mmode == <<Say>> \o RoutedBothWays("store_page", mem.pA.site, mem.pB.site) \o Finish
mspf_main == vm_main("store_page")

\* The jump itself is legal; fetching at its target is what faults.
mipf_smode_phaseA == <<ResumeAt(2), Goto("fault_va"), Leave(Ecall), Park>>
mipf_phase2_mmode == mlpf_phase2_mmode("fetch_page")
mipf_smode_phaseB == <<Goto("fault_va"), Park>>
mipf_report_mmode == <<Say>> \o RoutedBothWays("fetch_page", At("fault_va"), At("fault_va")) \o Finish
mipf_main == vm_main("fetch_page")

\* The page is mapped here, and a locked PMP entry denies it.
scratch_word == TextWord + PageWords
STORE_VA == FAULT_VA
PMPADDR_TOP == <<STORE_VA, STORE_VA + PageWords, 2^30>>
MSAF_PMPCFG0 == <<Allow("TOR"), Locked("TOR"), Allow("TOR")>>
msaf_tables == [id_tables EXCEPT !.l0_id = FaultVpn0 :> Leaf(Page(STORE_VA), RW) @@ @]
msaf_smode_phaseA ==
  <<ResumeAt(4), PhaseSite("pA", 2), StoreAt(scratch_word, "cafe", {}), StoreAt(STORE_VA, "deadbeef", {"t0", "t1"}),
    Leave(Ecall), Park>>
msaf_phase2_mmode == mlpf_phase2_mmode("store_fault")
msaf_smode_phaseB ==
  <<PhaseSite("pB", 2), StoreAt(scratch_word, "cafe", {}), StoreAt(STORE_VA, "deadbeef", CallerSaved), Park>>
msaf_report_mmode ==
  <<Csrw("medeleg", mem.boot_medeleg), Say, Chk(csr.medeleg = mem.boot_medeleg)>>
  \o RoutedBothWays("store_fault", mem.pA.site, mem.pB.site) \o Finish
msaf_program ==
  <<Csrw_pmpaddr(0, PMPADDR_TOP[1]), Csrw_pmpaddr(1, PMPADDR_TOP[2]), Csrw_pmpaddr(2, PMPADDR_TOP[3]),
    Csrw_pmpcfg0(MSAF_PMPCFG0), CfgIs(MSAF_PMPCFG0), AddrIs(0, PMPADDR_TOP[1]), AddrIs(1, PMPADDR_TOP[2]),
    AddrIs(2, PMPADDR_TOP[3]), Say>>
msaf_main ==
  InstallBoth \o <<Let([mem EXCEPT !.boot_medeleg = csr.medeleg])>> \o msaf_program \o NoInterrupts
  \o build(msaf_tables) \o <<Chk(Entry(mem.pt, "l0_id", FaultVpn0) = Leaf(Page(STORE_VA), RW))>>
  \o set_satp(SatpSv39(0, "root_pt")) \o <<Chk(csr.satp = SatpSv39(0, "root_pt")), Say>>
  \o Delegate("store_fault") \o Onward("phase2_mmode", "smode_phaseA")
-----------------------------------------------------------------------------
\* sv39: a store and a load through the table land in the page behind it; loads
\* that miss at each level fault.
FAULT_VA_L0 == TEST_VA + PageWords
FAULT_VA_L1 == 5 * 2^26
FAULT_VA_L2 == 3 * 2^28
sv39_tables == [root_pt |-> 0 :> Table("l1_uart") @@ 1 :> Table("l1_test") @@ 2 :> Leaf(Page(TextWord), RWX),
                l1_test |-> 0 :> Table("l0_test"), l0_test |-> 0 :> Leaf(Page(scratch(1)), RW),
                l1_uart |-> 128 :> Table("l0_uart"), l0_uart |-> 0 :> Leaf(Page(UartWord), RW)]
Sv39Vars == [save |-> PmpSave, stval |-> 0, got |-> "none", pt |-> [t \in DOMAIN sv39_tables |-> <<>>],
             ram |-> scratch(1) :> "boot"]
sv39_trap_entry ==
  <<SwapIn("mscratch"), Caught([mem.save EXCEPT !.seen = 1]), Let([mem EXCEPT !.stval = csr.stval]),
    Csrw("mepc", mem.save.resume), SwapOut("mscratch"), Mret>>
test_mapped == <<Aim(1, 2), StoreAt(TEST_VA, "PATTERN", {"t0"}), Load("got", TEST_VA, {"t0"})>>
test_fault(va) ==
  <<Aim(1, 1), Load("got", va, {"t0", "t1"}), Say, Chk(TrappedOnce("load_page", va, 1)), Chk(mem.stval = 0)>>
s_mode_tests ==
  <<Say>> \o test_mapped \o <<Say, Chk(NotTrapped), Chk(mem.got = "PATTERN"), Load("got", scratch(1), {}),
                              Say, Chk(mem.got = "PATTERN")>>
  \o test_fault(FAULT_VA_L0) \o test_fault(FAULT_VA_L1) \o test_fault(FAULT_VA_L2) \o <<Result, Park>>
sv39_build == Reachable(scratch(1), "A5") \o <<Let([mem EXCEPT !.pt = sv39_tables]), Say, Chk(mem.pt = sv39_tables)>>
sv39_main ==
  <<Say>> \o sv39_build
  \o <<Csrw_pmpaddr(0, 0), Csrw_pmpaddr(1, TextWord + 2^20), Csrw_pmpcfg0(<<OFF, Allow("TOR")>>), Say,
       CfgIs(<<OFF, Allow("TOR")>>)>> \o Vector("sv39_trap_entry")
  \o set_satp(SatpSv39(0, "root_pt")) \o <<Say, Chk(csr.satp = SatpSv39(0, "root_pt"))>> \o DropByMret("s_mode_tests")

-----------------------------------------------------------------------------
\* sstatus-sum and sstatus-mxr: a load from a user page, or from an execute-only
\* one, faults with the sstatus bit clear and completes with it set.
GrantVars == [count |-> 0, first |-> Bank, bad_seen |-> FALSE, t0 |-> "none", load_result |-> "none", resumed |-> 0,
              site |-> Nowhere, pt |-> [t \in {"root_pt", "l1_test", "l0_test"} |-> <<>>], ram |-> scratch(1) :> "boot"]
\* The entry saves every register; the handler records the first trap only.
ssum_trap_handler ==
  Do([csr EXCEPT !.sepc.at = @ + 1], dev,
     [mem EXCEPT !.count = Bump(@), !.first = IF mem.count = 0 THEN LogS(@) ELSE @, !.bad_seen = @ \/ mem.count # 0])
ssum_trap_entry == <<SwapIn("sscratch"), ssum_trap_handler, Csrw("sscratch", "area"), Sret>>
m_unexpected_trap == <<SwapIn("mscratch"), Say, Park>>
grant_phases(bit) ==
  <<Csrc("sstatus", {bit}), Say, Chk(bit \notin Read("sstatus")),
    Let([mem EXCEPT !.load_result = "ones", !.resumed = 0, !.t0 = "0", !.site = After]),
    Load("t0", TEST_VA, {"t0"}), Let([mem EXCEPT !.load_result = mem.t0]), Let([mem EXCEPT !.resumed = 1]), Say,
    Chk(mem.count = 1), Chk(mem.first.cause = "load_page"), Chk(mem.first.tval = TEST_VA), Chk(mem.first.epc = mem.site),
    Chk(mem.load_result = "0"), Chk(mem.resumed = 1), Chk(~mem.bad_seen),
    Csrs("sstatus", {bit}), Say, Chk(bit \in Read("sstatus")), Let([mem EXCEPT !.load_result = "ones"]),
    Load("t0", TEST_VA, {"t0"}), Let([mem EXCEPT !.load_result = mem.t0]), Say,
    Chk(mem.load_result = "CANARY"), Chk(mem.count = 1), Chk(~mem.bad_seen)>> \o Finish
\* The leaf of the test page carries the permissions perm.
grant_tables(perm) ==
  [root_pt |-> 0 :> Leaf(0, RWX) @@ 1 :> Table("l1_test") @@ 2 :> Leaf(Page(TextWord), RWX),
   l1_test |-> 0 :> Table("l0_test"), l0_test |-> 0 :> Leaf(Page(scratch(1)), perm)]
grant_main(perm, entry) ==
  <<Say>> \o Plant(scratch(1), "CANARY")
  \o <<Let([mem EXCEPT !.pt = grant_tables(perm)]), Say, Chk(mem.pt = grant_tables(perm)), OpenPmp, Say,
       CfgIs(<<Allow("NAPOT")>>), Csrw("medeleg", {"load_page"}), Say, Chk("load_page" \in csr.medeleg),
       Csrw("mtvec", Direct("m_trap_entry")), Csrw("mscratch", "area"), Csrw("stvec", Direct(entry)),
       Csrw("sscratch", "area"), Chk(~csr.stvec.vectored)>>
  \o set_satp(SatpSv39(0, "root_pt")) \o <<Say, Chk(csr.satp = SatpSv39(0, "root_pt"))>> \o DropByMret("s_main")
ssum_s_main == grant_phases("SUM")
ssum_main == grant_main({"R", "U"}, "ssum_trap_entry")
mxr_trap_handler == ssum_trap_handler
mxr_trap_entry == <<SwapIn("sscratch"), mxr_trap_handler, Csrw("sscratch", "area"), Sret>>
mxr_s_main == grant_phases("MXR")
mxr_main == grant_main({"X"}, "mxr_trap_entry")

-----------------------------------------------------------------------------
\* satp-asid, satp-bare, satp-mode-warl: what a write of satp keeps, whatever
\* ASID bits and modes the hart has.
SatpVars == [m |-> Bank, rb |-> Bare, prior |-> Bare, boot_satp |-> Bare, boot2 |-> Bare, asidlen |-> 0, got |-> "none",
             t0 |-> "none", pt |-> [root_pt |-> <<>>], ram |-> scratch(1) :> "boot"]
\* Any trap is unexpected: recorded, reported as a failure, parked.
satp_trap_entry == <<SwapIn("mscratch"), RecordM, Say, Chk(FALSE), Result, Park>>
csr_write_satp(v) == <<Csrw("satp", v), Csrr("rb", "satp")>>
BareAsid(a) == [Bare EXCEPT !.asid = a]
\* The number of ASID bits that stuck, bit by bit; they are the low ones.
popcount16(v) == Cardinality({i \in 0..15 : (v \div 2^i) % 2 = 1})
max_asid == 2^mem.asidlen - 1
mid_asid == IF mem.asidlen >= 2 THEN 2^(mem.asidlen - 1) ELSE 0
vals == <<0, 1, mid_asid, max_asid>>
\* A value that occurred before is not probed again.
probe_asid(i, next) ==
  <<If(\E j \in 1..i-1 : vals[j] = vals[i], next)>> \o csr_write_satp(BareAsid(vals[i]))
  \o <<Say, Chk(mem.rb = BareAsid(vals[i] % (max_asid + 1))), Goto(next)>>
satp_smode_test ==
  <<Say>> \o csr_write_satp(BareAsid(65535))
  \o <<Let([mem EXCEPT !.asidlen = popcount16(mem.rb.asid)]), Say, Chk(mem.rb.mode = "bare"), Chk(mem.rb.root = "none"),
       Chk(mem.rb.asid = max_asid), Goto("probe1")>>
satp_mode_probe ==
  csr_write_satp(Bare) \o <<Chk(mem.rb = Bare)>> \o csr_write_satp([Bare EXCEPT !.mode = "reserved"])
  \o <<Say, Chk(mem.rb = Bare)>> \o csr_write_satp(Bare) \o <<Chk(mem.rb = Bare), Say, Chk(mem.m.traps = 0), Result, Park>>
satp_main ==
  <<Say, Csrr("boot_satp", "satp"), Say>> \o Vector("satp_trap_entry") \o <<Say, OpenPmp, Say>> \o DropByMret("smode_test")

PPN_TEST == [Bare EXCEPT !.root = "PPN_TEST"]
bare_smode_test ==
  <<Say>> \o csr_write_satp(PPN_TEST) \o <<Say, Chk(mem.rb.mode = "bare"), Chk(mem.rb.asid = 0), Chk(mem.rb = PPN_TEST)>>
  \o Holds(scratch(1), "CANARY1") \o Plant(scratch(1), "CANARY2")
  \o csr_write_satp(Bare) \o <<Chk(mem.rb = Bare), Say, Chk(mem.m.traps = 0), Result, Park>>
bare_main ==
  <<Say, Csrr("boot_satp", "satp"), Say, StoreAt(scratch(1), "CANARY1", {}), Load("t0", scratch(1), {}), Say,
    If(mem.t0 # "CANARY1", "park")>>
  \o Vector("satp_trap_entry") \o <<Say, OpenPmp, Say>> \o DropByMret("smode_test")

\* set_satp here fences too, and reads the register back.
warl_write(v) == set_satp(v) \o <<Csrr("rb", "satp")>>
discover_mode(mode, kind) ==
  <<Csrr("prior", "satp")>> \o warl_write([Bare EXCEPT !.mode = mode])
  \o <<Say, CASE kind = "IDENTITY" -> Chk(mem.rb = [Bare EXCEPT !.mode = mode])
              [] kind = "MODE_FIELD" -> Chk(mem.rb.mode = mode)
              [] kind = "STICK_OR_NOEFFECT" -> Chk(mem.rb \in {[Bare EXCEPT !.mode = mode], mem.prior})
              [] OTHER -> Chk(mem.rb = mem.prior)>>
warl_tables == [root_pt |-> 0 :> Leaf(0, RW) @@ 2 :> Leaf(Page(TextWord), RWX)]
warl_smode_test ==
  <<Say, Csrr("rb", "satp"), Chk(mem.rb = mem.boot_satp), Chk(mem.pt = warl_tables), Say>>
  \o warl_write(SatpSv39(0, "root_pt")) \o <<Say, Chk(mem.rb.mode = "sv39")>> \o Holds(scratch(1), "CANARY")
  \o warl_write(Bare) \o <<Chk(mem.rb = Bare), Say, Chk(mem.m.traps = 0), Csrr("rb", "satp"), Chk(mem.rb = mem.boot_satp),
                           Say, Result, Park>>
warl_main ==
  <<Say, Csrr("boot_satp", "satp"), Csrr("boot2", "satp"), Chk(mem.boot_satp = mem.boot2)>> \o Vector("satp_trap_entry")
  \o <<OpenPmp, Let([mem EXCEPT !.pt = warl_tables])>>
  \o discover_mode("bare", "IDENTITY") \o discover_mode("sv39", "MODE_FIELD") \o discover_mode("sv48", "STICK_OR_NOEFFECT")
  \o discover_mode("sv57", "STICK_OR_NOEFFECT") \o discover_mode("reserved", "NOEFFECT")
  \o warl_write(mem.boot_satp) \o <<Chk(mem.rb = mem.boot_satp), StoreAt(scratch(1), "CANARY", {})>> \o DropByMret("smode_test")
=============================================================================
