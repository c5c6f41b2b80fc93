----------------------------- MODULE StateDemos -----------------------------
(***************************************************************************)
(* The demos about extension state: mstatus.FS, which gates floating-point *)
(* instructions and follows them, its summary SD, and menvcfg.CBZE, which  *)
(* gates cbo.zero in S-mode.                                               *)
(***************************************************************************)
EXTENDS VmDemos

\* Trap record, readbacks of mstatus, and f0, f1, f2 in hundredths.
FsVars == [m_traps |-> 0, m_cause |-> "none", m_epc |-> Nowhere, site |-> Nowhere, boot |-> {}, rb |-> {},
           seen |-> <<{}, {}>>, leak |-> FALSE, f |-> [n \in 0..2 |-> 0], f0bits |-> 0]

\* The value v of the FS field, and the FS field of a word.
FS(v) == (IF v % 2 = 1 THEN {"FS0"} ELSE {}) \cup (IF v \div 2 = 1 THEN {"FS1"} ELSE {})
fs_of(w) == w \cap FS_MASK
OtherBits(w) == w \ (FS_MASK \cup {"SD"})

-----------------------------------------------------------------------------
\* fs-check: every value of FS is written twice and read back; SD follows.
fs_try(iter, v) ==
  <<Csrw("mstatus", OtherBits(mem.boot) \cup FS(v)), Csrr("rb", "mstatus"),
    Let([mem EXCEPT !.seen[iter] = @ \cup {<<v, fs_of(mem.rb)>>},
                    !.leak = @ \/ OtherBits(mem.rb) # OtherBits(mem.boot) \/ ("SD" \in mem.rb) # (v = 3)]), Say>>
fs_pass(iter) == <<Say>> \o fs_try(iter, 0) \o fs_try(iter, 1) \o fs_try(iter, 2) \o fs_try(iter, 3)
fs_main ==
  <<Say, Csrr("boot", "mstatus"), Say>> \o fs_pass(1) \o fs_pass(2)
  \o <<Csrw("mstatus", mem.boot), Say, Chk(\A i \in 1..2 : mem.seen[i] = {<<v, FS(v)>> : v \in 0..3}),
       Chk(~mem.leak), Chk(mem.seen[1] = mem.seen[2]), Result, Spin, Park>>

\* sstatus-fs-dirty and sstatus-fs-off-fp-trap share the trap entry: it counts
\* the trap and steps over the instruction; t1 is not restored.
sfd_trap_entry ==
  <<SwapIn("mscratch"), Let([mem EXCEPT !.m_traps = Bump(@), !.m_cause = csr.mcause, !.m_epc = csr.mepc]),
    Skip("mepc"), Clobber({"t1"}), SwapOut("mscratch"), Mret>>
FsSetup(entry) ==
  <<Say, Csrw("mtvec", Direct(entry)), Csrw("mscratch", "area"), Csrc("mstatus", {"MIE"}), Say,
    Chk(csr.mtvec = Direct(entry)), Chk(csr.mie = {}), Say, Csrr("boot", "mstatus"), Say, Chk(fs_of(mem.boot) = {})>>
Put(n, v) == FpWrite([mem EXCEPT !.f[n] = v])              \* fmv.d.x
Fadd(a, b) == FpWrite([mem EXCEPT !.f[0] = mem.f[a] + mem.f[b]])

\* sstatus-fs-dirty: a write of a register makes FS dirty, and it stays dirty.
Dirtied == <<Csrr("rb", "mstatus"), Say, Chk(mem.rb = mem.boot \cup FS_MASK \cup {"SD"})>>
sfd_main ==
  FsSetup("sfd_trap_entry")
  \o <<Csrs("mstatus", FS(1)), Csrr("rb", "mstatus"), Say, Chk(mem.rb = mem.boot \cup FS(1))>>
  \o <<Put(1, 0)>> \o Dirtied \o <<Put(2, 0)>> \o Dirtied
  \o <<Csrc("mstatus", FS_MASK), Csrr("rb", "mstatus"), Say, Chk(mem.rb = mem.boot), Csrw("mstatus", mem.boot),
       Chk(Read("mstatus") = mem.boot), Say, Chk(mem.m_traps = 0), Say, Result, Spin, Park>>

\* sstatus-fs-off-fp-trap: the addition traps with FS off and leaves FS off; with
\* FS initial it runs.
sfo_main ==
  FsSetup("sfo_trap_entry")
  \o <<Csrc("mstatus", FS_MASK), Say, Chk(fs_of(csr.mstatus) = {}),
       Let([mem EXCEPT !.site = [pc EXCEPT !.at = @ + 1]]), Fadd(0, 0), Say,
       Chk(mem.m_traps = 1), Chk(mem.m_cause = "illegal"), Chk(mem.m_epc = mem.site),
       Say, Chk(fs_of(csr.mstatus) = {}),
       Csrs("mstatus", FS(1)), Put(1, 150), Put(2, 225), Fadd(1, 2), FpRead([mem EXCEPT !.f0bits = mem.f[0]]), Say,
       Chk(mem.m_traps = 1), Chk(mem.f0bits = 375), Chk(fs_of(csr.mstatus) = FS(3)),
       Csrw("mstatus", mem.boot), Say, Chk(Read("mstatus") = mem.boot), Chk(mem.m_traps = 1), Say, Result, Spin, Park>>

\* mstatus-sd-summary: SD is set exactly while FS is dirty, and cannot be written.
write_fs(v) == <<Csrc("mstatus", FS_MASK), Csrs("mstatus", FS(v)), Csrr("rb", "mstatus"), Say>>
Shows(v) == fs_of(mem.rb) = FS(v) /\ ("SD" \in mem.rb) = (v = 3)
ssd_trap_entry == <<Let([mem EXCEPT !.m_traps = Bump(@), !.m_cause = csr.mcause]), Park>>
ssd_main ==
  <<Say, Csrw("mtvec", Direct("ssd_trap_entry")), Csrc("mstatus", {"MIE"}), Say,
    Csrr("boot", "mstatus"), Say, Chk(fs_of(mem.boot) = {} /\ "SD" \notin mem.boot)>>
  \o write_fs(0) \o <<Chk(Shows(0))>> \o write_fs(2) \o <<Chk(Shows(2))>>
  \o <<Put(1, 150), Put(2, 225), Fadd(1, 2), FpRead([mem EXCEPT !.f0bits = mem.f[0]]), Csrr("rb", "mstatus"), Say,
       Chk(Shows(3)), Chk(mem.f0bits = 375)>>
  \o write_fs(1) \o <<Chk(Shows(1))>>
  \o <<Csrs("mstatus", {"SD"}), Csrr("rb", "mstatus"), Say, Chk(Shows(1)),
       Csrw("mstatus", mem.boot), Say, Chk(Read("mstatus") = mem.boot), Chk(mem.m_traps = 0), Say, Result, Spin, Park>>

-----------------------------------------------------------------------------
\* cbo-zero-gate: cbo.zero works in M-mode, traps in S-mode with CBZE clear and
\* zeroes exactly the block between two guards with CBZE set.  An S-mode payload
\* ends with an ecall, which goes on at the continuation in m_regs[7].
CzgVars == [m_traps |-> 0, m_cause |-> "none", cont |-> "none", s_traps |-> 0, s_cause |-> "none", s_epc |-> Nowhere,
            lo |-> 0, buf |-> 0, hi |-> 0, snapshot |-> 0, boot |-> {}, rb_clear |-> {}, rb_set |-> {}, rb_restored |-> {},
            p1 |-> [site |-> Nowhere, traps |-> 0, cause |-> "none", epc |-> Nowhere, kept |-> FALSE],
            p2 |-> [traps |-> 0, zeroed |-> FALSE, guards |-> FALSE],
            p0_traps |-> 0, p0_zeroed |-> FALSE, q_traps0 |-> 0]
Guards == mem.lo = 204 /\ mem.hi = 204
Continue(p) == Let([mem EXCEPT !.s_traps = 0, !.cont = p])
czg_m_trap_entry ==
  <<SwapIn("mscratch"), CountM, If(csr.mcause # "ecall_s", "m_unexpected"), If(mem.cont = "none", "m_park"),
    Csrw("mepc", At(mem.cont)), Csrw("mpp", "M"), Goto("m_restore")>>
czg_m_unexpected == <<Skip("mepc"), Goto("m_restore")>>
czg_m_restore == <<SwapOut("mscratch"), Mret>>
czg_s_trap_entry ==
  <<SwapIn("sscratch"), Let([mem EXCEPT !.s_traps = Bump(@), !.s_cause = csr.scause, !.s_epc = csr.sepc]),
    Skip("sepc"), SwapOut("sscratch"), Sret>>
czg_smode_phase1 ==
  <<Let([mem EXCEPT !.p1.site = [pc EXCEPT !.at = @ + 1]]), CboZero("buf"),
    Let([mem EXCEPT !.p1.kept = mem.buf = mem.snapshot]), Leave(Ecall), Park>>
czg_smode_phase2 ==
  <<CboZero("buf"), Let([mem EXCEPT !.p2.zeroed = mem.buf = 0, !.p2.guards = Guards]), Leave(Ecall), Park>>
czg_main ==
  <<Say, Csrw("mtvec", Direct("m_trap_entry")), Csrw("mscratch", "area"),
    Csrw("stvec", Direct("s_trap_entry")), Csrw("sscratch", "area"), Csrw("mie", {}), Csrc("mstatus", {"MIE"}), OpenPmp,
    Csrs("medeleg", {"illegal"}), Csrr("boot", "menvcfg"), Say,
    Let([mem EXCEPT !.buf = 165, !.lo = 204, !.hi = 204, !.m_traps = 0]), CboZero("buf"),
    Let([mem EXCEPT !.p0_traps = mem.m_traps, !.p0_zeroed = mem.buf = 0]), Say, If(mem.p0_traps > 0, "probe_only_finish"),
    Csrw("menvcfg", mem.boot \ {"CBZE"}), Csrr("rb_clear", "menvcfg"), Say,
    Let([mem EXCEPT !.buf = 90, !.snapshot = 90]), Continue("phase1_done")>> \o DropBySret("smode_phase1")
czg_phase1_done ==
  <<Let([mem EXCEPT !.cont = "none", !.p1.traps = mem.s_traps, !.p1.cause = mem.s_cause, !.p1.epc = mem.s_epc]), Say,
    Csrw("menvcfg", mem.boot \cup {"CBZE"}), Csrr("rb_set", "menvcfg"), Say,
    Let([mem EXCEPT !.buf = 60, !.lo = 204, !.hi = 204]), Continue("phase2_done")>> \o DropBySret("smode_phase2")
czg_report_and_finish ==
  <<Chk(mem.p0_traps = 0), Chk(mem.p0_zeroed), Chk(mem.rb_clear = mem.boot \ {"CBZE"}),
    Chk(mem.p1 = [site |-> mem.p1.site, traps |-> 1, cause |-> "illegal", epc |-> mem.p1.site, kept |-> TRUE]),
    Chk(mem.rb_set = mem.boot \cup {"CBZE"}), Chk(mem.p2 = [traps |-> 0, zeroed |-> TRUE, guards |-> TRUE]),
    Chk(mem.rb_restored = mem.boot), Chk(mem.m_traps = mem.q_traps0), Say, Result, Park>>
czg_phase2_done ==
  <<Let([mem EXCEPT !.cont = "none", !.p2.traps = mem.s_traps]), Say,
    Csrw("menvcfg", mem.boot), Csrr("rb_restored", "menvcfg"), Say,
    Let([mem EXCEPT !.q_traps0 = mem.m_traps]), Spin, Say>> \o czg_report_and_finish
czg_probe_only_finish == <<Say, Chk(mem.p0_traps = 1 /\ mem.m_cause = "illegal"), Say, Result, Park>>
=============================================================================
