------------------------------ MODULE TrapDemos ------------------------------
(***************************************************************************)
(* The exception demos: an ecall, a breakpoint, an illegal instruction or  *)
(* a faulting load is taken in the mode medeleg names, is recorded by an   *)
(* assembly trap entry, and is either stepped over or answered by leaving  *)
(* for another procedure.  An asm statement lists the registers it lets go;*)
(* a handler that changes any other has changed the code it returns to.    *)
(***************************************************************************)
EXTENDS RouteDemos

\* The register file a trap entry keeps for its mode, and an entry in it.
Bank == [traps |-> 0, cause |-> "none", epc |-> Nowhere, tval |-> 0, from |-> "M"]
LogM(b) == [traps |-> Bump(b.traps), cause |-> csr.mcause, epc |-> csr.mepc,
            tval |-> csr.mtval, from |-> csr.mpp]
LogS(b) == [traps |-> Bump(b.traps), cause |-> csr.scause, epc |-> csr.sepc, tval |-> csr.stval,
            from |-> IF "SPP" \in csr.mstatus THEN "S" ELSE "U"]
RecordM == Let([mem EXCEPT !.m = LogM(@)])
\* The S-mode entry also raises the flag main polls.
RecordSDone == Let([mem EXCEPT !.s = LogS(@), !.s_done = TRUE])
\* mret or sret to a procedure of the handler's choice.
AnswerM(p) == Do([csr EXCEPT !.mepc = At(p), !.mpp = "M"], dev, mem)
\* la slot, 1f just before the trapping instruction 1.
Site == Let([mem EXCEPT !.site = After])

\* main: both trap entries installed, every interrupt off.
InstallBoth ==
  <<Csrw("mtvec", Direct("m_trap_entry")), Csrw("mscratch", "area"), Say,
    Csrw("stvec", Direct("s_trap_entry")), Csrw("sscratch", "area")>>
NoInterrupts == <<Csrw("mie", {}), Csrc("mstatus", {"MIE"})>>
\* sret to U-mode: SPP and MPP cleared.
DropToUmode(p) == <<Csrc("sstatus", {"SPP"}), Csrw("mpp", "U"), Csrw("sepc", At(p)), Sret, Park>>

-----------------------------------------------------------------------------
\* medeleg-ecall-destination, medeleg-breakpoint, medeleg-illegal-inst-route:
\* the same instruction is executed in S-mode twice, with its medeleg bit
\* clear and then set.
RouteVars == [m |-> Bank, s |-> Bank, s_done |-> FALSE, site |-> Nowhere, site1 |-> Nowhere,
              target |-> "none", rb1 |-> {}, rb2 |-> {}, m1 |-> 0, s1 |-> 0]
route_m_trap_entry ==
  <<SwapIn("mscratch"), RecordM, If(mem.target = "none", "park"),
    AnswerM(mem.target), SwapOut("mscratch"), Mret>>
route_s_trap_entry == <<SwapIn("sscratch"), RecordSDone, Skip("sepc"), SwapOut("sscratch"), Sret>>
route_main ==
  InstallBoth
  \o <<Csrw("medeleg", {}), Let([mem EXCEPT !.rb1 = csr.medeleg]), Say, OpenPmp>> \o NoInterrupts
  \o <<Let([mem EXCEPT !.target = "phase2_mmode"])>> \o DropBySret("smode_phase1")
route_smode_phase1(c, v) ==
  <<Say, Let([mem EXCEPT !.site1 = After]), Raise(c, v, CallerSaved), Park>>
route_phase2_mmode(deleg) ==
  <<Let([mem EXCEPT !.target = "none"]), Csrw("medeleg", deleg),
    Let([mem EXCEPT !.rb2 = csr.medeleg]), Say,
    Let([mem EXCEPT !.m1 = mem.m.traps, !.s1 = mem.s.traps])>>
  \o DropBySret("smode_phase2")
route_smode_phase2(c, v) ==
  <<Say, Site, Raise(c, v, {}), Say,
    Chk(mem.rb1 = {} /\ mem.m1 = 1 /\ mem.m.cause = c /\ mem.m.epc = mem.site1
        /\ mem.m.from = "S" /\ mem.s1 = 0),
    Chk(mem.rb2 = {c} /\ mem.s.traps = 1 /\ mem.s.cause = c /\ mem.s.epc = mem.site
        /\ mem.s.from = "S"),
    Chk(mem.s.traps = 1 /\ mem.m.traps = 1),
    Spin, Chk(mem.m.traps = 1 /\ mem.s.traps = 1), Say, Result, Park>>

mede_smode_phase1 == route_smode_phase1("ecall_s", 0)
mede_phase2_mmode == route_phase2_mmode({"ecall_s"})
mede_smode_phase2 == route_smode_phase2("ecall_s", 0)
mebk_m_trap_entry == route_m_trap_entry
mebk_s_trap_entry == route_s_trap_entry
mebk_main == route_main
mebk_smode_phase1 == route_smode_phase1("breakpoint", OwnPc)
mebk_phase2_mmode == route_phase2_mmode(csr.medeleg \cup {"breakpoint"})
mebk_smode_phase2 == route_smode_phase2("breakpoint", OwnPc)
mili_m_trap_entry == route_m_trap_entry
mili_s_trap_entry == route_s_trap_entry
mili_main == route_main
mili_smode_phase1 == route_smode_phase1("illegal", InsnBits)
mili_phase2_mmode == route_phase2_mmode(csr.medeleg \cup {"illegal"})
mili_smode_phase2 == route_smode_phase2("illegal", InsnBits)

-----------------------------------------------------------------------------
\* medeleg-ecall-u-route: an ecall of U-mode goes to S-mode, the one S-mode
\* then makes goes to M-mode, which puts medeleg back.
UmedeVars == [m |-> Bank, s |-> Bank, s_done |-> FALSE, site |-> Nowhere, u_site |-> Nowhere,
              restore_armed |-> FALSE, boot_medeleg |-> {}, medeleg_rb |-> {}, restore_rb |-> {},
              premature |-> FALSE]
umede_m_trap_entry ==
  <<SwapIn("mscratch"), RecordM, If(~mem.restore_armed, "premature"),
    Csrw("medeleg", mem.boot_medeleg), Let([mem EXCEPT !.restore_rb = csr.medeleg]),
    AnswerM("m_finalize"), SwapOut("mscratch"), Mret>>
umede_premature ==
  <<Let([mem EXCEPT !.premature = TRUE]), AnswerM("m_finalize"), SwapOut("mscratch"), Mret>>
umede_s_trap_entry ==
  <<SwapIn("sscratch"), RecordSDone, Csrw("sepc", At("s_report")), Csrs("sstatus", {"SPP"}),
    SwapOut("sscratch"), Sret>>
umede_payload == <<Let([mem EXCEPT !.u_site = After]), Leave(Ecall), Park>>
umede_s_report ==
  <<Say, Chk(mem.medeleg_rb = {"ecall_u"} /\ mem.s.traps = 1 /\ mem.s.cause = "ecall_u"
             /\ mem.s.epc = mem.u_site /\ mem.s.from = "U" /\ mem.m.traps = 0),
    Spin, Say, Chk(mem.m.traps = 0 /\ mem.s.traps = 1),
    Let([mem EXCEPT !.restore_armed = TRUE]), Site, Leave(Ecall), Park>>
umede_m_finalize ==
  <<Chk(~mem.premature), Say,
    Chk(mem.m.cause = "ecall_s" /\ mem.m.epc = mem.site /\ mem.restore_rb = mem.boot_medeleg),
    Say, Result, Park>>
umede_main ==
  InstallBoth
  \o <<Let([mem EXCEPT !.boot_medeleg = csr.medeleg]), Csrw("medeleg", {"ecall_u"}),
       Let([mem EXCEPT !.medeleg_rb = csr.medeleg]), Say, OpenPmp>>
  \o NoInterrupts \o DropToUmode("umode_payload")

-----------------------------------------------------------------------------
\* stval-ecall-capture and stval-illegal-capture: what stval holds after a
\* delegated exception that the handler steps over.
CaptureVars == [m |-> Bank, s |-> Bank, s_done |-> FALSE, site |-> Nowhere,
                rd_zero |-> {}, rd_bit |-> {}, rd_forced |-> {}]
capture_m_trap_entry == <<SwapIn("mscratch"), RecordM, SwapOut("mscratch"), Mret>>
capture_s_trap_entry == <<SwapIn("sscratch"), RecordSDone, Skip("sepc"), SwapOut("sscratch"), Sret>>
capture_setup(c) ==
  <<Csrw("mtvec", Direct("m_trap_entry")), Csrw("mscratch", "area"), Say,
    Csrw("medeleg", {}), Let([mem EXCEPT !.rd_zero = csr.medeleg]), Say,
    Csrw("medeleg", {c}), Let([mem EXCEPT !.rd_bit = csr.medeleg]), Say,
    Csrw("medeleg", mem.rd_zero \cup {c}), Let([mem EXCEPT !.rd_forced = csr.medeleg]), Say,
    Csrw("stvec", Direct("s_trap_entry")), Csrw("sscratch", "area"), OpenPmp>> \o NoInterrupts
capture_payload(c, v) ==
  <<Say, Site, Raise(c, v, {}), Wait(mem.s_done), Say,
    Chk(mem.s.traps = 1 /\ mem.s.cause = c /\ mem.s.epc = mem.site /\ mem.s.tval = v
        /\ mem.m.traps = 0),
    Spin, Say, Chk(mem.s.traps = 1 /\ mem.m.traps = 0), Say, Result, Park>>
sec_m_trap_entry == capture_m_trap_entry
sec_s_trap_entry == capture_s_trap_entry
sec_main == capture_setup("ecall_u") \o DropToUmode("u_payload")
sec_u_payload == <<Chk(mem.rd_bit = mem.rd_zero \cup {"ecall_u"})>> \o capture_payload("ecall_u", 0)
stvc_main == capture_setup("illegal") \o DropBySret("smode_main")
stvc_smode_main == capture_payload("illegal", InsnBits)

-----------------------------------------------------------------------------
\* medeleg-ecall: an S-mode ecall handled in S-mode and stepped over, then
\* with medeleg clear in M-mode; an illegal word ends each phase.
MedVars == [m |-> Bank, s |-> Bank, s_done |-> FALSE, site |-> Nowhere, sepc4 |-> Nowhere,
            phase |-> 0, ecalls |-> 0, ecall |-> Bank, ended |-> 0, straps_p1 |-> 0]
\* t2 is used and not put back; t1 is, from med_regs[7].
med_trap_entry ==
  <<SwapIn("mscratch"), RecordM, If(csr.mcause # "ecall_s", "not9"),
    Let(IF mem.phase = 2 THEN [mem EXCEPT !.ecall = mem.m, !.ecalls = Bump(@)] ELSE mem),
    Skip("mepc"), Clobber({"t2"}), SwapOut("mscratch"), Mret>>
med_not9 ==
  <<If(csr.mcause # "illegal", "park"), Let([mem EXCEPT !.ended = Bump(@)]),
    AnswerM(IF mem.phase = 1 THEN "med_phase2" ELSE "med_finish"),
    Clobber({"t2"}), SwapOut("mscratch"), Mret>>
\* t1 is used and not put back.
med_strap_entry ==
  <<SwapIn("sscratch"), Let([mem EXCEPT !.s = LogS(@)]), Skip("sepc"),
    Let([mem EXCEPT !.sepc4 = csr.sepc]), Clobber({"t1"}), SwapOut("sscratch"), Sret>>
med_smode_phase1 ==
  <<Say, Site, Raise(Ecall, 0, {}), Say,
    Chk(mem.s.traps = 1 /\ mem.s.cause = "ecall_s" /\ mem.s.epc = mem.site
        /\ mem.sepc4 = [mem.site EXCEPT !.at = @ + 1] /\ mem.s.from = "S" /\ mem.m.traps = 0),
    Let([mem EXCEPT !.straps_p1 = mem.s.traps]), Leave("illegal"), Park>>
med_phase2 ==
  <<Say, Chk(mem.m.traps = 1), Csrw("medeleg", {}), Chk(csr.medeleg = {}), Say,
    Let([mem EXCEPT !.phase = 2])>> \o DropByMret("med_smode_phase2")
med_smode_phase2 ==
  <<Site, Raise(Ecall, 0, {}), Say,
    Chk(mem.m.traps = 2 /\ mem.ecall.cause = "ecall_s" /\ mem.ecall.epc = mem.site
        /\ mem.s.traps = mem.straps_p1), Say,
    Leave("illegal"), Park>>
med_finish ==
  <<Say, Chk(mem.m.traps = 3 /\ mem.ecalls = 1 /\ mem.ended = 2 /\ mem.s.traps = mem.straps_p1),
    Result, Park>>
med_main ==
  <<Csrw("mtvec", Direct("med_trap_entry")), Csrw("mscratch", "area"),
    Csrw("stvec", Direct("med_strap_entry")), Csrw("sscratch", "area"), Say,
    Csrw("medeleg", {"ecall_s"}), Chk("ecall_s" \in csr.medeleg), Say, OpenPmp,
    Let([mem EXCEPT !.phase = 1])>> \o DropByMret("med_smode_phase1")

-----------------------------------------------------------------------------
\* ecall: the argument registers reach the M-mode dispatcher and every other
\* register comes back, for three sets of values; a last call leaves S-mode.
NSETS == 3
ELOG_N == 4
EcallVars == [call |-> [svc |-> "none", set |-> 0], a0 |-> [xor_of |-> 0], log |-> <<>>,
              unexpected |-> FALSE, ok |-> <<>>, m |-> Bank]
\* The dispatcher: its result goes to the saved a0, its return value to mepc.
ecall_handle ==
  <<If(Len(mem.log) >= ELOG_N, "park"),
    LET known == csr.mcause = "ecall_s" /\ mem.call.svc \in {"xor", "exit"}
        res == [xor_of |-> IF known /\ mem.call.svc = "xor" THEN mem.call.set ELSE 0]
    IN  Do([csr EXCEPT !.mepc = IF known /\ mem.call.svc = "exit" THEN At("m_report")
                                ELSE [@ EXCEPT !.at = @ + 1]], dev,
           [mem EXCEPT !.a0 = IF known /\ mem.call.svc = "xor" THEN res ELSE @,
                       !.unexpected = @ \/ ~known,
                       !.log = Append(@, [cause |-> csr.mcause, call |-> mem.call, res |-> res])])>>
\* x1 to x31 are saved and restored; mret goes to m_report in S-mode's MPP.
ecall_trap_entry ==
  <<SwapIn("mscratch")>> \o ecall_handle \o <<Clobber({}), SwapOut("mscratch"), Mret>>
do_ecall(svc, s) ==
  <<Let([mem EXCEPT !.call = [svc |-> svc, set |-> s], !.a0 = [xor_of |-> 0]]), Raise(Ecall, 0, {})>>
run_set(s) ==
  do_ecall("xor", s) \o <<Let([mem EXCEPT !.ok = Append(@, mem.a0 = [xor_of |-> s] /\ lost = {})])>>
ecall_s_payload ==
  run_set(1) \o run_set(2) \o run_set(3) \o do_ecall("exit", 0) \o <<Park>>
ecall_m_report ==
  <<Chk(~mem.unexpected), Chk(Len(mem.log) = NSETS + 1),
    Chk(\A n \in 1..NSETS : /\ n <= Len(mem.ok) /\ n <= Len(mem.log)
                            /\ mem.log[n] = [cause |-> "ecall_s", call |-> [svc |-> "xor", set |-> n],
                                             res |-> [xor_of |-> n]]
                            /\ mem.ok[n]), Say, Result, Park>>
ecall_main ==
  <<Say, Csrw("mtvec", Direct("ecall_trap_entry")), Csrw("mscratch", "area"), OpenPmp,
    Csrw("sepc", At("s_payload")), Csrs("sstatus", {"SPP"}), Sret, Park>>

-----------------------------------------------------------------------------
\* umode: the ecall of U-mode is answered by leaving for m_report.
UmodeVars == [m |-> Bank, payload_addr |-> Nowhere]
umode_handle == <<RecordM>>
umode_trap_entry ==
  <<SwapIn("mscratch")>> \o umode_handle
    \o <<FromC, AnswerM("m_report"), LoadBack({"t1"}), SwapOut("mscratch"), Mret>>
umode_main ==
  <<Say, Csrw("mtvec", Direct("umode_trap_entry")), Csrw("mscratch", "area"), OpenPmp, Csrw("mpp", "U"),
    Let([mem EXCEPT !.payload_addr = At("payload")]), Csrw("mepc", At("payload")), Mret>>
umode_payload == <<Leave(Ecall), Park>>
umode_m_report ==
  <<Say, Chk(mem.m = [traps |-> 1, cause |-> "ecall_u", epc |-> mem.payload_addr,
                      tval |-> 0, from |-> "U"]), Result, Park>>

-----------------------------------------------------------------------------
\* ebreak-tripwire: a 4-byte and a 2-byte breakpoint, each resumed at the
\* address main stored for it.
\* One slot for each value of the trap count.
EbtVars == [count |-> 0, resume |-> [i \in 1..TrapCap+1 |-> Nowhere], log |-> [i \in 1..TrapCap+1 |-> Bank],
            brk |-> <<Nowhere, Nowhere>>, marker |-> <<FALSE, FALSE>>]
\* The slot is chosen by the running trap count.
ebt_trap_entry ==
  <<SwapIn("mscratch"),
    LET i == mem.count + 1
    IN  Do([csr EXCEPT !.mepc = mem.resume[i]], dev,
           [mem EXCEPT !.log[i] = LogM(@), !.count = Bump(@)]),
    SwapOut("mscratch"), Mret>>
tripwire(i) ==
  <<Let([mem EXCEPT !.brk[i] = After, !.resume[i] = [After EXCEPT !.at = @ + 1]]),
    Raise("breakpoint", OwnPc, {}),
    Let([mem EXCEPT !.marker[i] = TRUE])>>
ebt_main ==
  <<Say, Csrw("mtvec", Direct("ebt_trap_entry")), Csrw("mscratch", "area"), Csrc("mstatus", {"MIE"}),
    Chk(csr.mtvec = Direct("ebt_trap_entry") /\ csr.mie = {}), Say>>
  \o tripwire(1) \o tripwire(2)
  \o <<Say, Chk(mem.count = 2),
       Chk(\A i \in 1..2 : /\ mem.log[i].cause = "breakpoint" /\ mem.log[i].epc = mem.brk[i]
                           /\ mem.marker[i]), Spin, Result, Park>>

-----------------------------------------------------------------------------
\* mepc-resume-skip and sepc-skip: a load of an unmapped address, stepped
\* over in M-mode and in S-mode.
UNMAPPED_ADDR == 2^30   \* beyond everything the machine has
SkipVars == [m |-> Bank, s |-> Bank, after |-> Nowhere, site |-> Nowhere, a0 |-> "none", marker |-> FALSE]
Faulted(b) == /\ b.traps = 1 /\ b.cause = "load_fault" /\ b.tval = UNMAPPED_ADDR
              /\ b.epc = mem.site /\ mem.after = [mem.site EXCEPT !.at = @ + 1]
              /\ mem.marker /\ mem.a0 = "SENTINEL"
\* li a0, sentinel; the load; the marker store.  free: the asm clobber list.
FaultingLoad(free) ==
  <<Let([mem EXCEPT !.a0 = "SENTINEL", !.site = After]), Raise("load_fault", UNMAPPED_ADDR, free),
    Let([mem EXCEPT !.marker = TRUE]), Say>>
mrs_trap_entry ==
  <<SwapIn("mscratch"), RecordM, Skip("mepc"), Let([mem EXCEPT !.after = csr.mepc]),
    Clobber({"t1"}), SwapOut("mscratch"), Mret>>
mrs_main ==
  <<Say, Csrw("mtvec", Direct("mrs_trap_entry")), Csrw("mscratch", "area"), Csrc("mstatus", {"MIE"}),
    Chk(csr.mtvec = Direct("mrs_trap_entry") /\ csr.mie = {}), Say>>
  \o FaultingLoad({"a0", "a1-a7", "t0"}) \o <<Chk(Faulted(mem.m)), Spin, Result, Park>>

ss_trap_entry ==
  <<SwapIn("sscratch"), Let([mem EXCEPT !.s = LogS(@)]), Skip("sepc"),
    Let([mem EXCEPT !.after = csr.sepc]), Clobber({"t1"}), SwapOut("sscratch"), Sret>>
ss_main ==
  <<Say, Csrw("stvec", Direct("ss_trap_entry")), Csrw("sscratch", "area"),
    Csrw("mtvec", Direct("ss_mtrap_park")), Csrc("mstatus", {"MIE"}),
    Chk(csr.stvec = Direct("ss_trap_entry") /\ csr.satp = Bare /\ csr.mie = {}), Say,
    Csrs("medeleg", {"load_fault", "load_page"}), Chk("load_fault" \in csr.medeleg), Say, OpenPmp,
    If(fails # 0, "park")>> \o DropByMret("in_smode")
ss_in_smode ==
  FaultingLoad({"a0", "a1-a7", "t0", "t1", "t2"}) \o <<Chk(Faulted(mem.s)), Spin, Result, Park>>

-----------------------------------------------------------------------------
\* scause-bit: a page fault and a timer interrupt through the same S-mode
\* entry, told apart by the interrupt bit of scause.
\* The image is one 1 GiB leaf, the UART has a page, everything else is invalid.
scb_tables == [root |-> 0 :> Table("l1_uart") @@ 2 :> Leaf(Page(TextWord), RWX),
               l1_uart |-> 128 :> Table("l0_uart"), l0_uart |-> 0 :> Leaf(Page(UartWord), {"R", "W"})]
ScbVars == [m |-> Bank, s |-> Bank, fault |-> Bank, timer |-> "none", other |-> 0,
            done |-> FALSE, site |-> Nowhere, s_sstc |-> FALSE, pt |-> [root |-> <<>>],
            ram |-> <<>>, t1 |-> "none"]
scb_m_trap_entry == <<SwapIn("mscratch"), RecordM, SwapOut("mscratch"), Park>>
scb_s_trap_entry ==
  <<SwapIn("sscratch"), Let([mem EXCEPT !.s = LogS(@)]),
    CASE csr.scause = "load_page" ->
           Do([csr EXCEPT !.sepc.at = @ + 1], dev,
              [mem EXCEPT !.fault = IF @.cause = "none" THEN mem.s ELSE @])
      [] csr.scause = "STI" ->
           Do(csr, [dev EXCEPT !.stimer = "off"], [mem EXCEPT !.timer = "STI", !.done = TRUE])
      [] OTHER -> Let([mem EXCEPT !.other = Bump(@)]),
    SwapOut("sscratch"), Sret>>
SCB_FAULT_VA == 2^28
fault_phase == <<Site, Load("t1", SCB_FAULT_VA, {"a0", "t1"})>>
scb_smode_main ==
  <<Say, Chk(mem.s_sstc), Store("stimer", "armed"), Csrs("sie", {"STI"}), Say>>
  \o fault_phase
  \o <<Say, Chk(mem.s.traps = 1 /\ mem.fault.cause = "load_page" /\ mem.fault.tval = SCB_FAULT_VA
                /\ mem.s.epc = mem.site),
       Csrs("sstatus", {"SIE"})>> \o SleepUntil(mem.done)
  \o <<Say, Chk(mem.s.traps = 2 /\ mem.timer = "STI" /\ mem.other = 0 /\ mem.m.traps = 0
                /\ dev.stimer = "off"), Result, Csrc("sstatus", {"SIE"}), Park>>
scb_main ==
  <<Say, Csrw("mtvec", Direct("m_trap_entry")), Csrw("mscratch", "area"), Say,
    Csrs("menvcfg", {"STCE"}), Chk("STCE" \in csr.menvcfg),
    Let([mem EXCEPT !.s_sstc = "STCE" \in csr.menvcfg]), OpenPmp,
    Let([mem EXCEPT !.pt = scb_tables]),
    Csrw("medeleg", {"load_page"}), Chk(csr.medeleg = {"load_page"}), Say,
    Csrw("mideleg", {}), Csrw("mideleg", {"STI"}), Chk(csr.mideleg = {"H", "STI"}), Say,
    Csrw("stvec", Direct("s_trap_entry")), Csrw("sscratch", "area"),
    Csrw("satp", SatpSv39(0, "root")), SfenceVma, Chk(csr.satp = SatpSv39(0, "root"))>> \o DropBySret("smode_main")
=============================================================================
