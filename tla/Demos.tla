-------------------------------- MODULE Demos --------------------------------
(***************************************************************************)
(* The demo images, booted one at a time on the hart of module Hart.  The  *)
(* hart executes the current instruction of the image, takes an interrupt  *)
(* before it when one is deliverable, and a programmed timer comes due at  *)
(* some moment of a print, a spin window or a poll loop.                   *)
(***************************************************************************)
EXTENDS StateDemos

CONSTANT Booted   \* the demos to boot

\* The image of the demos that take one exception along both routes.
RouteImage(main, phase1, phase2, after, mEntry, sEntry) ==
  [main |-> main, smode_phase1 |-> phase1, phase2_mmode |-> phase2, smode_phase2 |-> after,
   m_trap_entry |-> mEntry, s_trap_entry |-> sEntry, park |-> <<Park>>]

\* The image of the demos that read a counter in U-mode.
CounterImage(main, entry, payloadA, payloadB, doneA, doneB) ==
  [main |-> main, mt_trap_entry |-> sccy_mt_trap_entry, trap_entry |-> entry,
   smode_test |-> sccy_smode_test, u_payload_a |-> payloadA, u_payload_b |-> payloadB,
   phase_a_done |-> doneA, phase_b_done |-> doneB, unexpected |-> sccy_unexpected]

\* The image of the demos that load through a page table between fences.
FenceImage(main, midB, midC, report, body(_)) ==
  [main |-> main, mid_to_B |-> midB, mid_to_C |-> midC, report_mmode |-> report,
   smode_phaseA |-> body("pA"), smode_phaseB |-> body("pB"), smode_phaseC |-> body("pC"),
   m_trap_entry |-> route_m_trap_entry, s_trap_entry |-> svr_s_trap_entry, park |-> <<Park>>]

\* The image of the demos that fault on one page along both routes.
FaultImage(main, phaseA, phase2, phaseB, report) ==
  [main |-> main, smode_phaseA |-> phaseA, phase2_mmode |-> phase2, smode_phaseB |-> phaseB,
   report_mmode |-> report, m_trap_entry |-> route_m_trap_entry, s_trap_entry |-> mlpf_s_trap_entry,
   park |-> <<Park>>]

Image(d) ==
  CASE d = "mie-msie-gate" -> [main |-> msie_main, msie_trap_entry |-> msie_trap_entry]
    [] d = "mie-mtie-gate" -> [main |-> mtie_main, mtie_trap_entry |-> mtie_trap_entry]
    [] d = "mie-stie" -> [main |-> stie_main, stie_trap_entry |-> stie_trap_entry]
    [] d = "mie-global" -> [main |-> mig_main, mig_trap_entry |-> mig_trap_entry]
    [] d = "mie-toggle" -> [main |-> toggle_main, mie_toggle_trap_entry |-> mie_toggle_trap_entry]
    [] d = "mie-msip" -> [main |-> mie_main, mie_trap_entry |-> mie_trap_entry]
    [] d = "msip" -> [main |-> msip_main, msip_trap_entry |-> msip_trap_entry]
    [] d = "mideleg-ssip-route" ->
         [main |-> mssr_main, smode_main |-> mssr_smode_main, open_gate |-> mssr_open_gate,
          m_trap_entry |-> mssr_m_trap_entry, s_trap_entry |-> mssr_s_trap_entry]
    [] d = "mideleg-mtip-route" ->
         [main |-> mtip_main, smode_main |-> mtip_smode_main,
          m_trap_entry |-> mtip_m_trap_entry, s_trap_entry |-> mtip_s_trap_entry]
    [] d = "mstatus-sie-toggle" ->
         [main |-> msg_main, gate_closed |-> msg_gate_closed, gate_open |-> msg_gate_open,
          smode_landing |-> smode_landing, unexpected |-> <<Say, Park>>,
          msg_m_trap_entry |-> msg_m_trap_entry, msg_s_trap_entry |-> msg_s_trap_entry]
    [] d = "sstatus-sie-gate" ->
         [main |-> ssg_main, s_main |-> ssg_s_main, open_gate_and_wait |-> ssg_open_gate_and_wait,
          s_main_after |-> ssg_s_main_after, ssg_trap_entry |-> ssg_trap_entry, m_trap_entry |-> Unexpected]
    [] d = "sie-stie-gate" ->
         [main |-> stg_main, s_main |-> stg_s_main, open_gate_and_wait |-> stg_open_gate_and_wait,
          s_main_after |-> stg_s_main_after, stg_trap_entry |-> stg_trap_entry, m_trap_entry |-> Unexpected]
    [] d = "medeleg-ecall-destination" ->
         RouteImage(route_main, mede_smode_phase1, mede_phase2_mmode, mede_smode_phase2,
                    route_m_trap_entry, route_s_trap_entry)
    [] d = "medeleg-breakpoint" ->
         RouteImage(mebk_main, mebk_smode_phase1, mebk_phase2_mmode, mebk_smode_phase2,
                    mebk_m_trap_entry, mebk_s_trap_entry)
    [] d = "medeleg-illegal-inst-route" ->
         RouteImage(mili_main, mili_smode_phase1, mili_phase2_mmode, mili_smode_phase2,
                    mili_m_trap_entry, mili_s_trap_entry)
    [] d = "medeleg-ecall-u-route" ->
         [main |-> umede_main, m_trap_entry |-> umede_m_trap_entry, premature |-> umede_premature,
          s_trap_entry |-> umede_s_trap_entry, umode_payload |-> umede_payload,
          s_report |-> umede_s_report, m_finalize |-> umede_m_finalize]
    [] d = "stval-ecall-capture" ->
         [main |-> sec_main, u_payload |-> sec_u_payload,
          m_trap_entry |-> sec_m_trap_entry, s_trap_entry |-> sec_s_trap_entry]
    [] d = "stval-illegal-capture" ->
         [main |-> stvc_main, smode_main |-> stvc_smode_main,
          m_trap_entry |-> capture_m_trap_entry, s_trap_entry |-> capture_s_trap_entry]
    [] d = "medeleg-ecall" ->
         [main |-> med_main, med_trap_entry |-> med_trap_entry, not9 |-> med_not9, park |-> <<Park>>,
          med_strap_entry |-> med_strap_entry, med_smode_phase1 |-> med_smode_phase1,
          med_phase2 |-> med_phase2, med_smode_phase2 |-> med_smode_phase2, med_finish |-> med_finish]
    [] d = "ecall" ->
         [main |-> ecall_main, ecall_trap_entry |-> ecall_trap_entry, s_payload |-> ecall_s_payload,
          m_report |-> ecall_m_report, park |-> <<Park>>]
    [] d = "umode" ->
         [main |-> umode_main, umode_trap_entry |-> umode_trap_entry, payload |-> umode_payload,
          m_report |-> umode_m_report]
    [] d = "ebreak-tripwire" -> [main |-> ebt_main, ebt_trap_entry |-> ebt_trap_entry]
    [] d = "mepc-resume-skip" -> [main |-> mrs_main, mrs_trap_entry |-> mrs_trap_entry]
    [] d = "sepc-skip" ->
         [main |-> ss_main, in_smode |-> ss_in_smode, ss_trap_entry |-> ss_trap_entry,
          ss_mtrap_park |-> <<Park>>, park |-> <<Park>>]
    [] d = "scause-bit" ->
         [main |-> scb_main, smode_main |-> scb_smode_main,
          m_trap_entry |-> scb_m_trap_entry, s_trap_entry |-> scb_s_trap_entry]
    [] d = "mpp-encoding" ->
         [main |-> mpp_main, mpp_trap_entry |-> mpp_trap_entry, payload |-> mpp_payload,
          phase_done |-> mpp_phase_done, finish |-> Finish]
    [] d = "sstatus-spp" ->
         [main |-> ssp_main, m_trap_entry |-> spp_m_trap_entry, s_trap_entry |-> ssp_s_trap_entry,
          s_unexpected |-> spp_s_unexpected, trap_once |-> ssp_trap_once, s_payload |-> ssp_s_payload]
    [] d = "sstatus-spp-u-trap" ->
         [main |-> sppu_main, m_trap_entry |-> sppu_m_trap_entry, s_trap_entry |-> sppu_s_trap_entry,
          s_unexpected |-> spp_s_unexpected, trap_once |-> sppu_trap_once, u_payload |-> sppu_u_payload]
    [] d = "sstatus-spp-sret-u" ->
         [main |-> spu_main, m_trap_entry |-> spu_m_trap_entry, s_trap_entry |-> spu_s_trap_entry,
          u_landing |-> spu_u_landing, m_after_trap |-> spu_m_after_trap]
    [] d = "sret-to-umode-fault" ->
         [main |-> stu_main, m_trap_entry |-> stu_m_trap_entry, m_to_cont |-> stu_m_to_cont,
          s_trap_entry |-> stu_s_trap_entry, s_landing |-> stu_s_landing,
          phase2_drop |-> stu_phase2_drop, u_landing |-> stu_u_landing, m_after_trap |-> stu_m_after_trap]
    [] d = "mstatus-tsr-trap" ->
         [main |-> tsr_main, tsr_m_trap_entry |-> tsr_m_trap_entry, smode_pad |-> tsr_smode_pad, park |-> <<Park>>]
    [] d = "mstatus-tvm-trap" ->
         [main |-> tvt_main, tvt_m_trap_entry |-> tvt_m_trap_entry, smode_pad |-> tvt_smode_pad, park |-> <<Park>>]
    [] d = "mstatus-tw-trap" ->
         [main |-> tw_main, tw_mtrap_entry |-> tw_mtrap_entry, tw_strap_entry |-> tw_strap_entry,
          smode_test |-> tw_smode_test]
    [] d = "mhartid-s-mode-read" ->
         [main |-> mhs_main, mhs_mt_trap_entry |-> mhs_mt_trap_entry,
          mhs_st_trap_entry |-> mhs_st_trap_entry, smode_test |-> mhs_smode_test]
    [] d = "mhartid-u-mode-read" ->
         [main |-> mhu_main, mhu_mt_trap_entry |-> mhu_mt_trap_entry, mt_unexpected |-> mhu_mt_unexpected,
          mt_park |-> <<Park>>, mhu_st_trap_entry |-> mhu_st_trap_entry, umode_test |-> mhu_umode_test]
    [] d = "mtval-fault-address" -> [main |-> mfa_main, mfa_trap_entry |-> mfa_trap_entry]
    [] d = "mret-no-restore" -> [main |-> mnr_main, mnr_trap_entry |-> mnr_trap_entry]
    [] d = "mcause-interrupt-bit" -> [main |-> mib_main, mib_trap_entry |-> mib_trap_entry]
    [] d = "mtvec-mode0-direct" -> [main |-> d0_main, d0_trap_entry |-> d0_trap_entry]
    [] d = "mtvec-direct-vectoring" -> [main |-> dvm_main, dvm_trap_entry |-> dvm_trap_entry]
    [] d = "mip-msip" -> [main |-> mmsp_main]
    [] d = "mip-msip-write" -> [main |-> mmsw_main, mmsw_trap_entry |-> mmsw_trap_entry]
    [] d = "mip-pending-no-trap" -> [main |-> mpnt_main, mpnt_trap_entry |-> mpnt_trap_entry]
    [] d = "mcounteren" -> [main |-> mce_main]
    [] d = "scounteren-trap" ->
         [main |-> st_main, mt_trap_entry |-> mt_trap_entry, st_trap_entry |-> st_trap_entry,
          smode_test |-> st_smode_test, park |-> <<Park>>]
    [] d = "mcounteren-cy-gate" ->
         [main |-> mcg_main, mcg_mtrap_entry |-> mcg_mtrap_entry, mcg_strap_entry |-> mcg_strap_entry,
          smode_test |-> mcg_smode_test, park |-> <<Park>>]
    [] d = "mcounteren-time-gate" ->
         [main |-> mtg_main, mtg_mtrap_entry |-> mtg_mtrap_entry, mtg_strap_entry |-> mtg_strap_entry,
          smode_test |-> mtg_smode_test]
    [] d = "mcounteren-ir-gate" ->
         [main |-> mir_main, mir_mtrap_entry |-> mir_mtrap_entry, mir_strap_entry |-> mir_strap_entry,
          smode_test |-> mir_smode_phase_a, smode_phase_b |-> mir_smode_phase_b, park |-> <<Park>>]
    [] d = "scounteren-cy-gate" ->
         CounterImage(sccy_main, sccy_trap_entry, sccy_u_payload_a, sccy_u_payload_b, sccy_phase_a_done, sccy_phase_b_done)
    [] d = "scounteren-ir-gate" ->
         CounterImage(scir_main, scir_trap_entry, scir_u_payload_a, scir_u_payload_b, scir_phase_a_done, scir_phase_b_done)
    [] d = "scounteren-tm-gate" ->
         CounterImage(sctg_main, sctg_trap_entry, sctg_u_payload_a, sctg_u_payload_b, sctg_phase_a_done, sctg_phase_b_done)
    [] d = "mcounteren-cy-u-read" ->
         [main |-> mcyu_main, mt_trap_entry |-> mcyu_mt_trap_entry, m_handle |-> mcyu_m_handle,
          trap_entry |-> mcyu_trap_entry, smode_test |-> mcyu_smode_test, s_ecall |-> s_ecall,
          u_payload_a |-> mcyu_u_payload_a, u_payload_b |-> mcyu_u_payload_b,
          phase_a_done |-> mcyu_phase_a_done, phase_b_start |-> mcyu_phase_b_start,
          phase_b_done |-> mcyu_phase_b_done, unexpected |-> sccy_unexpected, park |-> <<Park>>]
    [] d = "mcounteren-tm-u-gate" ->
         [main |-> mtmu_main, mt_trap_entry |-> mtmu_mt_trap_entry, m_handle |-> mtmu_m_handle,
          m_close |-> mtmu_m_close, m_reopen |-> mtmu_m_reopen, m_restore |-> mtmu_m_restore,
          trap_entry |-> mtmu_trap_entry, smode_test |-> mtmu_smode_test, s_ecall |-> s_ecall,
          u_payload_a |-> mtmu_u_payload_a, u_payload_b |-> mtmu_u_payload_b, u_payload_c |-> mtmu_u_payload_c,
          phase_a_done |-> mtmu_phase_a_done, phase_b_start |-> mtmu_phase_b_start,
          phase_b_done |-> mtmu_phase_b_done, phase_c_start |-> mtmu_phase_c_start,
          phase_c_done |-> mtmu_phase_c_done, unexpected |-> sccy_unexpected, park |-> <<Park>>]

    [] d = "mideleg-seip-route" ->
         [main |-> seip_main, smode_main |-> seip_smode_main, open_gate |-> seip_open_gate,
          m_trap_entry |-> seip_m_trap_entry, s_trap_entry |-> seip_s_trap_entry]
    [] d = "mideleg-seip-clear" ->
         [main |-> seipc_main, smode_main |-> seipc_smode_main, open_gate |-> seipc_open_gate,
          phase_b |-> seipc_phase_b, open_mie |-> seipc_open_mie, smode_phase_c |-> seipc_smode_phase_c,
          open_again |-> seipc_open_again, phase_d |-> seipc_phase_d, m_park |-> seipc_m_park,
          m_trap_entry |-> seipc_m_trap_entry, s_trap_entry |-> seipc_s_trap_entry]
    [] d = "sie-ssip-clear-suppresses" ->
         [main |-> ssc_main, smode_main |-> ssc_smode_main, open_gate_and_wait |-> ssc_open_gate_and_wait,
          smode_after |-> ssc_smode_after, m_trap_entry |-> ssc_m_trap_entry, s_trap_entry |-> ssc_s_trap_entry]
    [] d = "stvec-vectored-mode" ->
         [main |-> stvm_main, smode_main |-> stvm_smode_main, illegal_word |-> stvm_illegal_word,
          open_gate |-> stvm_open_gate, stvm_table |-> stvm_table, slot0 |-> stvm_slot0, slot1 |-> stvm_slot1,
          stvm_s_entry |-> stvm_s_entry, m_trap_entry |-> stvm_m_trap_entry]
    [] d = "stvec-direct" ->
         [main |-> svd_main, ecall_site |-> svd_ecall_site, svd_trap_entry |-> svd_trap_entry, ecall_park |-> <<Park>>]
    [] d = "sip-ssip" -> [main |-> sip_main, sip_trap_entry |-> sip_trap_entry]
    [] d = "wfi-resume-pc" -> [main |-> rpc_main, rpc_trap_entry |-> rpc_trap_entry]
    [] d = "mtimecmp-oneshot" ->
         [main |-> os_main, wait |-> os_wait("mstatus", "MIE", "after"), after |-> os_after,
          os_trap_entry |-> os_trap_entry]
    [] d = "stimecmp-one-shot" ->
         [main |-> stos_main, s_main |-> stos_s_main, wait |-> os_wait("sstatus", "SIE", "s_main_after"),
          s_main_after |-> stos_s_main_after, s_trap_entry |-> stos_trap_entry, m_trap_entry |-> Unexpected]
    [] d = "menvcfg-stce" ->
         [main |-> menv_main, s_main |-> menv_s_main, wait |-> os_wait("sstatus", "SIE", "s_main_after"),
          s_main_after |-> menv_s_main_after, no_access |-> menv_no_access,
          s_trap_entry |-> menv_strap_entry, m_trap_entry |-> Unexpected]
    [] d = "sip-seip-write" ->
         [main |-> seipw_main, s_main |-> seipw_s_main, abort |-> seipw_abort, m_trap_entry |-> seipw_m_trap_entry]
    [] d = "sip-stip-write" ->
         [main |-> ssw_main, s_main |-> ssw_s_main, open_gate_and_wait |-> ssw_open_gate_and_wait,
          s_main_after |-> ssw_s_main_after, s_trap_entry |-> ssw_trap_entry, m_trap_entry |-> Unexpected]
    [] d = "sie-stie-write" -> [main |-> stw_main, stw_trap_entry |-> stw_trap_entry]
    [] d = "mie-write-readback" ->
         [main |-> mwr_main, per_bit |-> mwr_per_bit, all_ones |-> mwr_all_ones, mwr_trap_entry |-> mwr_trap_entry]
    [] d = "plic" -> [main |-> plic_main]
    [] d = "mideleg-route" ->
         [main |-> midr_main, smode_main |-> midr_smode_main,
          m_trap_entry |-> midr_m_trap_entry, s_trap_entry |-> midr_s_trap_entry]
    [] d = "stvec-vectored" ->
         [main |-> stvv_main, smode_main |-> stvv_smode_main, smode_end |-> stvv_smode_end,
          stvv_table |-> stvv_table, stvv_stubs |-> stvv_stubs, stvv_common |-> stvv_common,
          stvv_timer_isr |-> stvv_timer_isr, stvv_ext_isr |-> stvv_ext_isr, stvv_overflow |-> <<Park>>,
          stvv_resume |-> stvv_resume, m_trap_entry |-> stvv_m_trap_entry]
    [] d = "pmp" -> [main |-> pmp_main, pmp_trap_entry |-> pmp_trap_entry]
    [] d = "pmp-lock-bit" -> [main |-> plb_main, plb_trap_entry |-> plb_trap_entry]
    [] d = "pmp-tor" -> [main |-> pmt_main, pmp_trap_entry |-> pmp_trap_entry]
    [] d = "pmp-napot-size" -> [main |-> pns_main, pmp_trap_entry |-> pmp_trap_entry]
    [] d = "pmp-tor-bottom" -> [main |-> tor_bot_main, tor_trap_entry |-> tor_trap_entry]
    [] d = "pmp-tor-top" -> [main |-> tor_top_main, tor_trap_entry |-> tor_trap_entry]
    [] d = "pmp-na4-match" -> [main |-> na4_main, tor_trap_entry |-> tor_trap_entry]
    [] d = "pmp-na4-low-edge" -> [main |-> low_main, tor_trap_entry |-> tor_trap_entry]
    [] d = "pmp-napot-encode" -> [main |-> pne_main]
    [] d = "pmp-napot-match" -> [main |-> pnm_main, pnm_trap_entry |-> pnm_trap_entry]
    [] d = "pmp-priority" ->
         [main |-> pp_main, smode_phaseA |-> pp_smode_phaseA, phase2_mmode |-> pp_phase2_mmode,
          smode_phaseB |-> pp_smode_phaseB, report_mmode |-> pp_report_mmode,
          m_trap_entry |-> pp_m_trap_entry, s_trap_entry |-> pp_s_trap_entry, park |-> <<Park>>]
    [] d = "mstatus-mprv-load" -> [main |-> mprv_main, mprv_m_trap_entry |-> mprv_m_trap_entry, park |-> <<Park>>]
    [] d = "mstatus-mprv-readback" -> [main |-> rdb_main, mprv_trap_entry |-> mprv_trap_entry]
    [] d = "sfence-vma-remap" -> FenceImage(svr_main, svr_mid_to_B, svr_mid_to_C, svr_report_mmode, phase_body)
    [] d = "sfence-vma-rs1-scoped" -> FenceImage(srs_main, srs_mid_to_B, srs_mid_to_C, srs_report_mmode, srs_phase_body)
    [] d = "sfence-vma-rs2-scoped" ->
         FenceImage(srs2_main, srs2_mid_to_B, srs2_mid_to_C, srs2_report_mmode, phase_body)
         @@ [mid_to_D |-> srs2_mid_to_D, mid_to_E |-> srs2_mid_to_E,
             smode_phaseD |-> phase_body("pD"), smode_phaseE |-> phase_body("pE")]
    [] d = "medeleg-load-pagefault" ->
         FaultImage(mlpf_main, mlpf_smode_phaseA, mlpf_phase2_mmode("load_page"), mlpf_smode_phaseB, mlpf_report_mmode)
    [] d = "medeleg-store-pagefault" ->
         FaultImage(mspf_main, mspf_smode_phaseA, mspf_phase2_mmode, mspf_smode_phaseB, mspf_report_mmode)
    [] d = "medeleg-instr-pagefault" ->
         FaultImage(mipf_main, mipf_smode_phaseA, mipf_phase2_mmode, mipf_smode_phaseB, mipf_report_mmode)
         @@ [fault_va |-> <<Park>>]
    [] d = "medeleg-store-access-fault" ->
         FaultImage(msaf_main, msaf_smode_phaseA, msaf_phase2_mmode, msaf_smode_phaseB, msaf_report_mmode)
    [] d = "sv39" -> [main |-> sv39_main, s_mode_tests |-> s_mode_tests, sv39_trap_entry |-> sv39_trap_entry]
    [] d = "sstatus-sum" ->
         [main |-> ssum_main, s_main |-> ssum_s_main, ssum_trap_entry |-> ssum_trap_entry, m_trap_entry |-> m_unexpected_trap]
    [] d = "sstatus-mxr" ->
         [main |-> mxr_main, s_main |-> mxr_s_main, mxr_trap_entry |-> mxr_trap_entry, m_trap_entry |-> m_unexpected_trap]
    [] d = "satp-asid" ->
         [main |-> satp_main, smode_test |-> satp_smode_test, probe1 |-> probe_asid(1, "probe2"),
          probe2 |-> probe_asid(2, "probe3"), probe3 |-> probe_asid(3, "probe4"),
          probe4 |-> probe_asid(4, "satp_mode_probe"), satp_mode_probe |-> satp_mode_probe,
          satp_trap_entry |-> satp_trap_entry]
    [] d = "satp-bare" ->
         [main |-> bare_main, smode_test |-> bare_smode_test, satp_trap_entry |-> satp_trap_entry, park |-> <<Park>>]
    [] d = "satp-mode-warl" ->
         [main |-> warl_main, smode_test |-> warl_smode_test, satp_trap_entry |-> satp_trap_entry]
    [] d = "fs-check" -> [main |-> fs_main]
    [] d = "sstatus-fs-dirty" -> [main |-> sfd_main, sfd_trap_entry |-> sfd_trap_entry]
    [] d = "sstatus-fs-off-fp-trap" -> [main |-> sfo_main, sfo_trap_entry |-> sfd_trap_entry]
    [] d = "mstatus-sd-summary" -> [main |-> ssd_main, ssd_trap_entry |-> ssd_trap_entry]
    [] d = "cbo-zero-gate" ->
         [main |-> czg_main, smode_phase1 |-> czg_smode_phase1, smode_phase2 |-> czg_smode_phase2,
          phase1_done |-> czg_phase1_done, phase2_done |-> czg_phase2_done, probe_only_finish |-> czg_probe_only_finish,
          m_trap_entry |-> czg_m_trap_entry, m_unexpected |-> czg_m_unexpected, m_restore |-> czg_m_restore,
          m_park |-> <<Park>>, s_trap_entry |-> czg_s_trap_entry]

\* The demos that rely on straight-line code being faster than the timer they
\* just armed.  In the others the timer may come due before any instruction.
Timely == {"mideleg-mtip-route"}

FsDemos == {"fs-check", "sstatus-fs-dirty", "sstatus-fs-off-fp-trap", "mstatus-sd-summary"}
EnableGates == {"mcounteren-cy-gate", "mcounteren-time-gate", "mcounteren-ir-gate"}
UserCounters == {"scounteren-cy-gate", "scounteren-ir-gate", "scounteren-tm-gate",
                 "mcounteren-cy-u-read", "mcounteren-tm-u-gate"}
ProtectionDemos == {"pmp", "pmp-lock-bit", "pmp-tor", "pmp-napot-size", "pmp-tor-bottom", "pmp-tor-top",
                    "pmp-na4-match", "pmp-na4-low-edge", "pmp-napot-encode", "pmp-napot-match",
                    "pmp-priority", "mstatus-mprv-load", "mstatus-mprv-readback"}
PagingDemos == {"sfence-vma-remap", "sfence-vma-rs1-scoped", "sfence-vma-rs2-scoped",
                "medeleg-load-pagefault", "medeleg-store-pagefault", "medeleg-instr-pagefault",
                "medeleg-store-access-fault", "sv39", "sstatus-sum", "sstatus-mxr",
                "satp-asid", "satp-bare", "satp-mode-warl"}
Variables(d) ==
  CASE d = "mie-global" -> MigVars
    [] d \in {"mideleg-ssip-route", "mideleg-mtip-route"} -> DropVars
    [] d = "mstatus-sie-toggle" -> MsgVars
    [] d \in {"sstatus-sie-gate", "sie-stie-gate"} -> SstcVars
    [] d \in {"medeleg-ecall-destination", "medeleg-breakpoint", "medeleg-illegal-inst-route"} -> RouteVars
    [] d = "medeleg-ecall-u-route" -> UmedeVars
    [] d \in {"stval-ecall-capture", "stval-illegal-capture"} -> CaptureVars
    [] d = "medeleg-ecall" -> MedVars
    [] d = "ecall" -> EcallVars
    [] d = "umode" -> UmodeVars
    [] d \in {"ebreak-tripwire", "mtval-fault-address"} -> EbtVars
    [] d \in {"mepc-resume-skip", "sepc-skip"} -> SkipVars
    [] d = "scause-bit" -> ScbVars
    [] d = "mpp-encoding" -> MppVars
    [] d \in {"sstatus-spp", "sstatus-spp-u-trap"} -> SppVars
    [] d = "sstatus-spp-sret-u" -> SpuVars
    [] d = "sret-to-umode-fault" -> StuVars
    [] d \in {"mstatus-tsr-trap", "mstatus-tvm-trap"} -> PadVars
    [] d \in {"mstatus-tw-trap", "mhartid-s-mode-read", "mhartid-u-mode-read"} -> ProbeVars
    [] d = "mret-no-restore" -> MnrVars
    [] d \in {"mcause-interrupt-bit", "mtvec-mode0-direct"} -> TellVars
    [] d = "mtvec-direct-vectoring" -> DvmVars
    [] d \in {"mip-msip", "mip-msip-write", "mip-pending-no-trap"} -> MipVars
    [] d \in {"mcounteren", "scounteren-trap"} \cup EnableGates -> CtrVars
    [] d \in UserCounters -> ScVars
    [] d \in {"mideleg-seip-route", "mideleg-seip-clear", "sie-ssip-clear-suppresses",
              "stvec-vectored-mode", "stvec-direct"} -> IrqVars
    [] d = "sip-ssip" -> SipVars
    [] d = "wfi-resume-pc" -> RpcVars
    [] d \in {"mtimecmp-oneshot", "stimecmp-one-shot", "menvcfg-stce", "sip-stip-write"} -> OneShotVars
    [] d \in {"sip-seip-write", "sie-stie-write", "mie-write-readback", "plic", "mideleg-route"} -> PendVars
    [] d = "stvec-vectored" -> StvvVars
    [] d \in FsDemos -> FsVars
    [] d = "cbo-zero-gate" -> CzgVars
    [] d \in {"pmp", "pmp-lock-bit", "pmp-tor"} -> WithRam({SCRATCH - 1, SCRATCH, OUTSIDE})
    [] d = "pmp-napot-size" ->
         WithRam({SCRATCH + 1023, SCRATCH + 1024, SCRATCH + 2048, END_64K - 1, END_64K, FAR_SENTINEL, PROBE_OUTSIDE})
    [] d \in {"pmp-tor-bottom", "pmp-tor-top"} -> WithRam({START - 1, START, END - 1, END})
    [] d = "pmp-na4-match" -> WithRam({CANARY_ADDR, CANARY_ADDR + 1})
    [] d = "pmp-na4-low-edge" -> WithRam({LOW_CANARY, LOW_CANARY - 1})
    [] d = "pmp-napot-match" -> WithRam({ADDR_IN_LO, ADDR_IN_HI, ADDR_BELOW, ADDR_ABOVE})
    [] d \in {"pmp-napot-encode", "mstatus-mprv-readback"} -> PmpVars
    [] d = "pmp-priority" -> PpVars
    [] d = "mstatus-mprv-load" -> MprvVars
    [] d = "sfence-vma-remap" -> VmVars(svr_tables, Scratch(2))
    [] d = "sfence-vma-rs1-scoped" -> VmVars(srs_tables, Scratch(4))
    [] d = "sfence-vma-rs2-scoped" -> VmVars(srs2_tables, Scratch(4))
    [] d \in {"medeleg-load-pagefault", "medeleg-store-pagefault", "medeleg-instr-pagefault"} -> VmVars(id_tables, {})
    [] d = "medeleg-store-access-fault" -> VmVars(id_tables, {scratch_word, STORE_VA})
    [] d = "sv39" -> Sv39Vars
    [] d \in {"sstatus-sum", "sstatus-mxr"} -> GrantVars
    [] d \in {"satp-asid", "satp-bare", "satp-mode-warl"} -> SatpVars
    [] OTHER -> GateVars

\* The harts a demo has to work on where it asks what the hart has: whether a
\* write of sip.STIP sticks, how many ASID bits there are, which modes satp takes.
Harts(d) ==
  CASE d = "sip-stip-write" -> {[ResetCsr EXCEPT !.stip_sticks = b] : b \in BOOLEAN}
    [] d = "satp-asid" -> {[ResetCsr EXCEPT !.asidlen = n] : n \in {0, 1, 2, 9, 16}}
    [] d = "satp-mode-warl" ->
         {[ResetCsr EXCEPT !.satp_modes = {"bare", "sv39"} \cup more] : more \in {{}, {"sv48"}, {"sv48", "sv57"}}}
    [] d = "cbo-zero-gate" -> {[ResetCsr EXCEPT !.zicboz = b] : b \in BOOLEAN}
    [] OTHER -> {ResetCsr}

Op == Image(demo)[pc.proc][pc.at]

\* A trap begins in code that can spare the registers R.
Frame(R) == [free |-> R, clobbers |-> {}, base |-> TRUE]
NoTrap == Frame({})

Init ==
  /\ demo \in Booted
  /\ priv = "M"
  /\ pc = At("main")
  /\ csr \in Harts(demo)
  /\ dev = ResetDev
  /\ mem = Variables(demo)
  /\ fails = 0
  /\ verdict = "none"
  /\ frame = NoTrap
  /\ lost = {}

-----------------------------------------------------------------------------
\* An interrupt is taken before the current instruction.  The wfi loop at the end
\* needs no register; a poll or a spin loop keeps its count and the address it
\* reads in registers.
Interrupt ==
  /\ ~dev.asleep /\ Deliverable # {}
  /\ LET i == Highest(Deliverable)
     IN  IF i \in csr.mideleg THEN TrapS(i, 0) ELSE TrapM(i, 0)
  /\ frame' = Frame(IF Op.kind = "park" THEN CallerSaved ELSE {})
  /\ UNCHANGED <<demo, dev, mem, fails, verdict, lost>>

\* Straight-line instructions; none of them leaves the current mode.
Compute(op) ==
  /\ op.kind = "do"
  /\ csr' = op.csr /\ dev' = op.dev /\ mem' = op.mem
  /\ pc' = After
  /\ UNCHANGED <<demo, priv, fails, verdict, frame, lost>>

Check(op) ==
  /\ op.kind = "check"
  /\ fails' = IF op.ok THEN fails ELSE fails + 1
  /\ pc' = After
  /\ UNCHANGED <<demo, priv, csr, dev, mem, verdict, frame, lost>>

\* What an access to memory or to the UART raises.
Barred(op) == IF op.kind = "print" THEN Fault(DataMode, op.access, op.word) ELSE DataFault(op.access, op.word)

\* A print ends when it ends; a window outlasts an armed timer; a poll ends
\* when its condition holds, and a bounded one fails when nothing that could
\* make it hold is left to happen.
Over(op) == CASE op.kind = "print" -> Barred(op) = "none"
              [] op.kind = "spin" -> ~Armed
              [] op.kind = "wait" -> op.until \/ ~Armed
              [] op.kind = "loop" -> op.until
              [] OTHER -> FALSE
Dwell(op) ==
  /\ Over(op)
  /\ fails' = IF op.kind = "wait" /\ ~op.until THEN fails + 1 ELSE fails
  /\ pc' = After
  /\ UNCHANGED <<demo, priv, csr, dev, mem, verdict, frame, lost>>

Jump(op) ==
  /\ op.kind \in {"goto", "if"}
  /\ pc' = IF op.kind = "goto" \/ op.cond THEN op.to ELSE After
  /\ UNCHANGED <<demo, priv, csr, dev, mem, fails, verdict, frame, lost>>

\* A synchronous exception goes to S-mode when it is delegated and was not
\* raised in M-mode.
Except(cause, tval, free) ==
  /\ IF priv # "M" /\ cause \in csr.medeleg THEN TrapS(cause, tval) ELSE TrapM(cause, tval)
  /\ frame' = Frame(free)
  /\ UNCHANGED <<demo, dev, mem, fails, verdict, lost>>
Exception(op) ==
  /\ op.kind = "insn"
  /\ Except(op.cause, op.tval, op.free)

\* The access faults, or is made.
Faulting(op) ==
  /\ op.kind \in {"load", "store", "print"}
  /\ Barred(op) # "none"
  /\ Except(Barred(op), op.word, op.free)
Transfer(op) ==
  /\ op.kind \in {"load", "store"}
  /\ Barred(op) = "none"
  /\ dev' = Filled(op.word)
  /\ LET w == Physical(DataMode, op.word)
     IN  mem' = IF op.kind = "load" THEN [mem EXCEPT ![op.to] = mem.ram[w]] ELSE [mem EXCEPT !.ram[w] = op.value]
  /\ pc' = After
  /\ UNCHANGED <<demo, priv, csr, fails, verdict, frame, lost>>

\* The registers a trap entry leaves changed, and a C handler that returns with
\* t0 as it was or changed.
Spoil(op) ==
  /\ \/ op.kind = "clobber" /\ frame' = [frame EXCEPT !.clobbers = op.regs]
     \/ op.kind = "from_c" /\ \E kept \in BOOLEAN : frame' = [frame EXCEPT !.base = kept]
  /\ pc' = After
  /\ UNCHANGED <<demo, priv, csr, dev, mem, fails, verdict, lost>>

\* mret and sret, in a mode that may execute them.
Return(op) ==
  /\ \/ op.kind = "mret" /\ ReturnM
     \/ op.kind = "sret" /\ ReturnS
  /\ lost' = lost \cup (frame.clobbers \ frame.free)
  /\ frame' = NoTrap
  /\ UNCHANGED <<demo, dev, mem, fails, verdict>>

Report(op) ==
  /\ op.kind = "result"
  /\ verdict' = IF fails = 0 THEN "PASS" ELSE "FAIL"
  /\ pc' = After
  /\ UNCHANGED <<demo, priv, csr, dev, mem, fails, frame, lost>>

\* The instruction cannot be fetched: not granted, or not mapped.
FetchFault == Fault(priv, "X", Fetched)
Unfetched ==
  /\ ~dev.asleep /\ Deliverable = {} /\ FetchFault # "none"
  /\ Except(FetchFault, Fetched, CallerSaved)

Step ==
  /\ ~dev.asleep /\ Deliverable = {} /\ FetchFault = "none"
  /\ \E op \in {Op} :
       \/ Compute(op) \/ Check(op) \/ Dwell(op) \/ Jump(op)
       \/ Exception(op) \/ Faulting(op) \/ Transfer(op) \/ Spoil(op) \/ Return(op) \/ Report(op)

\* An enabled interrupt that becomes pending ends the sleep of a wfi.
Wake ==
  /\ dev.asleep /\ Mip \cap csr.mie # {}
  /\ dev' = [dev EXCEPT !.asleep = FALSE]
  /\ UNCHANGED <<demo, priv, pc, csr, mem, fails, verdict, frame, lost>>

\* A comparator is reached by the running mtime.
TimerDue ==
  /\ Op.kind \in Slow \/ demo \notin Timely
  /\ \E t \in {"mtimer", "stimer"} :
       dev[t] = "armed" /\ dev' = [dev EXCEPT ![t] = "due"]
  /\ UNCHANGED <<demo, priv, pc, csr, mem, fails, verdict, frame, lost>>

\* The demos that report a translation the tables no longer hold: they need the
\* hart to keep it.  In the others the hart may drop its translations at any moment.
KeepsStale == {"sfence-vma-remap", "sfence-vma-rs2-scoped"}
Evict ==
  /\ dev.tlb # {} /\ demo \notin KeepsStale
  /\ dev' = [dev EXCEPT !.tlb = {}]
  /\ UNCHANGED <<demo, priv, pc, csr, mem, fails, verdict, frame, lost>>

\* The wfi loop at the end of main, and a sleep that nothing ends.
Parked ==
  /\ IF dev.asleep THEN Mip \cap csr.mie = {} ELSE Op.kind = "park" /\ Deliverable = {}
  /\ UNCHANGED hartVars

Next == Interrupt \/ Step \/ Unfetched \/ Wake \/ TimerDue \/ Evict \/ Parked

Spec == Init /\ [][Next]_hartVars
\* The hart keeps executing and time keeps passing.
FairSpec == Spec /\ WF_hartVars(Interrupt \/ Step \/ Unfetched \/ Wake) /\ WF_hartVars(TimerDue)

-----------------------------------------------------------------------------
\* Properties.

\* Every register holds a value of its kind and the hart is at an instruction.
TypeOK ==
  /\ demo \in Booted /\ priv \in Modes
  /\ \E image \in {Image(demo)} : pc.proc \in DOMAIN image /\ pc.at \in DOMAIN image[pc.proc]
  /\ csr.mpp \in Modes /\ csr.mie \subseteq Interrupts /\ csr.mip \subseteq Delegable
  /\ csr.mideleg \subseteq Delegable \cup {"H"} /\ csr.medeleg \subseteq DelegableTraps
  /\ dev.msip \in {0, 1} /\ dev.mtimer \in {"off", "armed", "due"}
  /\ fails \in Nat /\ verdict \in {"none", "PASS", "FAIL"}
  /\ lost \subseteq CallerSaved

\* The demos whose trap entry saves t0, t1, ra and a0 only and calls C, and the
\* ones whose entry keeps the address of the save area in t0 across the call.
MinimalSave == {"mie-msie-gate", "mie-mtie-gate", "mie-stie", "mie-global", "mie-toggle",
                "mie-msip", "msip", "mcause-interrupt-bit"}
BaseInT0 == MinimalSave \cup {"umode", "mpp-encoding"}

\* A C handler returned to such an entry with t0 changed: what the program does
\* from there is not followed.
Astray == csr.mscratch = "stray"

\* Asleep in the wfi of a poll loop, after the interrupt that would have ended
\* the sleep was taken between the test of the flag and the wfi.
Overslept ==
  /\ dev.asleep
  /\ \/ demo = "stvec-vectored" /\ mem.timer_done
     \/ demo = "scause-bit" /\ mem.done

\* Every check(cond, msg) a demo makes holds, wherever in the slow parts of
\* the program a timer fires and a trap lands.
ChecksHold == fails = 0 \/ Astray

\* The trap entries that swap xscratch with t0 find the save area there on
\* entry and the interrupted t0 on exit: no trap is taken before the scratch
\* register is installed, nor a second one in the same mode while the first
\* is being handled.  Only the entries of BaseInT0, which swap a t0 that the C
\* handler may have changed, can leave a stray address for the next trap.
NoWildSave ==
  /\ csr.mscratch # "wild" /\ csr.sscratch # "wild"
  /\ Astray => demo \in BaseInT0

\* The registers a demo's trap entry does not bring back: by its own account, or
\* because they are not saved around the C handler, which for MinimalSave is
\* what MinimalSaveSuffices denies.
Unsaved(d) == CASE d \in MinimalSave -> CallerSaved \ (IF Astray THEN {"t0"} ELSE {"t0", "t1", "ra", "a0"})
                [] d = "medeleg-ecall" -> {"t1", "t2"}
                [] d \in {"mepc-resume-skip", "mret-no-restore", "mstatus-tw-trap",
                          "mhartid-s-mode-read", "mhartid-u-mode-read", "scounteren-trap", "sstatus-fs-off-fp-trap"}
                         \cup EnableGates -> {"t1"}
                [] d \in {"mtvec-mode0-direct", "stvec-vectored-mode"} -> {"t0"}
                [] OTHER -> {}

\* A trap leaves the registers of the code it returns to as they were, apart
\* from the ones that code can spare (the final wfi loop needs none, an asm
\* statement names them) and the ones the trap entry does not save.
ContextKept == lost \subseteq Unsaved(demo)

\* "Everything the interrupted code needs is restored before mret [...] so the
\* minimal save set is sufficient" (msie_trap.S): a trap changes no register of
\* the code it returns to.
MinimalSaveSuffices == lost = {}

\* Every demo reaches its RESULT line: no interrupt that its handler leaves
\* pending fires for ever, and no poll loop hangs but for a wake-up that comes
\* between the test and the wfi.
EventuallyVerdict == <>(verdict # "none" \/ Overslept \/ Astray)
=============================================================================
