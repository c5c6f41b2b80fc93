------------------------------ MODULE MCDemos ------------------------------
(* All the demos, each booted once. *)
EXTENDS Demos

AllDemos == {"mie-msie-gate", "mie-mtie-gate", "mie-stie", "mie-global", "mie-toggle",
             "mie-msip", "msip", "mideleg-ssip-route", "mideleg-mtip-route",
             "mstatus-sie-toggle", "sstatus-sie-gate", "sie-stie-gate",
             "medeleg-ecall-destination", "medeleg-breakpoint", "medeleg-illegal-inst-route",
             "medeleg-ecall-u-route", "stval-ecall-capture", "stval-illegal-capture",
             "medeleg-ecall", "ecall", "umode", "ebreak-tripwire", "mepc-resume-skip",
             "sepc-skip", "scause-bit", "mpp-encoding", "sstatus-spp", "sstatus-spp-u-trap",
             "sstatus-spp-sret-u", "sret-to-umode-fault", "mstatus-tsr-trap", "mstatus-tvm-trap",
             "mstatus-tw-trap", "mhartid-s-mode-read", "mhartid-u-mode-read",
             "mtval-fault-address", "mret-no-restore", "mcause-interrupt-bit",
             "mtvec-mode0-direct", "mtvec-direct-vectoring", "mip-msip", "mip-msip-write",
             "mip-pending-no-trap", "mcounteren", "scounteren-trap",
             "mideleg-seip-route", "mideleg-seip-clear", "sie-ssip-clear-suppresses",
             "stvec-vectored-mode", "stvec-direct", "sip-ssip", "wfi-resume-pc",
             "mtimecmp-oneshot", "stimecmp-one-shot", "menvcfg-stce", "sip-seip-write",
             "sip-stip-write", "sie-stie-write", "mie-write-readback", "plic", "mideleg-route",
             "stvec-vectored", "cbo-zero-gate"} \cup FsDemos \cup EnableGates \cup UserCounters
            \cup ProtectionDemos \cup PagingDemos
MinimalDemo == {"mie-msie-gate"}
=============================================================================
