------------------------------- MODULE MCSmp -------------------------------
(* Smp for TLC, and what it implements: the lock is free once the store of *)
(* 0 is in memory, and a message has arrived once its flag is.             *)
EXTENDS Smp

Arrived(flag, w) == IF mem[flag] = 0 THEN 0 ELSE mem[w]
Holder ==
    IF mem["uart_lock"] = 0 THEN None
    ELSE IF step[0] # "lock" \/ buf[0]["uart_lock"] = 0 THEN 0 ELSE 1
Verdict ==
    IF pc[0] >= TimedOut THEN "timeout"
    ELSE IF pc[0] > Len(Bss) + Len(Release) + 2 THEN "report" ELSE "waiting"
Shown(a, b) == IF pc[0] = Reported THEN got[a] - got[b] ELSE None

RV == INSTANCE Rendezvous WITH
        holder <- Holder, open <- mid, now <- cycle,
        start <- Arrived("smp_release", "t_release"),
        entry <- Arrived("hart1_done", "t1_entry"),
        printed <- Arrived("hart1_done", "t1_printed"),
        sp <- Arrived("hart1_done", "t1_sp"),
        verdict <- Verdict,
        latency <- Shown("t1_entry", "t_release"), elapsed <- Shown("t1_printed", "t1_entry")

(* The store buffers, the fences, the lock word and the flags implement    *)
(* whole lines, atomic messages and an honest verdict.                     *)
ImplementsRendezvous == RV!RVSpec
=============================================================================
