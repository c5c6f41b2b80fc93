----------------------------- MODULE VirtioBlk -----------------------------
(***************************************************************************)
(* The virtio-blk demo: the transport of virtio.c, the block requests of   *)
(* blk.c and the write/read check of bmain.c, against a device that        *)
(* answers each notification when it likes.                                *)
(*                                                                         *)
(* Driver stores to RAM wait in a store buffer until a fence or an         *)
(* arbitrary drain.  A register write is not held up by RAM stores, so     *)
(* only the fences order the two.  Every chain starts at descriptor 0 and  *)
(* the ring is zero, so ring entries are not told apart.                   *)
(***************************************************************************)
EXTENDS Integers, Sequences, FiniteSets

CONSTANT Slots        \* MMIO_SLOTS

ASSUME VirtioAssumption == Slots \in Nat \ {0}

Words == {"type", "data", "status_byte", "avail_idx"}
None  == "none"
Idle  == [type |-> None, data |-> None, moved |-> FALSE]

\* status_byte: BLK_S_OK, a device error, and the driver's poison.
Ok == 0
IoErr == 1
Poison == 255

VARIABLES
    \* the machine the program is started on
    slot,        \* 1..Slots -> "empty", "other" or "block"
    modern,      \* the device offers VIRTIO_F_VERSION_1
    accepts,     \* the device accepts the negotiated features
    qmax,        \* QUEUE_MAX is not zero
    \* driver
    pc,          \* index of the next operation, or the name of a place
    i,           \* find_block_device's slot counter
    op, used_seen, rc,
    write_rc,    \* what blk_write returned
    result,      \* what main printed, or None
    \* RAM
    mem, buf, used_idx, rbuf,
    \* device
    status, regs, queue_ok, notified, job, taken, disk

hw     == <<slot, modern, accepts, qmax>>
driver == <<pc, i, op, used_seen, rc, write_rc, result>>
ram    == <<mem, buf, used_idx, rbuf>>
device == <<status, regs, queue_ok, notified, job, taken, disk>>
vars   == <<slot, modern, accepts, qmax, pc, i, op, used_seen, rc, write_rc, result,
            mem, buf, used_idx, rbuf, status, regs, queue_ok, notified, job, taken, disk>>

-----------------------------------------------------------------------------
\* virtio_init's register writes up to the FEATURES_OK read-back.
Handshake == << {}, {"ACK"}, {"ACK", "DRIVER"}, {"ACK", "DRIVER", "FEAT_OK"} >>

\* Mutant: QueuePFN is written before the page size is known.
QueueLegacyPfnFirst == << "QUEUE_NUM", "QUEUE_PFN", "GUEST_PAGE_SIZE", "QUEUE_ALIGN" >>

\* The queue registers of the two interfaces, in the order they are written.
Queue1x     == << "QUEUE_NUM", "QDESC", "QDRV", "QDEV", "QUEUE_READY" >>
QueueLegacy == << "QUEUE_NUM", "GUEST_PAGE_SIZE", "QUEUE_ALIGN", "QUEUE_PFN" >>
QueueRegs == IF modern THEN Queue1x ELSE QueueLegacy

\* The device takes a queue over when the last register of its interface is
\* written: it then needs the others.
Activates(r) ==
    \/ r = "QUEUE_READY" /\ {"QUEUE_NUM", "QDESC", "QDRV", "QDEV"} \subseteq regs
    \/ r = "QUEUE_PFN" /\ {"QUEUE_NUM", "GUEST_PAGE_SIZE", "QUEUE_ALIGN"} \subseteq regs

At(p) == pc.at = p
Goto(p) == pc' = [at |-> p, n |-> 1]
Again == pc' = [pc EXCEPT !.n = pc.n + 1]

\* boot.S has cleared BSS and entered main; the sector may hold anything.
Init ==
    /\ slot \in [1..Slots -> {"empty", "other", "block"}]
    /\ modern \in BOOLEAN /\ accepts \in BOOLEAN /\ qmax \in BOOLEAN
    /\ pc = [at |-> "scan", n |-> 1] /\ i = 1
    /\ op = None /\ used_seen = 0 /\ rc = 0 /\ write_rc = 0 /\ result = None
    /\ mem = [type |-> "IN", data |-> "null", status_byte |-> Ok, avail_idx |-> 0]
    /\ buf = [w \in Words |-> <<>>]
    /\ used_idx = 0 /\ rbuf = "zero"
    /\ status = {} /\ regs = {} /\ queue_ok = FALSE /\ notified = FALSE
    /\ job = Idle /\ taken = 0
    /\ disk \in {"old", "pattern"}

\* find_block_device, one slot at a time; virtio_init gives up without one.
Scan ==
    /\ At("scan")
    /\ \/ i > Slots /\ result' = "init_failed" /\ Goto("halt") /\ UNCHANGED i
       \/ i <= Slots /\ slot[i] # "block" /\ i' = i + 1 /\ UNCHANGED <<pc, result>>
       \/ i <= Slots /\ slot[i] = "block" /\ Goto("status") /\ UNCHANGED <<i, result>>
    /\ UNCHANGED <<hw, op, used_seen, rc, write_rc, ram, device>>

\* fail: STATUS = FAILED
Fail ==
    /\ status' = {"FAILED"}
    /\ result' = "init_failed"
    /\ Goto("halt")

\* The status sequence; the device drops FEAT_OK when it rejects the features.
WriteStatus ==
    /\ At("status")
    /\ status' = IF accepts THEN Handshake[pc.n] ELSE Handshake[pc.n] \ {"FEAT_OK"}
    /\ IF pc.n < Len(Handshake) THEN Again ELSE Goto("features")
    /\ UNCHANGED <<hw, i, op, used_seen, rc, write_rc, result, ram,
                   regs, queue_ok, notified, job, taken, disk>>

\* FEATURES_OK read back, QUEUE_MAX read.
CheckFeatures ==
    /\ At("features")
    /\ \/ "FEAT_OK" \notin status /\ Fail
       \/ "FEAT_OK" \in status /\ ~qmax /\ Fail
       \/ "FEAT_OK" \in status /\ qmax /\ Goto("queue") /\ UNCHANGED <<status, result>>
    /\ UNCHANGED <<hw, i, op, used_seen, rc, write_rc, ram, regs, queue_ok, notified, job,
                   taken, disk>>

SetupQueue ==
    /\ At("queue")
    /\ regs' = regs \union {QueueRegs[pc.n]}
    /\ queue_ok' = (queue_ok \/ Activates(QueueRegs[pc.n]))
    /\ IF pc.n < Len(QueueRegs) THEN Again ELSE Goto("driver_ok")
    /\ UNCHANGED <<hw, i, op, used_seen, rc, write_rc, result, ram, status, notified, job,
                   taken, disk>>

\* DRIVER_OK; main reads the capacity, fills wbuf and calls blk_write.
DriverOk ==
    /\ At("driver_ok")
    /\ status' = Handshake[4] \union {"DRIVER_OK"}
    /\ op' = "write"
    /\ Goto("request")
    /\ UNCHANGED <<hw, i, used_seen, rc, write_rc, result, ram, regs, queue_ok, notified, job,
                   taken, disk>>

-----------------------------------------------------------------------------
\* RAM as the driver's stores reach it.
Put(w, v) == buf' = [buf EXCEPT ![w] = Append(buf[w], v)]
Drained == \A w \in Words : buf[w] = <<>>

Drain ==
    /\ \E w \in Words :
         /\ buf[w] # <<>>
         /\ mem' = [mem EXCEPT ![w] = Head(buf[w])]
         /\ buf' = [buf EXCEPT ![w] = Tail(buf[w])]
    /\ UNCHANGED <<hw, driver, used_idx, rbuf, device>>

Load(w) == IF buf[w] = <<>> THEN mem[w] ELSE buf[w][Len(buf[w])]

\* blk_op: the header, the poison, the descriptors (the data buffer of the chain).
BlkOp ==
    /\ At("request")
    /\ \/ pc.n = 1 /\ Put("type", IF op = "write" THEN "OUT" ELSE "IN") /\ Again
       \/ pc.n = 2 /\ Put("status_byte", Poison) /\ Again
       \/ pc.n = 3 /\ Put("data", IF op = "write" THEN "wbuf" ELSE "rbuf") /\ Goto("kick")
    /\ UNCHANGED <<hw, i, op, used_seen, rc, write_rc, result, mem, used_idx, rbuf, device>>

\* Mutant: avail idx may move before the chain is visible.
KickNoFirstFence ==
    /\ At("kick")
    /\ \/ pc.n = 1 /\ Again /\ UNCHANGED <<buf, notified>>
       \/ pc.n = 2 /\ Put("avail_idx", Load("avail_idx") + 1) /\ Again /\ UNCHANGED notified
       \/ pc.n = 3 /\ Drained /\ Again /\ UNCHANGED <<buf, notified>>
       \/ pc.n = 4 /\ notified' = TRUE /\ Goto("poll") /\ UNCHANGED buf
    /\ UNCHANGED <<hw, i, op, used_seen, rc, write_rc, result, mem, used_idx, rbuf,
                   status, regs, queue_ok, job, taken, disk>>

\* Mutant: the notification may overtake avail idx.
KickNoSecondFence ==
    /\ At("kick")
    /\ \/ pc.n = 1 /\ Drained /\ Again /\ UNCHANGED <<buf, notified>>
       \/ pc.n = 2 /\ Put("avail_idx", Load("avail_idx") + 1) /\ Again /\ UNCHANGED notified
       \/ pc.n = 3 /\ Again /\ UNCHANGED <<buf, notified>>
       \/ pc.n = 4 /\ notified' = TRUE /\ Goto("poll") /\ UNCHANGED buf
    /\ UNCHANGED <<hw, i, op, used_seen, rc, write_rc, result, mem, used_idx, rbuf,
                   status, regs, queue_ok, job, taken, disk>>

\* virtio_kick_wait, up to the notification.
Kick ==
    /\ At("kick")
    /\ \/ pc.n = 1 /\ Drained /\ Again /\ UNCHANGED <<buf, notified>>
       \/ pc.n = 2 /\ Put("avail_idx", Load("avail_idx") + 1) /\ Again /\ UNCHANGED notified
       \/ pc.n = 3 /\ Drained /\ Again /\ UNCHANGED <<buf, notified>>
       \/ pc.n = 4 /\ notified' = TRUE /\ Goto("poll") /\ UNCHANGED buf
    /\ UNCHANGED <<hw, i, op, used_seen, rc, write_rc, result, mem, used_idx, rbuf,
                   status, regs, queue_ok, job, taken, disk>>

\* Mutant: the used index is not compared.
PollDoneBlind ==
    /\ At("poll")
    /\ used_seen' = used_seen + 1
    /\ Goto("status_byte")
    /\ UNCHANGED <<hw, i, op, rc, write_rc, result, ram, device>>

\* The poll of qused->idx: an entry, an empty pass, or an exhausted budget.
PollDone ==
    /\ At("poll") /\ used_idx # used_seen
    /\ used_seen' = used_seen + 1
    /\ Goto("status_byte")
    /\ UNCHANGED <<hw, i, op, rc, write_rc, result, ram, device>>

PollSpin ==
    /\ At("poll") /\ used_idx = used_seen
    /\ UNCHANGED vars

PollTimeout ==
    /\ At("poll") /\ used_idx = used_seen
    /\ rc' = -1
    /\ Goto("return")
    /\ UNCHANGED <<hw, i, op, used_seen, write_rc, result, ram, device>>

\* Mutant: the status byte is not looked at.
ReadStatusIgnored ==
    /\ At("status_byte")
    /\ rc' = 0
    /\ Goto("return")
    /\ UNCHANGED <<hw, i, op, used_seen, write_rc, result, ram, device>>

\* blk_op's verdict on the status byte.
ReadStatus ==
    /\ At("status_byte")
    /\ rc' = IF Load("status_byte") = Ok THEN 0 ELSE 100 + Load("status_byte")
    /\ Goto("return")
    /\ UNCHANGED <<hw, i, op, used_seen, write_rc, result, ram, device>>

\* main goes on whatever the write returned: rbuf is poisoned and read.
AfterWrite ==
    /\ At("return") /\ op = "write"
    /\ write_rc' = rc
    /\ rbuf' = "poison"
    /\ op' = "read"
    /\ Goto("request")
    /\ UNCHANGED <<hw, i, used_seen, rc, result, mem, buf, used_idx, device>>

\* Mutant: the verdict is the return code.
AfterReadTrustsRc ==
    /\ At("return") /\ op = "read"
    /\ result' = IF rc = 0 THEN "PASS" ELSE "FAIL"
    /\ Goto("halt")
    /\ UNCHANGED <<hw, i, op, used_seen, rc, write_rc, ram, device>>

\* main's verdict compares rbuf with the pattern, whatever the read returned.
AfterRead ==
    /\ At("return") /\ op = "read"
    /\ result' = IF rbuf = "pattern" THEN "PASS" ELSE "FAIL"
    /\ Goto("halt")
    /\ UNCHANGED <<hw, i, op, used_seen, rc, write_rc, ram, device>>

-----------------------------------------------------------------------------
(* The device, after a notification: it takes the next available chain,    *)
(* reads header and descriptors, moves the data, writes the status byte    *)
(* and at last the used entry.  A chain that does not fit the header's     *)
(* type moves no data.                                                     *)
Usable == queue_ok /\ "DRIVER_OK" \in status

DevTake ==
    /\ notified /\ job = Idle /\ Usable
    /\ \/ taken = mem.avail_idx /\ notified' = FALSE /\ UNCHANGED <<job, taken>>
       \/ /\ taken # mem.avail_idx
          /\ job' = [type |-> mem.type, data |-> mem.data, moved |-> FALSE]
          /\ taken' = taken + 1
          /\ UNCHANGED notified
    /\ UNCHANGED <<hw, driver, ram, status, regs, queue_ok, disk>>

DevMove ==
    /\ job # Idle /\ ~job.moved
    /\ \E st \in {Ok, IoErr} :
         /\ mem' = [mem EXCEPT !.status_byte = st]
         /\ disk' = IF st = Ok /\ job.type = "OUT" /\ job.data = "wbuf" THEN "pattern" ELSE disk
         /\ rbuf' = IF st = Ok /\ job.type = "IN" /\ job.data = "rbuf" THEN disk ELSE rbuf
    /\ job' = [job EXCEPT !.moved = TRUE]
    /\ UNCHANGED <<hw, driver, buf, used_idx, status, regs, queue_ok, notified, taken>>

DevUsed ==
    /\ job # Idle /\ job.moved
    /\ used_idx' = used_idx + 1
    /\ job' = Idle
    /\ UNCHANGED <<hw, driver, mem, buf, rbuf, status, regs, queue_ok, notified, taken, disk>>

Halted == At("halt") /\ UNCHANGED vars

Driver == \/ Scan \/ WriteStatus \/ CheckFeatures \/ SetupQueue \/ DriverOk \/ BlkOp \/ Kick
          \/ PollDone \/ ReadStatus \/ AfterWrite \/ AfterRead
Device == DevTake \/ DevMove \/ DevUsed

Next == Driver \/ PollSpin \/ PollTimeout \/ Drain \/ Device \/ Halted

Spec == Init /\ [][Next]_vars

(* The driver runs, its stores drain and the device answers: that the poll *)
(* budget runs out is never needed for progress.                           *)
FairSpec == Spec /\ WF_vars(Driver) /\ WF_vars(Drain) /\ WF_vars(Device)

-----------------------------------------------------------------------------
\* The types of the driver's and the device's state.
TypeOK ==
    /\ i \in 1..(Slots + 1) /\ rc \in {-1, 0, 101, 355}
    /\ used_seen \in 0..used_idx /\ used_idx \in 0..taken
    /\ taken \in 0..mem.avail_idx /\ mem.avail_idx \in 0..2
    /\ rbuf \in {"zero", "poison", "old", "pattern"}
    /\ result \in {None, "init_failed", "PASS", "FAIL"}

(* The device may use the queue only as the initialization sequence allows *)
(* it: DRIVER_OK is up only with FEATURES_OK and a queue programmed in the *)
(* order its interface wants, and a failed device is left at FAILED.       *)
ReadyMeansConfigured ==
    /\ "DRIVER_OK" \in status => queue_ok /\ "FEAT_OK" \in status
    /\ result = "init_failed" => status \in {{}, {"FAILED"}}

(* Nothing is notified half-built: while no request has timed out, what    *)
(* the device takes is the chain of the request the driver waits for.      *)
ChainWhole ==
    job # Idle /\ -1 \notin {rc, write_rc} => job.type = (IF op = "write" THEN "OUT" ELSE "IN")
                             /\ job.data = (IF op = "write" THEN "wbuf" ELSE "rbuf")

(* A request that returns 0 is done: the pattern is on the disk, or the    *)
(* sector is in rbuf.  For the read, provided the write did not time out.  *)
SuccessMeansDone ==
    At("return") /\ rc = 0 =>
        \/ op = "write" /\ disk = "pattern"
        \/ op = "read" /\ (rbuf = disk \/ write_rc = -1)

\* PASS is printed only if the sector really holds the pattern.
PassHonest == result = "PASS" => disk = "pattern"

(* A blk_read that returns 0 has read the sector (blk.h: "Returns 0 on     *)
(* success").                                                              *)
ReadDone == At("return") /\ op = "read" /\ rc = 0 => rbuf = disk

\* main reaches a verdict.
EventuallyResult == <>(result # None)
=============================================================================
