-------------------------- MODULE VirtioBlkProofs --------------------------
(* Safety of the virtio-blk driver for every number of MMIO slots, however   *)
(* late a store becomes visible and however late the device answers.         *)
EXTENDS MCVirtioBlk, TLAPS

\* Zenon proves the leaves below; those that need arithmetic, strings or records cite SMT.
USE ZenonT(60)

Steps == {"scan", "status", "features", "queue", "driver_ok", "request", "kick", "poll",
          "status_byte", "return", "halt"}
Codes == {-1, 0, 101, 355}
Flags == {"ACK", "DRIVER", "FEAT_OK"}

\* How far the request is: 1..3 blk_op's stores, 4..7 the kick, 8 the poll, 9 the
\* status byte, 10 the return.
Stage == IF op = None THEN 0
         ELSE IF pc.at = "request" THEN pc.n
         ELSE IF pc.at = "kick" THEN 3 + pc.n
         ELSE IF pc.at = "poll" THEN 8
         ELSE IF pc.at = "status_byte" THEN 9
         ELSE IF pc.at = "return" THEN 10 ELSE 11

\* The request's number, header type and data buffer.
Round == IF op = "read" THEN 1 ELSE 0
Type  == IF op = "write" THEN "OUT" ELSE "IN"
Data  == IF op = "write" THEN "wbuf" ELSE "rbuf"

\* No earlier request can still be with the device.
Clean == op # "read" \/ write_rc # -1

\* The driver's last store to w was v.
Stored(w, v) == (buf[w] = <<>> /\ mem[w] = v) \/ buf[w] = <<v>>

Place  == [at : Steps, n : Nat]
Ram    == [type : {"IN", "OUT"}, data : {"null", "wbuf", "rbuf"},
           status_byte : {Ok, IoErr, Poison}, avail_idx : 0..2]
Chains == [type : {None, "IN", "OUT"}, data : {None, "null", "wbuf", "rbuf"}, moved : BOOLEAN]

Types ==
    /\ pc \in Place
    /\ op \in {None, "write", "read"} /\ i \in 1..(Slots + 1)
    /\ rc \in Codes /\ write_rc \in Codes
    /\ result \in {None, "init_failed", "PASS", "FAIL"}
    /\ mem \in Ram
    /\ DOMAIN buf = Words
    /\ used_seen \in Nat /\ used_idx \in Nat /\ taken \in Nat
    /\ job \in Chains
    /\ job = Idle \/ job.data # None
    /\ disk \in {"old", "pattern"} /\ rbuf \in {"zero", "poison", "old", "pattern"}

\* virtio_init: nothing is shared with the device before DRIVER_OK.
Booting ==
    /\ pc.at \in {"scan", "status", "features", "queue", "driver_ok", "halt"}
    /\ mem.avail_idx = 0 /\ rc = 0 /\ write_rc = 0 /\ used_seen = 0
    /\ status \subseteq Flags \cup {"FAILED"}
    /\ pc.at = "scan" => status = {}
    /\ pc.at = "status" => pc.n \in 1..4
    /\ pc.at = "queue" => /\ pc.n \in 1..Len(QueueRegs)
                          /\ \A m \in 1..(pc.n - 1) : QueueRegs[m] \in regs
    /\ pc.at = "driver_ok" => queue_ok

\* The block requests, on a device that is live.
Serving ==
    /\ pc.at \in {"request", "kick", "poll", "status_byte", "return", "halt"}
    /\ pc.at = "request" => pc.n \in 1..3
    /\ pc.at = "kick" => pc.n \in 1..4
    /\ queue_ok /\ status = Flags \cup {"DRIVER_OK"}

Setup ==
    /\ op = None => Booting /\ Drained
    /\ op # None => Serving
    /\ result = "init_failed" => op = None /\ pc.at = "halt" /\ status \in {{}, {"FAILED"}}

\* What of the chain is still on its way to memory.
Chain ==
    /\ Stage < 2 => buf["type"] = <<>>
    /\ Stage < 3 => buf["status_byte"] = <<>>
    /\ Stage < 4 => buf["data"] = <<>>
    /\ Stage >= 2 => Stored("type", Type)
    /\ Stage \in 3..4 => buf["status_byte"] \in {<<>>, <<Poison>>}
    /\ Stage >= 4 => Stored("data", Data)
    /\ Stage >= 5 => \A w \in Words \ {"avail_idx"} : buf[w] = <<>>
    /\ Stage \in 1..5 => buf["avail_idx"] = <<>> /\ mem.avail_idx = Round
    /\ Stage = 6 => /\ Stored("avail_idx", Round + 1)
                    /\ buf["avail_idx"] # <<>> => mem.avail_idx = Round
    /\ Stage >= 7 => buf["avail_idx"] = <<>> /\ mem.avail_idx = Round + 1

\* The device is never ahead of the driver, nor the driver of the device.
Counts ==
    /\ used_seen <= used_idx /\ taken <= mem.avail_idx
    /\ used_idx = IF job = Idle THEN taken ELSE taken - 1
    /\ op = "write" /\ Stage = 9 => used_idx >= 1
    /\ op = "write" /\ Stage = 10 /\ rc # -1 => used_idx >= 1
    /\ op = "read" /\ Clean => used_idx >= 1

\* The status byte speaks of the request in hand.
Verdict ==
    /\ Clean /\ Stage \in 3..4 => Stored("status_byte", Poison)
    /\ Clean /\ job # Idle => job.type = Type /\ job.data = Data
    /\ Clean /\ Stage >= 5 /\ mem.status_byte = Ok =>
         IF op = "write" THEN disk = "pattern" ELSE rbuf = disk
    /\ Clean /\ Stage = 10 /\ rc = 0 => IF op = "write" THEN disk = "pattern" ELSE rbuf = disk
    /\ rbuf = "pattern" \/ result = "PASS" => disk = "pattern"

IInv == Types /\ Setup /\ Chain /\ Counts /\ Verdict

-----------------------------------------------------------------------------
\* Where a step of the driver goes next.
LEMMA GotoIs ==
    ASSUME NEW p \in Steps, Goto(p)
    PROVE  pc' \in Place /\ pc'.at = p /\ pc'.n = 1
  BY DEF Goto, Place

LEMMA AgainIs ==
    ASSUME pc \in Place, Again
    PROVE  pc' \in Place /\ pc'.at = pc.at /\ pc'.n = pc.n + 1
  BY SMTT(60) DEF Again, Place

\* The stage follows from the place in the code.
LEMMA StageIs ==
    ASSUME op # None
    PROVE  /\ pc.at = "request" => Stage = pc.n
           /\ pc.at = "kick" => Stage = 3 + pc.n
           /\ pc.at = "poll" => Stage = 8
           /\ pc.at = "status_byte" => Stage = 9
           /\ pc.at = "return" => Stage = 10
           /\ pc.at = "halt" => Stage = 11
  BY DEF Stage

LEMMA StageRange ==
    ASSUME Setup, op # None
    PROVE  Stage \in 1..11
  <1>1. Serving
    BY DEF Setup
  <1> QED BY <1>1, SMTT(60) DEF Stage, Serving

\* A step that moves neither the driver nor the chain.
LEMMA ChainFrame ==
    ASSUME Chain, Stage' = Stage, UNCHANGED <<op, mem, buf>>
    PROVE  Chain'
  BY SMTT(60) DEF Chain, Stored, Type, Data, Round

\* Once avail idx is in memory the chain is complete.
LEMMA ChainSent ==
    ASSUME Chain, Stage \in 7..11, Stage' \in 7..11, UNCHANGED <<op, mem, buf>>
    PROVE  Chain'
  BY SMTT(60) DEF Chain, Stored, Type, Data, Round

LEMMA CountsFrame ==
    ASSUME Counts, Stage' = Stage,
           UNCHANGED <<op, rc, write_rc, used_seen, used_idx, taken, job, mem>>
    PROVE  Counts'
  BY DEF Counts, Clean

LEMMA SetupFrame ==
    ASSUME Setup, UNCHANGED <<modern, pc, op, rc, write_rc, used_seen, status, regs, queue_ok, result>>,
           op = None => UNCHANGED <<mem, buf>>
    PROVE  Setup'
  BY DEF Setup, Booting, Serving, Drained, QueueRegs

\* A step of the driver within a request.
LEMMA SetupRequest ==
    ASSUME Setup, op # None, op' # None, UNCHANGED <<status, queue_ok>>,
           pc'.at \in {"request", "kick", "poll", "status_byte", "return", "halt"},
           pc'.at = "request" => pc'.n \in 1..3,
           pc'.at = "kick" => pc'.n \in 1..4,
           result' = result \/ result' \in {"PASS", "FAIL"}
    PROVE  Setup'
  BY DEF Setup, Serving

LEMMA VerdictFrame ==
    ASSUME Verdict, Stage' = Stage, UNCHANGED <<op, rc, write_rc, job, mem, buf, disk, rbuf>>,
           result' = result \/ result' # "PASS"
    PROVE  Verdict'
  BY DEF Verdict, Clean, Type, Data, Stored

(* Until avail idx is in memory the device has nothing of the request in   *)
(* hand, unless an earlier request timed out.                              *)
LEMMA DeviceIdle ==
    ASSUME IInv, Clean, mem.avail_idx = Round
    PROVE  job = Idle
  <1>1. /\ used_idx \in Nat /\ taken \in Nat /\ mem.avail_idx \in Nat
        /\ taken <= mem.avail_idx
        /\ used_idx = IF job = Idle THEN taken ELSE taken - 1
        /\ op = "read" => used_idx >= 1
    BY SMTT(60) DEF IInv, Types, Ram, Counts
  <1> QED BY <1>1, SMTT(60) DEF Round

-----------------------------------------------------------------------------
(* virtio_init.                                                            *)

\* Before DRIVER_OK a step leaves the request path alone.
LEMMA BootFrame ==
    ASSUME IInv, op = None, Setup', Types',
           UNCHANGED <<op, used_seen, rc, write_rc, mem, buf, used_idx, rbuf, job, taken, disk>>,
           result' = result \/ result' # "PASS"
    PROVE  IInv'
  <1>1. Types /\ Setup /\ Chain /\ Counts /\ Verdict
    BY DEF IInv
  <1>2. Stage = 0 /\ Stage' = 0
    BY DEF Stage
  <1>3. Chain'
    BY <1>1, <1>2, ChainFrame
  <1>4. Counts'
    BY <1>1, <1>2, CountsFrame
  <1>5. Verdict'
    BY <1>1, <1>2, VerdictFrame
  <1> QED BY <1>3, <1>4, <1>5 DEF IInv

\* find_block_device, one slot at a time.
LEMMA ScanKeeps == ASSUME IInv, Scan PROVE IInv'
  <1>1. Types /\ Setup
    BY DEF IInv
  <1>2. /\ op = None /\ pc.at = "scan" /\ status = {}
        /\ UNCHANGED <<modern, op, used_seen, rc, write_rc, mem, buf, used_idx, rbuf,
                       status, regs, queue_ok, job, taken, disk>>
    BY <1>1 DEF Scan, At, Setup, Booting, Serving, Types, hw, ram, device, None
  <1>3. /\ i' \in 1..(Slots + 1)
        /\ pc' \in Place
        /\ \/ pc'.at = "halt" /\ result' = "init_failed"
           \/ pc'.at = "scan" /\ result' = result
           \/ pc'.at = "status" /\ pc'.n = 1 /\ result' = result
    <2>1. "halt" \in Steps /\ "status" \in Steps
      BY DEF Steps
    <2> QED BY <1>1, <1>2, <2>1, GotoIs, VirtioAssumption, SMTT(60) DEF Scan, Types
  <1>4. Types'
    BY <1>1, <1>2, <1>3 DEF Types
  <1>5. Setup'
    BY <1>1, <1>2, <1>3, SMTT(60) DEF Setup, Booting, Drained
  <1> QED BY <1>2, <1>3, <1>4, <1>5, BootFrame

\* The status sequence.
LEMMA StatusKeeps == ASSUME IInv, WriteStatus PROVE IInv'
  <1>1. Types /\ Setup
    BY DEF IInv
  <1>2. /\ op = None /\ pc.at = "status" /\ pc.n \in 1..4
        /\ UNCHANGED <<modern, i, op, used_seen, rc, write_rc, result, mem, buf, used_idx,
                       rbuf, regs, queue_ok, job, taken, disk>>
    BY <1>1 DEF WriteStatus, At, Setup, Booting, Serving, Types, hw, ram, None
  <1>3. /\ Len(Handshake) = 4
        /\ \A k \in 1..4 : Handshake[k] \subseteq Flags
    BY SMTT(60) DEF Handshake, Flags
  <1>4. status' \subseteq Flags
    BY <1>2, <1>3 DEF WriteStatus
  <1>5. /\ pc' \in Place
        /\ \/ pc'.at = "status" /\ pc'.n = pc.n + 1 /\ pc.n < 4
           \/ pc'.at = "features"
    BY <1>1, <1>2, <1>3, GotoIs, AgainIs DEF WriteStatus, Types, Steps
  <1>6. Types'
    BY <1>1, <1>2, <1>5 DEF Types
  <1>7. Setup'
    BY <1>1, <1>2, <1>4, <1>5, SMTT(60) DEF Setup, Booting, Drained
  <1> QED BY <1>2, <1>6, <1>7, BootFrame

\* FEATURES_OK read back and QUEUE_MAX: a failure leaves FAILED behind.
LEMMA FeaturesKeeps == ASSUME IInv, CheckFeatures PROVE IInv'
  <1>1. Types /\ Setup
    BY DEF IInv
  <1>2. /\ op = None /\ pc.at = "features"
        /\ UNCHANGED <<modern, i, op, used_seen, rc, write_rc, mem, buf, used_idx,
                       rbuf, regs, queue_ok, job, taken, disk>>
    BY <1>1 DEF CheckFeatures, At, Setup, Booting, Serving, Types, hw, ram, None
  <1>3. /\ pc' \in Place
        /\ \/ pc'.at = "halt" /\ status' = {"FAILED"} /\ result' = "init_failed"
           \/ pc'.at = "queue" /\ pc'.n = 1 /\ UNCHANGED <<status, result>>
    BY GotoIs DEF CheckFeatures, Fail, Steps
  <1>4. QueueRegs' = QueueRegs /\ Len(QueueRegs) \in 4..5
    BY <1>2, SMTT(60) DEF QueueRegs, Queue1x, QueueLegacy
  <1>5. Types'
    BY <1>1, <1>2, <1>3 DEF Types
  <1>6. pc'.at = "queue" => /\ pc'.n \in 1..Len(QueueRegs)
                            /\ \A m \in 1..(pc'.n - 1) : QueueRegs[m] \in regs
    <2>1. pc'.at = "queue" => pc'.n = 1
      BY <1>3
    <2>2. Len(QueueRegs) \in 4..5
      BY <1>4
    <2>3. 1 \in 1..Len(QueueRegs) /\ \A m \in 1..(1 - 1) : QueueRegs[m] \in regs
      BY <2>2, SMTT(60)
    <2> QED BY <2>1, <2>3
  <1>7. Setup'
    BY <1>1, <1>2, <1>3, <1>4, <1>6 DEF Setup, Booting, Drained
  <1> QED BY <1>2, <1>3, <1>5, <1>7, BootFrame

\* The last register of either interface finds the others written.
LEMMA QueueActivates ==
    ASSUME Types, pc.n \in 1..Len(QueueRegs), \A m \in 1..(pc.n - 1) : QueueRegs[m] \in regs
    PROVE  /\ Len(QueueRegs) \in 4..5
           /\ pc.n = Len(QueueRegs) => Activates(QueueRegs[pc.n])
  <1>1. CASE modern
    <2>1. QueueRegs = Queue1x
      BY <1>1 DEF QueueRegs
    <2>2. /\ Len(Queue1x) = 5 /\ Queue1x[1] = "QUEUE_NUM" /\ Queue1x[2] = "QDESC"
          /\ Queue1x[3] = "QDRV" /\ Queue1x[4] = "QDEV" /\ Queue1x[5] = "QUEUE_READY"
      BY DEF Queue1x
    <2> QED BY <2>1, <2>2, SMTT(60) DEF Activates
  <1>2. CASE ~modern
    <2>1. QueueRegs = QueueLegacy
      BY <1>2 DEF QueueRegs
    <2>2. /\ Len(QueueLegacy) = 4 /\ QueueLegacy[1] = "QUEUE_NUM" /\ QueueLegacy[4] = "QUEUE_PFN"
          /\ QueueLegacy[2] = "GUEST_PAGE_SIZE" /\ QueueLegacy[3] = "QUEUE_ALIGN"
      BY DEF QueueLegacy
    <2> QED BY <2>1, <2>2, SMTT(60) DEF Activates
  <1> QED BY <1>1, <1>2

\* The queue registers, in the order of the interface.
LEMMA QueueKeeps == ASSUME IInv, SetupQueue PROVE IInv'
  <1>1. Types /\ Setup
    BY DEF IInv
  <1>2. /\ op = None /\ pc.at = "queue" /\ pc.n \in 1..Len(QueueRegs)
        /\ \A m \in 1..(pc.n - 1) : QueueRegs[m] \in regs
        /\ UNCHANGED <<modern, i, op, used_seen, rc, write_rc, result, mem, buf, used_idx,
                       rbuf, status, job, taken, disk>>
    BY <1>1 DEF SetupQueue, At, Setup, Booting, Serving, Types, hw, ram, None
  <1>3. /\ regs' = regs \cup {QueueRegs[pc.n]}
        /\ queue_ok' = (queue_ok \/ Activates(QueueRegs[pc.n]))
        /\ QueueRegs' = QueueRegs
    BY <1>2 DEF SetupQueue, QueueRegs
  <1>4. /\ Len(QueueRegs) \in 4..5
        /\ pc.n = Len(QueueRegs) => Activates(QueueRegs[pc.n])
    BY <1>1, <1>2, QueueActivates
  <1>5. /\ pc' \in Place
        /\ \/ pc'.at = "queue" /\ pc'.n = pc.n + 1 /\ pc.n < Len(QueueRegs)
           \/ pc'.at = "driver_ok" /\ pc.n = Len(QueueRegs)
    BY <1>1, <1>2, <1>4, GotoIs, AgainIs, SMTT(60) DEF SetupQueue, Types, Steps
  <1>6. Types'
    BY <1>1, <1>2, <1>5 DEF Types
  <1>7. pc'.at = "queue" => /\ pc'.n \in 1..Len(QueueRegs)
                            /\ \A m \in 1..(pc'.n - 1) : QueueRegs[m] \in regs'
    BY <1>2, <1>3, <1>4, <1>5, SMTT(60)
  <1>8. pc'.at = "driver_ok" => queue_ok'
    BY <1>3, <1>4, <1>5
  <1>9. pc'.at \in {"queue", "driver_ok"} /\ QueueRegs' = QueueRegs
    BY <1>3, <1>5
  <1>10. Setup'
    BY <1>1, <1>2, <1>7, <1>8, <1>9 DEF Setup, Booting, Drained
  <1> QED BY <1>2, <1>6, <1>10, BootFrame

\* DRIVER_OK, and main calls blk_write.
LEMMA ReadyKeeps == ASSUME IInv, DriverOk PROVE IInv'
  <1>1. Types /\ Setup /\ Chain /\ Counts /\ Verdict
    BY DEF IInv
  <1>2. /\ op = None /\ pc.at = "driver_ok" /\ op' = "write"
        /\ pc' \in Place /\ pc'.at = "request" /\ pc'.n = 1
        /\ UNCHANGED <<modern, i, used_seen, rc, write_rc, result, mem, buf, used_idx,
                       rbuf, regs, queue_ok, job, taken, disk>>
    BY <1>1, GotoIs DEF DriverOk, At, Setup, Booting, Serving, Types, hw, ram, None, Steps
  <1>3. status' = Flags \cup {"DRIVER_OK"}
    BY DEF DriverOk, Handshake, Flags
  <1>4. Stage = 0 /\ Stage' = 1 /\ Clean /\ Clean'
    BY <1>2 DEF Stage, Clean, None
  <1>5. /\ \A w \in Words : buf[w] = <<>>
        /\ mem.avail_idx = 0 /\ rc = 0 /\ queue_ok /\ result # "init_failed"
    BY <1>1, <1>2 DEF Setup, Booting, Drained
  <1>6. job = Idle
    BY <1>4, <1>5, <1>2, DeviceIdle DEF Round, None
  <1>7. Types'
    BY <1>1, <1>2 DEF Types
  <1>8. Setup'
    BY <1>2, <1>3, <1>5, SMTT(60) DEF Setup, Serving, None
  <1>9. Chain'
    BY <1>2, <1>4, <1>5, SMTT(60) DEF Chain, Words, Round
  <1>10. Counts'
    BY <1>1, <1>2, <1>4, SMTT(60) DEF Counts
  <1>11. Verdict'
    BY <1>1, <1>2, <1>4, <1>6, SMTT(60) DEF Verdict
  <1> QED BY <1>7, <1>8, <1>9, <1>10, <1>11 DEF IInv

-----------------------------------------------------------------------------
(* A request, from blk_op to main's verdict.                               *)

\* blk_op's three stores: header, poison, descriptors.
LEMMA BlkOpKeeps == ASSUME IInv, BlkOp PROVE IInv'
  <1>1. Types /\ Setup /\ Chain /\ Counts /\ Verdict
    BY DEF IInv
  <1>2. /\ op \in {"write", "read"} /\ pc.at = "request" /\ pc.n \in 1..3 /\ Stage = pc.n
        /\ UNCHANGED <<modern, i, op, used_seen, rc, write_rc, result, mem, used_idx, rbuf,
                       status, regs, queue_ok, job, taken, disk>>
    BY <1>1, StageIs DEF BlkOp, At, Setup, Booting, Serving, Types, hw, device, None
  <1>4. \A v : Append(<<>>, v) = <<v>>
    BY SMTT(60)
  <1>5. /\ Stage < 2 => buf["type"] = <<>>
        /\ Stage < 3 => buf["status_byte"] = <<>>
        /\ Stage < 4 => buf["data"] = <<>>
        /\ buf["avail_idx"] = <<>> /\ mem.avail_idx = Round
    BY <1>1, <1>2, SMTT(60) DEF Chain
  <1>3. pc' \in Place
    BY <1>1, GotoIs, AgainIs DEF BlkOp, Types, Steps
  <1>6. \/ /\ Stage = 1 /\ pc'.at = "request" /\ pc'.n = 2
           /\ buf' = [buf EXCEPT !["type"] = <<Type>>]
        \/ /\ Stage = 2 /\ pc'.at = "request" /\ pc'.n = 3
           /\ buf' = [buf EXCEPT !["status_byte"] = <<Poison>>]
        \/ /\ Stage = 3 /\ pc'.at = "kick" /\ pc'.n = 1
           /\ buf' = [buf EXCEPT !["data"] = <<Data>>]
    <2>1. CASE pc.n = 1 /\ Again /\ Put("type", IF op = "write" THEN "OUT" ELSE "IN")
      <3>1. pc'.at = "request" /\ pc'.n = 2
        BY <1>1, <1>2, <2>1, AgainIs, SMTT(60) DEF Types
      <3>2. buf' = [buf EXCEPT !["type"] = <<Type>>]
        <4>1. buf["type"] = <<>>
          BY <1>2, <1>5, <2>1, SMTT(60)
        <4> QED BY <1>4, <2>1, <4>1 DEF Put, Type
      <3> QED BY <1>2, <2>1, <3>1, <3>2
    <2>2. CASE pc.n = 2 /\ Again /\ Put("status_byte", Poison)
      <3>1. pc'.at = "request" /\ pc'.n = 3
        BY <1>1, <1>2, <2>2, AgainIs, SMTT(60) DEF Types
      <3>2. buf' = [buf EXCEPT !["status_byte"] = <<Poison>>]
        <4>1. buf["status_byte"] = <<>>
          BY <1>2, <1>5, <2>2, SMTT(60)
        <4> QED BY <1>4, <2>2, <4>1 DEF Put
      <3> QED BY <1>2, <2>2, <3>1, <3>2
    <2>3. CASE pc.n = 3 /\ Goto("kick") /\ Put("data", IF op = "write" THEN "wbuf" ELSE "rbuf")
      <3>1. pc'.at = "kick" /\ pc'.n = 1
        BY <2>3, GotoIs DEF Steps
      <3>2. buf' = [buf EXCEPT !["data"] = <<Data>>]
        <4>1. buf["data"] = <<>>
          BY <1>2, <1>5, <2>3, SMTT(60)
        <4> QED BY <1>4, <2>3, <4>1 DEF Put, Data
      <3> QED BY <1>2, <2>3, <3>1, <3>2
    <2> QED BY <2>1, <2>2, <2>3 DEF BlkOp
  <1>7. op' # None /\ Stage' = Stage + 1
    BY <1>2, <1>6, StageIs, SMTT(60) DEF Stage, None
  <1>8. Types'
    BY <1>1, <1>2, <1>3, <1>6 DEF Types
  <1>9. Setup'
    BY <1>1, <1>2, <1>6, <1>7, SetupRequest, SMTT(60)
  <1>10. Chain'
    <2>1. DOMAIN buf = Words
      BY <1>1 DEF Types
    <2> QED BY <1>1, <1>2, <1>5, <1>6, <1>7, <2>1, SMTT(60) DEF Chain, Words, Stored, Type, Data,
       Round
  <1>11. Counts'
    BY <1>1, <1>2, <1>6, <1>7, SMTT(60) DEF Counts, Clean
  <1>12. Clean => job = Idle
    BY <1>5, DeviceIdle
  <1>13. Verdict'
    <2>1. DOMAIN buf = Words
      BY <1>1 DEF Types
    <2> QED BY <1>1, <1>2, <1>6, <1>7, <1>12, <2>1, SMTT(60) DEF Verdict, Clean, Stored, Words
  <1> QED BY <1>8, <1>9, <1>10, <1>11, <1>13 DEF IInv

\* virtio_kick_wait: the fences, and avail idx between them.
LEMMA KickKeeps == ASSUME IInv, Kick PROVE IInv'
  <1>1. Types /\ Setup /\ Chain /\ Counts /\ Verdict
    BY DEF IInv
  <1>2. /\ op \in {"write", "read"} /\ pc.at = "kick" /\ pc.n \in 1..4 /\ Stage = 3 + pc.n
        /\ UNCHANGED <<modern, i, op, used_seen, rc, write_rc, result, mem, used_idx, rbuf,
                       status, regs, queue_ok, job, taken, disk>>
    BY <1>1, StageIs DEF Kick, At, Setup, Booting, Serving, Types, hw, None
  <1>4. \A v : Append(<<>>, v) = <<v>>
    BY SMTT(60)
  <1>5. pc.n = 2 => buf["avail_idx"] = <<>> /\ Load("avail_idx") = Round
    BY <1>1, <1>2, SMTT(60) DEF Chain, Load
  <1>3. pc' \in Place
    BY <1>1, GotoIs, AgainIs DEF Kick, Types, Steps
  <1>6. \/ Stage = 4 /\ pc'.at = "kick" /\ pc'.n = 2 /\ Drained /\ buf' = buf
        \/ /\ Stage = 5 /\ pc'.at = "kick" /\ pc'.n = 3
           /\ buf' = [buf EXCEPT !["avail_idx"] = <<Round + 1>>]
        \/ Stage = 6 /\ pc'.at = "kick" /\ pc'.n = 4 /\ Drained /\ buf' = buf
        \/ Stage = 7 /\ pc'.at = "poll" /\ pc'.n = 1 /\ buf' = buf
    <2>1. CASE pc.n \in {1, 3} /\ Drained /\ Again /\ UNCHANGED buf
      BY <1>1, <1>2, <2>1, AgainIs, SMTT(60) DEF Types
    <2>2. CASE pc.n = 2 /\ Put("avail_idx", Load("avail_idx") + 1) /\ Again
      <3>1. pc'.at = "kick" /\ pc'.n = 3
        BY <1>1, <1>2, <2>2, AgainIs, SMTT(60) DEF Types
      <3>2. buf' = [buf EXCEPT !["avail_idx"] = <<Round + 1>>]
        BY <1>4, <1>5, <2>2 DEF Put
      <3> QED BY <1>2, <2>2, <3>1, <3>2, SMTT(60)
    <2>3. CASE pc.n = 4 /\ Goto("poll") /\ UNCHANGED buf
      BY <1>2, <2>3, GotoIs, SMTT(60) DEF Steps
    <2> QED BY <2>1, <2>2, <2>3 DEF Kick
  <1>7. op' # None /\ Stage' = Stage + 1
    BY <1>2, <1>6, SMTT(60) DEF Stage, None
  <1>8. Types'
    BY <1>1, <1>2, <1>3, <1>6 DEF Types
  <1>9. Setup'
    BY <1>1, <1>2, <1>6, <1>7, SetupRequest, SMTT(60)
  <1>10. Chain'
    <2>1. DOMAIN buf = Words
      BY <1>1 DEF Types
    <2>2. Round \in 0..1 /\ UNCHANGED <<Type, Data, Round>>
      BY <1>2, SMTT(60) DEF Type, Data, Round
    <2>3. CASE Stage = 4 /\ Drained /\ buf' = buf
      BY <1>1, <1>2, <1>7, <2>2, <2>3, SMTT(60) DEF Chain, Drained, Words, Stored
    <2>6. CASE Stage = 6 /\ Drained /\ buf' = buf
      <3>1. \A w \in Words : buf[w] = <<>>
        BY <2>6 DEF Drained
      <3>2. Stored("avail_idx", Round + 1) /\ Stored("type", Type) /\ Stored("data", Data)
        BY <1>1, <2>6, SMTT(60) DEF Chain
      <3>3. <<Round + 1>> # <<>>
        OBVIOUS
      <3>4. mem.avail_idx = Round + 1
        BY <3>1, <3>2, <3>3 DEF Words, Stored
      <3> QED BY <1>2, <1>7, <2>2, <2>6, <3>1, <3>2, <3>4, SMTT(60) DEF Chain, Words, Stored
    <2>4. CASE Stage = 5 /\ buf' = [buf EXCEPT !["avail_idx"] = <<Round + 1>>]
      BY <1>1, <1>2, <1>7, <2>1, <2>2, <2>4, SMTT(60) DEF Chain, Words, Stored
    <2>5. CASE Stage = 7 /\ buf' = buf
      BY <1>1, <1>2, <1>7, <2>5, ChainSent, SMTT(60)
    <2> QED BY <1>6, <2>3, <2>4, <2>5, <2>6
  <1>11. Counts'
    BY <1>1, <1>2, <1>6, <1>7, SMTT(60) DEF Counts, Clean
  <1>12. Verdict'
    <2>1. Stage = 4 /\ Clean => mem.status_byte = Poison
      BY <1>1, <1>6, SMTT(60) DEF Verdict, Stored, Drained, Words
    <2> QED BY <1>1, <1>2, <1>6, <1>7, <2>1, SMTT(60) DEF Verdict, Clean, Type, Data, Poison, Ok
  <1> QED BY <1>8, <1>9, <1>10, <1>11, <1>12 DEF IInv

\* A used entry is seen.
LEMMA PollDoneKeeps == ASSUME IInv, PollDone PROVE IInv'
  <1>1. Types /\ Setup /\ Chain /\ Counts /\ Verdict
    BY DEF IInv
  <1>2. /\ op \in {"write", "read"} /\ pc.at = "poll" /\ pc' \in Place
        /\ pc'.at = "status_byte" /\ pc'.n = 1
        /\ used_idx # used_seen /\ used_seen' = used_seen + 1
        /\ UNCHANGED <<modern, i, op, rc, write_rc, result, mem, buf, used_idx, rbuf,
                       status, regs, queue_ok, job, taken, disk>>
    BY <1>1, GotoIs DEF PollDone, At, Setup, Booting, Serving, Types, hw, ram, device, None, Steps
  <1>3. Stage = 8 /\ Stage' = 9
    BY <1>2 DEF Stage, None
  <1>4. Types'
    BY <1>1, <1>2, SMTT(60) DEF Types
  <1>5. Setup'
    BY <1>1, <1>2, SetupRequest DEF None
  <1>6. Chain'
    BY <1>1, <1>2, <1>3, ChainSent, SMTT(60)
  <1>7. Counts'
    BY <1>1, <1>2, <1>3, SMTT(60) DEF Counts, Clean, Types
  <1>8. Verdict'
    BY <1>1, <1>2, <1>3, SMTT(60) DEF Verdict, Clean, Type, Data
  <1> QED BY <1>4, <1>5, <1>6, <1>7, <1>8 DEF IInv

\* The poll budget runs out.
LEMMA PollTimeoutKeeps == ASSUME IInv, PollTimeout PROVE IInv'
  <1>1. Types /\ Setup /\ Chain /\ Counts /\ Verdict
    BY DEF IInv
  <1>2. /\ op \in {"write", "read"} /\ pc.at = "poll" /\ pc' \in Place
        /\ pc'.at = "return" /\ pc'.n = 1
        /\ rc' = -1
        /\ UNCHANGED <<modern, i, op, used_seen, write_rc, result, mem, buf, used_idx, rbuf,
                       status, regs, queue_ok, job, taken, disk>>
    BY <1>1, GotoIs DEF PollTimeout, At, Setup, Booting, Serving, Types, hw, ram, device, None, Steps
  <1>3. Stage = 8 /\ Stage' = 10
    BY <1>2 DEF Stage, None
  <1>4. Types'
    BY <1>1, <1>2, SMTT(60) DEF Types, Codes
  <1>5. Setup'
    BY <1>1, <1>2, SetupRequest DEF None
  <1>6. Chain'
    BY <1>1, <1>2, <1>3, ChainSent, SMTT(60)
  <1>7. Counts'
    BY <1>1, <1>2, <1>3, SMTT(60) DEF Counts, Clean
  <1>8. Verdict'
    BY <1>1, <1>2, <1>3, SMTT(60) DEF Verdict, Clean, Type, Data
  <1> QED BY <1>4, <1>5, <1>6, <1>7, <1>8 DEF IInv

\* The status byte decides the return code.
LEMMA ReadStatusKeeps == ASSUME IInv, ReadStatus PROVE IInv'
  <1>1. Types /\ Setup /\ Chain /\ Counts /\ Verdict
    BY DEF IInv
  <1>2. /\ op \in {"write", "read"} /\ pc.at = "status_byte" /\ pc' \in Place
        /\ pc'.at = "return" /\ pc'.n = 1
        /\ UNCHANGED <<modern, i, op, used_seen, write_rc, result, mem, buf, used_idx, rbuf,
                       status, regs, queue_ok, job, taken, disk>>
    BY <1>1, GotoIs DEF ReadStatus, At, Setup, Booting, Serving, Types, hw, ram, device, None, Steps
  <1>3. Stage = 9 /\ Stage' = 10
    BY <1>2 DEF Stage, None
  <1>4. Load("status_byte") = mem.status_byte
    BY <1>1, <1>3, SMTT(60) DEF Chain, Words, Load
  <1>5. rc' \in {0, 101, 355} /\ (rc' = 0 => mem.status_byte = Ok)
    BY <1>1, <1>4, SMTT(60) DEF ReadStatus, Types, Ram, Ok, IoErr, Poison
  <1>6. Types'
    BY <1>1, <1>2, <1>5, SMTT(60) DEF Types, Codes
  <1>7. Setup'
    BY <1>1, <1>2, SetupRequest DEF None
  <1>8. Chain'
    BY <1>1, <1>2, <1>3, ChainSent, SMTT(60)
  <1>9. Counts'
    BY <1>1, <1>2, <1>3 DEF Counts, Clean
  <1>10. Verdict'
    BY <1>1, <1>2, <1>3, <1>5, SMTT(60) DEF Verdict, Clean, Type, Data
  <1> QED BY <1>6, <1>7, <1>8, <1>9, <1>10 DEF IInv

\* main goes on to the read, whatever the write returned.
LEMMA AfterWriteKeeps == ASSUME IInv, AfterWrite PROVE IInv'
  <1>1. Types /\ Setup /\ Chain /\ Counts /\ Verdict
    BY DEF IInv
  <1>2. /\ op = "write" /\ pc.at = "return" /\ op' = "read" /\ pc' \in Place
        /\ pc'.at = "request" /\ pc'.n = 1
        /\ write_rc' = rc /\ rbuf' = "poison"
        /\ UNCHANGED <<modern, i, used_seen, rc, result, mem, buf, used_idx, status, regs,
                       queue_ok, job, taken, disk>>
    BY GotoIs DEF AfterWrite, At, hw, device, Steps
  <1>3. Stage = 10 /\ Stage' = 1 /\ Round = 0 /\ Round' = 1
    BY <1>2 DEF Stage, None, Round
  <1>4. Types'
    BY <1>1, <1>2 DEF Types
  <1>5. Setup'
    BY <1>1, <1>2, SetupRequest, SMTT(60) DEF None
  <1>6. Chain'
    BY <1>1, <1>2, <1>3, SMTT(60) DEF Chain, Words
  <1>7. Counts'
    BY <1>1, <1>2, <1>3 DEF Counts, Clean
  <1>8. Clean' => job = Idle
    BY <1>1, <1>2, <1>3, SMTT(60) DEF Counts, Chain, Clean, Types
  <1>9. Verdict'
    BY <1>1, <1>2, <1>3, <1>8, SMTT(60) DEF Verdict
  <1> QED BY <1>4, <1>5, <1>6, <1>7, <1>9 DEF IInv

\* main's verdict.
LEMMA AfterReadKeeps == ASSUME IInv, AfterRead PROVE IInv'
  <1>1. Types /\ Setup /\ Chain /\ Counts /\ Verdict
    BY DEF IInv
  <1>2. /\ op = "read" /\ pc.at = "return" /\ pc' \in Place
        /\ pc'.at = "halt" /\ pc'.n = 1
        /\ result' = IF rbuf = "pattern" THEN "PASS" ELSE "FAIL"
        /\ UNCHANGED <<modern, i, op, used_seen, rc, write_rc, mem, buf, used_idx, rbuf,
                       status, regs, queue_ok, job, taken, disk>>
    BY GotoIs DEF AfterRead, At, hw, ram, device, Steps
  <1>3. Stage = 10 /\ Stage' = 11
    BY <1>2 DEF Stage, None
  <1>4. Types'
    BY <1>1, <1>2 DEF Types
  <1>5. Setup'
    BY <1>1, <1>2, SetupRequest DEF None
  <1>6. Chain'
    BY <1>1, <1>2, <1>3, ChainSent, SMTT(60)
  <1>7. Counts'
    BY <1>1, <1>2, <1>3 DEF Counts, Clean
  <1>8. Verdict'
    BY <1>1, <1>2, <1>3, SMTT(60) DEF Verdict, Clean, Type, Data
  <1> QED BY <1>4, <1>5, <1>6, <1>7, <1>8 DEF IInv

-----------------------------------------------------------------------------
(* The device, and the stores on their way to memory.                      *)

\* The device looks at avail idx and takes a chain.
LEMMA DevTakeKeeps == ASSUME IInv, DevTake PROVE IInv'
  <1>1. Types /\ Setup /\ Chain /\ Counts /\ Verdict
    BY DEF IInv
  <1>2. UNCHANGED <<modern, pc, i, op, used_seen, rc, write_rc, result, mem, buf, used_idx,
                    rbuf, status, regs, queue_ok, disk>>
    BY DEF DevTake, hw, driver, ram
  <1>3. Stage' = Stage
    BY <1>2 DEF Stage
  <1>4. Setup' /\ Chain'
    BY <1>1, <1>2, <1>3, SetupFrame, ChainFrame
  <1>5. CASE UNCHANGED <<job, taken>>
    <2>1. Types'
      BY <1>1, <1>2, <1>5 DEF Types
    <2> QED BY <1>1, <1>2, <1>3, <1>4, <1>5, <2>1, CountsFrame, VerdictFrame DEF IInv
  <1>6. CASE /\ taken # mem.avail_idx /\ taken' = taken + 1
             /\ job' = [type |-> mem.type, data |-> mem.data, moved |-> FALSE]
    <2>1. job = Idle /\ op # None
      BY <1>1 DEF DevTake, Usable, Setup, Booting, Flags
    <2>2. job' # Idle /\ job'.type = mem.type /\ job'.data = mem.data
      BY <1>1, <1>6 DEF Types, Ram, Idle, None
    <2>3. Types'
      BY <1>1, <1>2, <1>6, <2>2, SMTT(60) DEF Types, Ram, Chains, None
    <2>4. Counts'
      BY <1>1, <1>2, <1>3, <1>6, <2>1, <2>2, SMTT(60) DEF Counts, Clean, Types, Ram
    <2>5. Clean => mem.type = Type /\ mem.data = Data
      <3>1. SUFFICES ASSUME Clean PROVE mem.type = Type /\ mem.data = Data
        OBVIOUS
      <3>2. mem.avail_idx # Round
        BY <1>1, <1>6, <2>1, <3>1, SMTT(60) DEF Counts, Clean, Types, Round
      <3>3. Stage \in 6..11
        BY <1>1, <2>1, <3>2, StageRange, SMTT(60) DEF Chain
      <3>4. buf["type"] = <<>> /\ buf["data"] = <<>>
        BY <1>1, <3>3, SMTT(60) DEF Chain, Words
      <3> QED BY <1>1, <3>3, <3>4, SMTT(60) DEF Chain, Stored
    <2>6. Verdict'
      BY <1>1, <1>2, <1>3, <2>2, <2>5 DEF Verdict, Clean, Type, Data, Stored
    <2> QED BY <1>4, <2>3, <2>4, <2>6 DEF IInv
  <1> QED BY <1>5, <1>6 DEF DevTake

\* The device moves the data and writes the status byte.
LEMMA DevMoveKeeps == ASSUME IInv, DevMove PROVE IInv'
  <1>1. Types /\ Setup /\ Chain /\ Counts /\ Verdict
    BY DEF IInv
  <1>2. /\ job # Idle /\ job' = [job EXCEPT !.moved = TRUE]
        /\ UNCHANGED <<modern, pc, i, op, used_seen, rc, write_rc, result, buf, used_idx,
                       status, regs, queue_ok, taken>>
    BY DEF DevMove, hw, driver
  <1>3. PICK st \in {Ok, IoErr} :
               /\ mem' = [mem EXCEPT !.status_byte = st]
               /\ disk' = IF st = Ok /\ job.type = "OUT" /\ job.data = "wbuf" THEN "pattern" ELSE disk
               /\ rbuf' = IF st = Ok /\ job.type = "IN" /\ job.data = "rbuf" THEN disk ELSE rbuf
    BY DEF DevMove
  <1>4. /\ job' # Idle /\ job'.type = job.type /\ job'.data = job.data
        /\ mem'.avail_idx = mem.avail_idx /\ mem'.type = mem.type /\ mem'.data = mem.data
        /\ mem'.status_byte = st
    BY <1>1, <1>2, <1>3, SMTT(60) DEF Types, Idle
  <1>5. Stage' = Stage
    BY <1>2 DEF Stage
  <1>6. job' \in Chains
    BY <1>1, <1>2 DEF Types, Chains
  <1>7. mem' \in Ram
    BY <1>1, <1>3 DEF Types, Ram
  <1>8. Types'
    BY <1>1, <1>2, <1>3, <1>4, <1>6, <1>7 DEF Types
  <1>9. op # None
    BY <1>1, <1>2, SMTT(60) DEF Setup, Booting, Counts, Types
  <1>10. Setup'
    BY <1>1, <1>2, <1>9, SetupFrame
  <1>11. Chain'
    BY <1>1, <1>2, <1>4, <1>5, SMTT(60) DEF Chain, Stored, Type, Data, Round
  <1>12. Counts'
    BY <1>1, <1>2, <1>4, <1>5 DEF Counts, Clean
  <1>13. Clean => /\ mem.avail_idx # Round
                  /\ job.type = Type /\ job.data = Data
    BY <1>1, <1>2, DeviceIdle DEF Verdict
  <1>14. Clean => Stage >= 6
    BY <1>1, <1>9, <1>13, StageRange, SMTT(60) DEF Chain
  <1>15. /\ rbuf' = "pattern" \/ result' = "PASS" => disk' = "pattern"
         /\ disk = "pattern" => disk' = "pattern"
    BY <1>1, <1>2, <1>3 DEF Verdict
  <1>16. Clean => IF op = "write" THEN disk = "pattern" \/ st = Ok => disk' = "pattern"
                  ELSE rbuf = disk \/ st = Ok => rbuf' = disk'
    BY <1>3, <1>9, <1>13, <1>1 DEF Type, Data, Types
  <1>17. Verdict'
    BY <1>1, <1>2, <1>4, <1>5, <1>13, <1>14, <1>15, <1>16, SMTT(60) DEF Verdict, Clean, Type, Data
  <1> QED BY <1>8, <1>10, <1>11, <1>12, <1>17 DEF IInv

\* The device publishes the used entry.
LEMMA DevUsedKeeps == ASSUME IInv, DevUsed PROVE IInv'
  <1>1. Types /\ Setup /\ Chain /\ Counts /\ Verdict
    BY DEF IInv
  <1>2. /\ job # Idle /\ job' = Idle /\ used_idx' = used_idx + 1
        /\ UNCHANGED <<modern, pc, i, op, used_seen, rc, write_rc, result, mem, buf, rbuf,
                       status, regs, queue_ok, taken, disk>>
    BY DEF DevUsed, hw, driver
  <1>3. Stage' = Stage
    BY <1>2 DEF Stage
  <1>4. Types'
    BY <1>1, <1>2, SMTT(60) DEF Types, Chains, Idle, None
  <1>5. Setup'
    BY <1>1, <1>2, SetupFrame
  <1>6. Chain'
    BY <1>1, <1>2, <1>3, ChainFrame
  <1>7. Counts'
    BY <1>1, <1>2, <1>3, SMTT(60) DEF Counts, Clean, Types
  <1>8. Verdict'
    BY <1>1, <1>2, <1>3 DEF Verdict, Clean, Type, Data, Stored
  <1> QED BY <1>4, <1>5, <1>6, <1>7, <1>8 DEF IInv

\* What a drained store writes, and when.
LEMMA DrainedStore ==
    ASSUME IInv, NEW w \in Words, buf[w] # <<>>
    PROVE  /\ op # None
           /\ w = "type" => Stage \in 2..4 /\ buf[w] = <<Type>>
           /\ w = "data" => Stage = 4 /\ buf[w] = <<Data>>
           /\ w = "status_byte" => Stage \in 3..4 /\ buf[w] = <<Poison>>
           /\ w = "avail_idx" => Stage = 6 /\ buf[w] = <<Round + 1>> /\ mem.avail_idx = Round
  <1>1. Types /\ Setup /\ Chain
    BY DEF IInv
  <1>2. op # None
    BY <1>1 DEF Setup, Drained
  <1>3. Stage \in 1..11
    BY <1>1, <1>2, StageRange
  <1> QED BY <1>1, <1>2, <1>3, SMTT(60) DEF Chain, Stored, Words

\* A driver's store reaches memory.
LEMMA DrainKeeps == ASSUME IInv, Drain PROVE IInv'
  <1>1. Types /\ Setup /\ Chain /\ Counts /\ Verdict
    BY DEF IInv
  <1>2. PICK w \in Words : /\ buf[w] # <<>>
                           /\ mem' = [mem EXCEPT ![w] = Head(buf[w])]
                           /\ buf' = [buf EXCEPT ![w] = Tail(buf[w])]
    BY DEF Drain
  <1>3. UNCHANGED <<modern, pc, i, op, used_seen, rc, write_rc, result, used_idx, rbuf,
                    status, regs, queue_ok, job, taken, disk>>
    BY DEF Drain, hw, driver, device
  <1>4. /\ op # None
        /\ w = "type" => Stage \in 2..4 /\ buf[w] = <<Type>>
        /\ w = "data" => Stage = 4 /\ buf[w] = <<Data>>
        /\ w = "status_byte" => Stage \in 3..4 /\ buf[w] = <<Poison>>
        /\ w = "avail_idx" => Stage = 6 /\ buf[w] = <<Round + 1>> /\ mem.avail_idx = Round
    BY <1>2, DrainedStore
  <1>5. \A v : Head(<<v>>) = v /\ Tail(<<v>>) = <<>>
    BY SMTT(60)
  <1>6. Stage' = Stage /\ Type' = Type /\ Data' = Data /\ Round' = Round /\ Clean' = Clean
    BY <1>3 DEF Stage, Type, Data, Round, Clean
  <1>7. Setup'
    BY <1>1, <1>3, <1>4, SetupFrame
  <1>8. DOMAIN buf = Words /\ DOMAIN mem = Words
    BY <1>1 DEF Types, Ram, Words
  <1>9. CASE w = "type"
    <2>1. mem' = [mem EXCEPT !["type"] = Type] /\ buf' = [buf EXCEPT !["type"] = <<>>]
      BY <1>2, <1>4, <1>5, <1>9
    <2>2. /\ mem'.type = Type /\ buf'["type"] = <<>>
          /\ \A x \in Words \ {"type"} : mem'[x] = mem[x] /\ buf'[x] = buf[x]
      BY <1>8, <2>1 DEF Words
    <2>3. Types'
      BY <1>1, <1>3, <2>1 DEF Types, Ram, Type, Words
    <2>4. Chain'
      BY <1>1, <1>4, <1>6, <1>9, <2>2 DEF Chain, Stored, Words
    <2>5. Counts'
      BY <1>1, <1>3, <1>6, <2>2 DEF Counts, Words
    <2>6. Verdict'
      BY <1>1, <1>3, <1>6, <2>2 DEF Verdict, Stored, Words
    <2> QED BY <1>7, <2>3, <2>4, <2>5, <2>6 DEF IInv
  <1>10. CASE w = "data"
    <2>1. mem' = [mem EXCEPT !["data"] = Data] /\ buf' = [buf EXCEPT !["data"] = <<>>]
      BY <1>2, <1>4, <1>5, <1>10
    <2>2. /\ mem'.data = Data /\ buf'["data"] = <<>>
          /\ \A x \in Words \ {"data"} : mem'[x] = mem[x] /\ buf'[x] = buf[x]
      BY <1>8, <2>1 DEF Words
    <2>3. Types'
      BY <1>1, <1>3, <2>1 DEF Types, Ram, Data, Words
    <2>4. Chain'
      BY <1>1, <1>4, <1>6, <1>10, <2>2, SMTT(60) DEF Chain, Stored, Words
    <2>5. Counts'
      BY <1>1, <1>3, <1>6, <2>2 DEF Counts, Words
    <2>6. Verdict'
      BY <1>1, <1>3, <1>6, <2>2 DEF Verdict, Stored, Words
    <2> QED BY <1>7, <2>3, <2>4, <2>5, <2>6 DEF IInv
  <1>11. CASE w = "status_byte"
    <2>1. mem' = [mem EXCEPT !["status_byte"] = Poison] /\ buf' = [buf EXCEPT !["status_byte"] = <<>>]
      BY <1>2, <1>4, <1>5, <1>11
    <2>2. /\ mem'.status_byte = Poison /\ buf'["status_byte"] = <<>>
          /\ \A x \in Words \ {"status_byte"} : mem'[x] = mem[x] /\ buf'[x] = buf[x]
      BY <1>8, <2>1 DEF Words
    <2>3. Types'
      BY <1>1, <1>3, <2>1 DEF Types, Ram, Words
    <2>4. Chain'
      BY <1>1, <1>4, <1>6, <1>11, <2>2, SMTT(60) DEF Chain, Stored, Words
    <2>5. Counts'
      BY <1>1, <1>3, <1>6, <2>2 DEF Counts, Words
    <2>6. Verdict'
      BY <1>1, <1>3, <1>4, <1>6, <1>11, <2>2, SMTT(60) DEF Verdict, Stored, Words
    <2> QED BY <1>7, <2>3, <2>4, <2>5, <2>6 DEF IInv
  <1>12. CASE w = "avail_idx"
    <2>1. /\ mem' = [mem EXCEPT !["avail_idx"] = Round + 1]
          /\ buf' = [buf EXCEPT !["avail_idx"] = <<>>]
      BY <1>2, <1>4, <1>5, <1>12
    <2>2. /\ mem'.avail_idx = Round + 1 /\ buf'["avail_idx"] = <<>>
          /\ \A x \in Words \ {"avail_idx"} : mem'[x] = mem[x] /\ buf'[x] = buf[x]
      BY <1>8, <2>1 DEF Words
    <2>3. Types'
      BY <1>1, <1>3, <2>1, SMTT(60) DEF Types, Ram, Round, Words
    <2>4. Chain'
      BY <1>1, <1>4, <1>6, <1>12, <2>2, SMTT(60) DEF Chain, Stored, Words
    <2>5. Counts'
      BY <1>1, <1>3, <1>4, <1>6, <1>12, <2>2, SMTT(60) DEF Counts, Types, Round
    <2>6. Verdict'
      BY <1>1, <1>3, <1>6, <2>2 DEF Verdict, Stored, Words
    <2> QED BY <1>7, <2>3, <2>4, <2>5, <2>6 DEF IInv
  <1> QED BY <1>9, <1>10, <1>11, <1>12 DEF Words

\* The empty passes of the poll, and the end.
LEMMA IdleKeeps == ASSUME IInv, UNCHANGED vars PROVE IInv'
  <1>1. Types /\ Setup /\ Chain /\ Counts /\ Verdict
    BY DEF IInv
  <1>2. UNCHANGED <<modern, pc, i, op, used_seen, rc, write_rc, result, mem, buf, used_idx,
                    rbuf, status, regs, queue_ok, job, taken, disk>>
    BY DEF vars
  <1>3. Stage' = Stage
    BY <1>2 DEF Stage
  <1>4. Types'
    BY <1>1, <1>2 DEF Types
  <1> QED BY <1>1, <1>2, <1>3, <1>4, SetupFrame, ChainFrame, CountsFrame, VerdictFrame DEF IInv

-----------------------------------------------------------------------------
\* main is entered with BSS clear and the device as the machine left it.
LEMMA InitIInv == Init => IInv
  <1> SUFFICES ASSUME Init PROVE IInv
    OBVIOUS
  <1>1. Types
    BY VirtioAssumption, SMTT(60) DEF Init, Types, Place, Ram, Chains, Steps, Codes, Words, Idle,
       None, Ok
  <1>2. Stage = 0
    BY DEF Init, Stage
  <1>3. Setup
    BY DEF Init, Setup, Booting, Drained, Words, None
  <1>4. Chain
    BY <1>2, SMTT(60) DEF Init, Chain, Words
  <1>5. Counts
    BY <1>2, SMTT(60) DEF Init, Counts, None
  <1>6. Verdict
    BY <1>2, SMTT(60) DEF Init, Verdict, None
  <1> QED BY <1>1, <1>3, <1>4, <1>5, <1>6 DEF IInv

\* Every step of the driver, the store buffer and the device keeps the invariant.
LEMMA NextIInv == IInv /\ [Next]_vars => IInv'
  <1> SUFFICES ASSUME IInv, [Next]_vars PROVE IInv'
    OBVIOUS
  <1>1. CASE Driver
    BY <1>1, ScanKeeps, StatusKeeps, FeaturesKeeps, QueueKeeps, ReadyKeeps, BlkOpKeeps, KickKeeps,
       PollDoneKeeps, ReadStatusKeeps, AfterWriteKeeps, AfterReadKeeps DEF Driver
  <1>2. CASE Device
    BY <1>2, DevTakeKeeps, DevMoveKeeps, DevUsedKeeps DEF Device
  <1>3. CASE PollTimeout
    BY <1>3, PollTimeoutKeeps
  <1>4. CASE Drain
    BY <1>4, DrainKeeps
  <1>5. CASE UNCHANGED vars
    BY <1>5, IdleKeeps
  <1>6. CASE PollSpin \/ Halted
    BY <1>6, IdleKeeps DEF PollSpin, Halted
  <1> QED BY <1>1, <1>2, <1>3, <1>4, <1>5, <1>6 DEF Next

(* In every reachable state the five parts hold together: the types, what  *)
(* virtio_init has set up, how much of the chain is in memory, the ring    *)
(* indexes, and what the status byte speaks of.                            *)
THEOREM VirtioSafe == Spec => []IInv
  BY InitIInv, NextIInv, PTL DEF Spec

(* The ring indexes never overtake each other and every code and verdict   *)
(* is one the driver knows.                                                *)
THEOREM VirtioTyped == Spec => []TypeOK
  <1>1. IInv => TypeOK
    BY SMTT(60) DEF IInv, Types, Ram, Counts, TypeOK, Codes
  <1> QED BY <1>1, VirtioSafe, PTL

(* virtio_init raises DRIVER_OK only over an accepted feature set and a    *)
(* programmed queue, and leaves FAILED behind when it gives up.            *)
THEOREM ReadyOnlyConfigured == Spec => []ReadyMeansConfigured
  <1>1. IInv => ReadyMeansConfigured
    BY DEF IInv, Setup, Booting, Serving, ReadyMeansConfigured, Flags
  <1> QED BY <1>1, VirtioSafe, PTL

(* However late the stores of blk_op become visible, the fences of         *)
(* virtio_kick_wait let the device take only whole chains, as long as no   *)
(* request was abandoned at its timeout.                                   *)
THEOREM ChainsWhole == Spec => []ChainWhole
  <1>1. IInv => ChainWhole
    BY DEF IInv, Verdict, ChainWhole, Clean, Type, Data
  <1> QED BY <1>1, VirtioSafe, PTL

\* blk_op's 0 means the data moved; for a read, if the write did not time out.
THEOREM SuccessIsDone == Spec => []SuccessMeansDone
  <1>1. IInv => SuccessMeansDone
    <2> SUFFICES ASSUME IInv, At("return"), rc = 0
                 PROVE  \/ op = "write" /\ disk = "pattern"
                        \/ op = "read" /\ (rbuf = disk \/ write_rc = -1)
      BY DEF SuccessMeansDone
    <2>1. op \in {"write", "read"} /\ Stage = 10
      BY DEF IInv, Types, Setup, Booting, At, Stage, None
    <2> QED BY <2>1 DEF IInv, Verdict, Clean
  <1> QED BY <1>1, VirtioSafe, PTL

\* bmain.c prints PASS only over a sector that holds the pattern.
THEOREM PassIsHonest == Spec => []PassHonest
  <1>1. IInv => PassHonest
    BY DEF IInv, Verdict, PassHonest
  <1> QED BY <1>1, VirtioSafe, PTL

-----------------------------------------------------------------------------
(* What the return code rests on: rc is the last request's until blk_op    *)
(* returns, the poll counts one used entry per request that did not time   *)
(* out, and a request that was served has a status byte of the device.     *)
Polled ==
    /\ (pc.at = "halt") <=> (result # None)
    /\ Stage < 10 => rc = write_rc
    /\ op = "write" => write_rc = 0
    /\ op # None /\ Clean => used_seen = IF Stage >= 9 /\ rc # -1 THEN Round + 1 ELSE Round
    /\ op # None /\ Clean /\ Served = mem.avail_idx /\ mem.avail_idx = Round + 1 =>
         mem.status_byte # Poison

\* The mapping, read off the driver's place and the ring indexes.
LEMMA ServedIs ==
    ASSUME IInv
    PROVE  /\ Served \in Nat /\ Served <= mem.avail_idx
           /\ job = Idle => Served = used_idx /\ used_idx = taken
           /\ job # Idle => used_idx = taken - 1
           /\ job # Idle /\ ~job.moved => Served = used_idx
  <1>1. /\ used_idx \in Nat /\ taken \in Nat /\ mem.avail_idx \in Nat /\ taken <= mem.avail_idx
        /\ used_idx = IF job = Idle THEN taken ELSE taken - 1
    BY SMTT(60) DEF IInv, Types, Ram, Counts
  <1>2. Idle.moved = FALSE
    BY DEF Idle
  <1> QED BY <1>1, <1>2, SMTT(60) DEF Served

LEMMA AnsweredIs ==
    ASSUME IInv, Polled, op # None
    PROVE  /\ Answered = IF op = "read" /\ pc.at = "halt" THEN 2 ELSE Round
           /\ Stage >= 7 => mem.avail_idx = Round + 1
  BY SMTT(60) DEF Polled, Answered, Round, IInv, Chain, Types, None

\* A step that changes nothing main or the device could tell.
LEMMA SimFrame ==
    ASSUME Polled, UNCHANGED <<op, rc, write_rc, used_seen, result, disk, rbuf>>,
           mem'.avail_idx = mem.avail_idx, mem'.status_byte = mem.status_byte, Served' = Served,
           Stage' = Stage \/ (Stage \in 0..8 /\ Stage' \in 0..8),
           (pc'.at = "halt") <=> (pc.at = "halt"), (pc'.at = "return") <=> (pc.at = "return")
    PROVE  Polled' /\ UNCHANGED BS!absVars
  <1>1. (Stage' < 10) = (Stage < 10) /\ (Stage' >= 9) = (Stage >= 9)
    BY SMTT(60)
  <1>2. Polled'
    BY <1>1 DEF Polled, Clean, Round
  <1> QED BY <1>2 DEF BS!absVars, Answered, Late, Well, At

\* virtio_init gives up before anything was asked.
LEMMA FailSim ==
    ASSUME IInv, Polled, op = None, pc.at \in {"scan", "features"},
           pc'.at = "halt", result' = "init_failed",
           UNCHANGED <<op, rc, write_rc, used_seen, mem, used_idx, job, disk, rbuf>>
    PROVE  Polled' /\ BS!NoDevice
  <1>1. Stage = 0 /\ Stage' = 0 /\ mem.avail_idx = 0 /\ result = None
    BY DEF Stage, IInv, Setup, Booting, Polled
  <1>2. Polled'
    BY <1>1, SMTT(60) DEF Polled, None
  <1>3. Served' = Served /\ Late' = Late /\ Answered' = 0 /\ Answered = 0 /\ ~(0 < 0)
    BY SMTT(60) DEF Served, Late, Answered, None
  <1> QED BY <1>1, <1>2, <1>3 DEF BS!NoDevice, Well, At, None

\* virtio_init.
LEMMA BootSim ==
    ASSUME IInv, Polled, Scan \/ WriteStatus \/ CheckFeatures \/ SetupQueue
    PROVE  Polled' /\ (BS!NoDevice \/ UNCHANGED BS!absVars)
  <1>1. Types /\ Setup
    BY DEF IInv
  <1>2. /\ op = None /\ pc.at \in {"scan", "status", "features", "queue"}
        /\ UNCHANGED <<op, rc, write_rc, used_seen, mem, used_idx, job, disk, rbuf>>
    BY <1>1 DEF Scan, WriteStatus, CheckFeatures, SetupQueue, At, Setup, Serving, Types, hw, ram, device, None
  <1>3. Stage = 0 /\ Stage' = 0 /\ Served' = Served
    BY <1>2 DEF Stage, Served
  <1>4. CASE result' = result
    <2>1. result' # "init_failed"
      BY <1>1, <1>2, <1>4 DEF Setup
    <2>2. pc'.at \in {"scan", "status", "features", "queue", "driver_ok"}
      BY <1>1, <1>2, <2>1, GotoIs, AgainIs
         DEF Scan, WriteStatus, CheckFeatures, SetupQueue, Fail, Steps, Types
    <2> QED BY <1>2, <1>3, <1>4, <2>2, SimFrame
  <1>5. CASE result' # result
    <2>1. pc.at \in {"scan", "features"} /\ pc'.at = "halt" /\ result' = "init_failed"
      BY <1>5, GotoIs DEF Scan, WriteStatus, CheckFeatures, SetupQueue, At, Fail, Steps
    <2> QED BY <1>2, <2>1, FailSim
  <1> QED BY <1>4, <1>5

\* DRIVER_OK: main calls blk_write, and nothing is asked yet.
LEMMA ReadySim == ASSUME IInv, Polled, DriverOk PROVE Polled' /\ UNCHANGED BS!absVars
  <1>1. /\ op = None /\ pc.at = "driver_ok" /\ op' = "write" /\ pc'.at = "request" /\ pc'.n = 1
        /\ UNCHANGED <<used_seen, rc, write_rc, result, mem, used_idx, rbuf, job, disk>>
    BY GotoIs DEF IInv, DriverOk, At, Setup, Serving, hw, ram, None, Steps
  <1>2. mem.avail_idx = 0 /\ rc = 0 /\ write_rc = 0 /\ used_seen = 0
    BY <1>1 DEF IInv, Setup, Booting
  <1>3. Stage' = 1 /\ Round' = 0
    BY <1>1 DEF Stage, None, Round
  <1>4. Polled'
    BY <1>1, <1>2, <1>3, SMTT(60) DEF Polled
  <1>5. Answered = 0 /\ Answered' = 0
    BY <1>1 DEF Answered, None
  <1>6. Served' = Served /\ Late' = Late
    BY <1>1 DEF Served, Late
  <1>7. Well' = Well
    BY <1>1, <1>5, <1>6 DEF Well
  <1> QED BY <1>1, <1>4, <1>5, <1>6, <1>7 DEF BS!absVars, At

\* blk_op's stores and the kick stay in the store buffer.
LEMMA BuildSim == ASSUME IInv, Polled, BlkOp \/ Kick PROVE Polled' /\ UNCHANGED BS!absVars
  <1>1. Types /\ Setup
    BY DEF IInv
  <1>2. /\ op \in {"write", "read"}
        /\ UNCHANGED <<op, used_seen, rc, write_rc, result, mem, used_idx, rbuf, job, disk>>
        /\ \/ pc.at = "request" /\ pc.n \in 1..3
           \/ pc.at = "kick" /\ pc.n \in 1..4
    <2>1. UNCHANGED <<op, used_seen, rc, write_rc, result, mem, used_idx, rbuf, job, disk>>
      BY DEF BlkOp, Kick, device
    <2>2. pc.at \in {"request", "kick"}
      BY DEF BlkOp, Kick, At
    <2> QED BY <1>1, <2>1, <2>2 DEF Setup, Booting, Serving, Types
  <1>3. \/ pc'.at = "request" /\ pc'.n \in 2..3
        \/ pc'.at = "kick" /\ pc'.n \in 1..4
        \/ pc'.at = "poll"
    <2>1. CASE BlkOp
      BY <1>1, <2>1, GotoIs, AgainIs, SMTT(60) DEF BlkOp, At, Types, Steps
    <2>2. CASE Kick
      BY <1>1, <2>2, GotoIs, AgainIs, SMTT(60) DEF Kick, At, Types, Steps
    <2> QED BY <2>1, <2>2
  <1>4. Stage \in 0..8 /\ Stage' \in 0..8
    BY <1>2, <1>3, SMTT(60) DEF Stage, None
  <1>5. Served' = Served
    BY <1>2 DEF Served
  <1> QED BY <1>2, <1>3, <1>4, <1>5, SimFrame

\* A used entry is seen: the poll has counted this request.
LEMMA PollDoneSim == ASSUME IInv, Polled, PollDone PROVE Polled' /\ UNCHANGED BS!absVars
  <1>1. Types /\ Setup
    BY DEF IInv
  <1>2. /\ op \in {"write", "read"} /\ pc.at = "poll" /\ pc'.at = "status_byte"
        /\ used_seen' = used_seen + 1
        /\ UNCHANGED <<op, rc, write_rc, result, mem, used_idx, rbuf, job, disk>>
    BY <1>1, GotoIs DEF PollDone, At, Setup, Booting, Serving, Types, hw, ram, device, None, Steps
  <1>3. Stage = 8 /\ Stage' = 9 /\ UNCHANGED <<Round, Clean, Served, Answered, Late, Well>>
    BY <1>2 DEF Stage, None, Round, Clean, Served, Answered, Late, Well
  <1>4. Clean => rc # -1
    BY <1>2, <1>3, SMTT(60) DEF Polled, Clean
  <1>5. Polled'
    BY <1>2, <1>3, <1>4, SMTT(60) DEF Polled
  <1> QED BY <1>2, <1>3, <1>5 DEF BS!absVars, At

\* The budget runs out: the request is given up.
LEMMA PollTimeoutSim == ASSUME IInv, Polled, PollTimeout PROVE Polled' /\ BS!GiveUp
  <1>1. Types /\ Setup
    BY DEF IInv
  <1>2. /\ op \in {"write", "read"} /\ pc.at = "poll" /\ pc'.at = "return" /\ rc' = -1
        /\ UNCHANGED <<op, used_seen, write_rc, result, mem, used_idx, rbuf, job, disk>>
    BY <1>1, GotoIs
       DEF PollTimeout, At, Setup, Booting, Serving, Types, hw, ram, device, None, Steps
  <1>3. Stage = 8 /\ Stage' = 10 /\ UNCHANGED <<Round, Clean, Served, Answered>> /\ op # None
    BY <1>2 DEF Stage, None, Round, Clean, Served, Answered
  <1>4. Polled'
    BY <1>2, <1>3, SMTT(60) DEF Polled
  <1>5. Answered < mem.avail_idx
    BY <1>2, <1>3, AnsweredIs, SMTT(60) DEF Round
  <1>6. Late' = TRUE /\ Well' = FALSE
    BY <1>2 DEF Late, Well
  <1> QED BY <1>2, <1>3, <1>4, <1>5, <1>6 DEF BS!GiveUp, BS!Running, At

\* The device takes a chain, or publishes what it has moved.
LEMMA RingSim == ASSUME IInv, Polled, DevTake \/ DevUsed PROVE Polled' /\ UNCHANGED BS!absVars
  <1>1. UNCHANGED <<pc, op, used_seen, rc, write_rc, result, mem, rbuf, disk>>
    BY DEF DevTake, DevUsed, driver, ram
  <1>2. Stage' = Stage
    BY <1>1 DEF Stage
  <1>3. Idle.moved = FALSE /\ used_idx \in Nat
    BY DEF Idle, IInv, Types
  <1>4. Served' = Served
    <2>1. CASE DevTake
      <3>1. used_idx' = used_idx /\ job = Idle /\ (job' = job \/ job'.moved = FALSE)
        <4>1. CASE taken = mem.avail_idx
          BY <2>1, <4>1 DEF DevTake, ram
        <4>2. CASE taken # mem.avail_idx
          <5>1. job' = [type |-> mem.type, data |-> mem.data, moved |-> FALSE]
            BY <2>1, <4>2 DEF DevTake
          <5>2. job'.moved = FALSE
            BY <5>1
          <5> QED BY <2>1, <5>2 DEF DevTake, ram
        <4> QED BY <4>1, <4>2
      <3> QED BY <1>3, <3>1 DEF Served
    <2>2. CASE DevUsed
      BY <1>3, <2>2, SMTT(60) DEF DevUsed, Served
    <2> QED BY <2>1, <2>2
  <1> QED BY <1>1, <1>2, <1>4, SimFrame

LEMMA IdleSim == ASSUME Polled, UNCHANGED vars PROVE Polled' /\ UNCHANGED BS!absVars
  <1>1. UNCHANGED <<pc, op, used_seen, rc, write_rc, result, mem, used_idx, job, rbuf, disk>>
    BY DEF vars
  <1>2. Stage' = Stage /\ Served' = Served
    BY <1>1 DEF Stage, Served
  <1> QED BY <1>1, <1>2, SimFrame

(* The status byte decides the code.  Without a timeout the used entry the *)
(* poll saw is this request's, so the device has written the byte.         *)
LEMMA ReadStatusSim == ASSUME IInv, Polled, ReadStatus PROVE Polled' /\ BS!Judge
  <1>1. Types /\ Setup /\ Chain /\ Counts
    BY DEF IInv
  <1>2. /\ op \in {"write", "read"} /\ pc.at = "status_byte" /\ pc'.at = "return"
        /\ UNCHANGED <<op, used_seen, write_rc, result, mem, used_idx, rbuf, job, disk>>
    BY <1>1, GotoIs
       DEF ReadStatus, At, Setup, Booting, Serving, Types, hw, ram, device, None, Steps
  <1>3. Stage = 9 /\ Stage' = 10 /\ UNCHANGED <<Round, Clean, Served, Answered>> /\ op # None
    BY <1>2 DEF Stage, None, Round, Clean, Served, Answered
  <1>4. Load("status_byte") = mem.status_byte
    BY <1>1, <1>3, SMTT(60) DEF Chain, Words, Load
  <1>5. /\ rc' \in {0, 101, 355}
        /\ rc' = IF mem.status_byte = Ok THEN 0 ELSE IF mem.status_byte = Poison THEN 355 ELSE 101
    BY <1>1, <1>4, SMTT(60) DEF ReadStatus, Types, Ram, Ok, IoErr, Poison
  <1>6. rc = write_rc /\ (op = "write" => write_rc = 0)
    BY <1>3, SMTT(60) DEF Polled
  <1>7. Polled'
    BY <1>2, <1>3, <1>5, <1>6, SMTT(60) DEF Polled, Clean
  <1>8. mem.avail_idx = Round + 1 /\ Answered = Round /\ Round \in 0..1
    BY <1>2, <1>3, AnsweredIs, SMTT(60) DEF Round
  <1>9. Late' = Late
    BY <1>5, <1>6, <1>2, SMTT(60) DEF Late
  <1>10. Well' = Well
    BY <1>2, <1>3, <1>9 DEF Well
  <1>11. ASSUME ~Late
         PROVE  Served = mem.avail_idx /\ mem.status_byte # Poison /\ Well = (mem.status_byte = Ok)
    <2>1. Clean /\ rc # -1
      BY <1>11 DEF Late, Clean
    <2>2. used_seen = Round + 1
      BY <1>3, <2>1, SMTT(60) DEF Polled
    <2>3. used_seen <= used_idx /\ used_idx \in Nat /\ taken \in Nat /\ taken <= mem.avail_idx
      BY <1>1 DEF Counts, Types
    <2>4. Served = mem.avail_idx
      BY <1>8, <2>2, <2>3, ServedIs, SMTT(60)
    <2>5. mem.status_byte # Poison
      BY <1>3, <1>8, <2>1, <2>4 DEF Polled
    <2>6. Answered < mem.avail_idx
      BY <1>8, SMTT(60)
    <2> QED BY <1>11, <2>4, <2>5, <2>6 DEF Well
  <1>12. Answered < mem.avail_idx
    BY <1>8, SMTT(60)
  <1>13. ~Late => Served = mem.avail_idx /\ rc' = IF Well THEN 0 ELSE 101
    BY <1>5, <1>11
  <1>14. ~At("return") /\ At("return")'
    BY <1>2 DEF At
  <1>15. rc' \in {0, 101, 355}
    BY <1>5
  <1> QED BY <1>2, <1>3, <1>7, <1>9, <1>10, <1>12, <1>13, <1>14, <1>15 DEF BS!Judge, BS!Running

\* main goes on to the read, whatever the write returned.
LEMMA AfterWriteSim == ASSUME IInv, Polled, AfterWrite PROVE Polled' /\ BS!AnswerWrite
  <1>1. Types /\ Chain
    BY DEF IInv
  <1>2. /\ op = "write" /\ pc.at = "return" /\ op' = "read" /\ pc'.at = "request" /\ pc'.n = 1
        /\ write_rc' = rc /\ rbuf' = "poison"
        /\ UNCHANGED <<used_seen, rc, result, mem, used_idx, job, disk>>
    BY GotoIs DEF AfterWrite, At, hw, device, Steps
  <1>3. Stage = 10 /\ Stage' = 1 /\ Round = 0 /\ Round' = 1 /\ Served' = Served
    BY <1>2 DEF Stage, None, Round, Served
  <1>4. mem.avail_idx = 1 /\ write_rc = 0 /\ result = None
    BY <1>1, <1>2, <1>3, SMTT(60) DEF Chain, Polled
  <1>5. Polled'
    BY <1>2, <1>3, <1>4, SMTT(60) DEF Polled, Clean, None
  <1>6. Answered = 0 /\ Answered' = 1 /\ ~(1 < 1)
    BY <1>2, <1>4, SMTT(60) DEF Answered
  <1>7. Late' = Late
    BY <1>2, <1>4, SMTT(60) DEF Late
  <1>8. Well' = FALSE
    BY <1>2, <1>4, <1>6 DEF Well
  <1>9. rc # 1
    BY <1>1, SMTT(60) DEF Types, Codes
  <1> QED BY <1>2, <1>3, <1>5, <1>6, <1>7, <1>8, <1>9 DEF BS!AnswerWrite, BS!Running, At

\* main's verdict.
LEMMA AfterReadSim == ASSUME IInv, Polled, AfterRead PROVE Polled' /\ BS!AnswerRead
  <1>1. Types /\ Chain
    BY DEF IInv
  <1>2. /\ op = "read" /\ pc.at = "return" /\ pc'.at = "halt"
        /\ result' = IF rbuf = "pattern" THEN "PASS" ELSE "FAIL"
        /\ UNCHANGED <<op, used_seen, rc, write_rc, mem, used_idx, rbuf, job, disk>>
    BY GotoIs DEF AfterRead, At, hw, ram, device, Steps
  <1>3. Stage = 10 /\ Stage' = 11 /\ Round = 1 /\ UNCHANGED <<Round, Clean, Served, Late>>
    BY <1>2 DEF Stage, None, Round, Clean, Served, Late
  <1>4. mem.avail_idx = 2 /\ result = None /\ result' # None
    BY <1>1, <1>2, <1>3, SMTT(60) DEF Chain, Polled, None
  <1>5. Polled'
    BY <1>2, <1>3, <1>4, SMTT(60) DEF Polled
  <1>6. Answered = 1 /\ Answered' = 2 /\ ~(2 < 2)
    BY <1>2, <1>4, SMTT(60) DEF Answered
  <1>7. Well' = FALSE
    BY <1>2, <1>4, <1>6 DEF Well
  <1>8. rc # 1
    BY <1>1, SMTT(60) DEF Types, Codes
  <1> QED BY <1>2, <1>3, <1>5, <1>6, <1>7, <1>8 DEF BS!AnswerRead, BS!Running, At

(* The device moves the data.  Without a timeout what it serves is the     *)
(* request main waits for, and it is the first time.                       *)
LEMMA DevMoveSim == ASSUME IInv, Polled, DevMove PROVE Polled' /\ (BS!Serve \/ BS!ServeLate)
  <1>1. Types /\ Setup /\ Chain /\ Counts /\ Verdict
    BY DEF IInv
  <1>2. /\ job # Idle /\ ~job.moved /\ job' = [job EXCEPT !.moved = TRUE]
        /\ UNCHANGED <<pc, op, used_seen, rc, write_rc, result, used_idx>>
    BY DEF DevMove, driver
  <1>3. PICK st \in {Ok, IoErr} :
               /\ mem' = [mem EXCEPT !.status_byte = st]
               /\ disk' = IF st = Ok /\ job.type = "OUT" /\ job.data = "wbuf" THEN "pattern" ELSE disk
               /\ rbuf' = IF st = Ok /\ job.type = "IN" /\ job.data = "rbuf" THEN disk ELSE rbuf
    BY DEF DevMove
  <1>4. mem'.avail_idx = mem.avail_idx /\ mem'.status_byte = st /\ job'.moved
    <2>1. mem \in Ram /\ job \in Chains
      BY <1>1 DEF Types
    <2> QED BY <1>2, <1>3, <2>1 DEF Ram, Chains
  <1>5. UNCHANGED <<Stage, Round, Clean, Answered, Late>>
    BY <1>2 DEF Stage, Round, Clean, Answered, Late
  <1>6. op # None
    BY <1>1, <1>2, SMTT(60) DEF Setup, Booting, Counts, Types
  <1>7. /\ used_idx \in Nat /\ taken \in Nat /\ used_idx = taken - 1 /\ taken <= mem.avail_idx
        /\ mem.avail_idx \in 0..2
    BY <1>1, <1>2, SMTT(60) DEF Types, Ram, Counts
  <1>8. Served = used_idx /\ Served' = used_idx + 1 /\ Served < mem.avail_idx
    BY <1>2, <1>4, <1>7, SMTT(60) DEF Served
  <1>9. Polled'
    <2>1. st # Poison
      BY SMTT(60) DEF Ok, IoErr, Poison
    <2> QED BY <1>2, <1>4, <1>5, <2>1 DEF Polled
  <1>10. CASE Late
    <2>1. Well = FALSE /\ Well' = FALSE
      BY <1>5, <1>10 DEF Well
    <2>2. job.type = "OUT" => job.type # "IN"
      BY SMTT(60)
    <2>3. \/ disk' = "pattern" /\ UNCHANGED rbuf
          \/ rbuf' = disk /\ UNCHANGED disk
          \/ UNCHANGED <<disk, rbuf>>
      BY <1>3, <2>2
    <2> QED BY <1>2, <1>4, <1>5, <1>8, <1>9, <1>10, <2>1, <2>3 DEF BS!ServeLate, At
  <1>11. CASE ~Late
    <2>1. Clean /\ rc # -1
      BY <1>11 DEF Late, Clean
    <2>2. mem.avail_idx # Round /\ job.type = Type /\ job.data = Data
      BY <1>1, <1>2, <2>1, DeviceIdle DEF Verdict
    <2>3. Stage \in 6..11
      BY <1>1, <1>6, <2>2, StageRange, SMTT(60) DEF Chain
    <2>4. mem.avail_idx = Round + 1
      <3>1. CASE Stage = 6
        <4>1. /\ Stored("avail_idx", Round + 1)
              /\ buf["avail_idx"] # <<>> => mem.avail_idx = Round
          BY <1>1, <3>1 DEF Chain
        <4>2. <<Round + 1>> # <<>>
          OBVIOUS
        <4> QED BY <2>2, <4>1, <4>2 DEF Stored
      <3>2. CASE Stage \in 7..11
        <4>1. Stage >= 7
          BY <3>2, SMTT(60)
        <4> QED BY <1>1, <4>1 DEF Chain
      <3>3. Stage = 6 \/ Stage \in 7..11
        BY <2>3, SMTT(60)
      <3> QED BY <3>1, <3>2, <3>3
    <2>5. Round \in 0..1
      BY SMTT(60) DEF Round
    <2>6. used_idx = Round /\ (op = "read" => used_idx = 1)
      BY <1>1, <1>7, <2>1, <2>4, SMTT(60) DEF Counts, Round
    <2>7. pc.at # "halt"
      <3>1. SUFFICES ASSUME pc.at = "halt" PROVE FALSE
        OBVIOUS
      <3>2. Stage = 11
        BY <1>6, <3>1, StageIs
      <3>3. used_seen = Round + 1
        BY <1>6, <2>1, <3>2, SMTT(60) DEF Polled
      <3> QED BY <1>1, <2>4, <2>5, <2>6, <3>3, SMTT(60) DEF Counts
    <2>8. Answered = Round
      BY <1>6, <2>7, AnsweredIs
    <2>9. /\ Answered < mem.avail_idx /\ Served = Answered /\ Served' = Served + 1
          /\ Served' = mem'.avail_idx
      BY <1>4, <1>8, <2>4, <2>5, <2>6, <2>8, SMTT(60)
    <2>10. Well' = (st = Ok)
      BY <1>4, <1>5, <1>11, <2>9 DEF Well
    <2>11. (mem.avail_idx = 1) = (op = "write") /\ (mem.avail_idx = 2) = (op = "read")
      <3>1. op \in {"write", "read"}
        BY <1>1, <1>6 DEF Types
      <3> QED BY <2>4, <3>1, SMTT(60) DEF Round
    <2>12. /\ disk' = IF Well' /\ mem.avail_idx = 1 THEN "pattern" ELSE disk
           /\ rbuf' = IF Well' /\ mem.avail_idx = 2 THEN disk ELSE rbuf
      <3>1. CASE op = "write"
        BY <1>3, <2>2, <2>10, <2>11, <3>1 DEF Type, Data
      <3>2. CASE op = "read"
        BY <1>3, <2>2, <2>10, <2>11, <3>2 DEF Type, Data
      <3> QED BY <1>1, <1>6, <3>1, <3>2 DEF Types
    <2> QED BY <1>2, <1>4, <1>5, <1>9, <1>11, <2>9, <2>10, <2>12 DEF BS!Serve, At
  <1> QED BY <1>10, <1>11

\* avail idx reaches memory: the request is asked.  Any other store goes unnoticed.
LEMMA DrainSim == ASSUME IInv, Polled, Drain PROVE Polled' /\ (BS!Ask \/ UNCHANGED BS!absVars)
  <1>1. Types /\ Setup /\ Chain /\ Counts
    BY DEF IInv
  <1>2. PICK w \in Words : /\ buf[w] # <<>>
                           /\ mem' = [mem EXCEPT ![w] = Head(buf[w])]
    BY DEF Drain
  <1>3. UNCHANGED <<pc, op, used_seen, rc, write_rc, result, used_idx, rbuf, job, disk>>
    BY DEF Drain, driver, device
  <1>4. /\ op # None
        /\ w = "type" => Stage \in 2..4 /\ buf[w] = <<Type>>
        /\ w = "data" => Stage = 4 /\ buf[w] = <<Data>>
        /\ w = "status_byte" => Stage \in 3..4 /\ buf[w] = <<Poison>>
        /\ w = "avail_idx" => Stage = 6 /\ buf[w] = <<Round + 1>> /\ mem.avail_idx = Round
    BY <1>2, DrainedStore
  <1>5. UNCHANGED <<Stage, Round, Clean, Served, Answered, Late>>
    BY <1>3 DEF Stage, Round, Clean, Served, Answered, Late
  <1>6. \A x \in Words \ {w} : mem'[x] = mem[x]
    <2>1. DOMAIN mem = Words
      BY <1>1 DEF Types, Ram, Words
    <2> QED BY <1>2, <2>1
  <1>7. w = "avail_idx" => mem'.avail_idx = Round + 1
    <2>1. \A v : Head(<<v>>) = v
      BY SMTT(60)
    <2>2. DOMAIN mem = Words
      BY <1>1 DEF Types, Ram, Words
    <2> QED BY <1>2, <1>4, <2>1, <2>2
  <1>8. CASE w \in {"type", "data"}
    <2>1. mem'.avail_idx = mem.avail_idx /\ mem'.status_byte = mem.status_byte
      BY <1>6, <1>8 DEF Words
    <2> QED BY <1>3, <1>5, <2>1, SimFrame
  <1>9. Stage \in {3, 4, 6} => pc.at \notin {"return", "halt"}
    BY <1>4, StageIs, SMTT(60)
  <1>10. Round \in 0..1 /\ Served \in Nat /\ Served <= mem.avail_idx
    BY ServedIs, SMTT(60) DEF Round
  <1>11. CASE w = "status_byte"
    <2>1. mem'.avail_idx = mem.avail_idx
      BY <1>6, <1>11 DEF Words
    <2>2. mem.avail_idx = Round /\ Round # Round + 1 /\ ~(Round < Round) /\ Stage \in {3, 4, 6}
      BY <1>1, <1>4, <1>10, <1>11, SMTT(60) DEF Chain
    <2>3. Answered = Round
      BY <1>4, <1>9, <2>2, AnsweredIs
    <2>4. Well = FALSE /\ Well' = FALSE
      BY <1>5, <2>1, <2>2, <2>3 DEF Well
    <2>5. Polled'
      BY <1>3, <1>5, <2>1, <2>2 DEF Polled
    <2> QED BY <1>3, <1>5, <2>1, <2>4, <2>5 DEF BS!absVars, At
  <1>12. CASE w = "avail_idx"
    <2>1. mem.avail_idx = Round /\ mem'.avail_idx = Round + 1 /\ Stage \in {3, 4, 6}
      BY <1>4, <1>7, <1>12
    <2>2. Answered = Round /\ pc.at \notin {"return", "halt"}
      BY <1>4, <1>9, <2>1, AnsweredIs
    <2>3. Served # Round + 1 /\ ~(Round < Round) /\ Round < 2
      BY <1>10, <2>1, SMTT(60)
    <2>4. Well = FALSE /\ Well' = FALSE
      BY <1>5, <2>1, <2>2, <2>3 DEF Well
    <2>5. Polled'
      BY <1>3, <1>5, <2>1, <2>3 DEF Polled
    <2> QED BY <1>3, <1>5, <2>1, <2>2, <2>3, <2>4, <2>5 DEF BS!Ask, BS!Running, At
  <1> QED BY <1>8, <1>11, <1>12 DEF Words

\* Every step of the driver, the store buffer and the device is one of the service, or none.
LEMMA StepSim == IInv /\ Polled /\ [Next]_vars => Polled' /\ [BS!BSNext]_(BS!absVars)
  <1> SUFFICES ASSUME IInv, Polled, [Next]_vars
               PROVE  Polled' /\ [BS!BSNext]_(BS!absVars)
    OBVIOUS
  <1>1. CASE Scan \/ WriteStatus \/ CheckFeatures \/ SetupQueue \/ DriverOk \/ BlkOp \/ Kick
    BY <1>1, BootSim, ReadySim, BuildSim DEF BS!BSNext
  <1>2. CASE PollDone \/ ReadStatus \/ AfterWrite \/ AfterRead \/ PollTimeout
    BY <1>2, PollDoneSim, ReadStatusSim, AfterWriteSim, AfterReadSim, PollTimeoutSim DEF BS!BSNext
  <1>3. CASE Device
    BY <1>3, RingSim, DevMoveSim DEF Device, BS!BSNext
  <1>4. CASE Drain
    BY <1>4, DrainSim DEF BS!BSNext
  <1>5. CASE PollSpin \/ Halted \/ UNCHANGED vars
    BY <1>5, IdleSim DEF PollSpin, Halted
  <1> QED BY <1>1, <1>2, <1>3, <1>4, <1>5 DEF Next, Driver

\* At reset nothing is asked, served or answered.
LEMMA InitSim == Init => Polled /\ BS!BSInit
  <1> SUFFICES ASSUME Init PROVE Polled /\ BS!BSInit
    OBVIOUS
  <1>1. /\ pc.at = "scan" /\ op = None /\ rc = 0 /\ write_rc = 0 /\ result = None
        /\ mem.avail_idx = 0 /\ used_idx = 0 /\ job.moved = FALSE
        /\ rbuf = "zero" /\ disk \in {"old", "pattern"}
    BY DEF Init, Idle
  <1>2. Polled
    BY <1>1, SMTT(60) DEF Polled, None
  <1>3. Served = 0 /\ Answered = 0 /\ ~(0 < 0) /\ -1 # 0
    BY <1>1, SMTT(60) DEF Served, Answered, None
  <1>4. Late = FALSE /\ Well = FALSE
    BY <1>1, <1>3 DEF Late, Well
  <1> QED BY <1>1, <1>2, <1>3, <1>4 DEF BS!BSInit, BS!Running, At, None

(* Through store buffer, fences, rings and status byte, blk.c and bmain.c  *)
(* see the service of BlockService: each request is asked once and served  *)
(* at most once, in order, and until a request is given up at its timeout  *)
(* the return code is 0 exactly when it was served without an error.       *)
THEOREM VirtioRefines == Spec => ImplementsBlockService
  <1>1. Spec => [](IInv /\ Polled)
    BY InitIInv, NextIInv, InitSim, StepSim, PTL DEF Spec
  <1> QED BY <1>1, InitSim, StepSim, PTL DEF Spec, ImplementsBlockService, BS!BSSpec

=============================================================================
