---------------------------- MODULE BlockService ----------------------------
(***************************************************************************)
(* What the virtio-blk path promises main, with no rings, registers or     *)
(* fences in it: a write and then a read, each asked once and served at    *)
(* most once, with a return code that tells whether it was served well.    *)
(* Once a request was given up, what is served may be it or the next one,  *)
(* and the code tells nothing; the verdict depends on rbuf alone.          *)
(***************************************************************************)
EXTENDS Integers

Running == 1          \* in place of a return code: blk_op has not returned

VARIABLES
    disk, rbuf,       \* the sector, and the buffer it is read into
    asked,            \* requests the device can see
    served,           \* requests the device has served
    answered,         \* requests main has the code of
    late,             \* a request was given up
    well,             \* the request in hand was served without an error
    code,             \* what blk_op returns
    verdict           \* what main prints

absVars == <<disk, rbuf, asked, served, answered, late, well, code, verdict>>

BSInit ==
    /\ disk \in {"old", "pattern"} /\ rbuf = "zero"
    /\ asked = 0 /\ served = 0 /\ answered = 0
    /\ late = FALSE /\ well = FALSE /\ code = Running
    /\ verdict = "none"

NoDevice ==
    /\ asked = 0 /\ verdict = "none"
    /\ verdict' = "init_failed"
    /\ UNCHANGED <<disk, rbuf, asked, served, answered, late, well, code>>

Ask ==
    /\ asked = answered /\ asked < 2 /\ code = Running
    /\ asked' = asked + 1
    /\ UNCHANGED <<disk, rbuf, served, answered, late, well, code, verdict>>

\* The request in hand is served: the write stores the pattern, the read fetches the sector.
Serve ==
    /\ ~late /\ answered < asked /\ served = answered
    /\ served' = served + 1
    /\ well' \in BOOLEAN
    /\ disk' = IF well' /\ asked = 1 THEN "pattern" ELSE disk
    /\ rbuf' = IF well' /\ asked = 2 THEN disk ELSE rbuf
    /\ UNCHANGED <<asked, answered, late, code, verdict>>

\* Whatever is served after a request was given up, it is one of the two or nothing.
ServeLate ==
    /\ late /\ served < asked
    /\ served' = served + 1
    /\ \/ disk' = "pattern" /\ UNCHANGED rbuf
       \/ rbuf' = disk /\ UNCHANGED disk
       \/ UNCHANGED <<disk, rbuf>>
    /\ UNCHANGED <<asked, answered, late, well, code, verdict>>

\* The code of a request that was served: 0 if it was served well, the device's error if not.
Judge ==
    /\ answered < asked /\ code = Running
    /\ code' \in {0, 101, 355}
    /\ ~late => served = asked /\ code' = IF well THEN 0 ELSE 101
    /\ UNCHANGED <<disk, rbuf, asked, served, answered, late, well, verdict>>

GiveUp ==
    /\ answered < asked /\ code = Running
    /\ code' = -1 /\ late' = TRUE /\ well' = FALSE
    /\ UNCHANGED <<disk, rbuf, asked, served, answered, verdict>>

\* main goes on after the write, whatever its code.
AnswerWrite ==
    /\ answered = 0 /\ code # Running
    /\ answered' = 1 /\ code' = Running /\ well' = FALSE
    /\ rbuf' = "poison"
    /\ UNCHANGED <<disk, asked, served, late, verdict>>

AnswerRead ==
    /\ answered = 1 /\ code # Running
    /\ answered' = 2 /\ code' = Running /\ well' = FALSE
    /\ verdict' = IF rbuf = "pattern" THEN "PASS" ELSE "FAIL"
    /\ UNCHANGED <<disk, rbuf, asked, served, late>>

BSNext == \/ NoDevice \/ Ask \/ Serve \/ ServeLate \/ Judge \/ GiveUp
          \/ AnswerWrite \/ AnswerRead

BSSpec == BSInit /\ [][BSNext]_absVars
=============================================================================
