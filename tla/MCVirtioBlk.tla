---------------------------- MODULE MCVirtioBlk ----------------------------
(* VirtioBlk for TLC, and what it implements: a request is asked once its  *)
(* avail_idx is in memory, and served once the device moved its data.      *)
EXTENDS VirtioBlk

Served == used_idx + (IF job.moved THEN 1 ELSE 0)
Answered == IF op # "read" THEN 0 ELSE IF result = None THEN 1 ELSE 2
Late == rc = -1 \/ write_rc = -1
Well == /\ ~Late /\ Answered < mem.avail_idx /\ Served = mem.avail_idx
        /\ mem.status_byte = Ok

BS == INSTANCE BlockService WITH
        asked <- mem.avail_idx, served <- Served, answered <- Answered, late <- Late,
        well <- Well, code <- IF At("return") THEN rc ELSE 1, verdict <- result

(* Rings, fences and the status byte implement requests that are served at *)
(* most once and codes that tell the truth.                                *)
ImplementsBlockService == BS!BSSpec
=============================================================================
