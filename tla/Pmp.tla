-------------------------------- MODULE Pmp --------------------------------
(***************************************************************************)
(* Physical memory protection as the demos program it through pmpcfg0 and  *)
(* pmpaddr0-pmpaddr7: what a write of a register keeps, which entry covers *)
(* an address, and what that entry grants.  An address is a word address   *)
(* (the byte address shifted right by two), the unit of pmpaddr: no entry  *)
(* tells the bytes of a word apart.                                        *)
(***************************************************************************)
EXTENDS Integers, Sequences

Entries == 8   \* the entries pmpcfg0 holds

\* An entry's byte of pmpcfg0: the matching mode, the permissions, the lock bit.
Cfg(a, perm, lock) == [a |-> a, perm |-> perm, lock |-> lock]
OFF == Cfg("OFF", {}, FALSE)
RWX == {"R", "W", "X"}
Allow(a) == Cfg(a, RWX, FALSE)      \* 0x0f (TOR) or 0x1f (NAPOT)
Deny(a) == Cfg(a, {}, FALSE)        \* 0x08 or 0x18
Locked(a) == Cfg(a, {}, TRUE)       \* 0x88, 0x90 or 0x98
OnesCfg == Cfg("NAPOT", RWX, TRUE)  \* 0xff

\* The value of pmpcfg0 whose lowest bytes are s.
Pmpcfg(s) == [i \in 1..Entries |-> IF i <= Len(s) THEN s[i] ELSE OFF]
\* pmpaddr of all ones; no address of this machine needs more bits.
OnesAddr == 2^30 - 1

ResetPmp == [cfg |-> Pmpcfg(<<>>), addr |-> [i \in 1..Entries |-> 0]]

\* A locked entry keeps its configuration and its address, and a locked TOR
\* entry keeps the address below it, which is its bottom.
WriteCfg(p, c) == [p EXCEPT !.cfg = [i \in 1..Entries |-> IF p.cfg[i].lock THEN p.cfg[i] ELSE c[i]]]
Pinned(p, i) == p.cfg[i].lock \/ (i < Entries /\ p.cfg[i+1].lock /\ p.cfg[i+1].a = "TOR")
WriteAddr(p, i, v) == IF Pinned(p, i) THEN p ELSE [p EXCEPT !.addr[i] = v]

TrailingOnes(n) == CHOOSE k \in 0..30 : n % 2^k = 2^k - 1 /\ (n \div 2^k) % 2 = 0
\* A NAPOT address with k trailing ones covers the 2^(k+1) words around it.
Napot(n, w) == LET k == TrailingOnes(n) IN (w \div 2^k) \div 2 = (n \div 2^k) \div 2
Covers(p, i, w) ==
  CASE p.cfg[i].a = "TOR"   -> (IF i = 1 THEN 0 ELSE p.addr[i-1]) <= w /\ w < p.addr[i]
    [] p.cfg[i].a = "NA4"   -> w = p.addr[i]
    [] p.cfg[i].a = "NAPOT" -> Napot(p.addr[i], w)
    [] OTHER                -> FALSE

\* The lowest entry that covers the word decides.  M-mode is bound by a locked
\* entry only; the other modes have no access where no entry grants it.
PmpAllows(p, mode, k, w) ==
  LET covering == {i \in 1..Entries : Covers(p, i, w)}
      first == CHOOSE i \in covering : \A j \in covering : i <= j
  IN  IF covering = {} THEN mode = "M"
      ELSE (mode = "M" /\ ~p.cfg[first].lock) \/ k \in p.cfg[first].perm
=============================================================================
