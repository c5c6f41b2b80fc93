-------------------------------- MODULE Sv39 --------------------------------
(***************************************************************************)
(* Sv39 page tables as the demos build them by hand, three levels of them. *)
(* A table is a function from the indices of its valid entries; the tables *)
(* have names, a page is known by its number, and an address is a word     *)
(* address as in module Pmp.                                               *)
(***************************************************************************)
EXTENDS Integers, TLC

PageWords == 1024
Page(w) == w \div PageWords
\* The three 9-bit indices of the page an address lies in.
VPN(w) == <<Page(w) \div 2^18, (Page(w) \div 512) % 512, Page(w) % 512>>

Invalid == [kind |-> "invalid"]
Table(t) == [kind |-> "table", table |-> t]
Leaf(page, perm) == [kind |-> "leaf", page |-> page, perm |-> perm]

Entry(pt, t, i) == IF i \in DOMAIN pt[t] THEN pt[t][i] ELSE Invalid
Below(pt, e, i) == IF e.kind = "table" THEN Entry(pt, e.table, i) ELSE Invalid
\* The leaf a walk from the root ends in.  A leaf above the last level maps a
\* run of pages, of which the remaining indices pick one.
Walk(pt, root, w) ==
  LET v == VPN(w)
      l2 == Entry(pt, root, v[1])
      l1 == Below(pt, l2, v[2])
      l0 == Below(pt, l1, v[3])
  IN  CASE l2.kind = "leaf" -> Leaf(l2.page + v[2] * 512 + v[3], l2.perm)
        [] l1.kind = "leaf" -> Leaf(l1.page + v[3], l1.perm)
        [] l0.kind = "leaf" -> l0
        [] OTHER            -> Invalid

Bare == [mode |-> "bare", asid |-> 0, root |-> "none"]
SatpSv39(asid, root) == [mode |-> "sv39", asid |-> asid, root |-> root]
=============================================================================
