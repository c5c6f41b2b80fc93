----------------------------- MODULE SmpProofs -----------------------------
(* Safety of the two-hart bring-up for every timeout, however late a store   *)
(* becomes visible.                                                          *)
EXTENDS MCSmp, TLAPS

\* Zenon proves the leaves below; those that need arithmetic, strings or records cite SMT.
USE ZenonT(60)

OpNames == {"line", "fence", "clear", "stamp", "set", "get", "await", "poll", "check", "park"}
Ops == [op : OpNames, word : Words]
Values == 0..(1 + MaxCycle)

Types ==
    /\ mem \in [Words -> Values] /\ got \in [Words -> Values]
    /\ buf \in [Harts -> [Words -> Values \cup {None}]]
    /\ pc \in [Harts -> Nat] /\ pc[0] \in 1..38 /\ pc[1] \in 1..12
    /\ step \in [Harts -> {"lock", "first", "last", "unlock"}]
    /\ mid \subseteq Harts /\ cycle \in 0..MaxCycle

\* The lock word: its holder, and the release or the clear on its way to it.
Locks ==
    /\ \A h \in Harts : step[h] # "lock" =>
         /\ At(h, "line")
         /\ mem["uart_lock"] = 1 /\ buf[0]["uart_lock"] = None /\ buf[1]["uart_lock"] = None
    /\ step[0] = "lock" \/ step[1] = "lock"
    /\ \A h \in Harts : buf[h]["uart_lock"] \in {None, 0}
    /\ buf[0]["uart_lock"] = None \/ buf[1]["uart_lock"] = None
    /\ \A h \in Harts : buf[h]["uart_lock"] # None => mem["uart_lock"] = 1 \/ pc[0] <= 13
    /\ mem["uart_lock"] \in {0, 1}
    /\ mem["uart_lock"] = 1 => \E h \in Harts : step[h] # "lock" \/ buf[h]["uart_lock"] = 0
    /\ pc[0] <= 7 => mem["uart_lock"] = 0
    /\ \A h \in Harts : (h \in mid) <=> step[h] = "last"

\* Hart 1 waits until the fence has made the cleared BSS visible.
Boot ==
    /\ pc[0] <= 14 => /\ pc[1] = 1 /\ mem["smp_release"] = 0
                      /\ buf[0]["smp_release"] \in {None, 0}
    /\ pc[0] <= 13 => \A w \in Words \ {"t_release"} : buf[0][w] \in {None, 0}
    /\ pc[1] = 1 => \A w \in Words : buf[1][w] = None
    /\ pc[1] > 1 => mem["smp_release"] # 0
    /\ pc[0] >= 14 => \A w \in Words \ {"smp_release", "uart_lock"} : buf[0][w] = None
    /\ pc[0] >= 15 => buf[0]["smp_release"] \in {None, 1}
    /\ buf[1]["smp_release"] = None /\ buf[1]["t_release"] = None

\* What hart 1 has published, and the stamps in order.
Published ==
    /\ pc[0] >= 13 => Load(0, "t_release") \in 1..(1 + cycle)
    /\ pc[1] >= 3 => Load(1, "t1_entry") \in mem["t_release"]..(1 + cycle)
    /\ pc[1] >= 4 => buf[1]["t1_entry"] = None
    /\ pc[1] >= 5 => Load(1, "t1_sp") = 1
    /\ pc[1] >= 10 => Load(1, "t1_printed") \in mem["t1_entry"]..(1 + cycle)
    /\ pc[1] >= 11 => \A w \in Words \ {"hart1_done"} : buf[1][w] = None
    /\ pc[1] < 12 => buf[1]["hart1_done"] = None /\ mem["hart1_done"] = 0
    /\ pc[1] = 12 => Load(1, "hart1_done") # 0

\* The report reads only what a finished hart 1 left in memory.
Reads ==
    /\ pc[0] = 17 => mem["hart1_done"] # 0 \/ cycle >= Timeout
    /\ pc[0] \in 18..36 => mem["hart1_done"] # 0
    /\ pc[0] \in 27..36 => got["t1_entry"] = mem["t1_entry"]
    /\ pc[0] \in 28..36 => got["t_release"] = mem["t_release"]
    /\ pc[0] \in 29..36 => got["t1_printed"] = mem["t1_printed"]
    /\ pc[0] \in 32..36 => got["t1_sp"] = mem["t1_sp"]

IInv == Types /\ Locks /\ Boot /\ Published /\ Reads

-----------------------------------------------------------------------------
\* The lengths of the parts of hart 0's program.
LEMMA Lens == Len(Bss) = 7 /\ Len(Release) = 8 /\ Len(Report) = 21 /\ Len(GiveUp) = 2
  BY DEF Bss, Release, Report, GiveUp

\* Where the elements of a concatenation come from.
LEMMA Cat ==
    ASSUME NEW s \in Seq(Ops), NEW t \in Seq(Ops)
    PROVE  /\ s \o t \in Seq(Ops) /\ Len(s \o t) = Len(s) + Len(t)
           /\ \A k \in 1..Len(s) : (s \o t)[k] = s[k]
           /\ \A k \in (Len(s) + 1)..(Len(s) + Len(t)) : (s \o t)[k] = t[k - Len(s)]
  BY SMTT(60)

\* Every operation is well formed.
LEMMA OpTypes ==
   /\ Line \in Ops /\ Fence \in Ops /\ Poll \in Ops /\ Check \in Ops /\ Park \in Ops
   /\ \A w \in Words : Clear(w) \in Ops /\ Stamp(w) \in Ops /\ Set(w) \in Ops /\ Get(w) \in Ops
  BY DEF Ops, OpNames, Words, Op, Line, Fence, Clear, Stamp, Set, Get, Poll, Check, Park

\* The parts are programs.
LEMMA Seqs == Bss \in Seq(Ops) /\ Release \in Seq(Ops) /\ Report \in Seq(Ops) /\ GiveUp \in Seq(Ops)
  <1>1. Bss \in Seq(Ops)
    BY OpTypes, SMTT(60) DEF Bss, Words
  <1>2. Release \in Seq(Ops)
    BY OpTypes, SMTT(60) DEF Release, Words
  <1>3. Report \in Seq(Ops)
    BY OpTypes, SMTT(60) DEF Report, Words
  <1>4. GiveUp \in Seq(Ops)
    BY OpTypes, SMTT(60) DEF GiveUp
  <1> QED BY <1>1, <1>2, <1>3, <1>4

\* Where the parts of hart 0's program lie.
LEMMA Layout ==
    /\ Len(Code0) = 38
    /\ \A k \in 1..7 : Code0[k] = Bss[k]
    /\ \A k \in 8..15 : Code0[k] = Release[k - 7]
    /\ \A k \in 16..36 : Code0[k] = Report[k - 15]
    /\ \A k \in 37..38 : Code0[k] = GiveUp[k - 36]
  <1> DEFINE a == Bss \o Release
             b == a \o Report
             c == b \o GiveUp
  <1>1. /\ a \in Seq(Ops) /\ Len(a) = Len(Bss) + Len(Release)
        /\ \A k \in 1..Len(Bss) : a[k] = Bss[k]
        /\ \A k \in (Len(Bss) + 1)..(Len(Bss) + Len(Release)) : a[k] = Release[k - Len(Bss)]
    BY Seqs, Cat
  <1> HIDE DEF a
  <1>2. /\ b \in Seq(Ops) /\ Len(b) = Len(a) + Len(Report)
        /\ \A k \in 1..Len(a) : b[k] = a[k]
        /\ \A k \in (Len(a) + 1)..(Len(a) + Len(Report)) : b[k] = Report[k - Len(a)]
    BY <1>1, Seqs, Cat
  <1> HIDE DEF b
  <1>3. /\ c \in Seq(Ops) /\ Len(c) = Len(b) + Len(GiveUp)
        /\ \A k \in 1..Len(b) : c[k] = b[k]
        /\ \A k \in (Len(b) + 1)..(Len(b) + Len(GiveUp)) : c[k] = GiveUp[k - Len(b)]
    BY <1>2, Seqs, Cat
  <1> HIDE DEF c
  <1>4. Code0 = c
    BY DEF Code0, a, b, c
  <1>l. Len(a) = 15 /\ Len(b) = 36 /\ Len(c) = 38
    BY <1>1, <1>2, <1>3, Lens, SMTT(60)
  <1>5. (\A k \in 1..7 : a[k] = Bss[k]) /\ \A k \in 8..15 : a[k] = Release[k - 7]
    BY <1>1, Lens, SMTT(60)
  <1>6. (\A k \in 1..15 : b[k] = a[k]) /\ \A k \in 16..36 : b[k] = Report[k - 15]
    BY <1>2, <1>l, Lens, SMTT(60)
  <1>7. (\A k \in 1..36 : c[k] = b[k]) /\ \A k \in 37..38 : c[k] = GiveUp[k - 36]
    BY <1>3, <1>l, Lens, SMTT(60)
  <1>8. \A k \in 1..7 : c[k] = Bss[k]
    BY <1>5, <1>6, <1>7, SMTT(60)
  <1>9. \A k \in 8..15 : c[k] = Release[k - 7]
    BY <1>5, <1>6, <1>7, SMTT(60)
  <1>10. \A k \in 16..36 : c[k] = Report[k - 15]
    BY <1>6, <1>7, SMTT(60)
  <1> QED BY <1>4, <1>l, <1>7, <1>8, <1>9, <1>10

\* Hart 0's program, place by place.
LEMMA Program0 ==
    /\ \A k \in 1..7 : Code0[k].op = "clear" /\ Code0[k].word \in Words
    /\ \A k \in {8, 9, 10, 11, 15} : Code0[k].op = "line"
    /\ Code0[12] = [op |-> "stamp", word |-> "t_release"]
    /\ Code0[13].op = "fence"
    /\ Code0[14] = [op |-> "set", word |-> "smp_release"]
    /\ Code0[16].op = "poll" /\ Code0[17].op = "check"
    /\ \A k \in 18..35 : /\ Code0[k].op \in {"line", "get"}
                         /\ (Code0[k].op = "get" => Code0[k].word \in {"t_release", "t1_entry", "t1_printed", "t1_sp"})
    /\ Code0[35].op = "line" /\ Code0[36].op = "park"
    /\ Code0[37].op = "line" /\ Code0[38].op = "park"
    /\ Code0[26] = [op |-> "get", word |-> "t1_entry"]
    /\ Code0[27] = [op |-> "get", word |-> "t_release"]
    /\ Code0[28] = [op |-> "get", word |-> "t1_printed"]
    /\ Code0[31] = [op |-> "get", word |-> "t1_sp"]
  <1>1. \A k \in 1..7 : Code0[k].op = "clear" /\ Code0[k].word \in Words
    <2>1. \A k \in 1..7 : Bss[k].op = "clear" /\ Bss[k].word \in Words
      BY SMTT(60) DEF Bss, Clear, Op, Words
    <2> QED BY <2>1, Layout
  <1>2. /\ \A k \in {8, 9, 10, 11, 15} : Code0[k].op = "line"
        /\ Code0[12] = [op |-> "stamp", word |-> "t_release"]
        /\ Code0[13].op = "fence"
        /\ Code0[14] = [op |-> "set", word |-> "smp_release"]
    <2>1. /\ \A k \in {1, 2, 3, 4, 8} : Release[k].op = "line"
          /\ Release[5] = [op |-> "stamp", word |-> "t_release"]
          /\ Release[6].op = "fence"
          /\ Release[7] = [op |-> "set", word |-> "smp_release"]
      BY SMTT(60) DEF Release, Line, Stamp, Fence, Set, Op
    <2> QED BY <2>1, Layout, SMTT(60)
  <1>3. /\ Code0[16].op = "poll" /\ Code0[17].op = "check"
        /\ \A k \in 18..35 : /\ Code0[k].op \in {"line", "get"}
                         /\ (Code0[k].op = "get" => Code0[k].word \in {"t_release", "t1_entry", "t1_printed", "t1_sp"})
        /\ Code0[35].op = "line" /\ Code0[36].op = "park"
        /\ Code0[26] = [op |-> "get", word |-> "t1_entry"]
        /\ Code0[27] = [op |-> "get", word |-> "t_release"]
        /\ Code0[28] = [op |-> "get", word |-> "t1_printed"]
        /\ Code0[31] = [op |-> "get", word |-> "t1_sp"]
    <2>1. /\ Report[1].op = "poll" /\ Report[2].op = "check"
          /\ Report[20].op = "line" /\ Report[21].op = "park"
      BY DEF Report, Poll, Check, Line, Park, Op
    <2>2. /\ Report[11] = [op |-> "get", word |-> "t1_entry"]
          /\ Report[12] = [op |-> "get", word |-> "t_release"]
          /\ Report[13] = [op |-> "get", word |-> "t1_printed"]
          /\ Report[16] = [op |-> "get", word |-> "t1_sp"]
      BY DEF Report, Get, Op
    <2>3. \A k \in 3..20 : /\ Report[k].op \in {"line", "get"}
                          /\ (Report[k].op = "get" => Report[k].word \in {"t_release", "t1_entry", "t1_printed", "t1_sp"})
      BY SMTT(60) DEF Report, Get, Line, Op
    <2>4. \A k \in 18..35 : k \in 16..36 /\ k - 15 \in 3..20
      BY SMTT(60)
    <2>5. \A k \in 16..36 : Code0[k] = Report[k - 15]
      BY Layout
    <2>6. \A k \in 18..35 : Code0[k] = Report[k - 15]
      BY <2>4, <2>5
    <2>7. \A k \in 18..35 : /\ Code0[k].op \in {"line", "get"}
                          /\ (Code0[k].op = "get" => Code0[k].word \in {"t_release", "t1_entry", "t1_printed", "t1_sp"})
      BY <2>3, <2>4, <2>6
    <2>8. /\ Code0[16] = Report[1] /\ Code0[17] = Report[2]
          /\ Code0[35] = Report[20] /\ Code0[36] = Report[21]
          /\ Code0[26] = Report[11] /\ Code0[27] = Report[12] /\ Code0[28] = Report[13]
          /\ Code0[31] = Report[16]
      BY <2>5, SMTT(60)
    <2> QED BY <2>1, <2>2, <2>7, <2>8
  <1>4. Code0[37].op = "line" /\ Code0[38].op = "park"
    BY Layout, SMTT(60) DEF GiveUp, Line, Park, Op
  <1> QED BY <1>1, <1>2, <1>3, <1>4

\* Hart 1's program, place by place.
LEMMA Program1 ==
    /\ Len(Code1) = 12
    /\ Code1[1] = [op |-> "await", word |-> "smp_release"]
    /\ Code1[2] = [op |-> "stamp", word |-> "t1_entry"]
    /\ Code1[3].op = "fence"
    /\ Code1[4] = [op |-> "set", word |-> "t1_sp"]
    /\ \A k \in 5..8 : Code1[k].op = "line"
    /\ Code1[9] = [op |-> "stamp", word |-> "t1_printed"]
    /\ Code1[10].op = "fence"
    /\ Code1[11] = [op |-> "set", word |-> "hart1_done"]
    /\ Code1[12].op = "park"
  BY SMTT(60) DEF Code1, Await, Stamp, Fence, Set, Line, Park, Op

\* What hart 0 may do where.
Place0(o, w) ==
    /\ o = "clear" => pc[0] \in 1..7 /\ w \in Words
    /\ o = "stamp" => pc[0] = 12 /\ w = "t_release"
    /\ o = "fence" => pc[0] = 13
    /\ o = "set" => pc[0] = 14 /\ w = "smp_release"
    /\ o = "line" => pc[0] \in 8..37 /\ pc[0] \notin {12, 13, 14, 16, 17, 36, 26, 27, 28, 31}
    /\ o = "poll" => pc[0] = 16
    /\ o = "check" => pc[0] = 17
    /\ o = "get" => /\ pc[0] \in 18..34 /\ w \in {"t_release", "t1_entry", "t1_printed", "t1_sp"}
                    /\ pc[0] = 26 => w = "t1_entry"
                    /\ pc[0] = 27 => w = "t_release"
                    /\ pc[0] = 28 => w = "t1_printed"
                    /\ pc[0] = 31 => w = "t1_sp"

\* The place of each operation of hart 0.
LEMMA Places0 ==
    ASSUME Types, NEW o, At(0, o) PROVE Place0(o, Word(0))
  <1> DEFINE p == Code0[pc[0]].op
             w == Code0[pc[0]].word
  <1>0. pc[0] \in 1..38
    BY DEF Types
  <1>1. Place0(p, w)
    <2>1. CASE pc[0] \in 1..7
      BY <2>1, Program0, SMTT(60) DEF Place0
    <2>2. CASE pc[0] \in {8, 9, 10, 11, 15}
      BY <2>2, Program0, SMTT(60) DEF Place0
    <2>3. CASE pc[0] \in {12, 13, 14, 16, 17}
      BY <2>3, Program0, SMTT(60) DEF Place0
    <2>4. CASE pc[0] \in {26, 27, 28, 31}
      BY <2>4, Program0, SMTT(60) DEF Place0
    <2>5. CASE pc[0] \in 18..35 /\ pc[0] \notin {26, 27, 28, 31}
      BY <2>5, Program0, SMTT(60) DEF Place0
    <2>6. CASE pc[0] \in {36, 37, 38}
      BY <2>6, Program0, SMTT(60) DEF Place0
    <2> QED BY <1>0, <2>1, <2>2, <2>3, <2>4, <2>5, <2>6, SMTT(60)
  <1>2. p = o /\ w = Word(0)
    BY DEF At, Word, Code
  <1> HIDE DEF p, w
  <1> QED BY <1>1, <1>2

\* What hart 1 may do where.
Place1(o, w) ==
    /\ o = "await" => pc[1] = 1 /\ w = "smp_release"
    /\ o = "stamp" => (pc[1] = 2 /\ w = "t1_entry") \/ (pc[1] = 9 /\ w = "t1_printed")
    /\ o = "fence" => pc[1] = 3 \/ pc[1] = 10
    /\ o = "set" => (pc[1] = 4 /\ w = "t1_sp") \/ (pc[1] = 11 /\ w = "hart1_done")
    /\ o = "line" => pc[1] \in 5..8

\* The place of each operation of hart 1.
LEMMA Places1 ==
    ASSUME Types, NEW o, At(1, o) PROVE Place1(o, Word(1))
  <1> DEFINE p == Code1[pc[1]].op
             w == Code1[pc[1]].word
  <1>0. pc[1] \in 1..12
    BY DEF Types
  <1>1. Place1(p, w)
    <2>1. CASE pc[1] \in 5..8
      BY <2>1, Program1 DEF Place1
    <2>2. CASE pc[1] \in {1, 2}
      BY <2>2, Program1, SMTT(60) DEF Place1
    <2>3. CASE pc[1] \in {3, 4}
      BY <2>3, Program1, SMTT(60) DEF Place1
    <2>4. CASE pc[1] \in {9, 10, 11, 12}
      BY <2>4, Program1, SMTT(60) DEF Place1
    <2> QED BY <1>0, <2>1, <2>2, <2>3, <2>4, SMTT(60)
  <1>2. p = o /\ w = Word(1)
    BY SMTT(60) DEF At, Word, Code
  <1> HIDE DEF p, w
  <1> QED BY <1>1, <1>2

\* A store as the other words and the other hart see it.
Stored(h, w, v) ==
    /\ buf[h][w] = None /\ buf'[h][w] = v
    /\ \A x \in Words \ {w} : buf'[h][x] = buf[h][x]
    /\ buf'[1 - h] = buf[1 - h]
    /\ buf' \in [Harts -> [Words -> Values \cup {None}]]
Moved(h) ==
    /\ pc'[h] = pc[h] + 1 /\ pc'[1 - h] = pc[1 - h] /\ pc' \in [Harts -> Nat]

\* Store and Advance, as the two definitions above put it.
LEMMA Effects ==
    ASSUME Types, NEW h \in Harts
    PROVE  /\ \A w \in Words, v \in Values : Store(h, w, v) => Stored(h, w, v)
           /\ Advance(h) => Moved(h)
  <1>1. ASSUME NEW w \in Words, NEW v \in Values, Store(h, w, v) PROVE Stored(h, w, v)
    <2> DEFINE b == [buf[h] EXCEPT ![w] = v]
    <2>1. buf[h] \in [Words -> Values \cup {None}] /\ 1 - h \in Harts /\ 1 - h # h
      BY SMTT(60) DEF Types, Harts
    <2>2. b \in [Words -> Values \cup {None}] /\ b[w] = v /\ \A x \in Words \ {w} : b[x] = buf[h][x]
      BY <2>1
    <2>3. buf' = [buf EXCEPT ![h] = b] /\ buf[h][w] = None
      BY <1>1 DEF Store
    <2> HIDE DEF b
    <2> QED BY <2>1, <2>2, <2>3 DEF Types, Stored
  <1>2. ASSUME Advance(h) PROVE Moved(h)
    BY <1>2, SMTT(60) DEF Advance, Types, Moved, Harts
  <1> QED BY <1>1, <1>2

\* The values the program stores.
LEMMA ValueTypes ==
    ASSUME Types
    PROVE  0 \in Values /\ 1 \in Values /\ 1 + cycle \in Values /\ None \notin Values
  BY SmpAssumption, SMTT(60) DEF Types, Values, None

\* Hart 1 is not printing while it waits.
LEMMA ClearAlone == ASSUME Types, pc[1] = 1 PROVE ~At(1, "line")
  BY Places1, SMTT(60) DEF Place1

\* bss_loop: hart 1 still waits, and zeroes are all that can be buffered.
LEMMA ClearKeeps == ASSUME IInv, BssClear(0) PROVE IInv'
  <1>1. Types /\ Locks /\ Boot /\ Published /\ Reads
    BY DEF IInv
  <1>2. /\ pc[0] \in 1..7 /\ Moved(0)
        /\ \E w \in Words : Stored(0, w, 0)
        /\ UNCHANGED <<mem, step, mid, got, cycle>>
        /\ ~At(0, "line")
    BY <1>1, ValueTypes, Places0, Effects DEF BssClear, Harts, Words, Place0, At
  <1>b. ~At(1, "line")
    BY <1>1, <1>2, ClearAlone, SMTT(60) DEF Boot
  <1> USE SmpAssumption DEF Harts, Words, None, Stored, Moved, Load
  <1>3. Types'
    BY <1>1, <1>2, ValueTypes, SMTT(60) DEF Types, Values
  <1>4. Locks'
    BY <1>1, <1>2, <1>b, SMTT(60) DEF Types, Locks, Boot, At
  <1>5. Boot'
    BY <1>1, <1>2, SMTT(60) DEF Types, Boot, Locks
  <1>6. Published'
    BY <1>1, <1>2, SMTT(60) DEF Types, Boot, Published, Values
  <1>7. Reads'
    BY <1>1, <1>2, SMTT(60) DEF Types, Boot, Published, Reads
  <1> QED BY <1>3, <1>4, <1>5, <1>6, <1>7 DEF IInv

\* t_release = rdcycle().
LEMMA Stamp0Keeps == ASSUME IInv, DoStamp(0) PROVE IInv'
  <1>1. Types /\ Locks /\ Boot /\ Published /\ Reads
    BY DEF IInv
  <1>2. /\ pc[0] = 12 /\ Moved(0)
        /\ Stored(0, "t_release", 1 + cycle)
        /\ UNCHANGED <<mem, step, mid, got, cycle>>
        /\ ~At(0, "line")
    BY <1>1, ValueTypes, Places0, Effects DEF DoStamp, Harts, Words, Place0, At
  <1> USE SmpAssumption DEF Harts, Words, None, Stored, Moved, Load
  <1>3. Types'
    BY <1>1, <1>2, ValueTypes, SMTT(60) DEF Types, Values
  <1>4. Locks'
    BY <1>1, <1>2, SMTT(60) DEF Types, Locks, Boot, At
  <1>5. Boot'
    BY <1>1, <1>2, SMTT(60) DEF Types, Boot, Locks
  <1>6. Published'
    BY <1>1, <1>2, SMTT(60) DEF Types, Boot, Published, Values
  <1>7. Reads'
    BY <1>1, <1>2, SMTT(60) DEF Types, Boot, Published, Reads
  <1> QED BY <1>3, <1>4, <1>5, <1>6, <1>7 DEF IInv

\* smp_release = 1, after the fence.
LEMMA Set0Keeps == ASSUME IInv, DoSet(0) PROVE IInv'
  <1>1. Types /\ Locks /\ Boot /\ Published /\ Reads
    BY DEF IInv
  <1>2. /\ pc[0] = 14 /\ Moved(0)
        /\ Stored(0, "smp_release", 1)
        /\ UNCHANGED <<mem, step, mid, got, cycle>>
        /\ ~At(0, "line")
    BY <1>1, ValueTypes, Places0, Effects DEF DoSet, Harts, Words, Place0, At
  <1> USE SmpAssumption DEF Harts, Words, None, Stored, Moved, Load
  <1>3. Types'
    BY <1>1, <1>2, ValueTypes, SMTT(60) DEF Types, Values
  <1>4. Locks'
    BY <1>1, <1>2, SMTT(60) DEF Types, Locks, Boot, At
  <1>5. Boot'
    BY <1>1, <1>2, SMTT(60) DEF Types, Boot, Locks
  <1>6. Published'
    BY <1>1, <1>2, SMTT(60) DEF Types, Boot, Published, Values
  <1>7. Reads'
    BY <1>1, <1>2, SMTT(60) DEF Types, Boot, Published, Reads
  <1> QED BY <1>3, <1>4, <1>5, <1>6, <1>7 DEF IInv

\* hart 0's mem_fence: from here its buffer holds no cleared word.
LEMMA Fence0Keeps == ASSUME IInv, DoFence(0) PROVE IInv'
  <1>1. Types /\ Locks /\ Boot /\ Published /\ Reads
    BY DEF IInv
  <1>2. /\ pc[0] = 13 /\ Moved(0)
        /\ \A w \in Words : buf[0][w] = None
        /\ UNCHANGED <<mem, buf, step, mid, got, cycle>>
        /\ ~At(0, "line")
    BY <1>1, ValueTypes, Places0, Effects DEF DoFence, Harts, Words, Place0, At
  <1> USE SmpAssumption DEF Harts, Words, None, Stored, Moved, Load
  <1>3. Types'
    BY <1>1, <1>2, ValueTypes, SMTT(60) DEF Types, Values
  <1>4. Locks'
    BY <1>1, <1>2, SMTT(60) DEF Types, Locks, Boot, At
  <1>5. Boot'
    BY <1>1, <1>2, SMTT(60) DEF Types, Boot, Locks
  <1>6. Published'
    BY <1>1, <1>2, SMTT(60) DEF Types, Boot, Published, Values
  <1>7. Reads'
    BY <1>1, <1>2, SMTT(60) DEF Types, Boot, Published, Reads
  <1> QED BY <1>3, <1>4, <1>5, <1>6, <1>7 DEF IInv

\* The report reads a word hart 1 has published.
LEMMA GetKeeps == ASSUME IInv, DoGet(0) PROVE IInv'
  <1>1. Types /\ Locks /\ Boot /\ Published /\ Reads
    BY DEF IInv
  <1>2. /\ pc[0] \in 18..34 /\ Moved(0)
        /\ \E w \in {"t_release", "t1_entry", "t1_printed", "t1_sp"} :
               /\ got' = [got EXCEPT ![w] = Load(0, w)]
               /\ (pc[0] = 26 => w = "t1_entry") /\ (pc[0] = 27 => w = "t_release")
               /\ (pc[0] = 28 => w = "t1_printed") /\ (pc[0] = 31 => w = "t1_sp")
        /\ UNCHANGED <<mem, buf, step, mid, cycle>>
        /\ ~At(0, "line")
    BY <1>1, ValueTypes, Places0, Effects DEF DoGet, Harts, Words, Place0, At
  <1> USE SmpAssumption DEF Harts, Words, None, Stored, Moved, Load
  <1>3. Types'
    BY <1>1, <1>2, ValueTypes, SMTT(60) DEF Types, Values
  <1>4. Locks'
    BY <1>1, <1>2, SMTT(60) DEF Types, Locks, Boot, At
  <1>5. Boot'
    BY <1>1, <1>2, SMTT(60) DEF Types, Boot, Locks
  <1>6. Published'
    BY <1>1, <1>2, SMTT(60) DEF Types, Boot, Published, Values
  <1>7. Reads'
    BY <1>1, <1>2, SMTT(60) DEF Types, Boot, Published, Reads
  <1> QED BY <1>3, <1>4, <1>5, <1>6, <1>7 DEF IInv

\* hart 0's wait ends.
LEMMA Poll0Keeps == ASSUME IInv, DoPoll(0) PROVE IInv'
  <1>1. Types /\ Locks /\ Boot /\ Published /\ Reads
    BY DEF IInv
  <1>2. /\ pc[0] = 16 /\ Moved(0)
        /\ Load(0, "hart1_done") # 0 \/ cycle >= Timeout
        /\ UNCHANGED <<mem, buf, step, mid, got, cycle>>
        /\ ~At(0, "line")
    BY <1>1, ValueTypes, Places0, Effects DEF DoPoll, Harts, Words, Place0, At
  <1> USE SmpAssumption DEF Harts, Words, None, Stored, Moved, Load
  <1>3. Types'
    BY <1>1, <1>2, ValueTypes, SMTT(60) DEF Types, Values
  <1>4. Locks'
    BY <1>1, <1>2, SMTT(60) DEF Types, Locks, Boot, At
  <1>5. Boot'
    BY <1>1, <1>2, SMTT(60) DEF Types, Boot, Locks
  <1>6. Published'
    BY <1>1, <1>2, SMTT(60) DEF Types, Boot, Published, Values
  <1>7. Reads'
    BY <1>1, <1>2, SMTT(60) DEF Types, Boot, Published, Reads
  <1> QED BY <1>3, <1>4, <1>5, <1>6, <1>7 DEF IInv

\* The second look at hart1_done: seen set, hart 1 has finished.
LEMMA Check0Keeps == ASSUME IInv, DoCheck(0) PROVE IInv'
  <1>1. Types /\ Locks /\ Boot /\ Published /\ Reads
    BY DEF IInv
  <1>2. /\ pc[0] = 17 /\ pc'[1] = pc[1] /\ pc' \in [Harts -> Nat]
        /\ pc'[0] = IF Load(0, "hart1_done") = 0 THEN 37 ELSE 18
        /\ UNCHANGED <<mem, buf, step, mid, got, cycle>>
        /\ ~At(0, "line")
    BY <1>1, ValueTypes, Places0, Lens, SMTT(60) DEF DoCheck, Harts, Words, Place0, Types,
       TimedOut, Reported, At
  <1> USE SmpAssumption DEF Harts, Words, None, Stored, Moved, Load
  <1>3. Types'
    BY <1>1, <1>2, ValueTypes, SMTT(60) DEF Types, Values
  <1>4. Locks'
    BY <1>1, <1>2, SMTT(60) DEF Types, Locks, Boot, At
  <1>5. Boot'
    BY <1>1, <1>2, SMTT(60) DEF Types, Boot, Locks
  <1>6. Published'
    BY <1>1, <1>2, SMTT(60) DEF Types, Boot, Published, Values
  <1>7. Reads'
    BY <1>1, <1>2, SMTT(60) DEF Types, Boot, Published, Reads
  <1> QED BY <1>3, <1>4, <1>5, <1>6, <1>7 DEF IInv

\* hart1_wait sees the release, so the fence of hart 0 is past.
LEMMA Await1Keeps == ASSUME IInv, DoAwait(1) PROVE IInv'
  <1>1. Types /\ Locks /\ Boot /\ Published /\ Reads
    BY DEF IInv
  <1>2. /\ pc[1] = 1 /\ Moved(1)
        /\ Load(1, "smp_release") # 0
        /\ UNCHANGED <<mem, buf, step, mid, got, cycle>>
        /\ ~At(1, "line")
    BY <1>1, ValueTypes, Places1, Effects DEF DoAwait, Harts, Words, Place1, At
  <1> USE SmpAssumption DEF Harts, Words, None, Stored, Moved, Load
  <1>3. Types'
    BY <1>1, <1>2, ValueTypes, SMTT(60) DEF Types, Values
  <1>4. Locks'
    BY <1>1, <1>2, SMTT(60) DEF Types, Locks, Boot, At
  <1>5. Boot'
    BY <1>1, <1>2, SMTT(60) DEF Types, Boot, Locks
  <1>6. Published'
    BY <1>1, <1>2, SMTT(60) DEF Types, Boot, Published, Values
  <1>7. Reads'
    BY <1>1, <1>2, SMTT(60) DEF Types, Boot, Published, Reads
  <1> QED BY <1>3, <1>4, <1>5, <1>6, <1>7 DEF IInv

\* t1_entry and t1_printed, each after the stamp it is compared with.
LEMMA Stamp1Keeps == ASSUME IInv, DoStamp(1) PROVE IInv'
  <1>1. Types /\ Locks /\ Boot /\ Published /\ Reads
    BY DEF IInv
  <1>2. /\ Moved(1)
        /\ \/ pc[1] = 2 /\ Stored(1, "t1_entry", 1 + cycle)
           \/ pc[1] = 9 /\ Stored(1, "t1_printed", 1 + cycle)
        /\ UNCHANGED <<mem, step, mid, got, cycle>>
        /\ ~At(1, "line")
    BY <1>1, ValueTypes, Places1, Effects DEF DoStamp, Harts, Words, Place1, At
  <1> USE SmpAssumption DEF Harts, Words, None, Stored, Moved, Load
  <1>3. Types'
    BY <1>1, <1>2, ValueTypes, SMTT(60) DEF Types, Values
  <1>4. Locks'
    BY <1>1, <1>2, SMTT(60) DEF Types, Locks, Boot, At
  <1>5. Boot'
    BY <1>1, <1>2, SMTT(60) DEF Types, Boot, Locks
  <1>6. Published'
    BY <1>1, <1>2, SMTT(60) DEF Types, Boot, Published, Values
  <1>7. Reads'
    BY <1>1, <1>2, SMTT(60) DEF Types, Boot, Published, Reads
  <1> QED BY <1>3, <1>4, <1>5, <1>6, <1>7 DEF IInv

\* t1_sp, and hart1_done after the fence.
LEMMA Set1Keeps == ASSUME IInv, DoSet(1) PROVE IInv'
  <1>1. Types /\ Locks /\ Boot /\ Published /\ Reads
    BY DEF IInv
  <1>2. /\ Moved(1)
        /\ \/ pc[1] = 4 /\ Stored(1, "t1_sp", 1)
           \/ pc[1] = 11 /\ Stored(1, "hart1_done", 1)
        /\ UNCHANGED <<mem, step, mid, got, cycle>>
        /\ ~At(1, "line")
    BY <1>1, ValueTypes, Places1, Effects DEF DoSet, Harts, Words, Place1, At
  <1> USE SmpAssumption DEF Harts, Words, None, Stored, Moved, Load
  <1>3. Types'
    BY <1>1, <1>2, ValueTypes, SMTT(60) DEF Types, Values
  <1>4. Locks'
    BY <1>1, <1>2, SMTT(60) DEF Types, Locks, Boot, At
  <1>5. Boot'
    BY <1>1, <1>2, SMTT(60) DEF Types, Boot, Locks
  <1>6. Published'
    BY <1>1, <1>2, SMTT(60) DEF Types, Boot, Published, Values
  <1>7. Reads'
    BY <1>1, <1>2, SMTT(60) DEF Types, Boot, Published, Reads
  <1> QED BY <1>3, <1>4, <1>5, <1>6, <1>7 DEF IInv

\* hart 1's fences drain what it published so far.
LEMMA Fence1Keeps == ASSUME IInv, DoFence(1) PROVE IInv'
  <1>1. Types /\ Locks /\ Boot /\ Published /\ Reads
    BY DEF IInv
  <1>2. /\ pc[1] \in {3, 10} /\ Moved(1)
        /\ \A w \in Words : buf[1][w] = None
        /\ UNCHANGED <<mem, buf, step, mid, got, cycle>>
        /\ ~At(1, "line")
    BY <1>1, ValueTypes, Places1, Effects DEF DoFence, Harts, Words, Place1, At
  <1> USE SmpAssumption DEF Harts, Words, None, Stored, Moved, Load
  <1>3. Types'
    BY <1>1, <1>2, ValueTypes, SMTT(60) DEF Types, Values
  <1>4. Locks'
    BY <1>1, <1>2, SMTT(60) DEF Types, Locks, Boot, At
  <1>5. Boot'
    BY <1>1, <1>2, SMTT(60) DEF Types, Boot, Locks
  <1>6. Published'
    BY <1>1, <1>2, SMTT(60) DEF Types, Boot, Published, Values
  <1>7. Reads'
    BY <1>1, <1>2, SMTT(60) DEF Types, Boot, Published, Reads
  <1> QED BY <1>3, <1>4, <1>5, <1>6, <1>7 DEF IInv

\* spin_lock by hart 0: the lock was free, so hart 1 is outside a line.
LEMMA Lock0Keeps == ASSUME IInv, SpinLock(0) PROVE IInv'
  <1>1. Types /\ Locks /\ Boot /\ Published /\ Reads
    BY DEF IInv
  <1>2. /\ At(0, "line") /\ step[0] = "lock" /\ buf[0]["uart_lock"] = None /\ mem["uart_lock"] = 0
        /\ mem' = [mem EXCEPT !["uart_lock"] = 1] /\ step' = [step EXCEPT ![0] = "first"]
        /\ UNCHANGED <<buf, pc, mid, got, cycle>>
        /\ pc[0] \in 8..37
    BY <1>1, ValueTypes, Places0 DEF SpinLock, Harts, Words, Place0
  <1> USE SmpAssumption DEF Harts, Words, None, Stored, Moved, Load
  <1>3. Types'
    BY <1>1, <1>2, ValueTypes DEF Types, Values
  <1>4. Locks'
    BY <1>1, <1>2, SMTT(60) DEF Types, Locks, Boot, At
  <1>5. Boot'
    BY <1>1, <1>2 DEF Types, Boot, Locks
  <1>6. Published'
    BY <1>1, <1>2 DEF Types, Boot, Published, Values
  <1>7. Reads'
    BY <1>1, <1>2, SMTT(60) DEF Types, Boot, Published, Reads
  <1> QED BY <1>3, <1>4, <1>5, <1>6, <1>7 DEF IInv

\* The first part of a line of hart 0.
LEMMA First0Keeps == ASSUME IInv, PutFirst(0) PROVE IInv'
  <1>1. Types /\ Locks /\ Boot /\ Published /\ Reads
    BY DEF IInv
  <1>2. /\ At(0, "line") /\ step[0] = "first" /\ mid' = mid \cup {0}
        /\ step' = [step EXCEPT ![0] = "last"]
        /\ UNCHANGED <<mem, buf, pc, got, cycle>>
    BY <1>1, ValueTypes, Places0 DEF PutFirst, Harts, Words, Place0
  <1> USE SmpAssumption DEF Harts, Words, None, Stored, Moved, Load
  <1>3. Types'
    BY <1>1, <1>2, ValueTypes DEF Types, Values
  <1>4. Locks'
    BY <1>1, <1>2 DEF Types, Locks, Boot, At
  <1>5. Boot'
    BY <1>1, <1>2 DEF Types, Boot, Locks
  <1>6. Published'
    BY <1>1, <1>2 DEF Types, Boot, Published, Values
  <1>7. Reads'
    BY <1>1, <1>2 DEF Types, Boot, Published, Reads
  <1> QED BY <1>3, <1>4, <1>5, <1>6, <1>7 DEF IInv

\* The rest of a line of hart 0.
LEMMA Last0Keeps == ASSUME IInv, PutLast(0) PROVE IInv'
  <1>1. Types /\ Locks /\ Boot /\ Published /\ Reads
    BY DEF IInv
  <1>2. /\ At(0, "line") /\ step[0] = "last" /\ mid' = mid \ {0}
        /\ step' = [step EXCEPT ![0] = "unlock"]
        /\ UNCHANGED <<mem, buf, pc, got, cycle>>
    BY <1>1, ValueTypes, Places0 DEF PutLast, Harts, Words, Place0
  <1> USE SmpAssumption DEF Harts, Words, None, Stored, Moved, Load
  <1>3. Types'
    BY <1>1, <1>2, ValueTypes DEF Types, Values
  <1>4. Locks'
    BY <1>1, <1>2 DEF Types, Locks, Boot, At
  <1>5. Boot'
    BY <1>1, <1>2 DEF Types, Boot, Locks
  <1>6. Published'
    BY <1>1, <1>2 DEF Types, Boot, Published, Values
  <1>7. Reads'
    BY <1>1, <1>2 DEF Types, Boot, Published, Reads
  <1> QED BY <1>3, <1>4, <1>5, <1>6, <1>7 DEF IInv

\* spin_unlock by hart 0: the store of 0 is on its way.
LEMMA Unlock0Keeps == ASSUME IInv, SpinUnlock(0) PROVE IInv'
  <1>1. Types /\ Locks /\ Boot /\ Published /\ Reads
    BY DEF IInv
  <1>2. /\ step[0] = "unlock" /\ Moved(0) /\ Stored(0, "uart_lock", 0)
        /\ \A w \in Words : buf[0][w] = None
        /\ step' = [step EXCEPT ![0] = "lock"]
        /\ UNCHANGED <<mem, mid, got, cycle>>
        /\ pc[0] \in 8..37 /\ pc[0] \notin {12, 13, 14, 16, 17, 36, 26, 27, 28, 31}
    BY <1>1, ValueTypes, Places0, Effects DEF SpinUnlock, Harts, Words, Place0
  <1> USE SmpAssumption DEF Harts, Words, None, Stored, Moved, Load
  <1>3. Types'
    BY <1>1, <1>2, ValueTypes, SMTT(60) DEF Types, Values
  <1>4. Locks'
    BY <1>1, <1>2, SMTT(60) DEF Types, Locks, Boot, At
  <1>5. Boot'
    BY <1>1, <1>2, SMTT(60) DEF Types, Boot, Locks
  <1>6. Published'
    BY <1>1, <1>2, SMTT(60) DEF Types, Boot, Published, Values
  <1>7. Reads'
    BY <1>1, <1>2, SMTT(60) DEF Types, Boot, Published, Reads
  <1> QED BY <1>3, <1>4, <1>5, <1>6, <1>7 DEF IInv

\* A store of hart 0 reaches memory.
LEMMA Drain0Keeps == ASSUME IInv, Drain(0) PROVE IInv'
  <1>1. Types /\ Locks /\ Boot /\ Published /\ Reads
    BY DEF IInv
  <1>a. PICK w \in Words : /\ buf[0][w] # None /\ mem' = [mem EXCEPT ![w] = buf[0][w]]
                           /\ buf' = [buf EXCEPT ![0] = [buf[0] EXCEPT ![w] = None]]
                           /\ UNCHANGED <<pc, step, mid, got, cycle>>
    BY DEF Drain
  <1>2. /\ buf[0][w] # None /\ mem' = [mem EXCEPT ![w] = buf[0][w]]
        /\ buf'[0][w] = None /\ \A x \in Words \ {w} : buf'[0][x] = buf[0][x]
        /\ buf'[1] = buf[1] /\ buf' \in [Harts -> [Words -> Values \cup {None}]]
        /\ UNCHANGED <<pc, step, mid, got, cycle>>
    <2> DEFINE b == [buf[0] EXCEPT ![w] = None]
    <2>1. b \in [Words -> Values \cup {None}] /\ b[w] = None /\ \A x \in Words \ {w} : b[x] = buf[0][x]
      BY <1>1 DEF Types, Harts
    <2>2. buf' = [buf EXCEPT ![0] = b]
      BY <1>a
    <2> HIDE DEF b
    <2>3. buf'[0] = b /\ buf'[1] = buf[1] /\ buf' \in [Harts -> [Words -> Values \cup {None}]]
      BY <1>1, <2>1, <2>2, SMTT(60) DEF Types, Harts
    <2> QED BY <1>a, <2>1, <2>3
  <1> USE SmpAssumption DEF Harts, Words, None, Stored, Moved, Load
  <1>3. Types'
    BY <1>1, <1>2, ValueTypes, SMTT(60) DEF Types, Values
  <1>4. Locks'
    BY <1>1, <1>2, SMTT(60) DEF Types, Locks, Boot, At
  <1>5. Boot'
    BY <1>1, <1>2, SMTT(60) DEF Types, Boot, Locks
  <1>6. Published'
    BY <1>1, <1>2, SMTT(60) DEF Types, Boot, Published, Values
  <1>7. Reads'
    BY <1>1, <1>2, SMTT(60) DEF Types, Boot, Published, Reads
  <1> QED BY <1>3, <1>4, <1>5, <1>6, <1>7 DEF IInv

\* spin_lock by hart 1: the lock was free, so hart 0 is outside a line.
LEMMA Lock1Keeps == ASSUME IInv, SpinLock(1) PROVE IInv'
  <1>1. Types /\ Locks /\ Boot /\ Published /\ Reads
    BY DEF IInv
  <1>2. /\ At(1, "line") /\ step[1] = "lock" /\ buf[1]["uart_lock"] = None /\ mem["uart_lock"] = 0
        /\ mem' = [mem EXCEPT !["uart_lock"] = 1] /\ step' = [step EXCEPT ![1] = "first"]
        /\ UNCHANGED <<buf, pc, mid, got, cycle>>
        /\ pc[1] \in 5..8
    BY <1>1, ValueTypes, Places1 DEF SpinLock, Harts, Words, Place1
  <1> USE SmpAssumption DEF Harts, Words, None, Stored, Moved, Load
  <1>3. Types'
    BY <1>1, <1>2, ValueTypes DEF Types, Values
  <1>4. Locks'
    BY <1>1, <1>2, SMTT(60) DEF Types, Locks, Boot, At
  <1>5. Boot'
    BY <1>1, <1>2 DEF Types, Boot, Locks
  <1>6. Published'
    BY <1>1, <1>2 DEF Types, Boot, Published, Values
  <1>7. Reads'
    BY <1>1, <1>2, SMTT(60) DEF Types, Boot, Published, Reads
  <1> QED BY <1>3, <1>4, <1>5, <1>6, <1>7 DEF IInv

\* The first part of a line of hart 1.
LEMMA First1Keeps == ASSUME IInv, PutFirst(1) PROVE IInv'
  <1>1. Types /\ Locks /\ Boot /\ Published /\ Reads
    BY DEF IInv
  <1>2. /\ At(1, "line") /\ step[1] = "first" /\ mid' = mid \cup {1}
        /\ step' = [step EXCEPT ![1] = "last"]
        /\ UNCHANGED <<mem, buf, pc, got, cycle>>
    BY <1>1, ValueTypes, Places1 DEF PutFirst, Harts, Words, Place1
  <1> USE SmpAssumption DEF Harts, Words, None, Stored, Moved, Load
  <1>3. Types'
    BY <1>1, <1>2, ValueTypes DEF Types, Values
  <1>4. Locks'
    BY <1>1, <1>2 DEF Types, Locks, Boot, At
  <1>5. Boot'
    BY <1>1, <1>2 DEF Types, Boot, Locks
  <1>6. Published'
    BY <1>1, <1>2 DEF Types, Boot, Published, Values
  <1>7. Reads'
    BY <1>1, <1>2 DEF Types, Boot, Published, Reads
  <1> QED BY <1>3, <1>4, <1>5, <1>6, <1>7 DEF IInv

\* The rest of a line of hart 1.
LEMMA Last1Keeps == ASSUME IInv, PutLast(1) PROVE IInv'
  <1>1. Types /\ Locks /\ Boot /\ Published /\ Reads
    BY DEF IInv
  <1>2. /\ At(1, "line") /\ step[1] = "last" /\ mid' = mid \ {1}
        /\ step' = [step EXCEPT ![1] = "unlock"]
        /\ UNCHANGED <<mem, buf, pc, got, cycle>>
    BY <1>1, ValueTypes, Places1 DEF PutLast, Harts, Words, Place1
  <1> USE SmpAssumption DEF Harts, Words, None, Stored, Moved, Load
  <1>3. Types'
    BY <1>1, <1>2, ValueTypes DEF Types, Values
  <1>4. Locks'
    BY <1>1, <1>2 DEF Types, Locks, Boot, At
  <1>5. Boot'
    BY <1>1, <1>2 DEF Types, Boot, Locks
  <1>6. Published'
    BY <1>1, <1>2 DEF Types, Boot, Published, Values
  <1>7. Reads'
    BY <1>1, <1>2 DEF Types, Boot, Published, Reads
  <1> QED BY <1>3, <1>4, <1>5, <1>6, <1>7 DEF IInv

\* spin_unlock by hart 1: the store of 0 is on its way.
LEMMA Unlock1Keeps == ASSUME IInv, SpinUnlock(1) PROVE IInv'
  <1>1. Types /\ Locks /\ Boot /\ Published /\ Reads
    BY DEF IInv
  <1>2. /\ step[1] = "unlock" /\ Moved(1) /\ Stored(1, "uart_lock", 0)
        /\ \A w \in Words : buf[1][w] = None
        /\ step' = [step EXCEPT ![1] = "lock"]
        /\ UNCHANGED <<mem, mid, got, cycle>>
        /\ pc[1] \in 5..8
    BY <1>1, ValueTypes, Places1, Effects DEF SpinUnlock, Harts, Words, Place1
  <1> USE SmpAssumption DEF Harts, Words, None, Stored, Moved, Load
  <1>3. Types'
    BY <1>1, <1>2, ValueTypes, SMTT(60) DEF Types, Values
  <1>4. Locks'
    BY <1>1, <1>2, SMTT(60) DEF Types, Locks, Boot, At
  <1>5. Boot'
    BY <1>1, <1>2, SMTT(60) DEF Types, Boot, Locks
  <1>6. Published'
    BY <1>1, <1>2, SMTT(60) DEF Types, Boot, Published, Values
  <1>7. Reads'
    BY <1>1, <1>2, SMTT(60) DEF Types, Boot, Published, Reads
  <1> QED BY <1>3, <1>4, <1>5, <1>6, <1>7 DEF IInv

\* A store of hart 1 reaches memory; once hart1_done is there, nothing else is left.
LEMMA Drain1Keeps == ASSUME IInv, Drain(1) PROVE IInv'
  <1>1. Types /\ Locks /\ Boot /\ Published /\ Reads
    BY DEF IInv
  <1>a. PICK w \in Words : /\ buf[1][w] # None /\ mem' = [mem EXCEPT ![w] = buf[1][w]]
                           /\ buf' = [buf EXCEPT ![1] = [buf[1] EXCEPT ![w] = None]]
                           /\ UNCHANGED <<pc, step, mid, got, cycle>>
    BY DEF Drain
  <1>2. /\ buf[1][w] # None /\ mem' = [mem EXCEPT ![w] = buf[1][w]]
        /\ buf'[1][w] = None /\ \A x \in Words \ {w} : buf'[1][x] = buf[1][x]
        /\ buf'[0] = buf[0] /\ buf' \in [Harts -> [Words -> Values \cup {None}]]
        /\ UNCHANGED <<pc, step, mid, got, cycle>>
    <2> DEFINE b == [buf[1] EXCEPT ![w] = None]
    <2>1. b \in [Words -> Values \cup {None}] /\ b[w] = None /\ \A x \in Words \ {w} : b[x] = buf[1][x]
      BY <1>1 DEF Types, Harts
    <2>2. buf' = [buf EXCEPT ![1] = b]
      BY <1>a
    <2> HIDE DEF b
    <2>3. buf'[1] = b /\ buf'[0] = buf[0] /\ buf' \in [Harts -> [Words -> Values \cup {None}]]
      BY <1>1, <2>1, <2>2, SMTT(60) DEF Types, Harts
    <2> QED BY <1>a, <2>1, <2>3
  <1> USE SmpAssumption DEF Harts, Words, None, Stored, Moved, Load
  <1>3. Types'
    BY <1>1, <1>2, ValueTypes, SMTT(60) DEF Types, Values
  <1>4. Locks'
    BY <1>1, <1>2, SMTT(60) DEF Types, Locks, Boot, At
  <1>5. Boot'
    BY <1>1, <1>2 DEF Types, Boot, Locks
  <1>6. Published'
    BY <1>1, <1>2, SMTT(60) DEF Types, Boot, Published, Values
  <1>7. Reads'
    BY <1>1, <1>2, SMTT(60) DEF Types, Boot, Published, Reads
  <1> QED BY <1>3, <1>4, <1>5, <1>6, <1>7 DEF IInv

\* The counter only moves up.
LEMMA ClockKeeps == ASSUME IInv, ClockTick PROVE IInv'
  <1>1. Types /\ Locks /\ Boot /\ Published /\ Reads
    BY DEF IInv
  <1>2. /\ cycle < MaxCycle /\ cycle' = cycle + 1
        /\ UNCHANGED <<mem, buf, pc, step, mid, got>>
    BY DEF ClockTick
  <1> USE SmpAssumption DEF Harts, Words, None, Stored, Moved, Load
  <1>3. Types'
    BY <1>1, <1>2, ValueTypes, SMTT(60) DEF Types, Values
  <1>4. Locks'
    BY <1>1, <1>2 DEF Types, Locks, Boot, At
  <1>5. Boot'
    BY <1>1, <1>2 DEF Types, Boot, Locks
  <1>6. Published'
    BY <1>1, <1>2, SMTT(60) DEF Types, Boot, Published, Values
  <1>7. Reads'
    BY <1>1, <1>2, SMTT(60) DEF Types, Boot, Published, Reads
  <1> QED BY <1>3, <1>4, <1>5, <1>6, <1>7 DEF IInv

\* The loops that only look.
LEMMA IdleKeeps == ASSUME IInv, UNCHANGED vars PROVE IInv'
  <1>1. Types /\ Locks /\ Boot /\ Published /\ Reads
    BY DEF IInv
  <1>2. /\ UNCHANGED <<mem, buf, pc, step, mid, got, cycle>>
    BY DEF vars
  <1> USE SmpAssumption DEF Harts, Words, None, Stored, Moved, Load
  <1>3. Types'
    BY <1>1, <1>2, ValueTypes DEF Types, Values
  <1>4. Locks'
    BY <1>1, <1>2 DEF Types, Locks, Boot, At
  <1>5. Boot'
    BY <1>1, <1>2 DEF Types, Boot, Locks
  <1>6. Published'
    BY <1>1, <1>2 DEF Types, Boot, Published, Values
  <1>7. Reads'
    BY <1>1, <1>2 DEF Types, Boot, Published, Reads
  <1> QED BY <1>3, <1>4, <1>5, <1>6, <1>7 DEF IInv

\* Every step preserves the invariant.
LEMMA NextIInv == IInv /\ [Next]_vars => IInv'
  <1> SUFFICES ASSUME IInv, [Next]_vars PROVE IInv'
    OBVIOUS
  <1>1. CASE Hart0
    BY <1>1, ClearKeeps, Stamp0Keeps, Set0Keeps, Fence0Keeps, GetKeeps, Poll0Keeps, Check0Keeps,
       Lock0Keeps, First0Keeps, Last0Keeps, Unlock0Keeps DEF Hart0, Step
  <1>2. CASE Hart1
    BY <1>2, Await1Keeps, Stamp1Keeps, Set1Keeps, Fence1Keeps, Lock1Keeps, First1Keeps,
       Last1Keeps, Unlock1Keeps DEF Hart1, Step
  <1>3. CASE \E h \in Harts : Drain(h)
    BY <1>3, Drain0Keeps, Drain1Keeps DEF Harts
  <1>4. CASE ClockTick
    BY <1>4, ClockKeeps
  <1>5. CASE (\E h \in Harts : Spin(h)) \/ UNCHANGED vars
    BY <1>5, IdleKeeps DEF Spin
  <1> QED BY <1>1, <1>2, <1>3, <1>4, <1>5 DEF Next

\* The reset state.
LEMMA InitIInv == Init => IInv
  <1> SUFFICES ASSUME Init PROVE IInv
    OBVIOUS
  <1> USE SmpAssumption DEF Init, Harts, None
  <1>1. Types
    BY SMTT(60) DEF Types, Values
  <1>2. Locks
    BY SMTT(60) DEF Locks, Words
  <1>3. Boot
    BY SMTT(60) DEF Boot, Words
  <1>4. Published
    BY SMTT(60) DEF Published, Load, Words
  <1>5. Reads
    BY SMTT(60) DEF Reads
  <1> QED BY <1>1, <1>2, <1>3, <1>4, <1>5 DEF IInv

-----------------------------------------------------------------------------
(* The inductive invariant of the bring-up: who holds uart_lock, where     *)
(* hart 1 waits, what each store buffer may hold, and what the report has  *)
(* read, for every HART1_TIMEOUT_CYCLES and every drain order.             *)
THEOREM SmpSafe == Spec => []IInv
  BY InitIInv, NextIInv, PTL DEF Spec

\* The shared words and both program counters stay in their ranges.
THEOREM SmpTyped == Spec => []TypeOK
  <1>1. IInv => TypeOK
    <2> SUFFICES ASSUME IInv PROVE TypeOK
      OBVIOUS
    <2>1. Types
      BY DEF IInv
    <2>2. Values = 0..(1 + MaxCycle) /\ Values \cup {None} = None..(1 + MaxCycle)
      BY SmpAssumption, SMTT(60) DEF Values, None
    <2> QED BY <2>1, <2>2, Layout, Program1 DEF Types, TypeOK
  <1> QED BY <1>1, SmpSafe, PTL

(* spin_lock and spin_unlock keep the lines of smp_print.c whole, whatever *)
(* the order in which stores become visible.                               *)
THEOREM LinesStayWhole == Spec => []LinesWhole
  <1>1. IInv => LinesWhole
    BY DEF IInv, Types, Locks, LinesWhole, Harts
  <1> QED BY <1>1, SmpSafe, PTL

(* The fence of smp_main before smp_release = 1 orders every BSS store of  *)
(* smp_boot.S before hart 1's first store.                                 *)
THEOREM ClearsLandFirst == Spec => []NoLateClear
  <1>1. IInv => NoLateClear
    BY SMTT(60) DEF IInv, Types, Boot, NoLateClear, None
  <1> QED BY <1>1, SmpSafe, PTL

(* When the report is complete hart 1 is parked and its two stamps follow  *)
(* the release stamp in order: neither printed difference wraps.           *)
THEOREM ReportsFaithfully == Spec => []ReportFaithful
  <1>1. IInv => ReportFaithful
    <2> SUFFICES ASSUME IInv, pc[0] = Reported
                 PROVE  /\ At(1, "park")
                        /\ 1 <= got["t_release"]
                        /\ got["t_release"] <= got["t1_entry"]
                        /\ got["t1_entry"] <= got["t1_printed"]
                        /\ got["t1_sp"] = 1
      BY DEF ReportFaithful
    <2>1. Types /\ Boot /\ Published /\ Reads
      BY DEF IInv
    <2>2. pc[0] = 36
      BY Lens, SMTT(60) DEF Reported
    <2>3. pc[1] = 12
      BY <2>1, <2>2, SMTT(60) DEF Types, Published, Reads
    <2>4. At(1, "park")
      BY <2>3, Program1 DEF At, Code
    <2>5. /\ got["t1_entry"] = mem["t1_entry"] /\ got["t_release"] = mem["t_release"]
          /\ got["t1_printed"] = mem["t1_printed"] /\ got["t1_sp"] = mem["t1_sp"]
      BY <2>1, <2>2, SMTT(60) DEF Reads
    <2>6. 1 <= mem["t_release"]
      BY <2>1, <2>2, SMTT(60) DEF Types, Boot, Published, Load, Words, None
    <2>7. mem["t_release"] <= mem["t1_entry"] /\ mem["t1_entry"] <= mem["t1_printed"] /\ mem["t1_sp"] = 1
      BY <2>1, <2>3, SmpAssumption, SMTT(60) DEF Types, Published, Load, Words, Harts, Values
    <2> QED BY <2>4, <2>5, <2>6, <2>7
  <1> QED BY <1>1, SmpSafe, PTL

-----------------------------------------------------------------------------
\* The mapping's values by place in hart 0's program.
LEMMA Stages ==
    ASSUME Types
    PROVE  /\ Verdict = IF pc[0] >= 37 THEN "timeout" ELSE IF pc[0] > 17 THEN "report" ELSE "waiting"
           /\ \A a, b : Shown(a, b) = IF pc[0] = 36 THEN got[a] - got[b] ELSE None
  BY Lens, SMTT(60) DEF Verdict, Shown, TimedOut, Reported, Types

\* Hart 0 moves within the wait or within the report, or does not move.
SameStage ==
    \/ pc'[0] = pc[0] /\ got' = got
    \/ pc[0] \in 1..17 /\ pc'[0] \in 1..17
    \/ pc[0] \in 18..35 /\ pc'[0] \in 18..35
    \/ pc[0] \in 37..38 /\ pc'[0] \in 37..38

\* ... and then neither the verdict nor the report's figures change.
LEMMA StageKept ==
    ASSUME Types, Types', SameStage
    PROVE  UNCHANGED <<Verdict, Shown("t1_entry", "t_release"), Shown("t1_printed", "t1_entry")>>
  <1>1. /\ Verdict = IF pc[0] >= 37 THEN "timeout" ELSE IF pc[0] > 17 THEN "report" ELSE "waiting"
        /\ \A a, b : Shown(a, b) = IF pc[0] = 36 THEN got[a] - got[b] ELSE None
    BY Stages
  <1>2. /\ Verdict' = IF pc'[0] >= 37 THEN "timeout" ELSE IF pc'[0] > 17 THEN "report" ELSE "waiting"
        /\ \A a, b : Shown(a, b)' = IF pc'[0] = 36 THEN got'[a] - got'[b] ELSE None
    BY Lens, SMTT(60) DEF Verdict, Shown, TimedOut, Reported, Types
  <1> QED BY <1>1, <1>2, SMTT(60) DEF SameStage

\* A step that leaves memory, the lines and hart 0's stage alone shows nothing.
LEMMA Unseen ==
    ASSUME Types, Types', SameStage, UNCHANGED <<mem, mid, cycle>>, step'[0] = step[0],
           mem["uart_lock"] = 0 \/ buf'[0]["uart_lock"] = buf[0]["uart_lock"]
    PROVE  UNCHANGED RV!absVars
  <1>1. Holder' = Holder
    BY DEF Holder
  <1>2. \A f, w : Arrived(f, w)' = Arrived(f, w)
    BY DEF Arrived
  <1> QED BY <1>1, <1>2, StageKept DEF RV!absVars

\* Hart 0's operations between lines, the check apart, show nothing.
LEMMA Quiet0 ==
    ASSUME IInv, IInv', BssClear(0) \/ DoStamp(0) \/ DoSet(0) \/ DoFence(0) \/ DoGet(0) \/ DoPoll(0)
    PROVE  UNCHANGED RV!absVars
  <1>1. Types /\ Types' /\ Locks
    BY DEF IInv
  <1>2. UNCHANGED <<mem, mid, cycle>> /\ step'[0] = step[0] /\ Moved(0)
    BY <1>1, Effects DEF BssClear, DoStamp, DoSet, DoFence, DoGet, DoPoll, Harts
  <1>3. pc[0] \in 1..7 \/ pc[0] \in {12, 13, 14, 16} \/ pc[0] \in 18..34
    BY <1>1, Places0 DEF BssClear, DoStamp, DoSet, DoFence, DoGet, DoPoll, Place0
  <1>4. SameStage
    BY <1>2, <1>3, SMTT(60) DEF SameStage, Moved
  <1>5. mem["uart_lock"] = 0 \/ buf'[0]["uart_lock"] = buf[0]["uart_lock"]
    <2>1. CASE BssClear(0)
      <3>1. pc[0] \in 1..7
        BY <1>1, <2>1, Places0 DEF BssClear, Place0
      <3> QED BY <1>1, <3>1, SMTT(60) DEF Locks
    <2>0. "uart_lock" \in Words
      BY DEF Words
    <2>2. ASSUME NEW w \in Words, NEW v \in Values, Store(0, w, v), w # "uart_lock"
          PROVE  buf'[0]["uart_lock"] = buf[0]["uart_lock"]
      <3>1. Stored(0, w, v)
        <4>1. 0 \in Harts
          BY DEF Harts
        <4> QED BY <1>1, <2>2, <4>1, Effects
      <3> QED BY <2>0, <2>2, <3>1 DEF Stored
    <2>3. CASE DoStamp(0) \/ DoSet(0)
      BY <1>1, <2>2, <2>3, Places0, ValueTypes DEF DoStamp, DoSet, Place0, Words
    <2>4. CASE DoFence(0) \/ DoGet(0) \/ DoPoll(0)
      BY <2>4 DEF DoFence, DoGet, DoPoll
    <2> QED BY <2>1, <2>3, <2>4
  <1> QED BY <1>1, <1>2, <1>4, <1>5, Unseen

\* So do hart 1's, and the loops.
LEMMA Quiet1 ==
    ASSUME IInv, IInv', \/ DoStamp(1) \/ DoSet(1) \/ DoFence(1) \/ DoAwait(1) \/ SpinUnlock(1)
                        \/ UNCHANGED vars
    PROVE  UNCHANGED RV!absVars
  <1>1. Types /\ Types'
    BY DEF IInv
  <1>2. CASE UNCHANGED vars
    BY <1>1, <1>2, Unseen DEF vars, SameStage
  <1>3. ASSUME NEW w \in Words, NEW v \in Values, Store(1, w, v) PROVE buf'[0] = buf[0]
    BY <1>1, <1>3, SMTT(60) DEF Types, Store, Harts
  <1>4. CASE DoStamp(1) \/ DoSet(1) \/ DoFence(1) \/ DoAwait(1) \/ SpinUnlock(1)
    <2>1. UNCHANGED <<mem, mid, cycle, got>> /\ Advance(1)
      BY <1>4 DEF DoStamp, DoSet, DoFence, DoAwait, SpinUnlock
    <2>2. pc'[0] = pc[0]
      BY <1>1, <2>1, SMTT(60) DEF Advance, Types, Harts
    <2>3. step'[0] = step[0]
      BY <1>1, <1>4, SMTT(60) DEF DoStamp, DoSet, DoFence, DoAwait, SpinUnlock, Types, Harts
    <2>4. DoStamp(1) \/ DoSet(1) => Word(1) \in Words
      BY <1>1, Places1 DEF DoStamp, DoSet, Place1, Words
    <2>5. "uart_lock" \in Words
      BY DEF Words
    <2>6. buf'[0] = buf[0]
      BY <1>1, <1>3, <1>4, <2>4, <2>5, ValueTypes DEF DoStamp, DoSet, DoFence, DoAwait, SpinUnlock
    <2> QED BY <1>1, <2>1, <2>2, <2>3, <2>6, Unseen DEF SameStage
  <1> QED BY <1>2, <1>4

\* A hart inside a line holds the lock, alone.
LEMMA HolderIs ==
    ASSUME Types, Locks, NEW h \in Harts, step[h] # "lock"
    PROVE  Holder = h /\ mid = IF step[h] = "last" THEN {h} ELSE {}
  <1>1. /\ mem["uart_lock"] = 1 /\ buf[0]["uart_lock"] = None
        /\ \A k \in Harts \ {h} : step[k] = "lock"
    BY DEF Locks, Harts
  <1>2. Holder = h
    BY <1>1, SMTT(60) DEF Holder, None, Harts
  <1>3. \A k \in Harts : k \in mid <=> k = h /\ step[h] = "last"
    BY <1>1 DEF Locks
  <1>4. mid \subseteq Harts
    BY DEF Types
  <1> QED BY <1>2, <1>3, <1>4

\* Once hart1_done is visible, so is all that hart 1 published.
LEMMA Delivered ==
    ASSUME IInv, pc[1] = 12
    PROVE  /\ mem["smp_release"] # 0 /\ mem["t_release"] \in 1..(1 + cycle)
           /\ mem["t1_entry"] \in mem["t_release"]..(1 + cycle)
           /\ mem["t1_printed"] \in mem["t1_entry"]..(1 + cycle) /\ mem["t1_sp"] = 1
  <1>1. Types /\ Boot /\ Published
    BY DEF IInv
  <1>2. pc[0] >= 15 /\ mem["smp_release"] # 0
    BY <1>1, SMTT(60) DEF Types, Boot
  <1>3. buf[0]["t_release"] = None /\ \A w \in Words \ {"hart1_done"} : buf[1][w] = None
    BY <1>1, <1>2, SMTT(60) DEF Types, Boot, Published, Words
  <1> QED BY <1>1, <1>2, <1>3, SMTT(60) DEF Types, Published, Load, Words

\* spin_lock takes a free lock.
LEMMA LockTakes == ASSUME IInv, IInv', NEW h \in Harts, SpinLock(h) PROVE RV!Acquire(h)
  <1>1. Types /\ Types' /\ Locks /\ Locks'
    BY DEF IInv
  <1>2. /\ mem["uart_lock"] = 0 /\ mem' = [mem EXCEPT !["uart_lock"] = 1]
        /\ step' = [step EXCEPT ![h] = "first"] /\ UNCHANGED <<buf, pc, mid, got, cycle>>
    BY DEF SpinLock
  <1>3. step'[h] # "lock"
    BY <1>1, <1>2 DEF Types
  <1>4. Holder' = h
    <2>1. /\ mem'["uart_lock"] = 1 /\ buf'[0]["uart_lock"] = None
          /\ \A k \in Harts \ {h} : step'[k] = "lock"
      BY <1>1, <1>3 DEF Locks, Harts
    <2> QED BY <1>3, <2>1, SMTT(60) DEF Holder, None, Harts
  <1>5. Holder = None
    BY <1>2 DEF Holder
  <1>6. \A w \in Words \ {"uart_lock"} : mem'[w] = mem[w]
    BY <1>1, <1>2 DEF Types
  <1>7. \A f, w \in Words \ {"uart_lock"} : Arrived(f, w)' = Arrived(f, w)
    BY <1>6 DEF Arrived
  <1>8. SameStage
    BY <1>2 DEF SameStage
  <1> QED BY <1>1, <1>2, <1>4, <1>5, <1>7, <1>8, StageKept
          DEF RV!Acquire, RV!Nobody, RV!result, RV!shown, None, Words

\* The two halves of a line.
LEMMA LineBegins == ASSUME IInv, IInv', NEW h \in Harts, PutFirst(h) PROVE RV!BeginLine(h)
  <1>1. Types /\ Types' /\ Locks /\ Locks'
    BY DEF IInv
  <1>2. /\ step[h] = "first" /\ mid' = mid \cup {h} /\ step' = [step EXCEPT ![h] = "last"]
        /\ UNCHANGED <<mem, buf, pc, got, cycle>>
    BY DEF PutFirst
  <1>3. Holder = h /\ mid = {}
    BY <1>1, <1>2, HolderIs
  <1>4. (step'[0] = "lock") <=> (step[0] = "lock")
    BY <1>1, <1>2, SMTT(60) DEF Types, Harts
  <1>5. Holder' = Holder
    BY <1>2, <1>4 DEF Holder
  <1>6. \A f, w : Arrived(f, w)' = Arrived(f, w)
    BY <1>2 DEF Arrived
  <1>7. SameStage
    BY <1>2 DEF SameStage
  <1> QED BY <1>1, <1>2, <1>3, <1>5, <1>6, <1>7, StageKept DEF RV!BeginLine, RV!result, RV!shown

\* The rest of the line is out before the lock is let go.
LEMMA LineEnds == ASSUME IInv, IInv', NEW h \in Harts, PutLast(h) PROVE RV!EndLine(h)
  <1>1. Types /\ Types' /\ Locks /\ Locks'
    BY DEF IInv
  <1>2. /\ step[h] = "last" /\ mid' = mid \ {h} /\ step' = [step EXCEPT ![h] = "unlock"]
        /\ UNCHANGED <<mem, buf, pc, got, cycle>>
    BY DEF PutLast
  <1>3. Holder = h /\ mid = {h}
    BY <1>1, <1>2, HolderIs
  <1>4. (step'[0] = "lock") <=> (step[0] = "lock")
    BY <1>1, <1>2, SMTT(60) DEF Types, Harts
  <1>5. Holder' = Holder
    BY <1>2, <1>4 DEF Holder
  <1>6. \A f, w : Arrived(f, w)' = Arrived(f, w)
    BY <1>2 DEF Arrived
  <1>7. SameStage
    BY <1>2 DEF SameStage
  <1> QED BY <1>1, <1>2, <1>3, <1>5, <1>6, <1>7, StageKept DEF RV!EndLine, RV!result, RV!shown

\* hart 0's spin_unlock keeps the lock until its store lands; the last one ends the report.
LEMMA UnlockShows == ASSUME IInv, IInv', SpinUnlock(0) PROVE RV!ShowReport \/ UNCHANGED RV!absVars
  <1>1. Types /\ Types' /\ Locks /\ Published /\ Reads
    BY DEF IInv
  <1>2. /\ step[0] = "unlock" /\ Moved(0) /\ Stored(0, "uart_lock", 0)
        /\ UNCHANGED <<mem, mid, got, cycle>>
    BY <1>1, ValueTypes, Effects DEF SpinUnlock, Harts, Words
  <1>3. Holder' = Holder
    <2>1. Holder = 0 /\ mem["uart_lock"] = 1
      BY <1>1, <1>2, HolderIs DEF Locks, Harts
    <2> QED BY <1>2, <2>1, SMTT(60) DEF Holder, Stored
  <1>4. \A f, w : Arrived(f, w)' = Arrived(f, w)
    BY <1>2 DEF Arrived
  <1>5. pc[0] \in 8..37 /\ pc[0] \notin {17, 36}
    BY <1>1, Places0 DEF SpinUnlock, Place0
  <1>6. CASE pc[0] # 35
    <2>1. SameStage
      BY <1>2, <1>5, <1>6, SMTT(60) DEF SameStage, Moved
    <2> QED BY <1>1, <1>2, <1>3, <1>4, <2>1, StageKept DEF RV!absVars
  <1>7. CASE pc[0] = 35
    <2>1. pc'[0] = 36
      BY <1>2, <1>7, SMTT(60) DEF Moved
    <2>2. mem["hart1_done"] # 0 /\ mem["smp_release"] # 0
      <3>1. mem["hart1_done"] # 0
        BY <1>1, <1>7, SMTT(60) DEF Reads
      <3>2. pc[1] = 12
        BY <1>1, <3>1, SMTT(60) DEF Types, Published
      <3> QED BY <3>1, <3>2, Delivered
    <2>3. /\ got["t1_entry"] = mem["t1_entry"] /\ got["t_release"] = mem["t_release"]
          /\ got["t1_printed"] = mem["t1_printed"]
      BY <1>1, <1>7, SMTT(60) DEF Reads
    <2>4. /\ Verdict = "report" /\ \A a, b : Shown(a, b) = None
          /\ Verdict' = "report" /\ \A a, b : Shown(a, b)' = got[a] - got[b]
      BY <1>2, <1>7, <2>1, Lens, SMTT(60) DEF Verdict, Shown, TimedOut, Reported
    <2>5. RV!ShowReport
      BY <1>2, <1>3, <1>4, <2>2, <2>3, <2>4
         DEF RV!ShowReport, RV!console, RV!result, RV!None, None, Arrived
    <2> QED BY <2>5
  <1> QED BY <1>6, <1>7

\* The check decides: a timeout only past the deadline, with no result to be seen.
LEMMA CheckDecides == ASSUME IInv, IInv', DoCheck(0) PROVE RV!Decide
  <1>1. Types /\ Types' /\ Boot /\ Published /\ Reads
    BY DEF IInv
  <1>2. pc[0] = 17
    BY <1>1, Places0 DEF DoCheck, Place0
  <1>3. buf[0]["hart1_done"] = None
    BY <1>1, <1>2, SMTT(60) DEF Boot, Words
  <1>4. /\ pc'[0] = IF mem["hart1_done"] = 0 THEN 37 ELSE 18
        /\ UNCHANGED <<mem, buf, step, mid, got, cycle>>
    BY <1>1, <1>2, <1>3, Lens, SMTT(60) DEF DoCheck, Load, TimedOut, Reported, Types, Harts
  <1>5. Holder' = Holder /\ \A f, w : Arrived(f, w)' = Arrived(f, w)
    BY <1>4 DEF Holder, Arrived
  <1>6. /\ Verdict = "waiting" /\ Verdict' = IF mem["hart1_done"] = 0 THEN "timeout" ELSE "report"
        /\ \A a, b : Shown(a, b)' = Shown(a, b)
    BY <1>2, <1>4, Lens, SMTT(60) DEF Verdict, Shown, TimedOut, Reported
  <1>7. mem["hart1_done"] # 0 => mem["t1_entry"] # 0
    <2> SUFFICES ASSUME mem["hart1_done"] # 0 PROVE mem["t1_entry"] # 0
      OBVIOUS
    <2>1. pc[1] = 12
      BY <1>1, SMTT(60) DEF Types, Published
    <2> QED BY <1>1, <2>1, Delivered, SMTT(60) DEF Types
  <1>8. mem["hart1_done"] = 0 => cycle >= Timeout
    BY <1>1, <1>2 DEF Reads
  <1> QED BY <1>4, <1>5, <1>6, <1>7, <1>8 DEF RV!Decide, RV!console, RV!result, RV!shown, Arrived

\* What a drained store changes.
Drained(h, w) ==
    /\ buf[h][w] # None /\ mem'[w] = buf[h][w] /\ \A x \in Words \ {w} : mem'[x] = mem[x]
    /\ buf'[h][w] = None /\ \A x \in Words \ {w} : buf'[h][x] = buf[h][x]
    /\ buf'[1 - h] = buf[1 - h]
    /\ UNCHANGED <<pc, step, mid, got, cycle>>

\* Drain picks one word of the hart's buffer.
LEMMA DrainOne == ASSUME Types, NEW h \in Harts, Drain(h) PROVE \E w \in Words : Drained(h, w)
  <1>1. PICK w \in Words : /\ buf[h][w] # None /\ mem' = [mem EXCEPT ![w] = buf[h][w]]
                           /\ buf' = [buf EXCEPT ![h] = [buf[h] EXCEPT ![w] = None]]
                           /\ UNCHANGED <<pc, step, mid, got, cycle>>
    BY DEF Drain
  <1>2. buf[h] \in [Words -> Values \cup {None}] /\ 1 - h \in Harts /\ 1 - h # h
    BY SMTT(60) DEF Types, Harts
  <1>3. mem'[w] = buf[h][w] /\ \A x \in Words \ {w} : mem'[x] = mem[x]
    BY <1>1 DEF Types
  <1>4. /\ buf'[h][w] = None /\ \A x \in Words \ {w} : buf'[h][x] = buf[h][x]
        /\ buf'[1 - h] = buf[1 - h]
    BY <1>1, <1>2 DEF Types
  <1> QED BY <1>1, <1>3, <1>4 DEF Drained

\* A store to the lock that lands is its holder's release, or bss_loop's clear.
LEMMA ReleaseLands ==
    ASSUME IInv, IInv', NEW h \in Harts, Drained(h, "uart_lock")
    PROVE  RV!LetGo(h) \/ UNCHANGED RV!absVars
  <1>1. Types /\ Types' /\ Locks /\ Boot
    BY DEF IInv
  <1>2. /\ buf[h]["uart_lock"] = 0 /\ mem'["uart_lock"] = 0
        /\ \A x \in Words \ {"uart_lock"} : mem'[x] = mem[x]
        /\ UNCHANGED <<pc, step, mid, got, cycle>>
    BY <1>1 DEF Drained, Locks
  <1>3. \A f, w \in Words \ {"uart_lock"} : Arrived(f, w)' = Arrived(f, w)
    BY <1>2 DEF Arrived
  <1>4. SameStage /\ Holder' = None
    BY <1>2 DEF SameStage, Holder
  <1>5. CASE mem["uart_lock"] = 0
    <2>1. Holder = None
      BY <1>5 DEF Holder
    <2> QED BY <1>1, <1>2, <1>3, <1>4, <2>1, StageKept DEF RV!absVars, Words
  <1>6. CASE mem["uart_lock"] # 0
    <2>1. /\ \A k \in Harts : step[k] = "lock"
          /\ h = 1 => buf[0]["uart_lock"] = None
      BY <1>1, <1>2, SMTT(60) DEF Locks, Harts, None
    <2>2. Holder = h
      BY <1>2, <1>6, <2>1, SMTT(60) DEF Holder, Harts, None
    <2>3. mid = {}
      BY <1>1, <2>1 DEF Locks, Types
    <2>4. RV!LetGo(h)
      BY <1>1, <1>2, <1>3, <1>4, <2>2, <2>3, StageKept
         DEF RV!LetGo, RV!Nobody, RV!result, RV!shown, None, Words
    <2> QED BY <2>4
  <1> QED BY <1>5, <1>6

\* smp_release becomes visible after the stamp it announces.
LEMMA StartLands ==
    ASSUME IInv, IInv', Drained(0, "smp_release") PROVE RV!StartHart1 \/ UNCHANGED RV!absVars
  <1>1. Types /\ Types' /\ Boot /\ Published
    BY DEF IInv
  <1>2. /\ buf[0]["smp_release"] # None /\ mem'["smp_release"] = buf[0]["smp_release"]
        /\ \A x \in Words \ {"smp_release"} : mem'[x] = mem[x]
        /\ buf'[0]["uart_lock"] = buf[0]["uart_lock"]
        /\ UNCHANGED <<pc, step, mid, got, cycle>>
    BY DEF Drained, Words
  <1>3. \A w \in Words : Arrived("hart1_done", w)' = Arrived("hart1_done", w) \/ w = "smp_release"
    BY <1>2 DEF Arrived, Words
  <1>4. SameStage /\ Holder' = Holder
    BY <1>2 DEF SameStage, Holder, Words
  <1>5. CASE Arrived("smp_release", "t_release")' = Arrived("smp_release", "t_release")
    BY <1>1, <1>2, <1>3, <1>4, <1>5, StageKept DEF RV!absVars, Words
  <1>6. CASE Arrived("smp_release", "t_release")' # Arrived("smp_release", "t_release")
    <2>1. mem["smp_release"] = 0 /\ mem'["smp_release"] # 0
      BY <1>1, <1>2, <1>6, SMTT(60) DEF Arrived, Boot, Types, Words, None
    <2>2. mem["t_release"] \in 1..(1 + cycle)
      BY <1>1, <1>2, <2>1, SMTT(60) DEF Boot, Published, Types, Load, Words, None
    <2>3. RV!StartHart1
      BY <1>1, <1>2, <1>3, <1>4, <2>1, <2>2, StageKept
         DEF RV!StartHart1, RV!console, RV!result, RV!shown, Arrived, Words
    <2> QED BY <2>3
  <1> QED BY <1>5, <1>6

\* hart1_done becomes visible after the whole result.
LEMMA ResultLands ==
    ASSUME IInv, IInv', Drained(1, "hart1_done") PROVE RV!FinishHart1 \/ UNCHANGED RV!absVars
  <1>1. Types /\ Types' /\ Boot /\ Published
    BY DEF IInv
  <1>2. /\ buf[1]["hart1_done"] # None /\ mem'["hart1_done"] = buf[1]["hart1_done"]
        /\ \A x \in Words \ {"hart1_done"} : mem'[x] = mem[x]
        /\ buf'[0] = buf[0]
        /\ UNCHANGED <<pc, step, mid, got, cycle>>
    <2>1. 1 - 1 = 0
      BY SMTT(60)
    <2> QED BY <2>1 DEF Drained
  <1>3. pc[1] = 12 /\ mem'["hart1_done"] # 0
    BY <1>1, <1>2, SMTT(60) DEF Published, Types, Load, None
  <1>4. SameStage /\ Holder' = Holder
    BY <1>2 DEF SameStage, Holder, Words
  <1>5. Arrived("smp_release", "t_release")' = Arrived("smp_release", "t_release")
    BY <1>2 DEF Arrived, Words
  <1>6. CASE mem["hart1_done"] # 0
    <2>1. \A w \in Words \ {"hart1_done"} : Arrived("hart1_done", w)' = Arrived("hart1_done", w)
      BY <1>2, <1>3, <1>6 DEF Arrived
    <2> QED BY <1>1, <1>2, <1>4, <1>5, <2>1, StageKept DEF RV!absVars, Words
  <1>7. CASE mem["hart1_done"] = 0
    <2>1. mem["smp_release"] # 0 /\ mem["t_release"] # 0
      BY <1>1, <1>3, Delivered, SMTT(60)
    <2>2. \A w \in Words \ {"hart1_done"} : Arrived("hart1_done", w)' = mem[w]
      BY <1>2, <1>3 DEF Arrived
    <2>3. RV!FinishHart1
      BY <1>1, <1>2, <1>3, <1>4, <1>5, <1>7, <2>1, <2>2, Delivered, StageKept
         DEF RV!FinishHart1, RV!console, RV!shown, Arrived, Words
    <2> QED BY <2>3
  <1> QED BY <1>6, <1>7

\* The other stores land before the flag that announces them is visible.
LEMMA PayloadLands ==
    ASSUME IInv, IInv', NEW h \in Harts, NEW w \in Words, Drained(h, w), w # "uart_lock",
           ~(h = 0 /\ w = "smp_release"), ~(h = 1 /\ w = "hart1_done")
    PROVE  UNCHANGED RV!absVars
  <1>1. Types /\ Types' /\ Locks /\ Boot /\ Published
    BY DEF IInv
  <1>2. /\ buf[h][w] # None /\ mem'[w] = buf[h][w] /\ \A x \in Words \ {w} : mem'[x] = mem[x]
        /\ UNCHANGED <<pc, step, mid, got, cycle>> /\ mem'["uart_lock"] = mem["uart_lock"]
    BY DEF Drained, Words
  <1>3. buf'[0]["uart_lock"] = buf[0]["uart_lock"]
    <2>1. CASE h = 0
      BY <2>1 DEF Drained, Words
    <2>2. CASE h = 1
      BY <2>2, SMTT(60) DEF Drained
    <2> QED BY <2>1, <2>2 DEF Harts
  <1>4. SameStage /\ Holder' = Holder
    BY <1>2, <1>3 DEF SameStage, Holder
  <1>5. CASE h = 0
    <2>1. pc[0] <= 13
      BY <1>1, <1>2, <1>5, SMTT(60) DEF Boot, Types
    <2>2. mem["smp_release"] = 0 /\ mem["hart1_done"] = 0 /\ pc[1] = 1
      BY <1>1, <2>1, SMTT(60) DEF Boot, Published, Types
    <2>3. mem'["smp_release"] = 0
      BY <1>2, <1>5, <2>2 DEF Words
    <2>4. mem'["hart1_done"] = 0
      BY <1>1, <1>2, <1>5, <2>1, <2>2, SMTT(60) DEF Boot, Words, None
    <2>5. \A x : /\ Arrived("smp_release", x)' = Arrived("smp_release", x)
                 /\ Arrived("hart1_done", x)' = Arrived("hart1_done", x)
      BY <2>2, <2>3, <2>4 DEF Arrived
    <2> QED BY <1>1, <1>2, <1>4, <2>5, StageKept DEF RV!absVars
  <1>6. CASE h = 1
    <2>1. w \notin {"smp_release", "t_release"}
      BY <1>1, <1>2, <1>6 DEF Boot
    <2>2. Arrived("smp_release", "t_release")' = Arrived("smp_release", "t_release")
      BY <1>2, <2>1 DEF Arrived, Words
    <2>3. mem["hart1_done"] = 0 /\ mem'["hart1_done"] = 0
      BY <1>1, <1>2, <1>6, SMTT(60) DEF Published, Types, Words
    <2>4. \A x : Arrived("hart1_done", x)' = Arrived("hart1_done", x)
      BY <2>3 DEF Arrived
    <2> QED BY <1>1, <1>2, <1>4, <2>2, <2>4, StageKept DEF RV!absVars
  <1> QED BY <1>5, <1>6 DEF Harts

\* The counter.
LEMMA ClockTicks == ASSUME IInv, IInv', ClockTick PROVE RV!Tick
  <1>1. Types /\ Types' /\ cycle' = cycle + 1 /\ UNCHANGED <<mem, buf, pc, step, mid, got>>
    BY DEF IInv, ClockTick
  <1>2. SameStage /\ Holder' = Holder /\ \A f, w : Arrived(f, w)' = Arrived(f, w)
    BY <1>1 DEF SameStage, Holder, Arrived
  <1> QED BY <1>1, <1>2, StageKept DEF RV!Tick, RV!console, RV!result, RV!shown

\* Every step of the bring-up is a step of the rendezvous, or shows nothing.
LEMMA StepRefines == IInv /\ IInv' /\ [Next]_vars => [RV!RVNext]_(RV!absVars)
  <1> SUFFICES ASSUME IInv, IInv', [Next]_vars PROVE [RV!RVNext]_(RV!absVars)
    OBVIOUS
  <1>h. 0 \in Harts /\ 1 \in Harts
    BY DEF Harts
  <1>1. CASE Hart0
    <2>1. CASE SpinLock(0) \/ PutFirst(0) \/ PutLast(0)
      BY <1>h, <2>1, LockTakes, LineBegins, LineEnds DEF RV!RVNext
    <2>2. CASE SpinUnlock(0) \/ DoCheck(0)
      BY <2>2, UnlockShows, CheckDecides DEF RV!RVNext
    <2> QED BY <1>1, <2>1, <2>2, Quiet0 DEF Hart0, Step
  <1>2. CASE Hart1
    <2>1. CASE SpinLock(1) \/ PutFirst(1) \/ PutLast(1)
      BY <1>h, <2>1, LockTakes, LineBegins, LineEnds DEF RV!RVNext
    <2> QED BY <1>2, <2>1, Quiet1 DEF Hart1, Step
  <1>3. ASSUME NEW h \in Harts, Drain(h) PROVE [RV!RVNext]_(RV!absVars)
    <2>1. PICK w \in Words : Drained(h, w)
      BY <1>3, DrainOne DEF IInv
    <2>2. CASE w = "uart_lock"
      BY <2>1, <2>2, ReleaseLands DEF RV!RVNext
    <2>3. CASE h = 0 /\ w = "smp_release"
      BY <2>1, <2>3, StartLands DEF RV!RVNext
    <2>4. CASE h = 1 /\ w = "hart1_done"
      BY <2>1, <2>4, ResultLands DEF RV!RVNext
    <2> QED BY <2>1, <2>2, <2>3, <2>4, PayloadLands
  <1>4. CASE ClockTick
    BY <1>4, ClockTicks DEF RV!RVNext
  <1>5. CASE (\E h \in Harts : Spin(h)) \/ UNCHANGED vars
    BY <1>5, Quiet1 DEF Spin
  <1> QED BY <1>1, <1>2, <1>3, <1>4, <1>5 DEF Next

(* The bring-up implements the rendezvous for every timeout and every      *)
(* order in which stores become visible: lines printed under uart_lock are *)
(* whole, smp_release and hart1_done deliver their payload at once, a      *)
(* timeout is reported only past the deadline and with no result to be     *)
(* seen, and the report shows the differences of the delivered stamps.     *)
THEOREM SmpRefines == Spec => ImplementsRendezvous
  <1>1. Init => RV!RVInit
    <2> SUFFICES ASSUME Init PROVE RV!RVInit
      OBVIOUS
    <2>1. /\ mem["uart_lock"] = 0 /\ mem["smp_release"] = 0 /\ mem["hart1_done"] = 0
          /\ pc[0] = 1 /\ mid = {} /\ cycle = 0
      BY DEF Init, Words, Harts
    <2>2. Verdict = "waiting" /\ \A a, b : Shown(a, b) = None
      BY <2>1, Lens, SMTT(60) DEF Verdict, Shown, TimedOut, Reported
    <2> QED BY <2>1, <2>2 DEF RV!RVInit, RV!Nobody, RV!None, RV!result, RV!shown, None, Holder, Arrived
  <1> QED BY <1>1, StepRefines, SmpSafe, PTL DEF Spec, ImplementsRendezvous, RV!RVSpec

=============================================================================
