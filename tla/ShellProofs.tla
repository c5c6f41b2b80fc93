---------------------------- MODULE ShellProofs ----------------------------
(* The line editor and the command dispatch for a buffer of any size.        *)
EXTENDS Shell, TLAPS

\* Zenon proves the leaves below; those that need arithmetic, strings or records cite SMT.
USE ZenonT(60)

Places == 0..(LineMax - 1)

Types ==
    /\ line \in [Places -> Chars \cup {Nul}] /\ line_len \in Places
    /\ row \in [Places -> Chars] /\ col \in Places
    /\ pc \in {"read", "run", "trap", "lost"}
    /\ typed \in Seq(Chars) /\ Len(typed) = line_len

\* The buffer mirrors what was typed, and always ends somewhere.
Mirror ==
    /\ \A k \in Places : k < line_len => line[k] = typed[k + 1]
    /\ pc \in {"run", "trap"} => line[line_len] = Nul

\* The row shows the line while it is edited, and is blank afterwards.
Shown ==
    IF pc = "read"
    THEN col = line_len /\ \A k \in Places : row[k] = IF k < line_len THEN line[k] ELSE Space
    ELSE col = 0 /\ \A k \in Places : row[k] = Space

IInv == Types /\ Mirror /\ Shown

-----------------------------------------------------------------------------
\* Typing appends, and erasing drops, the last character.
LEMMA Typing ==
    ASSUME NEW t \in Seq(Chars), NEW c \in Chars
    PROVE  /\ Append(t, c) \in Seq(Chars) /\ Len(Append(t, c)) = Len(t) + 1
           /\ \A k \in 1..Len(t) : Append(t, c)[k] = t[k]
           /\ Append(t, c)[Len(t) + 1] = c
  BY SMTT(60)

\* A backspace takes the last character off the line and off the screen.
LEMMA Erasing ==
    ASSUME NEW t \in Seq(Chars), Len(t) > 0
    PROVE  LET u == SubSeq(t, 1, Len(t) - 1)
           IN  /\ u \in Seq(Chars) /\ Len(u) = Len(t) - 1
               /\ \A k \in 1..(Len(t) - 1) : u[k] = t[k]
  BY SMTT(60)

\* The program starts with an empty line on an empty row.
LEMMA InitIInv == Init => IInv
  <1> SUFFICES ASSUME Init PROVE IInv
    OBVIOUS
  <1> USE ShellAssumption DEF Init
  <1>1. Space \in Chars /\ 0 \in Places
    BY SMTT(60) DEF Chars, Places
  <1>2. line \in [Places -> Chars \cup {Nul}] /\ row \in [Places -> Chars] /\ \A k \in Places : row[k] = Space
    BY <1>1 DEF Places
  <1>3. typed \in Seq(Chars) /\ Len(typed) = 0
    BY SMTT(60)
  <1>4. \A k \in Places : ~(k < 0)
    BY SMTT(60) DEF Places
  <1> QED BY <1>1, <1>2, <1>3, <1>4 DEF IInv, Types, Mirror, Shown

\* Every key, command and trap keeps the buffer, the row and the typed text in step.
LEMMA NextIInv == IInv /\ [Next]_vars => IInv'
  <1> SUFFICES ASSUME IInv, [Next]_vars PROVE IInv'
    OBVIOUS
  <1>a. Space \in Chars /\ 0 \in Places /\ Places \subseteq Nat /\ \A k \in Places : k < LineMax
    BY ShellAssumption, SMTT(60) DEF Chars, Places
  <1>b. Types /\ Mirror /\ Shown
    BY DEF IInv
  <1>1. CASE TypeChar
    <2>1. CASE line_len < LineMax - 1
      <3>1. PICK c \in Chars :
               /\ line' = [line EXCEPT ![line_len] = c] /\ line_len' = line_len + 1
               /\ typed' = Append(typed, c)
               /\ row' = [row EXCEPT ![col] = c] /\ col' = col + 1
        BY <1>1, <2>1 DEF TypeChar
      <3>2. pc = "read" /\ pc' = "read" /\ col = line_len
        BY <1>1, <1>b DEF TypeChar, Shown
      <3>3. /\ typed' \in Seq(Chars) /\ Len(typed') = line_len' /\ typed'[line_len + 1] = c
            /\ \A k \in 1..line_len : typed'[k] = typed[k]
        BY <1>b, <3>1, Typing DEF Types
      <3>4. line_len + 1 \in Places
        BY <1>b, <2>1, ShellAssumption, SMTT(60) DEF Types, Places
      <3>5. Types'
        BY <1>b, <3>1, <3>2, <3>3, <3>4 DEF Types
      <3>6. \A k \in Places : k < line_len + 1 => k = line_len \/ (k < line_len /\ k + 1 \in 1..line_len)
        BY <1>a, <1>b, SMTT(60) DEF Types
      <3>7. Mirror'
        BY <1>b, <3>1, <3>2, <3>3, <3>6 DEF Mirror, Types
      <3>8. Shown'
        BY <1>a, <1>b, <3>1, <3>2, <3>6, SMTT(60) DEF Shown, Types
      <3> QED BY <3>5, <3>7, <3>8 DEF IInv
    <2>2. CASE ~(line_len < LineMax - 1)
      <3>1. UNCHANGED <<line, line_len, typed, row, col, pc>>
        BY <1>1, <2>2 DEF TypeChar, text
      <3> QED BY <1>b, <3>1 DEF IInv, Types, Mirror, Shown
    <2> QED BY <2>1, <2>2
  <1>2. CASE TypeErase
    <2>1. /\ pc = "read" /\ pc' = "read" /\ col = line_len /\ line_len > 0 /\ line_len' = line_len - 1
          /\ typed' = SubSeq(typed, 1, Len(typed) - 1)
          /\ row' = [row EXCEPT ![col - 1] = Space] /\ col' = col - 1 /\ line' = line
      BY <1>2, <1>b DEF TypeErase, Shown
    <2>2. /\ typed' \in Seq(Chars) /\ Len(typed') = line_len'
          /\ \A k \in 1..(line_len - 1) : typed'[k] = typed[k]
      BY <1>b, <2>1, Erasing DEF Types
    <2>3. line_len - 1 \in Places
      BY <1>b, <2>1, ShellAssumption, SMTT(60) DEF Types, Places
    <2>4. Types'
      BY <1>a, <1>b, <2>1, <2>2, <2>3 DEF Types
    <2>5. \A k \in Places : k < line_len - 1 => k < line_len /\ k + 1 \in 1..(line_len - 1)
      BY <1>a, <1>b, SMTT(60) DEF Types
    <2>6. \A k \in Places : k < line_len <=> k < line_len - 1 \/ k = line_len - 1
      BY <1>a, <1>b, SMTT(60) DEF Types
    <2>7. Mirror'
      BY <1>b, <2>1, <2>2, <2>5 DEF Mirror
    <2>8. Shown'
      BY <1>a, <1>b, <2>1, <2>6, SMTT(60) DEF Shown, Types
    <2> QED BY <2>4, <2>7, <2>8 DEF IInv
  <1>3. CASE TypeEnter
    <2>1. /\ line' = [line EXCEPT ![line_len] = Nul] /\ row' = [k \in DOMAIN row |-> Space] /\ col' = 0
          /\ pc' = "run" /\ UNCHANGED <<line_len, typed>>
      BY <1>3 DEF TypeEnter
    <2>2. Types'
      BY <1>a, <1>b, <2>1 DEF Types
    <2>3. Mirror'
      BY <1>a, <1>b, <2>1, SMTT(60) DEF Mirror, Types
    <2>4. Shown'
      BY <1>b, <2>1 DEF Shown, Types
    <2> QED BY <2>2, <2>3, <2>4 DEF IInv
  <1>4. ASSUME pc \in {"run", "trap"}, pc' = "read", line_len' = 0, typed' = <<>>, UNCHANGED <<line, row, col>>
        PROVE  IInv'
    <2>1. <<>> \in Seq(Chars) /\ Len(<<>>) = 0
      BY SMTT(60)
    <2>2. Types'
      BY <1>a, <1>b, <1>4, <2>1 DEF Types
    <2>3. \A k \in Places : ~(k < 0)
      BY <1>a, SMTT(60)
    <2> QED BY <1>b, <1>4, <2>2, <2>3 DEF IInv, Mirror, Shown
  <1>5. CASE RunCommand
    <2>1. CASE pc' = "trap" /\ UNCHANGED text
      BY <1>5, <1>b, <2>1 DEF RunCommand, text, IInv, Types, Mirror, Shown
    <2> QED BY <1>4, <1>5, <2>1 DEF RunCommand
  <1>6. CASE TrapEntry
    <2>1. CASE mscratch # "bank"
      BY <1>6, <1>b, <2>1 DEF TrapEntry, text, IInv, Types, Mirror, Shown
    <2> QED BY <1>4, <1>6, <2>1 DEF TrapEntry
  <1>7. CASE UNCHANGED vars
    BY <1>7, <1>b DEF vars, IInv, Types, Mirror, Shown
  <1> QED BY <1>1, <1>2, <1>3, <1>5, <1>6, <1>7 DEF Next, Lost, TypeIgnored

(* The inductive invariant holds for every LINE_MAX and every sequence of    *)
(* keys.                                                                     *)
THEOREM ShellSafe == Spec => []IInv
  BY InitIInv, NextIInv, PTL DEF Spec

(* read_line never leaves its buffer, the terminator included.               *)
THEOREM ShellTyped == Spec => []TypeOK
  <1>1. IInv => TypeOK
    BY DEF IInv, Types, TypeOK, Places
  <1> QED BY ShellSafe, <1>1, PTL

(* The echo of read_line shows what the buffer holds, after any typing and   *)
(* erasing.                                                                  *)
THEOREM EchoFaithful == Spec => []ScreenShowsLine
  <1>1. IInv => ScreenShowsLine
    BY DEF IInv, Types, Shown, ScreenShowsLine
  <1> QED BY ShellSafe, <1>1, PTL

-----------------------------------------------------------------------------
\* A scan stops at the least of its places.
LEMMA FirstIs ==
    ASSUME NEW S \in SUBSET Int, NEW m \in S, \A k \in S : m <= k
    PROVE  First(S) = m
  <1> DEFINE n == First(S)
  <1>1. n \in S /\ \A k \in S : n <= k
    BY DEF First
  <1> HIDE DEF n
  <1>2. n <= m /\ m <= n /\ n \in Int /\ m \in Int
    BY <1>1
  <1>3. n = m
    BY <1>2, SMTT(60)
  <1> QED BY <1>3 DEF n

\* What run_command finds in the buffer.
LEMMA Finished ==
    ASSUME IInv, pc = "run"
    PROVE  /\ line_len \in Places /\ line[line_len] = Nul /\ Len(typed) = line_len /\ typed \in Seq(Chars)
           /\ \A k \in Places : k < line_len => line[k] = typed[k + 1] /\ line[k] \in Chars /\ line[k] # Nul
  <1>1. /\ line_len \in Places /\ line[line_len] = Nul /\ Len(typed) = line_len /\ typed \in Seq(Chars)
        /\ \A k \in Places : k < line_len => line[k] = typed[k + 1]
    BY DEF IInv, Types, Mirror
  <1>2. \A k \in Places : k < line_len => typed[k + 1] \in Chars
    BY <1>1, ShellAssumption, SMTT(60) DEF Places
  <1> QED BY <1>1, <1>2 DEF Chars, Space, Nul

\* The C string at line + k is the rest of the typed text.
LEMMA CStrIs ==
    ASSUME IInv, pc = "run", NEW k \in Places, k <= line_len
    PROVE  CStr(k) = [j \in 1..(line_len - k) |-> typed[k + j]]
  <1> DEFINE S == {j \in k..(LineMax - 1) : line[j] = Nul}
  <1>1. S \in SUBSET Int /\ line_len \in S /\ \A j \in S : line_len <= j
    BY Finished, ShellAssumption, SMTT(60) DEF Places
  <1> HIDE DEF S
  <1>2. First(S) = line_len
    BY <1>1, FirstIs
  <1>3. CStr(k) = [j \in 1..(line_len - k) |-> line[k + j - 1]]
    BY <1>2 DEF CStr, S
  <1>4. \A j \in 1..(line_len - k) : line[k + j - 1] = typed[k + j]
    <2> SUFFICES ASSUME NEW j \in 1..(line_len - k) PROVE line[k + j - 1] = typed[k + j]
      OBVIOUS
    <2>1. k + j - 1 \in Places /\ k + j - 1 < line_len /\ (k + j - 1) + 1 = k + j
      BY Finished, ShellAssumption, SMTT(60) DEF Places
    <2> QED BY <2>1, Finished
  <1> QED BY <1>3, <1>4

\* streq with a word of one character.
LEMMA StreqOne ==
    ASSUME IInv, pc = "run", NEW c \in Chars
    PROVE  streq(<<c>>) = (typed = <<c>>)
  <1> DEFINE w == <<c>>
             S == {k \in 0..(LineMax - 1) : line[k] = Nul \/ line[k] # Literal(w, k)}
  <1>0. S \in SUBSET Int /\ 0 \in Places /\ 1 \in Places
    BY ShellAssumption, SMTT(60) DEF Places
  <1>1. streq(w) = (line[First(S)] = Literal(w, First(S)))
    BY DEF streq
  <1>2. Literal(w, 0) = c /\ Literal(w, 1) = Nul
    BY SMTT(60) DEF Literal
  <1>3. CASE line[0] # c
    <2>1. 0 \in S /\ \A k \in S : 0 <= k
      BY <1>0, <1>2, <1>3, SMTT(60) DEF Places
    <2>2. First(S) = 0
      BY <1>0, <2>1, FirstIs
    <2>3. ~streq(w)
      BY <1>1, <1>2, <1>3, <2>2
    <2>4. typed # w
      <3> SUFFICES ASSUME typed = w PROVE FALSE
        OBVIOUS
      <3>1. line_len = 1 /\ typed[1] = c
        BY Finished
      <3>2. line[0] = typed[0 + 1]
        BY <1>0, <3>1, Finished, SMTT(60)
      <3> QED BY <1>3, <3>1, <3>2, SMTT(60)
    <2> QED BY <1>1, <2>3, <2>4
  <1>4. CASE line[0] = c
    <2>1. 0 \notin S
      BY <1>2, <1>4 DEF Chars, Space, Nul
    <2>2. 1 \in S
      BY <1>0, <1>2 DEF Places
    <2>3. \A k \in S : 1 <= k
      BY <2>1, SMTT(60)
    <2>4. First(S) = 1
      BY <1>0, <2>2, <2>3, FirstIs
    <2>5. streq(w) = (line[1] = Nul)
      BY <1>1, <1>2, <2>4
    <2>6. line_len >= 1 /\ typed[1] = c
      <3>1. line_len # 0
        BY <1>4, Finished DEF Chars, Space, Nul
      <3>2. line_len \in Nat
        BY Finished, ShellAssumption, SMTT(60) DEF Places
      <3> QED BY <1>0, <1>4, <3>1, <3>2, Finished, SMTT(60)
    <2>7. (line[1] = Nul) = (line_len = 1)
      BY <1>0, <2>6, Finished, ShellAssumption, SMTT(60) DEF Places
    <2>8. (line_len = 1) = (typed = w)
      BY <2>6, Finished, SMTT(60)
    <2> QED BY <2>5, <2>7, <2>8
  <1> QED BY <1>3, <1>4

\* streq with echo.
LEMMA StreqEcho ==
    ASSUME IInv, pc = "run"
    PROVE  streq(Echo) = (typed = Echo)
  <1> DEFINE S == {k \in 0..(LineMax - 1) : line[k] = Nul \/ line[k] # Literal(Echo, k)}
  <1>0. S \in SUBSET Int /\ 0 \in Places /\ 1 \in Places /\ 2 \in Places
    BY ShellAssumption, SMTT(60) DEF Places
  <1>1. streq(Echo) = (line[First(S)] = Literal(Echo, First(S)))
    BY DEF streq
  <1>2. Literal(Echo, 0) = "e" /\ Literal(Echo, 1) = "c" /\ Literal(Echo, 2) = Nul
    BY SMTT(60) DEF Literal, Echo
  <1>3. typed = Echo => line_len = 2 /\ line[0] = "e" /\ line[1] = "c"
    <2> SUFFICES ASSUME typed = Echo PROVE line_len = 2 /\ line[0] = "e" /\ line[1] = "c"
      OBVIOUS
    <2>1. line_len = 2 /\ typed[1] = "e" /\ typed[2] = "c"
      BY Finished DEF Echo
    <2>2. line[0] = typed[0 + 1] /\ line[1] = typed[1 + 1]
      BY <1>0, <2>1, Finished, SMTT(60)
    <2> QED BY <2>1, <2>2, SMTT(60)
  <1>4. CASE line[0] # "e"
    <2>1. 0 \in S /\ \A k \in S : 0 <= k
      BY <1>0, <1>2, <1>4, SMTT(60) DEF Places
    <2>2. First(S) = 0
      BY <1>0, <2>1, FirstIs
    <2> QED BY <1>1, <1>2, <1>3, <1>4, <2>2
  <1>5. CASE line[0] = "e" /\ line[1] # "c"
    <2>1. 0 \notin S /\ 1 \in S
      BY <1>0, <1>2, <1>5 DEF Places, Nul
    <2>2. \A k \in S : 1 <= k
      BY <2>1, SMTT(60)
    <2>3. First(S) = 1
      BY <1>0, <2>1, <2>2, FirstIs
    <2> QED BY <1>1, <1>2, <1>3, <1>5, <2>3
  <1>6. CASE line[0] = "e" /\ line[1] = "c"
    <2>1. 0 \notin S /\ 1 \notin S /\ 2 \in S
      BY <1>0, <1>2, <1>6 DEF Places, Nul
    <2>2. \A k \in S : 2 <= k
      BY <2>1, SMTT(60)
    <2>3. First(S) = 2
      BY <1>0, <2>1, <2>2, FirstIs
    <2>4. streq(Echo) = (line[2] = Nul)
      BY <1>1, <1>2, <2>3
    <2>5. line_len # 0 /\ line_len # 1
      BY <1>6, Finished DEF Nul
    <2>6. (line[2] = Nul) = (line_len = 2)
      BY <1>0, <2>5, Finished, ShellAssumption, SMTT(60) DEF Places
    <2>7. line_len = 2 => typed = Echo
      <3> SUFFICES ASSUME line_len = 2 PROVE typed = Echo
        OBVIOUS
      <3>1. line[0] = typed[0 + 1] /\ line[1] = typed[1 + 1]
        BY <1>0, Finished, SMTT(60)
      <3>2. Len(typed) = 2 /\ typed[1] = "e" /\ typed[2] = "c" /\ typed \in Seq(Chars)
        BY <1>6, <3>1, Finished, SMTT(60)
      <3> QED BY <3>2, SMTT(60) DEF Echo
    <2> QED BY <1>3, <2>4, <2>6, <2>7
  <1> QED BY <1>4, <1>5, <1>6

\* A sequence of three is known by its elements.
LEMMA Triple ==
    ASSUME NEW t \in Seq(Chars), Len(t) = 3, NEW x \in Chars, NEW y \in Chars, NEW z \in Chars
    PROVE  (t = <<x, y, z>>) = (t[1] = x /\ t[2] = y /\ t[3] = z)
  BY SMTT(60)

\* The word echo and a space.
LEMMA EchoSpace == Append(Echo, Space) = <<"e", "c", Space>> /\ Len(Echo) = 2
  <1>1. Echo \in Seq(Chars) /\ Len(Echo) = 2 /\ Echo[1] = "e" /\ Echo[2] = "c" /\ Space \in Chars
    BY SMTT(60) DEF Echo, Chars
  <1> DEFINE u == Append(Echo, Space)
  <1>2. u \in Seq(Chars) /\ Len(u) = Len(Echo) + 1 /\ u[Len(Echo) + 1] = Space
    BY <1>1, Typing
  <1>3. \A k \in 1..Len(Echo) : u[k] = Echo[k]
    BY <1>1, Typing
  <1>4. Len(Echo) + 1 = 3 /\ 1 \in 1..Len(Echo) /\ 2 \in 1..Len(Echo)
    BY <1>1, SMTT(60)
  <1> HIDE DEF u
  <1>5. Len(u) = 3 /\ u[1] = "e" /\ u[2] = "c" /\ u[3] = Space
    BY <1>1, <1>2, <1>3, <1>4
  <1>6. "e" \in Chars /\ "c" \in Chars
    BY DEF Chars
  <1>7. u = <<"e", "c", Space>>
    BY <1>1, <1>2, <1>5, <1>6, Triple, SMTT(60)
  <1> QED BY <1>1, <1>7 DEF u

\* The first three characters of a text.
LEMMA FirstThree ==
    ASSUME NEW t \in Seq(Chars), Len(t) >= 3
    PROVE  LET u == SubSeq(t, 1, 3)
           IN  u \in Seq(Chars) /\ Len(u) = 3 /\ u[1] = t[1] /\ u[2] = t[2] /\ u[3] = t[3]
  BY SMTT(60)

\* is_echo: echo alone, or followed by a space and an argument.
LEMMA IsEcho ==
    ASSUME IInv, pc = "run"
    PROVE  is_echo = (typed = Echo \/ HasPrefix(typed, Append(Echo, Space)))
  <1> DEFINE pre == line[0] = "e" /\ line[1] = "c" /\ line[2] = Space
  <1>0. 0 \in Places /\ 1 \in Places /\ 2 \in Places /\ line_len \in Nat
    BY Finished, ShellAssumption, SMTT(60) DEF Places
  <1>1. is_echo = (streq(Echo) \/ pre)
    <2>1. Len(Echo) = 2 /\ Echo[1] = "e" /\ Echo[2] = "c"
      BY DEF Echo
    <2>2. (\A k \in 0..(Len(Echo) - 1) : line[k] = Echo[k + 1]) = (line[0] = "e" /\ line[1] = "c")
      <3>1. 0..(Len(Echo) - 1) = {0, 1}
        BY <2>1, SMTT(60)
      <3>2. (\A k \in {0, 1} : line[k] = Echo[k + 1]) = (line[0] = Echo[0 + 1] /\ line[1] = Echo[1 + 1])
        OBVIOUS
      <3>3. Echo[0 + 1] = "e" /\ Echo[1 + 1] = "c"
        BY <2>1, SMTT(60)
      <3> QED BY <3>1, <3>2, <3>3
    <2> QED BY <2>1, <2>2 DEF is_echo
  <1>2. Append(Echo, Space) = <<"e", "c", Space>> /\ Len(<<"e", "c", Space>>) = 3
    BY EchoSpace
  <1>3. HasPrefix(typed, Append(Echo, Space))
          = (Len(typed) >= 3 /\ typed[1] = "e" /\ typed[2] = "c" /\ typed[3] = Space)
    <2>1. CASE Len(typed) >= 3
      <3>1. (SubSeq(typed, 1, 3) = <<"e", "c", Space>>)
              = (typed[1] = "e" /\ typed[2] = "c" /\ typed[3] = Space)
        <4>1. typed \in Seq(Chars) /\ "e" \in Chars /\ "c" \in Chars /\ Space \in Chars
          BY Finished DEF Chars
        <4> DEFINE u == SubSeq(typed, 1, 3)
        <4>2. u \in Seq(Chars) /\ Len(u) = 3 /\ u[1] = typed[1] /\ u[2] = typed[2] /\ u[3] = typed[3]
          BY <2>1, <4>1, FirstThree
        <4> HIDE DEF u
        <4>3. (u = <<"e", "c", Space>>) = (u[1] = "e" /\ u[2] = "c" /\ u[3] = Space)
          BY <4>1, <4>2, Triple, SMTT(60)
        <4> QED BY <4>2, <4>3 DEF u
      <3> QED BY <1>2, <2>1, <3>1 DEF HasPrefix
    <2>2. CASE ~(Len(typed) >= 3)
      BY <1>2, <2>2 DEF HasPrefix
    <2> QED BY <2>1, <2>2
  <1>4. line_len >= 3 => line[0] = typed[0 + 1] /\ line[1] = typed[1 + 1] /\ line[2] = typed[2 + 1]
    BY <1>0, Finished, SMTT(60)
  <1>5. pre => line_len >= 3
    <2>1. pre => line_len # 0 /\ line_len # 1 /\ line_len # 2
      BY Finished DEF Space, Nul
    <2> QED BY <1>0, <2>1, SMTT(60)
  <1>6. pre = (Len(typed) >= 3 /\ typed[1] = "e" /\ typed[2] = "c" /\ typed[3] = Space)
    BY <1>4, <1>5, Finished, SMTT(60)
  <1> QED BY <1>1, <1>3, <1>6, StreqEcho

(* A finished line runs the command the user typed, for every LINE_MAX:     *)
(* streq, is_echo and cmd_echo never read an older line's remains.          *)
THEOREM DispatchFaithful == Spec => []CommandAsTyped
  <1>1. IInv => CommandAsTyped
    <2> SUFFICES ASSUME IInv, pc = "run"
                 PROVE  /\ CStr(0) = typed /\ line_len = Len(typed)
                        /\ streq(Help) = (typed = Help) /\ streq(Regs) = (typed = Regs)
                        /\ is_echo = (typed = Echo \/ HasPrefix(typed, Append(Echo, Space)))
                        /\ is_echo => EchoText = SubSeq(typed, Len(Echo) + 2, Len(typed))
      BY DEF CommandAsTyped
    <2>0. 0 \in Places /\ 1 \in Places /\ 2 \in Places /\ 3 \in Places /\ line_len \in Nat
      BY Finished, ShellAssumption, SMTT(60) DEF Places
    <2>1. CStr(0) = typed /\ line_len = Len(typed)
      <3>1. CStr(0) = [j \in 1..(line_len - 0) |-> typed[0 + j]]
        BY <2>0, CStrIs, SMTT(60)
      <3> QED BY <3>1, <2>0, Finished, SMTT(60)
    <2>2. streq(Help) = (typed = Help) /\ streq(Regs) = (typed = Regs)
      BY StreqOne DEF Help, Regs, Chars
    <2>3. is_echo = (typed = Echo \/ HasPrefix(typed, Append(Echo, Space)))
      BY IsEcho
    <2>4. ASSUME typed = Echo PROVE EchoText = SubSeq(typed, Len(Echo) + 2, Len(typed))
      <3>1. Len(Echo) = 2 /\ line_len = 2
        BY <2>4, Finished DEF Echo
      <3>2. EchoText = CStr(2)
        BY <3>1, Finished DEF EchoText, Space, Nul
      <3>3. CStr(2) = [j \in 1..(line_len - 2) |-> typed[2 + j]]
        BY <2>0, <3>1, CStrIs, SMTT(60)
      <3>4. SubSeq(typed, 4, 2) = <<>>
        BY Finished, SMTT(60)
      <3>5. [j \in 1..(line_len - 2) |-> typed[2 + j]] = <<>>
        BY <3>1, SMTT(60)
      <3>6. Len(Echo) + 2 = 4 /\ Len(typed) = 2
        BY <3>1, Finished, SMTT(60)
      <3> QED BY <3>2, <3>3, <3>4, <3>5, <3>6
    <2>5. ASSUME HasPrefix(typed, Append(Echo, Space))
          PROVE  EchoText = SubSeq(typed, Len(Echo) + 2, Len(typed))
      <3>1. Len(Echo) = 2 /\ Append(Echo, Space) = <<"e", "c", Space>> /\ Len(<<"e", "c", Space>>) = 3
        BY EchoSpace
      <3>2. line_len >= 3 /\ SubSeq(typed, 1, 3) = <<"e", "c", Space>>
        BY <2>5, <3>1, Finished DEF HasPrefix
      <3>3. typed[3] = Space
        <4>1. SubSeq(typed, 1, 3)[3] = typed[3]
          BY <3>2, Finished, FirstThree
        <4>2. <<"e", "c", Space>>[3] = Space
          OBVIOUS
        <4> QED BY <3>2, <4>1, <4>2
      <3>4. line[2] = typed[2 + 1]
        BY <2>0, <3>2, Finished, SMTT(60)
      <3>5. EchoText = CStr(3)
        BY <3>1, <3>3, <3>4, SMTT(60) DEF EchoText
      <3>6. CStr(3) = [j \in 1..(line_len - 3) |-> typed[3 + j]]
        BY <2>0, <3>2, CStrIs
      <3>7. SubSeq(typed, 4, line_len) = [j \in 1..(line_len - 3) |-> typed[3 + j]]
        BY <2>0, <3>2, Finished, SMTT(60)
      <3> QED BY <3>1, <3>5, <3>6, <3>7, Finished, SMTT(60)
    <2> QED BY <2>1, <2>2, <2>3, <2>4, <2>5
  <1> QED BY ShellSafe, <1>1, PTL
=============================================================================
