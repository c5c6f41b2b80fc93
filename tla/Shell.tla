------------------------------- MODULE Shell -------------------------------
(***************************************************************************)
(* The UART shell of shell.elf: the line editor and the command dispatch   *)
(* of cmds.c, the trap entry of trap.S, sh_main.c's set-up, and the        *)
(* terminal that shows the echoed characters.                              *)
(*                                                                         *)
(* Words are short stand-ins over a small alphabet: echo is <<"e", "c">>,  *)
(* regs <<"r">>, help and uptime are the one word Help.                    *)
(***************************************************************************)
EXTENDS Integers, Sequences

CONSTANT LineMax      \* LINE_MAX

ASSUME ShellAssumption == LineMax \in Nat /\ LineMax > 3

Space == "space"
Chars == {"e", "c", "r", Space}
Nul   == "nul"
Keys  == Chars \union {"enter", "erase", "control"}

Echo == <<"e", "c">>
Regs == <<"r">>
Help == <<"c">>

VARIABLES
    line, line_len,     \* the line buffer
    typed,              \* what the user has typed, as an ideal editor keeps it
    row, col,           \* the terminal's current row after the prompt, and the cursor
    pc,                 \* "read", "run", "trap", "lost"
    mscratch, t0        \* "bank", or a value of the interrupted code

text == <<line, line_len, typed, row, col>>
vars == <<line, line_len, typed, row, col, pc, mscratch, t0>>

-----------------------------------------------------------------------------
\* main: install_trap_handler points mscratch at trap_bank; BSS is zero.
Init ==
    /\ line = [k \in 0..(LineMax - 1) |-> Nul] /\ line_len = 0
    /\ typed = <<>>
    /\ row = [k \in 0..(LineMax - 1) |-> Space] /\ col = 0
    /\ pc = "read"
    /\ mscratch = "bank" /\ t0 = "data"

\* Where a scan for the places in S stops.
First(S) == CHOOSE n \in S : \A k \in S : n <= k

\* The bytes of the C string at line + k.
CStr(k) ==
    LET n == First({j \in k..(LineMax - 1) : line[j] = Nul})
    IN [j \in 1..(n - k) |-> line[k + j - 1]]

\* A string literal, and streq of the line with one.
Literal(w, k) == IF k < Len(w) THEN w[k + 1] ELSE Nul
streq(w) ==
    LET n == First({k \in 0..(LineMax - 1) : line[k] = Nul \/ line[k] # Literal(w, k)})
    IN line[n] = Literal(w, n)

is_echo ==
    \/ streq(Echo)
    \/ (\A k \in 0..(Len(Echo) - 1) : line[k] = Echo[k + 1]) /\ line[Len(Echo)] = Space

\* Mutant: no room is left for the terminator.
TypeCharFull ==
    /\ pc = "read"
    /\ line_len < LineMax
    /\ \E c \in Chars :
         /\ line' = [line EXCEPT ![line_len] = c]
         /\ line_len' = line_len + 1
         /\ typed' = Append(typed, c)
         /\ row' = [row EXCEPT ![col] = c]
         /\ col' = col + 1
    /\ UNCHANGED <<pc, mscratch, t0>>

\* read_line: a printable character is kept and echoed while there is room.
TypeChar ==
    /\ pc = "read"
    /\ \E c \in Chars :
         IF line_len < LineMax - 1
         THEN /\ line' = [line EXCEPT ![line_len] = c]
              /\ line_len' = line_len + 1
              /\ typed' = Append(typed, c)
              /\ row' = [row EXCEPT ![col] = c]
              /\ col' = col + 1
         ELSE UNCHANGED text
    /\ UNCHANGED <<pc, mscratch, t0>>

\* Mutant: the erase only moves the cursor back.
TypeEraseNoBlank ==
    /\ pc = "read"
    /\ line_len > 0
    /\ line_len' = line_len - 1
    /\ typed' = SubSeq(typed, 1, Len(typed) - 1)
    /\ col' = col - 1
    /\ UNCHANGED <<line, row, pc, mscratch, t0>>

\* DEL or BS erases one character and prints "\b \b"; nothing at the margin.
TypeErase ==
    /\ pc = "read"
    /\ line_len > 0
    /\ line_len' = line_len - 1
    /\ typed' = SubSeq(typed, 1, Len(typed) - 1)
    /\ row' = [row EXCEPT ![col - 1] = Space]
    /\ col' = col - 1
    /\ UNCHANGED <<line, pc, mscratch, t0>>

\* Other control characters, and an erase of an empty line, are ignored.
TypeIgnored ==
    /\ pc = "read"
    /\ UNCHANGED vars

\* Mutant: the line is not terminated.
TypeEnterNoNul ==
    /\ pc = "read"
    /\ row' = [k \in DOMAIN row |-> Space] /\ col' = 0
    /\ pc' = "run"
    /\ UNCHANGED <<line, line_len, typed, mscratch, t0>>

\* CR or LF ends the line.
TypeEnter ==
    /\ pc = "read"
    /\ line' = [line EXCEPT ![line_len] = Nul]
    /\ row' = [k \in DOMAIN row |-> Space] /\ col' = 0
    /\ pc' = "run"
    /\ UNCHANGED <<line_len, typed, mscratch, t0>>

\* cmd_echo(line + 4) prints the rest of the line after one space.
EchoText == CStr(IF line[Len(Echo)] = Space THEN Len(Echo) + 1 ELSE Len(Echo))

\* run_command, then the prompt; read_line starts over.  regs traps first.
RunCommand ==
    /\ pc = "run"
    /\ \/ /\ line_len = 0 \/ streq(Help) \/ is_echo \/ ~streq(Regs)
          /\ line_len' = 0 /\ typed' = <<>>
          /\ pc' = "read"
          /\ UNCHANGED <<line, row, col>>
       \/ /\ line_len > 0 /\ ~streq(Help) /\ ~is_echo /\ streq(Regs)
          /\ pc' = "trap"
          /\ UNCHANGED text
    /\ UNCHANGED <<mscratch, t0>>

(* trap_entry on snapshot_regs' ecall: t0 and mscratch are swapped, the    *)
(* registers stored through t0, mepc advanced, t0 loaded back from its     *)
(* slot.  mscratch keeps the interrupted t0.  Where t0 was not the bank,   *)
(* the stores went wherever it pointed and nothing more is known.          *)
TrapEntry ==
    /\ pc = "trap"
    /\ mscratch' = t0
    /\ IF mscratch = "bank"
       THEN /\ line_len' = 0 /\ typed' = <<>>
            /\ pc' = "read"
            /\ UNCHANGED <<line, row, col, t0>>
       ELSE pc' = "lost" /\ UNCHANGED <<text, t0>>

Lost == pc = "lost" /\ UNCHANGED vars

Next == \/ TypeChar \/ TypeErase \/ TypeIgnored \/ TypeEnter
        \/ RunCommand \/ TrapEntry \/ Lost

Spec == Init /\ [][Next]_vars

-----------------------------------------------------------------------------
\* The types of the editor's and the terminal's state.
TypeOK ==
    /\ line \in [0..(LineMax - 1) -> Chars \union {Nul}]
    /\ line_len \in 0..(LineMax - 1)
    /\ row \in [0..(LineMax - 1) -> Chars] /\ col \in 0..(LineMax - 1)
    /\ pc \in {"read", "run", "trap", "lost"}

(* What the user sees after the prompt is what the buffer holds, through   *)
(* any mix of typing, erasing and ignored keys.                            *)
ScreenShowsLine ==
    pc = "read" =>
        /\ col = line_len
        /\ \A k \in DOMAIN row : row[k] = IF k < line_len THEN line[k] ELSE Space

(* A finished line is taken for the command the user typed, whatever older *)
(* lines left in the buffer behind its terminator.                         *)
HasPrefix(s, w) == Len(s) >= Len(w) /\ SubSeq(s, 1, Len(w)) = w
CommandAsTyped ==
    pc = "run" =>
        /\ CStr(0) = typed /\ line_len = Len(typed)
        /\ streq(Help) = (typed = Help) /\ streq(Regs) = (typed = Regs)
        /\ is_echo = (typed = Echo \/ HasPrefix(typed, Append(Echo, Space)))
        /\ is_echo => EchoText = SubSeq(typed, Len(Echo) + 2, Len(typed))

\* trap.S: "mscratch holds the bank address" on any trap.
BankInMscratch == pc = "trap" => mscratch = "bank"
=============================================================================
