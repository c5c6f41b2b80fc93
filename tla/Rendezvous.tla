----------------------------- MODULE Rendezvous -----------------------------
(***************************************************************************)
(* What the two-hart bring-up promises, with no shared memory in it: a     *)
(* console whose lines are whole, a start message from hart 0 and a result *)
(* message from hart 1 that each arrive at once and once, and a verdict of *)
(* hart 0 that is the result's latencies or, after the deadline and before *)
(* any result, a timeout.                                                  *)
(***************************************************************************)
EXTENDS Integers

CONSTANTS Harts, Timeout

None == -1
Nobody == -1

VARIABLES
    holder, open,          \* who may print, and whose line is unfinished
    now,                   \* cycles since the release stamp
    start,                 \* the release stamp hart 1 may see; 0: none yet
    entry, printed, sp,    \* hart 1's result as hart 0 may see it; 0: none yet
    verdict,               \* "waiting", "report" or "timeout"
    latency, elapsed       \* the two differences the finished report shows

console == <<holder, open>>
result  == <<entry, printed, sp>>
shown   == <<latency, elapsed>>
absVars == <<holder, open, now, start, entry, printed, sp, verdict, latency, elapsed>>

RVInit ==
    /\ holder = Nobody /\ open = {}
    /\ now = 0 /\ start = 0
    /\ result = <<0, 0, 0>>
    /\ verdict = "waiting" /\ shown = <<None, None>>

Acquire(h) ==
    /\ holder = Nobody
    /\ holder' = h
    /\ UNCHANGED <<open, now, start, result, verdict, shown>>

BeginLine(h) ==
    /\ holder = h /\ open = {}
    /\ open' = {h}
    /\ UNCHANGED <<holder, now, start, result, verdict, shown>>

EndLine(h) ==
    /\ holder = h /\ open = {h}
    /\ open' = {}
    /\ UNCHANGED <<holder, now, start, result, verdict, shown>>

LetGo(h) ==
    /\ holder = h /\ open = {}
    /\ holder' = Nobody
    /\ UNCHANGED <<open, now, start, result, verdict, shown>>

Tick ==
    /\ now' = now + 1
    /\ UNCHANGED <<console, start, result, verdict, shown>>

\* The start message carries a stamp already taken.
StartHart1 ==
    /\ start = 0
    /\ start' \in 1..(1 + now)
    /\ UNCHANGED <<console, now, result, verdict, shown>>

\* The result is whole: its stamps follow the start, in order.
FinishHart1 ==
    /\ start # 0 /\ entry = 0
    /\ entry' \in start..(1 + now)
    /\ printed' \in entry'..(1 + now)
    /\ sp' = 1
    /\ UNCHANGED <<console, now, start, verdict, shown>>

\* Hart 0 gives up only past the deadline, and never on a result it could see.
Decide ==
    /\ verdict = "waiting"
    /\ \/ entry # 0 /\ verdict' = "report"
       \/ entry = 0 /\ now >= Timeout /\ verdict' = "timeout"
    /\ UNCHANGED <<console, now, start, result, shown>>

ShowReport ==
    /\ verdict = "report" /\ latency = None
    /\ latency' = entry - start
    /\ elapsed' = printed - entry
    /\ UNCHANGED <<console, now, start, result, verdict>>

RVNext ==
    \/ \E h \in Harts : Acquire(h) \/ BeginLine(h) \/ EndLine(h) \/ LetGo(h)
    \/ Tick \/ StartHart1 \/ FinishHart1 \/ Decide \/ ShowReport

RVSpec == RVInit /\ [][RVNext]_absVars
=============================================================================
