------------------------------ MODULE MCSched ------------------------------
(* Sched on a small table, with the console it must produce as reference.  *)
EXTENDS SchedConsole

\* The j-th line of a body that runs alone, written without the scheduler.
Fib[n \in Nat] == IF n < 2 THEN n ELSE Fib[n - 1] + Fib[n - 2]
LinesAlone(f, j) == CASE f = "heartbeat" -> j
                      [] f = "fibonacci" -> Fib[j]
                      [] f = "spinner"   -> (j - 1) % 4
=============================================================================
