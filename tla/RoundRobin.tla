----------------------------- MODULE RoundRobin -----------------------------
(***************************************************************************)
(* What the cooperative scheduler promises its tasks, with no scheduler in *)
(* it: the console shows the lines of the accepted tasks round by round,   *)
(* in registration order, each task's lines being those its body would     *)
(* print if it ran alone.                                                  *)
(***************************************************************************)
EXTENDS Naturals, Sequences

CONSTANTS MaxTasks,     \* MAX_TASKS: slots of the task table
          Lines(_, _)   \* Lines(fn, j): the j-th line the body fn prints alone

VARIABLES jobs,         \* the task_create calls main makes, in order
          printed,      \* how many lines each slot's task has printed
          log           \* the console: <<slot, line>> pairs

absVars == <<jobs, printed, log>>

Pending == {k \in 1..MaxTasks : k <= Len(jobs) /\ printed[k] < jobs[k].n}

\* The pending task with the fewest lines so far, the earliest slot first.
IsNextTask(k) ==
    /\ k \in Pending
    /\ \A j \in Pending : \/ printed[k] < printed[j]
                          \/ printed[k] = printed[j] /\ k <= j

RRInit ==
    /\ printed = [k \in 1..MaxTasks |-> 0]
    /\ log = <<>>

PrintLine ==
    \E k \in Pending :
        /\ IsNextTask(k)
        /\ log' = Append(log, <<k, Lines(jobs[k].fn, printed[k] + 1)>>)
        /\ printed' = [printed EXCEPT ![k] = @ + 1]
        /\ UNCHANGED jobs

RRSafety == RRInit /\ [][PrintLine]_absVars

RRSpec == RRSafety /\ WF_absVars(PrintLine)
=============================================================================
