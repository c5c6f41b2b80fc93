----------------------------- MODULE TickSched -----------------------------
(***************************************************************************)
(* What the two timer-driven schedulers promise: every timer tick hands    *)
(* the hart to the next task in round-robin order, the tick that fills the *)
(* quota hands it back to the boot context, and the run then stops.        *)
(***************************************************************************)
EXTENDS Naturals

CONSTANT Quota           \* N_TICKS

VARIABLES ntasks,        \* tasks in the table
          running,       \* the context that owns the hart: 0 boot, k task k
          switches,      \* timer switches completed
          stopped        \* the boot context has turned the timer off

tsVars == <<ntasks, running, switches, stopped>>

TSInit == running = 0 /\ switches = 0 /\ ~stopped

\* Before the run starts the boot context fills the task table.
Register ==
    /\ switches = 0 /\ ~stopped
    /\ ntasks' = ntasks + 1
    /\ UNCHANGED <<running, switches, stopped>>

Tick ==
    /\ ~stopped
    /\ switches' = switches + 1
    /\ running' = IF switches' >= Quota THEN 0 ELSE (switches % ntasks) + 1
    /\ UNCHANGED <<ntasks, stopped>>

Stop ==
    /\ ~stopped
    /\ running = 0
    /\ switches >= Quota
    /\ stopped' = TRUE
    /\ UNCHANGED <<ntasks, running, switches>>

TSNext == Register \/ Tick \/ Stop

TSSpec == TSInit /\ [][TSNext]_tsVars
=============================================================================
