---------------------------- MODULE HaltPromise ----------------------------
(***************************************************************************)
(* What the firmware promises of a stop, with no tasks, queue of commands  *)
(* or trajectory in it.  A motion command is decided first and issued      *)
(* later.  A stop (emergency stop or pause) does not recall a command that *)
(* was decided before it, and nothing new is decided while it is in force: *)
(* at most one motion command follows it.                                  *)
(***************************************************************************)
EXTENDS Naturals

VARIABLES held,    \* a stop is in force
          owed,    \* a motion command is decided and not yet issued
          late     \* motion commands issued since the stop in force

vars == <<held, owed, late>>

Init == held = FALSE /\ owed = FALSE /\ late = 0

Hold == ~held /\ held' = TRUE /\ late' = 0 /\ UNCHANGED owed

Release == held /\ held' = FALSE /\ UNCHANGED <<owed, late>>

Decide == ~held /\ ~owed /\ owed' = TRUE /\ UNCHANGED <<held, late>>

Drop == owed /\ owed' = FALSE /\ UNCHANGED <<held, late>>

Issue ==
    /\ owed
    /\ owed' = FALSE
    /\ late' = IF held THEN late + 1 ELSE late
    /\ UNCHANGED held

Next == Hold \/ Release \/ Decide \/ Drop \/ Issue

Spec == Init /\ [][Next]_vars
=============================================================================
