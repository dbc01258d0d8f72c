------------------------------ MODULE ActionJob ------------------------------
(***************************************************************************)
(* What action_worker.h promises its caller about one background command:  *)
(* at most one runs at a time, each one started yields exactly one         *)
(* completion, and the next one starts only once that completion has been  *)
(* collected.  ActionWorker is shown to implement this module.             *)
(***************************************************************************)
CONSTANTS
    Codes,      \* exit statuses a command can end with
    Stopped     \* the status (-1) of a command the worker itself ended

VARIABLES
    phase,      \* "idle", "running" or "finished"
    outcome     \* the status of the last command that finished

vars == <<phase, outcome>>

Init == phase = "idle" /\ outcome \in Codes

(* A command may only start when none runs and no completion is waiting. *)
Start == phase = "idle" /\ phase' = "running" /\ UNCHANGED outcome

(* The one completion of the running command. *)
Finish(c) == phase = "running" /\ phase' = "finished" /\ outcome' = c

(* The caller polls the completion: it is reported once. *)
Collect == phase = "finished" /\ phase' = "idle" /\ UNCHANGED outcome

Complete == \E c \in Codes \union {Stopped} : Finish(c)

Next == Start \/ Complete \/ Collect

(* Only the completion is promised: starting and polling are the caller's. *)
Spec == Init /\ [][Next]_vars /\ WF_vars(Complete)
==============================================================================
