----------------------------- MODULE MCRoutines -----------------------------
(* The state space is explored in two parts, neither of which holds an action  *)
(* of the daemon back: in "firings" the declaration is not edited (crashes and *)
(* failing deliveries are the faults) nor ever a one-shot; in "edits" it is,   *)
(* beside one firing.  An operator fires the routine of one of the Projects,   *)
(* which are alike but for the edits.  Both begin with the cron.               *)
EXTENDS Routines

VARIABLE part

CronOrOneShot == {0, 1}
SkipNoOverlap == {<<TRUE, FALSE>>}

FiringsNext ==
    /\ part = "firings" /\ RoutineNext /\ UNCHANGED part
    /\ <<mode, at>>' = <<mode, at>>

EditsNext ==
    /\ part = "edits" /\ RoutineNext /\ UNCHANGED part
    /\ firing'[MaxFirings] = NoFiring
    /\ faults' # faults => <<mode, at>>' # <<mode, at>>

PartsNext ==
    /\ FiringsNext \/ EditsNext
    /\ \A i \in Ids : firing'[i].at = 0 => firing'[i].p \in Edited \cup {NoProject}

PartsInit == part \in {"firings", "edits"} /\ RoutineInit /\ at = 0

PartsSpec == PartsInit /\ [][PartsNext]_<<part, routineVars>>
=============================================================================
