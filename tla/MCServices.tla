------------------------------ MODULE MCServices ------------------------------
(* Components that share no state: a behaviour of this model is one of one     *)
(* of them.  Self update is explored twice: its renames with kills and failing *)
(* renames but no work, and its drain with work and kills but no failing one.  *)
EXTENDS SelfUpdate, RoutineFiring

VARIABLE part

ServicesInit == part \in {"renames", "drain", "firing"} /\ UpdateInit /\ FiringInit

ServicesNext ==
    /\ UNCHANGED part
    /\ \/ part = "renames" /\ UpdateNext /\ UNCHANGED <<workVars, firingVars>>
       \/ part = "drain" /\ UpdateNext /\ UNCHANGED <<ioFaults, firingVars>>
       \/ part = "firing" /\ FiringNext /\ UNCHANGED updateVars

(* None of the fair actions is enabled in a part that does not move. *)
ServicesSpec ==
    /\ ServicesInit /\ [][ServicesNext]_<<part, updateVars, firingVars>>
    /\ UpdateFairness /\ FiringFairness
===============================================================================
