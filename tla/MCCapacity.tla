------------------------------ MODULE MCCapacity ------------------------------
(* What may run at once, and the processes of one thing that runs: the slots of *)
(* RunLifecycle and the provider processes of one Run.  They share no state; a  *)
(* behaviour of this model is one of one of them, the other stays where it      *)
(* began, its fair actions disabled.  An attempt ends, so its part may stop; the *)
(* slots may not.                                                               *)
EXTENDS MCRunLifecycle, ProviderProcess

VARIABLE part

CapacityInit ==
    /\ part \in {"slots", "process"} /\ Init /\ ProcessInit
    /\ part = "slots" => session.adapter = "claude"

CapacityNext ==
    /\ UNCHANGED part
    /\ \/ part = "slots" /\ Next /\ UNCHANGED processVars
       \/ part = "process" /\ (ProcessNext \/ UNCHANGED processVars) /\ UNCHANGED vars

CapacitySpec ==
    CapacityInit /\ [][CapacityNext]_<<part, vars, processVars>> /\ ProcessFairness
===============================================================================
