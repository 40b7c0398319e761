------------------------------ MODULE MCProviders ------------------------------
(* The operator's choice of a provider, before a Run chain begins and after it *)
(* has stopped.  The two components share no state: a behaviour of this model  *)
(* is one of one of them, the other stays where its fair actions are disabled. *)
EXTENDS ProviderPlans, ProviderInterventions

VARIABLE part

ProvidersInit ==
    /\ part \in {"plans", "interventions"} /\ PlansInit /\ InterventionsInit
    /\ part = "plans" => current = 1

ProvidersNext ==
    /\ UNCHANGED part
    /\ \/ part = "plans" /\ PlansNext /\ UNCHANGED interventionVars
       \/ part = "interventions" /\ InterventionsNext /\ UNCHANGED planVars

ProvidersSpec ==
    /\ ProvidersInit /\ [][ProvidersNext]_<<part, planVars, interventionVars>>
    /\ PlansFairness /\ InterventionsFairness
===============================================================================
