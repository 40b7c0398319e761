------------------------------ MODULE MCIssuePoll ------------------------------
(* Polling and the project picker share no state: a behaviour is one of one. *)
EXTENDS IssuePoll, ProjectPicker

VARIABLE part

Decl(name, repo, token) == [name |-> name, repo |-> repo, token |-> token]
SharedToken == <<Decl("p", "a", "t1"), Decl("q", "b", "t1")>>
Shadowed == <<Decl("p", "a", "t1"), Decl("p", "b", "t2")>>
TwoConfigs == {SharedToken, Shadowed}

ThreeProjects == <<"p", "q", "r">>
UnequalWeights == [p |-> 3, q |-> 1, r |-> 1]

SchedulingInit ==
    /\ part \in {"poll", "pick"} /\ PollInit /\ PickerInit
    /\ part = "pick" => file = SharedToken

SchedulingNext ==
    /\ UNCHANGED part
    /\ \/ part = "poll" /\ PollNext /\ UNCHANGED pickerVars
       \/ part = "pick" /\ PickerNext /\ UNCHANGED pollVars

SchedulingSpec == SchedulingInit /\ [][SchedulingNext]_<<part, pollVars, pickerVars>>
================================================================================
