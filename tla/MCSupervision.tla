----------------------------- MODULE MCSupervision -----------------------------
(* Components that share no state: a behaviour of this model is one of one     *)
(* of them.  PR Follow-up is explored three times, each part leaving out the   *)
(* environment the other two have: "chains" has fresh dispatches and one       *)
(* commit that never turns green, "reviews" one fresh dispatch, pushes, merges *)
(* and a pull request that vanishes, "walk" a raw FSM, crashes and one pass.   *)
(* No part holds back an action whose fairness its liveness rests on.  The     *)
(* Runs sampled have both a cap on their time and cumulative usage totals, or  *)
(* neither; the workspace changes in the first attempt only, and two events    *)
(* lie beyond the offset only in that attempt, before it has changed.          *)
EXTENDS WatchdogSampling, PullRequestFollowup

CONSTANTS p1, p2
VARIABLE part

Fresh == runs' # runs /\ Len(runs') > Len(runs) /\ runs'[Len(runs')].parent = NoRun
NoSubject == [FirstAttempt(FALSE, FALSE) EXCEPT !.state = "succeeded", !.slot = FALSE]

SupervisionInit ==
    \/ part = "sampling" /\ SamplingInit /\ subject.capped = subject.totals /\ FollowupInit /\ workflow = "markdown"
    \/ /\ part \in {"chains", "reviews", "walk"}
       /\ subject = NoSubject /\ evidence = FreshEvidence /\ sample = NoSample /\ pass = NoPass
       /\ FollowupInit /\ workflow = IF part = "walk" THEN "raw_fsm" ELSE "markdown"

(* The passes are alike: the second only begins beside the first.             *)
InOrder == round[p2].at = "idle" /\ round'[p2].at # "idle" => round[p1].at # "idle"

Environment ==
    CASE part = "sampling" ->
             /\ subject'.churn # subject.churn => subject.gen = 1
             /\ subject'.gen + subject'.churn >= 2 => Len(evidence'.log) <= 1
      [] part = "chains" -> pr'.head <= 1 /\ ~pr'.green /\ pr'.by # "human" /\ faults' = 0
      [] part = "reviews" -> (Fresh => runs = <<>>) /\ faults' = 0 /\ (pr'.by = "human" => pr'.state = "gone")
      [] part = "walk" -> Len(runs') <= 2 /\ round'[p2].at = "idle"

SupervisionNext ==
    /\ UNCHANGED part
    /\ \/ part = "sampling" /\ SamplingNext /\ UNCHANGED followupVars
       \/ part # "sampling" /\ FollowupNext /\ UNCHANGED samplingVars
    /\ Environment /\ InOrder

SupervisionSpec ==
    /\ SupervisionInit /\ [][SupervisionNext]_<<part, samplingVars, followupVars>>
    /\ SamplingFairness /\ FollowupFairness
===============================================================================
