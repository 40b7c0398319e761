------------------------ MODULE ProviderInterventions -------------------------
(***************************************************************************)
(* Recovery of a stopped FSM state with another provider and review of a   *)
(* per-state choice whose state changed: issues/provider-recovery.ts,      *)
(* issues/provider-override-review.ts, the intervention rows of            *)
(* run-store.ts and the launch they share with a shutdown resume           *)
(* (executeStateAdvance in lifecycle/run-controller.ts).                   *)
(*                                                                         *)
(* One Issue, one FSM state, at which every Run of the chain stops.  A     *)
(* definition of that state is a number, 0 when the workflow has dropped   *)
(* the state; the choice stored on the chain's plan is the number of the   *)
(* definition it describes, 0 when there is none.                          *)
(***************************************************************************)
EXTENDS Naturals, FiniteSets, Sequences

CONSTANTS
    MaxChainRuns,      \* bound: Runs of the Issue
    MaxInterventions,  \* bound: confirmed recoveries and reviews
    MaxEdits,          \* bound: edits of the state's definition
    MaxTrouble         \* bound: failing calls, refused claims, missing providers
                       \* and exits of the daemon

ASSUME InterventionBounds ==
    /\ {MaxChainRuns, MaxEdits} \subseteq Nat \ {0}   \* a chain may begin edited
    /\ {MaxInterventions, MaxTrouble} \subseteq Nat

Interventions == 1 .. MaxInterventions
ResumeLaunch == 0              \* the shutdown resume
Launches == {ResumeLaunch} \cup Interventions
Unscheduled == MaxInterventions + 1
Definitions == 0 .. MaxEdits + 1

VARIABLES
    daemon,     \* "up", "stopping" (registries latched) or "down"
    chain,      \* the Runs of the Issue, newest last
    launch,     \* an intervention, or the resume: its row and its thread
    scheduled,  \* the Issue's entry in the ScheduledWork registry
    claimLabel, \* sym:claimed or sym:stale is on the Issue
    current,    \* the state's definition on disk
    choice,     \* the definition the plan's per-state choice describes
    trouble

interventionVars ==
    <<daemon, chain, launch, scheduled, claimLabel, current, choice, trouble>>

RunStates == {"active", "stopped", "review", "cancelled", "stale", "done"}
Sources == {"none", "recovery", "state", "default"}
Threads == {"idle", "reading", "confirming", "armed", "fired", "park", "parking",
            "fail", "claim", "label", "over"}

\* `by` is the launch that created the Run; `bound` the definition its provider
\* choice describes and `definition` the one it executes.
FirstRun(state) == [state |-> state, parent |-> 0, by |-> Unscheduled, source |-> "none",
                    definition |-> 0, bound |-> 0, ahead |-> TRUE]
NoLaunch == [at |-> "idle", kind |-> "none", from |-> 0, evidence |-> 0,
             outcome |-> "none", to |-> 0, owner |-> FALSE,
             source |-> "none", definition |-> 0]

InterventionTypeOK ==
    /\ daemon \in {"up", "stopping", "down"}
    /\ Len(chain) \in 1 .. MaxChainRuns
    /\ \A n \in DOMAIN chain : chain[n] \in
         [state : RunStates, parent : 0 .. MaxChainRuns, by : Launches \cup {Unscheduled},
          source : Sources, definition : Definitions, bound : Definitions, ahead : BOOLEAN]
    /\ launch \in [Launches ->
         [at : Threads, kind : {"none", "recovery", "review", "resume"},
          from : 0 .. MaxChainRuns, evidence : Definitions,
          outcome : {"none", "scheduled", "launched", "failed", "dropped"},
          to : 0 .. MaxChainRuns, owner : BOOLEAN, source : Sources, definition : Definitions]]
    /\ scheduled \in Launches \cup {Unscheduled}
    /\ claimLabel \in BOOLEAN /\ {current, choice} \subseteq Definitions
    /\ trouble \in 0 .. MaxTrouble

(* A chain whose plan holds a choice for the state, stopped there by a failure
   or parked by the detector because the definition changed. *)
InterventionsInit ==
    /\ daemon = "up" /\ scheduled = Unscheduled /\ claimLabel = FALSE /\ trouble = 0
    /\ launch = [l \in Launches |-> NoLaunch]
    /\ choice = 1
    /\ \/ chain = <<FirstRun("stopped")>> /\ current = 1
       \/ chain = <<FirstRun("review")>> /\ current = 2

Trouble == trouble < MaxTrouble /\ trouble' = trouble + 1

-----------------------------------------------------------------------------
(* What the guards read *)

HeadRun == Len(chain)
(* isIssueHeadRun *)
IsHead(r) == r = HeadRun
ActiveRuns == {n \in DOMAIN chain : chain[n].state = "active"}

(* isIssueReserved, and what findLiveRunIdForIssue finds *)
Reserved == ActiveRuns # {} \/ scheduled # Unscheduled

(* hasPendingShutdownResume *)
ResumePending(r) ==
    launch[ResumeLaunch].at \notin {"idle", "over"} /\ launch[ResumeLaunch].from = r

(* localRefusal and inspect: the Run is stopped, or its review is open, at the
   head of the Issue's history. *)
StoppedFor(kind, r) ==
    /\ chain[r].state \in IF kind = "review" THEN {"review"} ELSE {"stopped", "review"}
    /\ IsHead(r)
    /\ kind = "review" => choice # 0

MutexFree == \A l \in Launches : launch[l].at \notin {"parking", "label"}

Set(l, f) == launch' = [launch EXCEPT ![l] = f]

(* settleProviderIntervention: only a scheduled row is written. *)
SettleRow(q, outcome, to) ==
    IF q.outcome = "scheduled" THEN [q EXCEPT !.outcome = outcome, !.to = to] ELSE q

(* Mutant: a launch that ends without a Run leaves its row. *)
OverUnsettled(q, outcome, to) ==
    [q EXCEPT !.at = "over", !.owner = FALSE, !.source = "none", !.definition = 0]

(* The last lines of executeStateAdvance: whatever ended the launch, a row that
   is still scheduled is settled. *)
Over(q, outcome, to) ==
    [SettleRow(q, outcome, to) EXCEPT !.at = "over", !.owner = FALSE,
                                      !.source = "none", !.definition = 0]

(* cancelRunAfterScheduleCleared *)
CancelParent(r) == chain' = [chain EXCEPT ![r].state = "cancelled"]

-----------------------------------------------------------------------------
(* The operator's request *)

(* recover, resolve: the checks before the GitHub read. `drop` resolves the
   review without evidence; keep and rebind bind the choice to the definition
   the operator was shown. *)
Request(k, kind) ==
    /\ daemon # "down" /\ launch[k].at = "idle"
    /\ \A j \in Interventions : j < k => launch[j].at # "idle"
    /\ StoppedFor(kind, HeadRun) /\ ~Reserved /\ ~ResumePending(HeadRun)
    /\ kind = "review" => current # 0
    /\ \E evidence \in IF kind = "review" THEN {0, current} ELSE {0} :
         Set(k, [NoLaunch EXCEPT !.at = "reading", !.kind = kind, !.from = HeadRun,
                                 !.evidence = evidence])
    /\ UNCHANGED <<daemon, chain, scheduled, claimLabel, current, choice, trouble>>

(* tryGetIssue: a held claim label refuses. *)
ReadIssue(k) ==
    /\ daemon # "down" /\ launch[k].at = "reading"
    /\ \/ claimLabel /\ Set(k, [launch[k] EXCEPT !.at = "over"]) /\ UNCHANGED trouble
       \/ ~claimLabel /\ Set(k, [launch[k] EXCEPT !.at = "confirming"]) /\ UNCHANGED trouble
       \/ Set(k, [launch[k] EXCEPT !.at = "over"]) /\ Trouble
    /\ UNCHANGED <<daemon, chain, scheduled, claimLabel, current, choice>>

(* Mutant: the plan is rewritten when the review is accepted. *)
ConfirmRewritesPlan(k) ==
    /\ daemon = "up" /\ launch[k].at = "confirming" /\ MutexFree /\ scheduled = Unscheduled
    /\ Set(k, [launch[k] EXCEPT !.at = "armed", !.outcome = "scheduled"])
    /\ scheduled' = k
    /\ choice' = IF launch[k].kind = "review" THEN launch[k].evidence ELSE choice
    /\ UNCHANGED <<daemon, chain, claimLabel, current, trouble>>

(* Under dispatchMutex: the checks again, the row (one scheduled per Run and
   kind), the timer. *)
Confirm(k) ==
    LET q == launch[k]
        refused == \/ ~StoppedFor(q.kind, q.from) \/ Reserved \/ ResumePending(q.from)
                   \/ \E j \in Interventions \ {k} :
                         /\ launch[j].outcome = "scheduled"
                         /\ launch[j].from = q.from /\ launch[j].kind = q.kind
    IN
    /\ daemon # "down" /\ q.at = "confirming" /\ MutexFree
    /\ \/ refused /\ Set(k, [q EXCEPT !.at = "over"]) /\ UNCHANGED scheduled
       \/ /\ ~refused /\ daemon = "stopping"
          /\ Set(k, [q EXCEPT !.at = "over", !.outcome = "dropped"])
          /\ UNCHANGED scheduled
       \/ /\ ~refused /\ daemon = "up"
          /\ Set(k, [q EXCEPT !.at = "armed", !.outcome = "scheduled"])
          /\ scheduled' = k
    /\ UNCHANGED <<daemon, chain, claimLabel, current, choice, trouble>>

(* resumeShutdownCancelledRuns, for the newest Run of the Issue. *)
ResumeAfterShutdown ==
    /\ daemon = "up" /\ chain[HeadRun].state = "cancelled"
    /\ ~Reserved /\ ~ResumePending(HeadRun)
    /\ Set(ResumeLaunch, [NoLaunch EXCEPT !.at = "armed", !.kind = "resume",
                                          !.from = HeadRun])
    /\ scheduled' = ResumeLaunch
    /\ UNCHANGED <<daemon, chain, claimLabel, current, choice, trouble>>

-----------------------------------------------------------------------------
(* The scheduled launch *)

(* ScheduledWorkRegistry drops its entry before it calls the work. *)
FireLaunch(l) ==
    /\ daemon = "up" /\ scheduled = l /\ launch[l].at = "armed"
    /\ scheduled' = Unscheduled
    /\ Set(l, [launch[l] EXCEPT !.at = "fired"])
    /\ UNCHANGED <<daemon, chain, claimLabel, current, choice, trouble>>

(* findRecoveryProvider *)
RecoveryThatLaunched(r) == \E k \in Interventions : /\ launch[k].kind = "recovery"
                                                    /\ launch[k].outcome = "launched"
                                                    /\ launch[k].to = r

(* recoveryChoiceFor *)
RecoveryChoice(q) == \/ q.kind = "recovery"
                     \/ q.kind = "resume" /\ RecoveryThatLaunched(q.from)

(* withReviewedOverride: the plan as the launch will leave it. *)
PlanChoice(q) == IF q.kind = "review" THEN q.evidence ELSE choice

(* advanceState, up to the decision what is launched: a dropped launch, a park
   for (another) review, a failed Run, or a claim. *)
Decide(l) ==
    LET q == launch[l]
        bound == PlanChoice(q)
        source == IF RecoveryChoice(q) THEN "recovery"
                  ELSE IF bound # 0 THEN "state" ELSE "default"
    IN
    /\ daemon # "down" /\ q.at = "fired"
    /\ \/ Trouble /\ Set(l, Over(q, "dropped", 0))     \* Issue closed, no refresh
       \/ /\ UNCHANGED trouble /\ source = "state" /\ bound # current
          /\ Set(l, [q EXCEPT !.at = "park"])
       \/ /\ source # "state" \/ bound = current
          /\ \/ current = 0 /\ Set(l, [q EXCEPT !.at = "fail"]) /\ UNCHANGED trouble
             \/ current # 0 /\ Set(l, [q EXCEPT !.at = "fail"]) /\ Trouble  \* no provider
             \/ /\ current # 0 /\ UNCHANGED trouble
                /\ Set(l, [q EXCEPT !.at = "claim", !.source = source,
                                    !.definition = current])
    /\ UNCHANGED <<daemon, chain, scheduled, claimLabel, current, choice>>

(* parkStateAdvanceForOverrideReview; its second shutdown check is after the
   sym:claimed write. *)
EnterPark(l) ==
    /\ daemon # "down" /\ launch[l].at = "park"
    /\ IF daemon = "stopping"
         THEN CancelParent(launch[l].from) /\ Set(l, Over(launch[l], "dropped", 0))
         ELSE MutexFree /\ Set(l, [launch[l] EXCEPT !.at = "parking"]) /\ UNCHANGED chain
    /\ UNCHANGED <<daemon, scheduled, claimLabel, current, choice, trouble>>

NewRun(q, state) ==
    [state |-> state, parent |-> q.from, by |-> Unscheduled, source |-> "none",
     definition |-> 0, bound |-> 0, ahead |-> IsHead(q.from)]

Park(l) ==
    LET q == launch[l] IN
    /\ daemon # "down" /\ q.at = "parking" /\ Len(chain) < MaxChainRuns
    /\ IF daemon = "stopping"
         THEN /\ CancelParent(q.from) /\ claimLabel' = TRUE
              /\ Set(l, Over(q, "dropped", 0))
         ELSE /\ chain' = Append(chain, NewRun(q, "review"))
              /\ claimLabel' = FALSE
              /\ Set(l, Over(q, IF q.kind = "review" THEN "failed" ELSE "dropped",
                             HeadRun + 1))
    /\ UNCHANGED <<daemon, scheduled, current, choice, trouble>>

(* failScheduledRunBeforeProvider settles the interventions of both kinds. *)
FailBeforeProvider(l) ==
    LET q == launch[l] IN
    /\ daemon # "down" /\ q.at = "fail" /\ Len(chain) < MaxChainRuns
    /\ IF daemon = "stopping"
         THEN /\ CancelParent(q.from) /\ Set(l, Over(q, "dropped", 0))
              /\ claimLabel' \in {claimLabel, TRUE}
         ELSE /\ chain' = Append(chain, NewRun(q, "stopped"))
              /\ claimLabel' = FALSE
              /\ launch' = [j \in Launches |->
                   IF j = l THEN Over(q, "failed", HeadRun + 1)
                   ELSE IF launch[j].from = q.from
                     THEN SettleRow(launch[j], "failed", HeadRun + 1)
                   ELSE launch[j]]
    /\ UNCHANGED <<daemon, scheduled, current, choice, trouble>>

(* A contended claim arms the launch again: an intervention through
   scheduleRunWork, whose shutdown exits belong to the stopped Run. *)
Rearm(l) ==
    LET q == launch[l] IN
    \/ /\ scheduled = Unscheduled
       /\ scheduled' = l
       /\ Set(l, [q EXCEPT !.at = "armed", !.source = "none", !.definition = 0,
                           !.owner = l # ResumeLaunch])
    \/ /\ scheduled # Unscheduled        \* schedule() throws
       /\ Set(l, Over(q, "failed", 0))
       /\ UNCHANGED scheduled

(* Mutant: the reservation is not looked at again. *)
EnterClaimUnreserved(l) ==
    /\ daemon = "up" /\ launch[l].at = "claim" /\ MutexFree
    /\ Set(l, [launch[l] EXCEPT !.at = "label"])
    /\ UNCHANGED <<daemon, chain, scheduled, claimLabel, current, choice, trouble>>

(* claimAndPersistRun up to the sym:claimed write. *)
EnterClaim(l) ==
    /\ daemon # "down" /\ launch[l].at = "claim" /\ MutexFree
    /\ \/ /\ daemon = "stopping"
          /\ CancelParent(launch[l].from) /\ Set(l, Over(launch[l], "dropped", 0))
          /\ UNCHANGED <<scheduled, trouble>>
       \/ /\ daemon = "up" /\ UNCHANGED chain
          /\ \/ Reserved /\ Rearm(l) /\ UNCHANGED trouble
             \/ Rearm(l) /\ Trouble                     \* host pressure, a full cap
             \/ /\ ~Reserved /\ UNCHANGED <<scheduled, trouble>>
                /\ Set(l, [launch[l] EXCEPT !.at = "label"])
    /\ UNCHANGED <<daemon, claimLabel, current, choice>>

(* The claim lands: the Run row and its slot, then settleRecoveryLaunch or
   settleOverrideReviewLaunch, which is where the plan is rewritten. *)
LaunchRun(l) ==
    LET q == launch[l]
        run(state) == [NewRun(q, state) EXCEPT !.by = l, !.source = q.source,
                         !.definition = q.definition,
                         !.bound = IF q.source = "state" THEN PlanChoice(q) ELSE 0]
    IN
    /\ daemon # "down" /\ q.at = "label" /\ Len(chain) < MaxChainRuns
    /\ \/ /\ daemon = "up"
          /\ chain' = Append(chain, run("active")) /\ claimLabel' = TRUE
          /\ choice' = PlanChoice(q)
          /\ Set(l, Over(q, "launched", HeadRun + 1)) /\ UNCHANGED trouble
       \/ /\ daemon = "stopping"          \* reserveSlot refuses, the row is kept
          /\ chain' = Append(chain, run("cancelled")) /\ claimLabel' = FALSE
          /\ Set(l, Over(q, "dropped", 0)) /\ UNCHANGED <<choice, trouble>>
       \/ /\ Trouble                      \* the label write fails
          /\ Set(l, Over(q, "failed", 0))
          /\ claimLabel' = FALSE /\ UNCHANGED <<chain, choice>>
    /\ UNCHANGED <<daemon, scheduled, current>>

-----------------------------------------------------------------------------
(* Runs, the workflow, the process *)

RunStops(r) ==
    /\ daemon # "down" /\ chain[r].state = "active"
    /\ \E state \in IF daemon = "stopping" THEN {"cancelled"} ELSE {"stopped", "done"} :
         chain' = [chain EXCEPT ![r].state = state]
    /\ claimLabel' = (daemon = "stopping" /\ claimLabel)
    /\ UNCHANGED <<daemon, launch, scheduled, current, choice, trouble>>

EditDefinition ==
    /\ Cardinality({d \in Definitions : d # 0 /\ d <= current}) <= MaxEdits
    /\ current # 0
    /\ current' \in {0, current + 1} /\ current' \in Definitions
    /\ UNCHANGED <<daemon, chain, launch, scheduled, claimLabel, choice, trouble>>

RestoreState ==
    /\ current = 0
    /\ current' = choice /\ choice # 0
    /\ UNCHANGED <<daemon, chain, launch, scheduled, claimLabel, choice, trouble>>

(* stop(): the timer is cleared; only re-armed work has an onShutdown. *)
StopDaemon ==
    /\ daemon = "up" /\ Trouble
    /\ daemon' = "stopping" /\ scheduled' = Unscheduled
    /\ IF scheduled # Unscheduled
         THEN /\ IF launch[scheduled].owner
                   THEN CancelParent(launch[scheduled].from) ELSE UNCHANGED chain
              /\ Set(scheduled, [launch[scheduled] EXCEPT !.at = "over", !.owner = FALSE])
         ELSE UNCHANGED <<chain, launch>>
    /\ UNCHANGED <<claimLabel, current, choice>>

(* The process ends: threads end with it, and a Run that was active is found
   stale by the next poll. *)
ProcessEnds ==
    /\ daemon' = "down" /\ scheduled' = Unscheduled
    /\ chain' = [n \in DOMAIN chain |->
         IF chain[n].state = "active" THEN [chain[n] EXCEPT !.state = "stale"] ELSE chain[n]]
    /\ launch' = [l \in Launches |->
         IF launch[l].at = "idle" THEN launch[l]
         ELSE [launch[l] EXCEPT !.at = "over", !.owner = FALSE, !.source = "none",
                                !.definition = 0]]
    /\ UNCHANGED <<claimLabel, current, choice>>

ExitDaemon == daemon = "stopping" /\ ActiveRuns = {} /\ UNCHANGED trouble /\ ProcessEnds
KillDaemon == daemon # "down" /\ Trouble /\ ProcessEnds

(* dropUnsettledProviderInterventions *)
StartAndSweep ==
    /\ daemon = "down" /\ daemon' = "up"
    /\ launch' = [l \in Launches |-> SettleRow(launch[l], "dropped", 0)]
    /\ UNCHANGED <<chain, scheduled, claimLabel, current, choice, trouble>>

LaunchStep(l) ==
    \/ FireLaunch(l) \/ Decide(l) \/ EnterPark(l) \/ Park(l) \/ FailBeforeProvider(l)
    \/ EnterClaim(l) \/ LaunchRun(l)

InterventionsNext ==
    \/ \E k \in Interventions :
         \/ \E kind \in {"recovery", "review"} : Request(k, kind)
         \/ ReadIssue(k) \/ Confirm(k)
    \/ ResumeAfterShutdown
    \/ \E l \in Launches : LaunchStep(l)
    \/ \E r \in DOMAIN chain : RunStops(r)
    \/ EditDefinition \/ RestoreState
    \/ StopDaemon \/ ExitDaemon \/ KillDaemon \/ StartAndSweep

(* Promises settle, timers fire, Runs end (each has a deadline), a service
   manager starts the daemon again. *)
InterventionsFairness ==
    /\ \A l \in Launches : WF_interventionVars(LaunchStep(l))
    /\ WF_interventionVars(\E r \in DOMAIN chain : RunStops(r))
    /\ WF_interventionVars(StartAndSweep)
    /\ WF_interventionVars(ExitDaemon)

InterventionsSpec ==
    InterventionsInit /\ [][InterventionsNext]_interventionVars /\ InterventionsFairness
-----------------------------------------------------------------------------
(* Properties *)

(* Two interventions, or an intervention and a shutdown resume, never run the
   same state twice at once on one Issue Branch: whatever was accepted in the
   window between a timer and its claim meets the reservation there. *)
OneRunAtATime == Cardinality(ActiveRuns) <= 1

(* What the operator confirmed is what is launched, on the definition the
   operator reviewed: a recovery on its provider, a kept or rebound choice on
   the evidence of the form, a dropped one on the chain-wide provider
   (evidence-changed, withReviewedOverride, findStaleStateOverride). *)
LaunchedAsConfirmed ==
    \A r \in DOMAIN chain : \A k \in Interventions : chain[r].by = k =>
        LET q == launch[k]
            run == chain[r]
        IN  /\ run.parent = q.from
            /\ q.kind = "recovery" => run.source = "recovery"
            /\ q.kind = "review" /\ q.evidence = 0 => run.source = "default"
            /\ q.kind = "review" /\ q.evidence # 0 =>
                 run.source = "state" /\ run.definition = q.evidence

(* A per-state choice is never bound to a definition it was not made for, by
   any launch. *)
ChoiceFitsDefinition ==
    \A r \in DOMAIN chain : chain[r].source = "state" => chain[r].bound = chain[r].definition

(* The plan of a consumed chain changes only with the launch of a review; a
   dropped, failed or repeated resolve leaves the review open as it was
   (ADR-2026-10-23-1820, "Where the plan is rewritten"). *)
PlanRewrittenByLaunchOnly ==
    [][choice' # choice =>
         \E k \in Interventions : /\ launch[k].kind = "review"
                                  /\ Len(chain') = Len(chain) + 1
                                  /\ chain'[Len(chain')].by = k]_interventionVars

(* A stop while a recovered Run works does not undo the operator's provider:
   the resume of that Run keeps it (recoveryChoiceFor). *)
RecoveryProviderSticks ==
    \A r \in DOMAIN chain :
        /\ chain[r].by = ResumeLaunch
        /\ \E k \in Interventions : launch[k].kind = "recovery" /\ launch[k].to = chain[r].parent
                                    /\ launch[k].outcome = "launched"
        => chain[r].source = "recovery"

(* No accepted intervention stays `scheduled`: the launch settles it, or its
   end without a Run, or the sweep of the next start. *)
InterventionSettles ==
    \A k \in Interventions :
        (launch[k].outcome = "scheduled" /\ Len(chain) < MaxChainRuns)
          ~> (launch[k].outcome # "scheduled" \/ Len(chain) = MaxChainRuns)

(* ADR-2026-10-23-0903: "The stopped Run keeps its terminal state, reason,
   classification and Attempts exactly as they were." A stop that meets the
   launch rewrites the stopped Run as cancelled by the shutdown, and the next
   daemon resumes it on its own, without the operator's provider. *)
StoppedRunKeepsItsVerdict ==
    [][\A r \in DOMAIN chain : chain[r].state \in {"stopped", "review"} =>
         chain'[r].state = chain[r].state]_interventionVars

(* ADR-2026-10-23-0903: "a Run that is not the head of its Issue's history, or
   that already has a recovery child, is never re-entered." Between the timer
   and the claim of one kind of intervention the other kind is accepted. *)
OnlyTheHeadIsReentered == \A r \in DOMAIN chain : chain[r].ahead

(* One Run at a time, and it is the one the operator confirmed.             *)
InterventionInvariant ==
    /\ InterventionTypeOK /\ OneRunAtATime /\ LaunchedAsConfirmed
    /\ ChoiceFitsDefinition /\ RecoveryProviderSticks
===============================================================================
