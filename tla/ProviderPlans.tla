---------------------------- MODULE ProviderPlans -----------------------------
(***************************************************************************)
(* The Run-Chain Provider Plan of one Issue: Start, Retry and Cancel of    *)
(* issues/provider-start.ts, the plan rows of run-store.ts, and the fresh  *)
(* claim of lifecycle/run-controller.ts that consumes a plan.              *)
(*                                                                         *)
(* A request may outlive several of its own awaits: GitHub is read and the *)
(* Ready Label written without dispatchMutex, the plan's status is changed *)
(* under it.  Only a claim holds the mutex across an await; every other    *)
(* section under it is one step, taken while no claim is in that section.  *)
(***************************************************************************)
EXTENDS Naturals, FiniteSets, Sequences

CONSTANTS
    MaxRequests,   \* bound: Starts, Retries and Cancels in a behaviour
    MaxRoots,      \* bound: root Runs of the Issue
    MaxMishaps     \* bound: label edits by hand, failed claims, restarts

ASSUME PlanBounds == {MaxRequests, MaxRoots, MaxMishaps} \subseteq Nat

Requests == 1 .. MaxRequests   \* a Start's plan has the number of its request
Roots == 1 .. MaxRoots

VARIABLES
    planStatus,    \* run_chain_provider_plans.status
    request,       \* the requests of the operator
    readyLabel,    \* the Ready Label, on GitHub
    snapshotReady, \* the Ready Label, in the last poll
    freshClaim,    \* the fresh claim of the Issue, and the plan it expects
    root,          \* the root Runs, newest last: their plan (0: none) and state
    mishaps

planVars == <<planStatus, request, readyLabel, snapshotReady, freshClaim, root, mishaps>>

LiveStatuses == {"pending", "label_written", "label_failed", "expired"}
Consumable == {"pending", "label_written"}
Settled == {"consumed", "cancelled", "superseded"}

\* `sent`: a label write is on its way to GitHub; `flag`: the Ready Label was
\* read as present (Retry), or the write succeeded; `was`: the status Cancel saw.
NoRequest == [at |-> "idle", kind |-> "none", plan |-> 0, sent |-> FALSE,
              flag |-> FALSE, was |-> "none"]
NoFreshClaim == [at |-> "idle", plan |-> 0]

PlanTypeOK ==
    /\ planStatus \in [Requests -> LiveStatuses \cup Settled \cup {"none"}]
    /\ request \in [Requests ->
         [at : {"idle", "reading", "deciding", "writing", "settling", "over"},
          kind : {"none", "start", "retry", "cancel"}, plan : {0} \cup Requests,
          sent : BOOLEAN, flag : BOOLEAN, was : LiveStatuses \cup Settled \cup {"none"}]]
    /\ {readyLabel, snapshotReady} \subseteq BOOLEAN
    /\ freshClaim \in [at : {"idle", "queued", "label"}, plan : {0} \cup Requests]
    /\ Len(root) <= MaxRoots
    /\ \A n \in DOMAIN root :
         root[n] \in [plan : {0} \cup Requests, state : {"live", "ended"}]
    /\ mishaps \in 0 .. MaxMishaps

PlansInit ==
    /\ planStatus = [p \in Requests |-> "none"]
    /\ request = [k \in Requests |-> NoRequest]
    /\ readyLabel = FALSE /\ snapshotReady = FALSE
    /\ freshClaim = NoFreshClaim /\ root = <<>> /\ mishaps = 0

Mishap == mishaps < MaxMishaps /\ mishaps' = mishaps + 1

-----------------------------------------------------------------------------
(* Reads *)

(* getActiveProviderPlan: the partial unique index allows one. *)
LivePlans == {p \in Requests : planStatus[p] \in LiveStatuses}
ActivePlan == IF LivePlans = {} THEN 0 ELSE CHOOSE p \in LivePlans : TRUE

(* findLiveRunIdForIssue *)
LiveRoot == \E n \in DOMAIN root : root[n].state = "live"

PlanMutexFree == freshClaim.at # "label"

(* startBlockers; the label in the snapshot is the one Start began with. *)
StartBlocked == LiveRoot \/ \E p \in Requests : planStatus[p] = "pending"

-----------------------------------------------------------------------------
(* Start, Retry, Cancel *)

(* The operator gets an answer; which one is read off the plan's status. *)
Answer(k) == request' = [request EXCEPT ![k] = [NoRequest EXCEPT !.at = "over",
                                                                 !.sent = request[k].sent]]
Move(k, at) == request' = [request EXCEPT ![k].at = at]

apart == <<readyLabel, snapshotReady, freshClaim, root, mishaps>>

Arrives(k) == request[k].at = "idle" /\ \A j \in Requests : j < k => request[j].at # "idle"

(* The early local checks; a refusal here changes nothing. *)
StartBegins(k) ==
    /\ Arrives(k) /\ ~snapshotReady /\ ~StartBlocked
    /\ request' = [request EXCEPT ![k] = [NoRequest EXCEPT !.at = "reading",
                                                           !.kind = "start", !.plan = k]]
    /\ UNCHANGED <<planStatus, apart>>

RetryBegins(k, p) ==
    /\ Arrives(k) /\ planStatus[p] \in {"label_failed", "expired"}
    /\ request' = [request EXCEPT ![k] = [NoRequest EXCEPT !.at = "reading",
                                                           !.kind = "retry", !.plan = p]]
    /\ UNCHANGED <<planStatus, apart>>

(* Only a label_written plan needs the live read before it is cancelled. *)
CancelBegins(k, p) ==
    /\ Arrives(k) /\ planStatus[p] # "none"
    /\ request' = [request EXCEPT ![k] =
         [NoRequest EXCEPT !.kind = "cancel", !.plan = p, !.was = planStatus[p],
                           !.at = IF planStatus[p] = "label_written" THEN "reading"
                                  ELSE "deciding"]]
    /\ UNCHANGED <<planStatus, apart>>

(* readLive: it may fail, and a claimed Issue is not eligible. *)
ReadLive(k) ==
    /\ request[k].at = "reading"
    /\ \/ Answer(k)
       \/ /\ request[k].kind = "retry" \/ ~readyLabel
          /\ request[k].kind = "cancel" \/ ~LiveRoot
          /\ request' = [request EXCEPT ![k].at = "deciding",
                                        ![k].flag = request[k].kind = "retry" /\ readyLabel]
    /\ UNCHANGED <<planStatus, apart>>

(* Mutant: the checks made before the read are not repeated. *)
CreateUnchecked(k) ==
    /\ request[k].at = "deciding" /\ request[k].kind = "start" /\ PlanMutexFree
    /\ planStatus' = [p \in Requests |-> IF p = k THEN "pending"
                        ELSE IF planStatus[p] \in LiveStatuses THEN "superseded"
                        ELSE planStatus[p]]
    /\ request' = [request EXCEPT ![k].at = "writing", ![k].sent = TRUE]
    /\ UNCHANGED apart

(* createProviderPlan: the older live plan and the new one in one transaction. *)
CreatePlan(k) ==
    /\ request[k].at = "deciding" /\ request[k].kind = "start" /\ PlanMutexFree
    /\ IF StartBlocked
         THEN Answer(k) /\ UNCHANGED planStatus
         ELSE /\ planStatus' = [p \in Requests |-> IF p = k THEN "pending"
                                  ELSE IF planStatus[p] \in LiveStatuses THEN "superseded"
                                  ELSE planStatus[p]]
              /\ request' = [request EXCEPT ![k].at = "writing", ![k].sent = TRUE]
    /\ UNCHANGED apart

(* reopenProviderPlan; a Ready Label that is there already is not written. *)
ReopenPlan(k) ==
    LET p == request[k].plan IN
    /\ request[k].at = "deciding" /\ request[k].kind = "retry" /\ PlanMutexFree
    /\ IF LiveRoot \/ planStatus[p] \notin {"label_failed", "expired"}
         THEN Answer(k) /\ UNCHANGED planStatus
         ELSE /\ planStatus' = [planStatus EXCEPT ![p] = "pending"]
              /\ request' = [request EXCEPT
                   ![k].at = IF request[k].flag THEN "settling" ELSE "writing",
                   ![k].sent = ~request[k].flag]
    /\ UNCHANGED apart

CancelPlan(k) ==
    LET p == request[k].plan
        cancels == planStatus[p] = request[k].was /\ planStatus[p] \in LiveStatuses
    IN
    /\ request[k].at = "deciding" /\ request[k].kind = "cancel" /\ PlanMutexFree
    /\ planStatus' = IF cancels THEN [planStatus EXCEPT ![p] = "cancelled"] ELSE planStatus
    /\ Answer(k)
    /\ UNCHANGED apart

(* GitHub applies the label whether or not anyone still waits for the answer. *)
LabelLands(k) ==
    /\ request[k].sent
    /\ readyLabel' = TRUE
    /\ request' = [request EXCEPT ![k].sent = FALSE]
    /\ UNCHANGED <<planStatus, snapshotReady, freshClaim, root, mishaps>>

WriteAnswered(k) ==
    /\ request[k].at = "writing"
    /\ \/ ~request[k].sent /\ request' = [request EXCEPT ![k].at = "settling", ![k].flag = TRUE]
       \/ \E sent \in {request[k].sent, FALSE} :      \* an error, or a timeout
             request' = [request EXCEPT ![k].at = "settling", ![k].flag = FALSE,
                                        ![k].sent = sent]
    /\ UNCHANGED <<planStatus, apart>>

(* markProviderPlanLabelResult *)
MarkLabelResult(p, ok) ==
    [planStatus EXCEPT ![p] = IF @ # "pending" THEN @
                              ELSE IF ok THEN "label_written" ELSE "label_failed"]

(* Mutant: a plan that is no longer pending leaves the request unanswered. *)
SettleWhilePending(k) ==
    /\ request[k].at = "settling" /\ PlanMutexFree /\ planStatus[request[k].plan] = "pending"
    /\ planStatus' = MarkLabelResult(request[k].plan, request[k].flag)
    /\ Answer(k)
    /\ UNCHANGED apart

SettleLabelWrite(k) ==
    /\ request[k].at = "settling" /\ PlanMutexFree
    /\ planStatus' = MarkLabelResult(request[k].plan, request[k].flag)
    /\ Answer(k)
    /\ UNCHANGED apart

(* The first read an hour after the last write; a request that is still at
   work on the plan is minutes old, so the plan is not one of those. *)
Expire(p) ==
    /\ planStatus[p] = "pending"
    /\ \A k \in Requests : request[k].plan = p => request[k].at \notin {"writing", "settling"}
    /\ planStatus' = [planStatus EXCEPT ![p] = "expired"]
    /\ UNCHANGED <<request, apart>>

-----------------------------------------------------------------------------
(* The fresh claim *)

(* resolveAndClaim: a live plan that is not consumable blocks the candidate. *)
ResolveAndClaim ==
    /\ freshClaim.at = "idle" /\ snapshotReady /\ ~LiveRoot /\ Len(root) < MaxRoots
    /\ ActivePlan # 0 => planStatus[ActivePlan] \in Consumable
    /\ freshClaim' = [at |-> "queued", plan |-> ActivePlan]
    /\ UNCHANGED <<planStatus, request, readyLabel, snapshotReady, root, mishaps>>

(* Mutant: only the id of a consumable plan is compared. *)
PlanUnchangedById ==
    freshClaim.plan = (IF ActivePlan # 0 /\ planStatus[ActivePlan] \in Consumable
                         THEN ActivePlan ELSE 0)

PlanUnchanged ==
    /\ ActivePlan = freshClaim.plan
    /\ ActivePlan # 0 => planStatus[ActivePlan] \in Consumable

(* claimAndPersistRun up to the sym:claimed write. *)
CheckPlan ==
    /\ freshClaim.at = "queued"
    /\ freshClaim' = IF LiveRoot \/ ~PlanUnchanged THEN NoFreshClaim
                     ELSE [freshClaim EXCEPT !.at = "label"]
    /\ UNCHANGED <<planStatus, request, readyLabel, snapshotReady, root, mishaps>>

(* The bounded sym:claimed write fails and is rolled back. *)
ClaimWriteFails ==
    /\ freshClaim.at = "label" /\ Mishap
    /\ freshClaim' = NoFreshClaim
    /\ UNCHANGED <<planStatus, request, readyLabel, snapshotReady, root>>

(* createRun, then consumeProviderPlan in the same step.  A plan that lapsed
   during the write cannot be consumed: the new Run is reconciled as failed.
   A stale per-state choice parks: the root Run exists, but nothing runs. *)
ConsumePlan ==
    LET p == freshClaim.plan
        consumes == p # 0 /\ planStatus[p] \in Consumable
    IN
    /\ freshClaim.at = "label"
    /\ planStatus' = IF consumes THEN [planStatus EXCEPT ![p] = "consumed"] ELSE planStatus
    /\ \E state \in IF p # 0 /\ ~consumes THEN {"ended"}
                    ELSE IF p # 0 THEN {"live", "ended"} ELSE {"live"} :
         root' = Append(root, [plan |-> IF consumes THEN p ELSE 0, state |-> state])
    /\ freshClaim' = NoFreshClaim
    /\ UNCHANGED <<request, readyLabel, snapshotReady, mishaps>>

-----------------------------------------------------------------------------
(* The rest of the world *)

PollReadyLabel ==
    /\ snapshotReady # readyLabel
    /\ snapshotReady' = readyLabel
    /\ UNCHANGED <<planStatus, request, readyLabel, freshClaim, root, mishaps>>

EditReadyLabel ==
    /\ Mishap
    /\ readyLabel' = ~readyLabel
    /\ UNCHANGED <<planStatus, request, snapshotReady, freshClaim, root>>

RootEnds ==
    /\ LiveRoot
    /\ root' = [n \in DOMAIN root |-> [root[n] EXCEPT !.state = "ended"]]
    /\ UNCHANGED <<planStatus, request, readyLabel, snapshotReady, freshClaim, mishaps>>

(* The daemon is killed and comes back: requests and the claim are gone, what
   was sent to GitHub may still arrive. *)
PlansRestart ==
    /\ Mishap
    /\ request' = [k \in Requests |->
         IF request[k].at \in {"idle", "over"} THEN request[k]
         ELSE [NoRequest EXCEPT !.at = "over", !.sent = request[k].sent]]
    /\ freshClaim' = NoFreshClaim
    /\ snapshotReady' = FALSE
    /\ root' = [n \in DOMAIN root |-> [root[n] EXCEPT !.state = "ended"]]
    /\ UNCHANGED <<planStatus, readyLabel>>

RequestStep(k) ==
    \/ ReadLive(k) \/ CreatePlan(k) \/ ReopenPlan(k) \/ CancelPlan(k)
    \/ WriteAnswered(k) \/ SettleLabelWrite(k)

ClaimStep == CheckPlan \/ ClaimWriteFails \/ ConsumePlan

PlansNext ==
    \/ \E k \in Requests :
         \/ StartBegins(k) \/ RequestStep(k) \/ LabelLands(k) \/ Expire(k)
         \/ \E p \in Requests : RetryBegins(k, p) \/ CancelBegins(k, p)
    \/ ResolveAndClaim \/ ClaimStep
    \/ PollReadyLabel \/ EditReadyLabel \/ RootEnds \/ PlansRestart

(* Every GitHub call of a request and of a claim is bounded by a timeout, the
   mutex is FIFO, the daemon polls and dispatches on a timer. *)
PlansFairness ==
    /\ \A k \in Requests : WF_planVars(RequestStep(k))
    /\ WF_planVars(ClaimStep) /\ WF_planVars(ResolveAndClaim)
    /\ WF_planVars(PollReadyLabel)

PlansSpec == PlansInit /\ [][PlansNext]_planVars /\ PlansFairness
-----------------------------------------------------------------------------
(* Properties *)

(* No root Run is ever created past a live plan: whatever Start, Retry, Cancel
   or a late label result does between the choice of the provider and the
   claim, a new root consumed the live plan, found none, or failed without
   running ("a lapsed plan must never let the Issue fall back to default
   provider routing", run-store.ts:1852; the re-check of claimAndPersistRun). *)
NoRootPastALivePlan ==
    [][Len(root') > Len(root) =>
         LET new == root'[Len(root')] IN
         \/ LivePlans = {}
         \/ new.plan \in LivePlans /\ planStatus'[new.plan] = "consumed"
         \/ new.state = "ended"]_planVars

(* A consumed, cancelled or superseded plan keeps that status: a label result,
   a Retry or a claim that arrives late never brings it back
   (markProviderPlanLabelResult's "must not resurrect or overwrite it"). *)
SettledPlanIsFinal ==
    [][\A p \in Requests : planStatus[p] \in Settled => planStatus'[p] = planStatus[p]]_planVars

(* A Start never displaces the plan of work that is running: while a chain
   runs on a plan no younger plan becomes live (the repeated local checks of
   `start` and `retry`). *)
NoPlanUnderALiveRoot == LiveRoot => LivePlans = {}

(* The operator always gets an answer: neither the mutex nor a lost label
   write leaves a Start, Retry or Cancel hanging (settleLabelWrite waits for
   the mutex a claim holds). *)
RequestAnswered ==
    \A k \in Requests : request[k].at \in {"reading", "deciding", "writing", "settling"}
                          ~> request[k].at = "over"

(* A crash between the plan and its label result strands nothing: a consumable
   plan whose Ready Label is on GitHub is claimed, lapses, is withdrawn, or
   the label goes away again (ADR-2026-10-09-0743 on `pending`). *)
LabelledPlanIsTakenUp ==
    \A p \in Requests :
        (planStatus[p] \in Consumable /\ readyLabel /\ Len(root) < MaxRoots)
          ~> (planStatus[p] \notin Consumable \/ ~readyLabel)

(* No plan is live beside the work of an older one.                         *)
PlanInvariant == PlanTypeOK /\ NoPlanUnderALiveRoot

(* A plan binds the root Run it was made for, once and for good.            *)
PlansBindRoots == NoRootPastALivePlan /\ SettledPlanIsFinal

(* Neither the operator nor a plan on GitHub is left waiting.               *)
PlansSettle == RequestAnswered /\ LabelledPlanIsTakenUp
=============================================================================
