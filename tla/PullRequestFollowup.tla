-------------------------- MODULE PullRequestFollowup --------------------------
(***************************************************************************)
(* The poll-based PR Follow-up of pull-request-followup.ts over one Issue, *)
(* its Runs (rows of runs, chained by continuation_parent_run_id), its     *)
(* Issue Branch's pull request and the row of tracked_pull_requests.       *)
(*                                                                         *)
(* launchWork is re-entrant: a pass that awaits the Run it dispatched, or  *)
(* GitHub, overlaps the pass of the next tick.  A pass yields at every     *)
(* label; what lies between two labels is one step.                        *)
(***************************************************************************)
EXTENDS Integers, Sequences, FiniteSets

CONSTANTS
    Passes,        \* bound: the passes in flight at once
    MaxRuns,       \* bound: rows of the Issue
    MaxDiscovery,  \* MAX_PULL_REQUEST_DISCOVERY_ATTEMPTS
    MaxReviews,    \* review_followup.max_dispatches_per_pr
    MaxHead,       \* bound: commits of the branch
    MaxReview,     \* bound: times the reviewer changes the unresolved feedback
    MaxOutages     \* bound: failed GitHub reads, and crashes

ASSUME FollowupBounds ==
    /\ {MaxRuns, MaxDiscovery, MaxHead} \subseteq Nat \ {0}
    /\ {MaxReviews, MaxReview, MaxOutages} \subseteq Nat

VARIABLES
    workflow,    \* the Project's workflow: "raw_fsm", or "markdown"
    runs,    \* the Issue's Runs, oldest first
    claimed, \* the Issue carries sym:claimed
    pr,      \* GitHub's pull request of the branch
    track,   \* the row of tracked_pull_requests
    round,    \* runPullRequestFollowup's locals, one per pass in flight
    faults

followupVars == <<workflow, runs, claimed, pr, track, round, faults>>

NoRun == 0
NoReview == <<0, 0>>
NoPull == [state |-> "absent", head |-> 0, green |-> FALSE, talk |-> 0, said |-> 0,
           vetted |-> FALSE, by |-> "nobody"]
NoTrack == [state |-> "absent", owner |-> NoRun, followup |-> NoRun, count |-> 0, review |-> NoReview]
Seen(q) == [state |-> q.state, head |-> q.head, green |-> q.green, talk |-> q.talk]
NoFollowup == [at |-> "idle", todo |-> {}, run |-> NoRun, row |-> NoTrack, seen |-> Seen(NoPull),
               next |-> "idle"]

Rows == 1 .. Len(runs)
NewRow(state, parent, review) ==
    [state |-> state, parent |-> parent, tries |-> 0, refused |-> FALSE, review |-> review]

(* talk: the unresolved feedback, 0 when there is none.  vetted: the head   *)
(* was at some time ready to merge.  by: who merged or closed it.          *)
(* settling: the slot is released and the row not yet decided.             *)
Terminal == {"succeeded", "failed", "blocked", "cancelled", "stale"}
FollowupTypeOK ==
    /\ workflow \in {"raw_fsm", "markdown"} /\ claimed \in BOOLEAN
    /\ \A r \in Rows : /\ runs[r].state \in Terminal \cup {"running", "settling", "waiting"}
                       /\ runs[r].parent \in 0 .. r - 1 /\ runs[r].refused \in BOOLEAN
                       /\ runs[r].tries \in Nat
    /\ pr.state \in {"absent", "open", "merged", "closed", "gone"} /\ pr.head \in 0 .. MaxHead
    /\ track.owner \in 0 .. Len(runs)
    /\ track.state \in {"absent", "open", "merged", "closed"}
    /\ (track.state = "absent") = (track.owner = NoRun)
    /\ \A p \in Passes : round[p].at \in {"idle", "discover", "exhausted", "list", "fetch",
                                         "owner", "merging", "merged", "followup", "attending", "unclaim"}

-----------------------------------------------------------------------------
(* The store's queries over Run Chains *)

Ancestors(r) ==
    LET above[q \in Rows] ==
            IF runs[q].parent = NoRun THEN {} ELSE {runs[q].parent} \cup above[runs[q].parent]
    IN  above[r]
Descendants(r) == {q \in Rows : r \in Ancestors(q)}
Root(r) == CHOOSE q \in Ancestors(r) \cup {r} : runs[q].parent = NoRun
Chain(r) == {q \in Rows : Root(q) = Root(r)}

isRunChainFullyTerminal(r) == \A q \in Chain(r) : runs[q].state \in Terminal

(* A blocked or failed descendant counts only where no continuation went   *)
(* past it; waiting, cancelled and stale ones hand discovery back.  A      *)
(* cancel for a closed or ineligible Issue is not modelled here.           *)
ActiveDescendant(r) ==
    \E d \in Descendants(r) :
        /\ runs[d].state \notin {"waiting", "cancelled", "stale"}
        /\ runs[d].state \in {"blocked", "failed"} => \A q \in Rows : runs[q].parent # d

SuppressedByChain(r) == track.owner # NoRun /\ Root(track.owner) = Root(r)

listRunsAwaitingPullRequestDiscovery ==
    {r \in Rows : /\ runs[r].state = "succeeded" /\ runs[r].tries < MaxDiscovery
                  /\ ~SuppressedByChain(r) /\ ~ActiveDescendant(r)}

(* Mutant: a live chain yields too. *)
AnyOwnerYields(r) == track.owner # NoRun /\ track.owner # r

Reassigns(r) == track.owner # NoRun /\ track.owner # r /\ isRunChainFullyTerminal(track.owner)

retirePullRequestDiscoveryChain(r) ==
    [q \in Rows |-> IF q \in Chain(r) /\ runs[q].tries < MaxDiscovery
                  THEN [runs[q] EXCEPT !.tries = MaxDiscovery] ELSE runs[q]]

Tracked(r) ==
    CASE track.owner = NoRun -> [NoTrack EXCEPT !.state = "open", !.owner = r]
      [] Reassigns(r) -> [track EXCEPT !.state = "open", !.owner = r, !.followup = NoRun]
      [] OTHER -> [track EXCEPT !.state = "open"]
trackPullRequest(r) ==
    /\ track' = Tracked(r)
    /\ runs' = IF Reassigns(r) THEN retirePullRequestDiscoveryChain(track.owner) ELSE runs

-----------------------------------------------------------------------------
(* What the loop asks before it acts *)

isIssueReserved == \E r \in Rows : runs[r].state = "running"
isIssueParkedAtRawFsmState == \E r \in Rows : runs[r].state = "waiting"

isIssueOwnedByWorkflow ==
    workflow = "raw_fsm" /\ (isIssueReserved \/ isIssueParkedAtRawFsmState)

isIssueMergeRefused == \E r \in Rows : runs[r].refused

pullRequestNeedsReviewFollowup(s) == s.talk # 0
pullRequestReadyToMerge(s) == s.state = "open" /\ s.green /\ s.talk = 0
Fingerprint(s) == <<s.head, s.talk>>

Enter(p, at) == round' = [round EXCEPT ![p].at = at]
Unclaims(p) == round' = [round EXCEPT ![p] = [NoFollowup EXCEPT !.at = "unclaim"]]
Ends(p) == round' = [round EXCEPT ![p] = NoFollowup]

-----------------------------------------------------------------------------
(* discoverPullRequests *)

PassStarts(p) ==
    /\ round[p].at = "idle"
    /\ listRunsAwaitingPullRequestDiscovery # {} \/ track.state = "open"
    /\ round' = [round EXCEPT ![p].at = "discover", ![p].todo = listRunsAwaitingPullRequestDiscovery]
    /\ UNCHANGED <<workflow, runs, claimed, pr, track, faults>>

(* Mutant: a miss is not counted. *)
MissUncounted(r) == runs
recordPullRequestDiscoveryAttempt(r) == [runs EXCEPT ![r].tries = @ + 1]

BranchAnswered(p, r) ==
    /\ round[p].at = "discover" /\ r \in round[p].todo
    /\ IF pr.state = "open"
       THEN /\ trackPullRequest(r)
            /\ round' = [round EXCEPT ![p].todo = @ \ {r}]
       ELSE /\ runs' = recordPullRequestDiscoveryAttempt(r)
            /\ round' = IF runs'[r].tries >= MaxDiscovery
                       THEN [round EXCEPT ![p].todo = @ \ {r}, ![p].run = r, ![p].at = "exhausted"]
                       ELSE [round EXCEPT ![p].todo = @ \ {r}]
            /\ UNCHANGED track
    /\ UNCHANGED <<workflow, claimed, pr, faults>>

terminalizePullRequestDiscoveryExhausted(p) ==
    /\ round[p].at = "exhausted"
    /\ runs' = [runs EXCEPT ![round[p].run].state = "blocked"]
    /\ round' = [round EXCEPT ![p].at = "unclaim", ![p].next = "discover", ![p].run = NoRun]
    /\ UNCHANGED <<workflow, claimed, pr, track, faults>>

ReleaseIssueClaim(p) ==
    /\ round[p].at = "unclaim"
    /\ claimed' = FALSE
    /\ IF round[p].next = "idle" THEN Ends(p)
       ELSE round' = [round EXCEPT ![p].at = "discover", ![p].next = "idle"]
    /\ UNCHANGED <<workflow, runs, pr, track, faults>>

-----------------------------------------------------------------------------
(* processTrackedPullRequests *)

ListTracked(p) ==
    /\ round[p].at = "discover" /\ round[p].todo = {}
    /\ IF track.state = "open"
       THEN round' = [round EXCEPT ![p].at = "fetch", ![p].row = track]
       ELSE Ends(p)
    /\ UNCHANGED <<workflow, runs, claimed, pr, track, faults>>

StateAnswered(p) ==
    /\ round[p].at = "fetch"
    /\ round' = [round EXCEPT ![p].at = "owner", ![p].seen = Seen(pr)]
    /\ UNCHANGED <<workflow, runs, claimed, pr, track, faults>>

GitHubFails(p) ==
    /\ faults < MaxOutages /\ faults' = faults + 1
    /\ \/ round[p].at = "discover" /\ \E r \in round[p].todo : round' = [round EXCEPT ![p].todo = @ \ {r}]
       \/ round[p].at = "fetch" /\ Ends(p)
    /\ UNCHANGED <<workflow, runs, claimed, pr, track>>

Observation(seen) == IF seen.state = "gone" THEN "closed" ELSE seen.state
recordPullRequestObservation(seen) == track' = [track EXCEPT !.state = Observation(seen)]

(* The loop observes and records what a workflow owns; it does not act.    *)
ActsOnResolved(p, owned) ==
    /\ round[p].seen.state # "open"
    /\ IF owned THEN Ends(p) ELSE Unclaims(p)

ActsOnOpen(p, owned) ==
    LET row == round[p].row
        seen == round[p].seen
        answered == row.count >= MaxReviews \/ row.review = Fingerprint(seen)
    IN  /\ seen.state = "open"
        /\ CASE owned -> Ends(p)
             [] ~owned /\ pullRequestNeedsReviewFollowup(seen) ->
                    IF answered THEN Ends(p) ELSE Enter(p, "followup")
             [] ~owned /\ ~pullRequestNeedsReviewFollowup(seen) ->
                    IF pullRequestReadyToMerge(seen) /\ ~isIssueMergeRefused
                    THEN Enter(p, "merging") ELSE Ends(p)

OwnerAnswered(p) ==
    /\ round[p].at = "owner"
    /\ recordPullRequestObservation(round[p].seen)
    /\ ActsOnResolved(p, isIssueOwnedByWorkflow) \/ ActsOnOpen(p, isIssueOwnedByWorkflow)
    /\ UNCHANGED <<workflow, runs, claimed, pr, faults>>

(* GitHub takes the merge while the head is the one it was asked for.      *)
(* Mutant: the merge call names no commit. *)
AnyHead(p) == TRUE
HeadIsPinned(p) == pr.head = round[p].seen.head
MergeAllowed(p) == pr.state = "open" /\ HeadIsPinned(p)

MergeAnswered(p) ==
    /\ round[p].at = "merging"
    /\ IF MergeAllowed(p)
       THEN pr' = [pr EXCEPT !.state = "merged", !.by = "loop"] /\ Enter(p, "merged")
       ELSE UNCHANGED pr /\ Ends(p)
    /\ UNCHANGED <<workflow, runs, claimed, track, faults>>

MergeRecorded(p) ==
    /\ round[p].at = "merged"
    /\ track' = [track EXCEPT !.state = "merged"]
    /\ Unclaims(p)
    /\ UNCHANGED <<workflow, runs, claimed, pr, faults>>

-----------------------------------------------------------------------------
(* dispatchReviewFollowup: the claim re-checks the Issue under the mutex.  *)
(* It returns when the whole attempt has ended.                            *)

ClaimRefused == workflow = "raw_fsm" \/ isIssueReserved \/ pr.state = "merged" \/ Len(runs) = MaxRuns

FollowupParent(row) == IF row.followup # NoRun THEN row.followup ELSE row.owner

ReviewDispatched(p) ==
    /\ round[p].at = "followup"
    /\ IF ClaimRefused
       THEN Ends(p) /\ UNCHANGED <<runs, claimed>>
       ELSE /\ runs' = Append(runs, NewRow("running", FollowupParent(round[p].row), Fingerprint(round[p].seen)))
            /\ claimed' = TRUE
            /\ round' = [round EXCEPT ![p].at = "attending", ![p].run = Len(runs) + 1]
    /\ UNCHANGED <<workflow, pr, track, faults>>

recordPullRequestReviewDispatch(p) ==
    /\ round[p].at = "attending" /\ runs[round[p].run].state \notin {"running", "settling"}
    /\ track' = [track EXCEPT !.review = Fingerprint(round[p].seen), !.count = @ + 1,
                              !.followup = round[p].run]
    /\ Ends(p)
    /\ UNCHANGED <<workflow, runs, claimed, pr, faults>>

-----------------------------------------------------------------------------
(* The Runs, as run-controller.ts moves them *)

FreshDispatch ==
    /\ Len(runs) < MaxRuns /\ ~claimed /\ ~isIssueReserved /\ pr.state # "merged"
    /\ ~isIssueParkedAtRawFsmState
    /\ runs' = Append(runs, NewRow("running", NoRun, NoReview))
    /\ claimed' = TRUE
    /\ UNCHANGED <<workflow, pr, track, round, faults>>

AgentPushes ==
    /\ isIssueReserved /\ pr.head < MaxHead
    /\ \/ pr.state = "absent" /\ pr' = [NoPull EXCEPT !.state = "open", !.head = 1]
       \/ pr.state = "open" /\ pr' = [pr EXCEPT !.head = @ + 1, !.green = FALSE, !.vetted = FALSE]
    /\ UNCHANGED <<workflow, runs, claimed, track, round, faults>>

RunReturns(r) ==
    /\ runs[r].state = "running"
    /\ runs' = [runs EXCEPT ![r].state = "settling"]
    /\ UNCHANGED <<workflow, claimed, pr, track, round, faults>>

(* A success defers the release of its claim to the follow-up loop.        *)
RunSettles(r) ==
    /\ runs[r].state = "settling"
    /\ \/ runs' = [runs EXCEPT ![r].state = "succeeded"] /\ UNCHANGED claimed
       \/ runs' = [runs EXCEPT ![r].state = "failed"] /\ claimed' = FALSE
       \/ workflow = "raw_fsm" /\ runs' = [runs EXCEPT ![r].state = "waiting"] /\ UNCHANGED claimed
    /\ UNCHANGED <<workflow, pr, track, round, faults>>

WalkAdvances(r) ==
    /\ workflow = "raw_fsm" /\ runs[r].state \in {"settling", "waiting"}
    /\ Len(runs) < MaxRuns /\ ~isIssueReserved
    /\ runs' = Append([runs EXCEPT ![r].state = "succeeded"], NewRow("running", r, NoReview))
    /\ UNCHANGED <<workflow, claimed, pr, track, round, faults>>

WalkEnds(r) ==
    /\ runs[r].state = "waiting"
    /\ \/ runs' = [runs EXCEPT ![r].state = "succeeded"]
       \/ runs' = [runs EXCEPT ![r].state = "cancelled"]
       \/ pr.state = "open" /\ runs' = [runs EXCEPT ![r].state = "blocked", ![r].refused = TRUE]
    /\ claimed' = FALSE
    /\ UNCHANGED <<workflow, pr, track, round, faults>>

WalkMerges(r) ==
    /\ runs[r].state = "waiting" /\ pullRequestReadyToMerge(pr)
    /\ track.state = "open" /\ Root(track.owner) = Root(r)
    /\ pr' = [pr EXCEPT !.state = "merged", !.by = "walk"]
    /\ track' = [track EXCEPT !.state = "merged"]
    /\ UNCHANGED <<workflow, runs, claimed, round, faults>>

(* adopt-pr: an operator parks a new Run on the open pull request and      *)
(* hands it the row whoever owned it.                                      *)
AdoptPullRequest ==
    /\ workflow = "raw_fsm" /\ Len(runs) < MaxRuns /\ pr.state = "open"
    /\ ~isIssueReserved /\ ~isIssueParkedAtRawFsmState
    /\ LET r == Len(runs) + 1
       IN  /\ track' = [Tracked(r) EXCEPT !.owner = r, !.followup = NoRun]
           /\ runs' = Append(IF Reassigns(r) THEN retirePullRequestDiscoveryChain(track.owner) ELSE runs,
                             NewRow("waiting", NoRun, NoReview))
    /\ claimed' = TRUE
    /\ UNCHANGED <<workflow, pr, round, faults>>

Crash ==
    /\ faults < MaxOutages /\ faults' = faults + 1
    /\ round' = [p \in Passes |-> NoFollowup]
    /\ runs' = [r \in Rows |-> IF runs[r].state \in {"running", "settling"}
                               THEN [runs[r] EXCEPT !.state = "stale"] ELSE runs[r]]
    /\ UNCHANGED <<workflow, claimed, pr, track>>

-----------------------------------------------------------------------------
(* GitHub *)

Vet(q) == [q EXCEPT !.vetted = @ \/ pullRequestReadyToMerge(q)]

ChecksReport ==
    /\ pr.state = "open" /\ ~pr.green
    /\ pr' = Vet([pr EXCEPT !.green = TRUE])
    /\ UNCHANGED <<workflow, runs, claimed, track, round, faults>>

ReviewerActs ==
    /\ pr.state = "open" /\ pr.said < MaxReview
    /\ pr' = [pr EXCEPT !.talk = pr.said + 1, !.said = @ + 1]
    /\ UNCHANGED <<workflow, runs, claimed, track, round, faults>>

ReviewerResolves ==
    /\ pr.state = "open" /\ pr.talk # 0
    /\ pr' = Vet([pr EXCEPT !.talk = 0])
    /\ UNCHANGED <<workflow, runs, claimed, track, round, faults>>

PullRequestResolves ==
    /\ pr.state = "open"
    /\ \E s \in {"merged", "closed", "gone"} : pr' = [pr EXCEPT !.state = s, !.by = "human"]
    /\ UNCHANGED <<workflow, runs, claimed, track, round, faults>>

-----------------------------------------------------------------------------
FollowupInit ==
    /\ workflow \in {"raw_fsm", "markdown"}
    /\ runs = <<>> /\ claimed = FALSE /\ pr = NoPull /\ track = NoTrack
    /\ round = [p \in Passes |-> NoFollowup] /\ faults = 0

PassStep(p) ==
    \/ \E r \in Rows : BranchAnswered(p, r)
    \/ terminalizePullRequestDiscoveryExhausted(p) \/ ReleaseIssueClaim(p)
    \/ ListTracked(p) \/ StateAnswered(p) \/ OwnerAnswered(p)
    \/ MergeAnswered(p) \/ MergeRecorded(p)
    \/ ReviewDispatched(p) \/ recordPullRequestReviewDispatch(p)

RunStep(r) == RunReturns(r) \/ RunSettles(r)

FollowupNext ==
    \/ \E p \in Passes : PassStarts(p) \/ PassStep(p) \/ GitHubFails(p)
    \/ \E r \in Rows : RunStep(r) \/ WalkAdvances(r) \/ WalkEnds(r) \/ WalkMerges(r)
    \/ FreshDispatch \/ AgentPushes \/ AdoptPullRequest \/ Crash
    \/ ChecksReport \/ ReviewerActs \/ ReviewerResolves \/ PullRequestResolves

(* Ticks go on and GitHub answers; a Run ends.  What people do is not fair. *)
FollowupFairness ==
    /\ WF_followupVars(\E p \in Passes : PassStarts(p))
    /\ \A p \in Passes : WF_followupVars(PassStep(p))
    /\ WF_followupVars(\E r \in Rows : RunStep(r))

FollowupSpec == FollowupInit /\ [][FollowupNext]_followupVars /\ FollowupFairness

-----------------------------------------------------------------------------
(* What makes FollowupInvariant inductive *)

RunStates == Terminal \cup {"running", "settling", "waiting"}
PassPlaces == {"idle", "discover", "exhausted", "list", "fetch", "owner", "merging",
               "merged", "followup", "attending", "unclaim"}
RunRow == [state : RunStates, parent : Nat, tries : Nat, refused : BOOLEAN,
           review : Nat \X Nat]
PullStates == {"absent", "open", "merged", "closed", "gone"}
Pull == [state : PullStates, head : 0 .. MaxHead, green : BOOLEAN, talk : Nat,
         said : Nat, vetted : BOOLEAN, by : {"nobody", "loop", "walk", "human"}]
SeenPull == [state : PullStates, head : 0 .. MaxHead, green : BOOLEAN, talk : Nat]
TrackStates == {"absent", "open", "merged", "closed"}
TrackRow == [state : TrackStates, owner : Nat, followup : Nat, count : Nat,
             review : Nat \X Nat]
Round == [at : PassPlaces, todo : SUBSET Nat, run : Nat, row : TrackRow,
          seen : SeenPull, next : {"idle", "discover"}]

FollowupRecords ==
    /\ workflow \in {"raw_fsm", "markdown"} /\ claimed \in BOOLEAN
    /\ runs \in Seq(RunRow) /\ pr \in Pull /\ track \in TrackRow
    /\ round \in [Passes -> Round]

ParentsAreOlder == \A r \in Rows : runs[r].parent < r

(* The row names Runs that exist, and a pull request that did.              *)
TrackFits ==
    /\ track.owner <= Len(runs) /\ track.followup <= Len(runs)
    /\ (track.state = "absent") = (track.owner = NoRun)
    /\ track.state # "absent" => pr.state # "absent"

Acting == {"fetch", "owner", "merging", "merged", "followup", "attending"}

(* What a pass has seen ready is still vetted if it is still the head.      *)
Fits(l) ==
    /\ l.todo \subseteq Rows
    /\ l.run <= Len(runs) /\ l.row.owner <= Len(runs) /\ l.row.followup <= Len(runs)
    /\ l.at \in {"exhausted", "attending"} => l.run # NoRun
    /\ l.at \in Acting => track.state # "absent"
    /\ l.at = "owner" => l.seen.state # "absent"
    /\ l.at = "merging" => pullRequestReadyToMerge(l.seen)
    /\ l.seen.head <= pr.head
    /\ l.at \in {"owner", "merging"} /\ pullRequestReadyToMerge(l.seen)
         /\ pr.state = "open" /\ pr.head = l.seen.head => pr.vetted

PullFits ==
    /\ pr.state = "absent" => pr = NoPull
    /\ pullRequestReadyToMerge(pr) => pr.vetted
    /\ pr.by = "loop" => pr.vetted /\ pr.state = "merged"

OneRunning ==
    \A q, r \in Rows : runs[q].state = "running" /\ runs[r].state = "running" => q = r

FollowupInv ==
    /\ FollowupRecords /\ ParentsAreOlder /\ TrackFits /\ PullFits /\ OneRunning
    /\ \A p \in Passes : Fits(round[p])

-----------------------------------------------------------------------------
(* Properties *)

(* The loop merges only a commit that was seen ready: a push, a check or a  *)
(* review that lands between the observation and the merge call may change  *)
(* the head, and the call names the head it judged.                         *)
MergedCommitWasVetted == pr.by = "loop" => pr.vetted

(* A merge is sent for an open pull request only while no raw-FSM Run holds *)
(* or parks the Issue and none had its merge refused, whatever happened to  *)
(* the Run while GitHub and the workflow file were read.                    *)
MergeLeavesWorkflowAlone ==
    [][\A p \in Passes : round'[p].at = "merging" /\ round[p].at # "merging"
        => /\ ~isIssueMergeRefused
           /\ workflow = "raw_fsm" => ~isIssueReserved /\ ~isIssueParkedAtRawFsmState]_followupVars

(* A pull request is not taken from a Run Chain that still has a live Run:  *)
(* a follow-up of the old chain may have started while discovery asked      *)
(* GitHub for another chain's branch.  Only adopt-pr overrules it.          *)
LiveOwnerKeepsPullRequest ==
    [][track.owner # NoRun /\ track'.owner # track.owner
       => isRunChainFullyTerminal(track.owner) \/ AdoptPullRequest]_followupVars

(* Two chains of one branch do not pass the row back and forth: what        *)
(* discovery takes from a chain, no Run of that chain discovers again.      *)
DisplacedChainStaysOut ==
    [][track.owner # NoRun /\ track'.owner # track.owner /\ ~AdoptPullRequest
       => \A q \in Chain(track.owner) : runs'[q].tries >= MaxDiscovery]_followupVars

(* However passes overlap, the Issue has one Run in flight: a pass that     *)
(* judged old feedback does not start a second one beside it.               *)
OneRunInFlight == Cardinality({r \in Rows : runs[r].state = "running"}) <= 1

(* A claim a markdown success left to the loop is given back once its       *)
(* tracked pull request is merged, closed or gone, unless a crash falls     *)
(* between the write of the row and the release.                            *)
ResolvedPullRequestFreesClaim ==
    (workflow = "markdown" /\ claimed /\ track.state = "open" /\ pr.state \in {"merged", "closed", "gone"})
        ~> (~claimed \/ faults > 0)

(* A success that shows no pull request is given up, tracked after all, or  *)
(* continued: it does not hold its Issue for ever.                          *)
SilentSuccessEnds ==
    [](workflow = "markdown" /\ listRunsAwaitingPullRequestDiscovery # {}
       => <>(listRunsAwaitingPullRequestDiscovery = {} \/ faults > 0))

(* docs/adr/0044: the loop "does not dispatch the same fingerprint twice".  *)
FeedbackIsAnsweredOnce ==
    \A q, r \in Rows : q # r /\ runs[q].review # NoReview => runs[q].review # runs[r].review

(* One Run at a time, and no merge of a commit nobody judged.               *)
FollowupInvariant == FollowupTypeOK /\ MergedCommitWasVetted /\ OneRunInFlight

(* The loop takes nothing from those that own it: no merge from a workflow, *)
(* no pull request from a live chain, none back from the chain it went to.  *)
FollowupRespectsOwners ==
    MergeLeavesWorkflowAlone /\ LiveOwnerKeepsPullRequest /\ DisplacedChainStaysOut

(* What a markdown success leaves to the loop is given back by the loop.    *)
DeferredClaimsComeBack == ResolvedPullRequestFreesClaim /\ SilentSuccessEnds
===============================================================================
