# A formal model of the Symphonika daemon

Symphonika is one Node process that polls GitHub for issues, claims them by
label, runs a coding agent on each in a workspace of its own, and decides from
the outcome what happens next: a retry, a continuation, the next state of a
workflow, a wait, or nothing. Everything hard about it happens between two
`await`s: the process has no threads, but at any moment several dispatches,
attempts, timers and a reconcile tick are suspended somewhere, over a SQLite
store, an in-memory slot registry, in-memory timers and GitHub's labels, which
have to agree when the process is stopped, killed and started again.

This directory holds TLA+ modules translated from the source, the TLC runs that
check them, and proofs about them. Paths below are relative to the repository;
`RC` is `src/lifecycle/run-controller.ts`.

## 1. Inventory

| Component | State it keeps | Operations | Correct when |
|---|---|---|---|
| Run claim and dispatch (RC) | candidates, the claim under way | pick, claim section, rollback, retry, continuation, state advance, wait park | one Run per issue, within the caps, no row without an attempt, no owed work lost |
| Run attempt (RC) | locals of `runAttemptLifecycle` | prepare, start, drain, settle, classify, terminal write, labels, `scheduleNext` | cancels and verdicts are honoured, labels follow the row |
| In-flight registry (`in-flight-runs.ts`, `concurrency-capacity.ts`, `async-mutex.ts`) | slots, cancel latches, label policy, shutdown flag | reserve, attach, cancel, unregister, `beginShutdown` | slots within caps, every latched cancel reaches its agent |
| Delayed work (`scheduled-work.ts`, `active-runs.ts`) | one timer per issue | arm, fire, clear with owner | an accepted timer fires or leaves evidence |
| Reconcile tick (`daemon.ts`, `reconcile.ts`, `stale-claims.ts`, `shutdown-resume.ts`) | last poll, todo of the pass | six passes | a killed Run resumes once, a dead claim is marked |
| Claim labels (`claim-label-writer.ts`) | GitHub labels | `applyTerminal`, `release` | the label says what the row says |
| Run store (`run-store.ts`) | the tables of all the others | row writes, sweeps, queries | terminal rows stay, the first verdict wins |
| Start, stop, crash (`daemon.ts`) | everything above | `stop`, leaked-run sweep | nothing live is lost silently |
| Watchdog and deadline (`watchdog.ts`, `watchdog-subject.ts`, RC) | samples, the pass's locals | list, stat, read, walk, judge, stale | a verdict rests on the attempt's own evidence and lands once |
| PR follow-up (`pull-request-followup.ts`) | tracked pull requests, review rounds | discover, track, review, merge, retire | merges only what was judged, takes nothing from its owner, gives claims back |
| Provider plans (`issues/provider-start.ts`, RC) | plans, pending label writes | Start, Retry, Cancel, expire, bind | no chain is started past a live plan |
| Provider interventions (`issues/provider-recovery.ts`, `lifecycle/chain-provider.ts`, RC) | interventions, chains, launches | recover, review, launch, resume, sweep | one active Run per chain, launched as the operator confirmed |
| Providers (`providers/`) | session, supervisor, process group, scopes | handshake, turn, shut down, preserve the exit, sweep | no process forgotten, no exit told as what it was not |
| Workspaces and git (`workspace.ts`, `issue-workspace-retention.ts`) | cache, worktrees, branches | prepare, abort, adopt, clean up, prune | one turn at the cache, no commit or live worktree lost |
| Routines (`src/routines/dispatcher.ts`) | schedules, fan-outs, firings | sync, plan, defer, catch up, fire, summarise | an event fires once per Project or is accounted for |
| Routine Firing (`dispatcher.ts`, `runRoutineFiring`) | one firing's row and awaits | prepare, run, classify, cancel, expire, sweep | the row tells what happened; it ends |
| Self update (`src/update`) | drain flag, trees on disk | check, stage, drain, cut over, roll back | a good build is always on disk, dispatch comes back |
| Polling and publication (`issue-polling.ts`, `issue-poll-publication.ts`, `github-backoff-ledger.ts`) | shared status, snapshots, backoff | poll, merge, publish, claim | a failed poll blanks nothing, nothing is claimed past a backoff |
| Weighted scheduling (RC 4466-4600) | stored weights | pick, record | nobody starves |
| Configuration reload (`reload.ts`, `http/save-pipeline.ts`) | snapshot, status, routines table | read, install, save, sync | the table follows the snapshot, edits take effect in order |
| Workflow FSM, host pressure gate, file overlap guard, notifications, Maestro, HTTP, CLI | | | not modelled: section 6 |

How they interact: the tick (one at a time, on a promise chain) reloads, reads the
poll and the store, cancels Runs through the registry, evaluates waiting rows under
`dispatchMutex`, arms resumes, marks stale claims and starts a dispatch, which
outlives it. A dispatch, and each fired timer, enters the claim section under
`dispatchMutex`, writes `sym:claimed`, creates the row, reserves the slot, and
starts an attempt, which holds the slot until its `finally` and takes the mutex
again for its terminal write, labels and `scheduleNext`. The watchdog, a
deadline, the operator's cancel and `stop()` take no mutex. Routine Firings share
the registry and take no mutex either. The follow-up and the pull-request poll are
fire-and-forget and may overlap themselves. Operators reach plans, interventions,
saves, manual firings and cancels over HTTP, between any two awaits of these.

What is hard, line by line, is `hazards` in `PROJECT.json`, each with the
properties that would catch it.

## 2. Modules

| Module | Models |
|---|---|
| `LifecycleState` | constants, variables, the reads of store, registry and tracker, the row and label values the code writes, `scheduleRunWork` |
| `RunDispatch` | `pickTargetFromCandidates`, `claimAndPersistRun`, fired timers, `executeRetry`, `reEvaluateWaitingRun` |
| `RunAttempt` | `runAttemptLifecycle`, `completeTerminalRun`, `scheduleNext` |
| `DaemonTick` | the tick's passes, Routine Firing slots, deadline, watchdog, operator, tracker, `stop`, crash, restart |
| `RunLifecycle` | the three composed: `Init`, `Next`, fairness, all their properties and inductive invariants |
| `SlotRegistry` | abstract: what the in-flight registry promises |
| `ProviderProcess` | one Run's provider: session, supervisor, guardian, process group, systemd scope, start-up sweep |
| `WatchdogSampling` | one Run under the sampled watchdog |
| `PullRequestFollowup` | overlapping follow-up passes over one Issue |
| `ProviderPlans`, `ProviderInterventions` | the operator's choice of a provider before a chain begins, and after it has stopped |
| `IssueWorkspaces` | worktrees of one Project's issues under aborts, adoption and retention |
| `ConfigReload` | reloads, saves, and the routines table |
| `Routines` | one Routine of several Projects: clock, fan-out, firings, summary |
| `RoutineFiring` | one firing from claim to settled row |
| `SelfUpdate` | the update cycle, every rename of the cutover and of the rollback, the drain gate |
| `IssuePoll` | poll, publication, backoff windows, claims at their boundary |
| `ProjectPicker` | the weighted choice of a Project |
| `MCRunLifecycle`, `MCCapacity`, `MCRoutines`, `MCIssuePoll`, `MCServices`, `MCSupervision`, `MCProviders`, `MCEstate` | instances for TLC |
| `RunLifecycleProofs`, `RunSafetyProofs`, `RoutineProofs`, `ServiceProofs`, `ProviderProofs`, `PollProofs`, `WorkspaceProofs`, `SupervisionProofs` | proofs |

An MC module that EXTENDS two components which share no state has a variable `part`:
a behaviour of it is a behaviour of one of them, the other stays where it began with
its fair actions disabled. This puts two questions into one state graph and
combines nothing. Every component is translated on its own, and `map` in
`PROJECT.json` names the lines of each definition. Where two components share a
table (`Routines` and `ConfigReload`, `ProviderPlans` and `RunDispatch`) each keeps
the columns its own decisions read.

**Threads and steps.** A step is the synchronous code between two awaits. In
the lifecycle, `pc` says at which await each chain of awaits is suspended: threads
are `Attempt(r)`, `Timer(r)` and `Wait(r)` of a row, `Batch(b)` of a
`dispatchFresh`, and `Tick`; `mutex` is the queue of `AsyncMutex`, its head the
holder. The other modules keep the await a flow is at in the flow's record
(`at`). Pure loads (workflow, configuration, token) get no step of their own when
nothing they could interleave with reads what the code holds across them. A GitHub
write takes effect in the step that completes it.

| Code | Actions of the lifecycle |
|---|---|
| `dispatchFresh`, `pickProjectCandidate` (RC 974, 4466, 4584) | `BatchPick` |
| `claimAndPersistRun` (RC 5053-5444) | `ClaimGate` (shutdown, suppression), `ClaimCheck` (pressure, caps, reservation, park), `ClaimPersist`, `ClaimRollback` (stop during the label write), `ClaimLabelFails` |
| `ScheduledWorkRegistry` | `TimerFire`, `ScheduleRunWork`, `ScheduleWait` |
| refresh of a fired timer (RC 1788, 3430, 4156) | `TimerAdmitted`, `TimerDropped`, `TimerUnavailable` |
| `executeRetry` (RC 1764-2028) | `RetryGate`, `RetryCheck`, `RetryLabel` |
| `reEvaluateWaitingRun` (RC 2905-3224) | `WaitRead`, `WaitEvaluate`; from the tick `TickWaitRead`, `TickWaitEvaluate` |
| `runAttemptLifecycle` (RC 5480-6064) | `RunEntry`, `RunLoad`, `RunParks`, `RunPreparationFails`, `RunSetup`, `RunStart`, `ProviderExit`, `RunSettle`, `RunClassify` |
| `completeTerminalRun`, `scheduleNext` (RC 4809, 6532) | `RunTerminal`, `RunLabels`, `RunNext` |
| `tick`, `reconcile`, `launchWork` (`daemon.ts` 853-1340) | `TickPoll`, `TickReconcile`, `TickWaits`, `TickResumeOne`, `TickMark`, `TickLaunch` |
| `startClaimedRoutineFiring` | `FireRoutine`, `EndRoutine` |
| deadline, `sampleAndTerminate`, `cancelViaUi` | `RunTimeout`, `WatchdogStale`, `OperatorCancel` |
| `stop` (`daemon.ts` 2417), start-up sweep (255) | `StopBegin`, `StopDone`, `Crash`, `Restart` |

**Data.** A row keeps what decisions read: `state`, `reason`
(`cancel_reason`, `cancel_requested`), `why` (the class of `terminal_reason`),
`retries`, `cont` (`is_continuation`), `stamp` (is `current_state_id` null, the
state the row executes, or the one its transition leads to), `declined`. Three
watchdog verdicts are one in the lifecycle, and are told apart in
`WatchdogSampling`; `input_required` is a failure. An agent's outcome and a raw
FSM's decision are inputs. Time is a set of ages (`WatchdogSampling`), a small
clock (`Routines`) or absent: timers fire when they like, and one that overtakes a
message already due counts as a stall of the event loop, which is a fault
(`ProviderProcess`). A commit is a number, a tip a set of commits, a tree on disk a
version and how far it was verified, a Routine file the declaration it parses to.

**What the environment may do** is a budget: `MaxDisturbances` over the kinds in
`Disturbances` for the lifecycle (`fault`: a GitHub call fails or times out,
preparation fails, the host is pressured; `edit`: close, reopen, ready label;
`operator`, `watchdog`, `timeout`, `stop`, `crash`), and a `Max...` constant per
kind in the other modules, each commented as a bound where it is declared.

## 3. Runs

| Run | Instance | Shows |
|---|---|---|
| `recovery` | 1 issue, 3 rows, 2 slots, one of fault / crash / edit, candidate lists of any age | `NoOrphanRow`, `OneRunPerIssue` |
| `watchdog` | 4 rows, two of operator / watchdog / timeout, a retry and a continuation | `CancelReachesProvider`, `ContinuationsWithinCap` |
| `waits` | raw FSM, 5 rows, two of watchdog / operator / timeout, every verdict | `ParkedWalkIsAlone`, `LabelsFollowTheAttempt` |
| `liveness` | raw FSM, fair, 3 rows, one of stop / crash / fault / operator / watchdog, two retries, advances | `TypeOK`, `VerdictsStick`, `StopLeavesNothingOwed`, `StopEnds`, `AbandonedWorkIsTakenUp` |
| `capacity` | slots: 2 issues, 2 dispatches, Firings of 2 Projects, caps 2 and 1; processes: 2 attempts, 1 output, 1 queued message, 1 fault | `SlotsWithinCaps`, `ImplementsSlotRegistry`, `ProcessInvariant`, `CancelEnds` |
| `supervision` | sampling: grace 2, budget 2, cap 2, 2 attempts, 2 unread events; follow-up: 2 passes, 3 Runs, 2 commits, 1 review | `SamplingInvariant`, `RunsThatFallSilentEnd`, `FollowupInvariant`, `FollowupRespectsOwners`, `DeferredClaimsComeBack` |
| `providers` | plans: 3 requests, 1 root Run, 1 mishap; interventions: 2 over a chain of 4 Runs, 1 edit, 2 troubles | `PlanInvariant`, `PlansBindRoots`, `PlansSettle`, `InterventionInvariant`, `PlanRewrittenByLaunchOnly`, `InterventionSettles` |
| `services` | update: 2 versions, 1 piece of work, 1 kill, 1 failing rename; firing: 2 stops or crashes | `UpdateInvariant`, `DrainClears`, `FiringInvariant`, `FiringVerdictIsFinal`, `FiringsEnd` |
| `routines` | 2 Projects, 2 firings, clock to 2, one edit, crash or failed delivery | `RoutineInvariant`, `EventsAreAccountedFor` |
| `poll` | poll: 2 configurations that share a token or a name, 1 change; picker: 3 Projects of weights 3, 1, 1, 2 batches, 5 selections | `PollInvariant`, `PickerInvariant`, `PublicationKeepsWhatIsKnown` |
| `estate` | worktrees: 1 issue, 2 Runs, 2 commits, 1 failing command; reload: 2 files, 1 host, 2 names, 2 edits, 1 restart | `WorkspaceInvariant`, `WorktreesAndCommitsStay`, `ReloadInvariant`, `EditsTakeEffectInOrder` |
| `v_adopt` | as `estate`, 3 Runs | `AdoptionKeepsCommits` violated |

Deadlock is checked in the four runs of `MCRunLifecycle` and in `capacity`: a
finished daemon can always be restarted, so the lifecycle never legitimately
stops (the processes of one Run may, and stutter there). The other runs say
`CHECK_DEADLOCK FALSE`: when their budgets have run out, what is left (a settled
firing, a chain at its last Run, a rebooted installation) may rest.

### Bounds, and why they are enough

- One issue for everything of the lifecycle but slots: the operations couple
  issues only through slots and the mutex, and `capacity` has two, with two
  dispatches. 3 to 5 rows: an original, its successor, the successor of an
  interrupted successor, and two more where a walk parks. At the bound a claim sees a
  pressured host (`StoreFull`), a refusal the code handles anyway.
- One or two disturbances: every race here is of one event with the daemon's own
  steps, or of two (stop and operator, watchdog and operator, two verdicts).
- `ShortPolls` says that an attempt outlives every poll and candidate list older
  than its claim. It is off where candidate age matters (`recovery`). On, it
  leaves out that a pass with a stale list takes the slot of an owed retry.
- `supervision`: two overlapping passes are the fewest that can race; a Run, its
  retry or review Run and a fresh one are three; two commits are one judged and
  one pushed past the judgement. Grace, budget and cap of 2 let a run be below, at
  and above each. Two unread events are one that `stat` saw and one appended before
  the stream ends, the race at `watchdog.ts:560`. The three follow-up parts (`MCSupervision`) divide what the
  environment does; the passes themselves are whole in each, and no part holds
  back an action whose fairness a liveness property rests on.
- `providers`: three requests are a Start and the two that can race its late label
  write; two interventions are one accepted and one that must not be. `services`:
  with two versions the second can fail, be rolled back and meet the self-heal.
- `routines`: two parts (`MCRoutines`). With a period and a horizon of one and a
  clock to two, an event can be due, deferred, missed and followed by another.
  The Projects are alike but for the edits, so the operator fires one of them.
- `poll`: two declarations that share a token, or a name. A claim is the `claim` of
  the last step. With three Projects a skewed pick shows what two cannot (below).
- `estate`: one issue has every race on the cache through its two Runs. In the
  `reload` part the saves are of the Service Config and the first file, an edit that
  is not a save falls in a reload or beside an open editor, and the daemon restarts
  between two reloads, after the last edit.

None of these bounds is in the theorems of section 5, which are why the instances
may be this small.

### Preconditions of properties

`ContinuationsWithinCap` states its own conditions (`Undisturbed`): the daemon is not
stopped, since a shutdown resume is a continuation and counts; no attempt ends while
a poll or candidate list older than its claim still offers the issue (`ShortPolls`),
since that starts a second chain beside the first and both count against one cap
(divergence 12); and the workflow is markdown, since a raw FSM's advances are counted
as continuations and ask no cap. `ParkedWalkIsAlone` is said of a daemon that is
`Steady`: no request fails and nobody edits the issue either, while a crash is
allowed. After a closed and reopened issue, or a fired timer that a failed refresh
dropped, a Run may start beside a park left by a killed one. A stop breaks it too: it
rolls back the claim of an advance and strips `sym:claimed`, which the walk owned, so
after the restart a fresh claim runs beside the resume (only 6 rows show it).
The first half of `LabelsFollowTheAttempt` (`RunningLabelHasAttempt`) needs label
writes that do not fail and no crash between them; the second
(`RunningIssueIsClaimed`) needs a `Steady` daemon for a raw FSM, an `Undisturbed` one
otherwise. `StopLeavesNothingOwed` is checked with a budget of one, so the stop is
the only disturbance in the behaviours it speaks of: a failed refresh drops a
retry. `OneVerdictEach` (in `PollInvariant`) is said of configurations that declare no
repository of a Project twice. `CancelEnds` excepts a provider that ended by itself
while a build tool it left behind keeps its output open (divergence 9 below).

### Fairness

Weak fairness of each thread's steps: a callback whose await has settled is run;
GitHub calls settle (they carry timeouts); a provider that was told to stop ends
(its process scope is killed). A running agent and a Routine owe nothing, and no
disturbance is fair. The tick repeats as the poll timer does. The mutex needs no
strong fairness because its queue is first in, first out. `ProviderProcess` is fair
to the event loop and the supervisor, not to the provider or to what survives it;
`RoutineFiring` never to GitHub, only to the clocks the code races it with;
`ProviderPlans` to requests, claims and the poll; `ProviderInterventions` to
launches, the sweep and to Runs ending; `PullRequestFollowup` to passes and Runs;
`WatchdogSampling` to the clock, the passes and to attempts whose cancel was
requested. None of them is fair to a crash, an edit, a person or GitHub.

## 4. What the code does that a document does not say

`v_adopt` is a run. A Run ends with a commit nobody pushed, retention removes its
worktree and keeps the branch "so that its history is recoverable"
(`issue-workspace-retention.ts:33`), and adopting the pull request then finds no
worktree and moves the branch by force (`workspace.ts:478`): the commit is on no
branch.

Others are stated in their module as what a document says, each refuted by a
counterexample of TLC, and not kept as a run:

1. `RunLifecycle`: `SlotsNeverExceedCap` (a Firing takes the last slot while a claim
   awaits its label), `StaleMarksDeadClaims` (an issue claimed after liveness was
   read is marked stale), `WaitAdvanceIsScheduled` (the tick evaluates a wait whose
   timer is armed; scheduling the advance throws, the walk is lost),
   `KilledRunKeepsItsState` (a killed attempt is still evaluated and resumes in the
   next state), `VerdictIsOfThisAttempt` (a late verdict is inherited by the retry of
   the same row), `WaitCancelIsHonoured` (a cancel during the observation is never
   seen).
2. `SelfUpdate`: `CutoverIsDrained`, `PriorGenerationKept`, `RollbackRecovers`.
3. `Routines`: `DispatchNeverThrows`. `IssuePoll`: `ClaimedWherePolled`.
4. `PullRequestFollowup`: `FeedbackIsAnsweredOnce`. `WatchdogSampling`:
   `TrueCumulative` (a count per message that the stream reads past the stat is added
   again; a running total is not).
5. `ProviderInterventions`: `StoppedRunKeepsItsVerdict`, `OnlyTheHeadIsReentered`.
   `IssueWorkspaces`: `LiveChainIsNotReclaimed`.

Met while modelling or proving, without a property of their own:

6. Found by the proof of `VerdictsStick`: a park that `schedule()` refuses after the
   row already said waiting leaves a row that a wait step of the tick may settle, and
   that the attempt's own terminal write then overwrites; `FailedPark` names the
   exception. A blocked row with an advance armed becomes cancelled
   (`daemon_shutdown`) at a stop.
7. Found by the proof about the picker: "a Project is passed over for at most the
   total weight" holds for two Projects only. What holds for n of them, and is
   proved: what it gained before it wins exceeds the total weight once per other
   Project at most, that is (n-1) * total / weight selections.
8. Reload: a carried-forward routine keeps the `routine_defaults` it was merged with
   (SPEC 889-895); a save refuses a stale write before it touches the disk
   (`save-pipeline.ts:97`), with awaits between the check and the write; after a
   restart, a broken edit that garbles the name removes the row (SPEC 1667), and a
   broken Service Config synchronizes an empty Project map, so every row becomes
   inactive; a Project declared twice takes its routines away; the stub of a manual
   firing may flip an inactive row of a valid declaration to invalid until the next
   synchronization.
9. Providers: a group signal may go to a group that has no member left (ADR 0064
   lines 91-100). After a natural release a surviving build tool that holds the
   output keeps `close` from firing: the cancel is refused and the attempt hangs
   (ADR 0064 line 50).
10. Workspaces: adoption's `fetchOriginRef` runs outside the cache turn
    (`workspace.ts:720`, ADR 0053); a registration without a directory at the
    plan's own path is refused as a conflict that names that path.
11. Interventions: a second shutdown's resume loses the recovery provider; a re-arm
    that throws leaves the pending count; `sym:stale` after a crash keeps refusing
    recoveries.
12. Lifecycle: a fired timer's issue may be claimed by a dispatch that holds it from
    an older poll (ADR 0052 lines 73-77); an operator's cancel between `unregister`
    and the terminal write is answered and has no effect; `beginShutdown`'s comment
    says it runs under the dispatch mutex, `stop()` does not take it; a rollback at
    shutdown strips `sym:claimed` also when the walk owned it; a refresh that is
    unavailable drops a fired retry; a crash loses armed retries.

## 5. Proofs

All of it holds for any values of the constants that satisfy the named assumptions
of the component (`SetsAssumption`, `BoundsAssumption`, `RoutineBounds`, ...), which
say what is a natural number, what is not empty and what is apart. TLC agreed with
every inductive invariant on the instance of a run before it was proved. Where a
proof attempt failed for a good reason the model or the statement was wrong; those
are items 6 and 7 above, and the corrections noted below.

An inductive invariant is defined in the component's module, beside what it
strengthens, or at the head of the proofs where only they need it. Every proof has
the same shape: the initial states, one lemma per operation (with one step per part
of the invariant that the operation can disturb), the step, and PTL.

### Run lifecycle: `RunLifecycleProofs`, `RunSafetyProofs`

- `TypeCorrect`, `MutualExclusion`, from `TypeInvariance` (`Spec => []TypeInv`). A
  row's `retries` never exceeds `RetryCap` though the check and the increment are in
  different steps; no thread is between the checks of a claim and its reservation,
  between a terminal write and `scheduleNext`, or evaluating a wait, unless it holds
  `dispatchMutex`. `TypeOK` alone is not inductive: a row is created at `nrows + 1`, so
  the thread whose label is being written must have found room (`RoomInv`), and no
  other may take it (`CriticalSections`). A claiming thread must carry a claim
  (`WorkInv`), a timer the work of its own row (`SchedInv`). `todo` is a set of rows
  in some passes and of issues in others (`TodoInv`), and a Run that parks has a
  waiting row (`ChildInv`).
- `CapsHold`, `OneRunEach`, `RegistryRefined` (the refinement of `SlotRegistry`), from
  `SlotInvariance`. A claim checks caps and reservation, awaits the `sym:claimed`
  request, and only then takes the slot. `GrantInv` says that what it checked still
  holds then, but for one Firing: only the holder of the mutex takes a Run's slot
  (`MutualExclusion`), and a Firing is admitted below the cap. `RowsInv` is needed
  because a new row must not be in flight yet. Nearly all steps are *calm* (they
  return slots or leave them alone and start nothing); the proof is about the three
  that are not: `ClaimCheck`, the grants, `FireRoutine`.
- `NoneOrphaned`. An attempt ends in `RunNext`, which does not look at the row; what
  makes it safe is that the row got its terminal state two awaits earlier and that
  nothing in between makes a row active again (`OrphanInv`).
- `CancelsReachProviders`: the property is inductive over `TypeInv` as it stands.
- `VerdictsKept`, from `VerdictInvariance`. `VerdictInv` is a statement about each row:
  its delayed work is in one place and fits the row's state (`TimerFits`), its attempt
  finds the row as it left it (`AttemptFits`), its slot lasts from the reservation to
  the settling (`SlotFits`), a wait under evaluation still waits unless a deadline
  took it (`WaitFits`), and a row killed in an earlier life has only its resumption
  (`KilledRests`). A step writes one row, but for the reasons a reconcile, a stop and a
  restart give to several; every other row is `LeftAlone`, and one lemma (`AloneFits`)
  carries the invariant over.
- `ContinuationsCapped`, from `ChainInvariance`. The code compares a count of succeeded
  rows with the cap and then arms a timer, so two Runs of one issue that may still
  continue would pass it together. `ChainInv` says that there is one at most: a Run is
  `Engaged` while it is in flight, being attempted, has delayed work or is about to
  schedule some, and an engaged one holds `sym:claimed` or the registry entry that
  hide its issue from fresh dispatch, and `Continues` only below the cap. The proof
  sorts the steps: most rest every row and every issue (`RowRests`, `IssueRests`), a
  claim makes an engaged row of an issue that had none, and an attempt or timer moves
  the one there is (`StepChained`). Two things were wrong before it:
  `ShortPolls` did not count an issue that a batch had already picked, and the
  property was said of raw FSMs and of overlapping polls, where it is false.
- `RunningMeansAttempt` (the first half of `LabelsFollowTheAttempt`). `LabelInv` names
  the attempt: one that is `Wearing` the label has its setup behind it and its label
  write or its settling before it. Only a setup puts the label on; an attempt that
  stops wearing it takes it off in that step; nobody else writes it but to take it off.

### Supervision: `SupervisionProofs`

- `MergesOnlyWhatWasJudged`, `LoopRespectsOwners`. `FollowupInv` says what a pass may
  still believe of what it read awaits ago: `Fits` of a round says that a head it saw
  ready is judged if it is still the head, whoever pushed, merged or retracked
  meanwhile. `TrackFits`, `PullFits` and `ParentsAreOlder` (a chain's parents are older
  rows, so it ends) are what the tables must say for that. The bound on `tries` is not
  part of the types: retirement may set it while another pass still holds the row.
- `VerdictsRestOnEvidence`. A pass opens the log only if the stat saw something new, and
  then reads past that size; the invariant has to hold across both. `NothingNew` is what
  the log beyond the offset holds when it is no news: nothing, or with running totals the
  usage an earlier pass read too far, which does not advance the total again. Until news
  lands there, `SampleFits` keeps the idle clock of the sample ahead of the agent's real
  silence by one pass at most; `HeardWithinPass` says the same of a pass that found
  nothing, with the silence as of its stat. `LogFits` gives each event beyond the offset
  one token or none, so that none is lost between the stat and the end of the stream;
  `PassFits` says that a pass still stands for the sample it loaded, or outlived its
  attempt and writes nothing.

### Providers: `ProviderProofs`

- `NoPlanBesideRunningWork`, `PlansBindForGood`. `PlanInv` adds what the operator's
  request and the claim hold across their awaits: `ClaimHasRoom`, `RequestsNamePlans`,
  `OneLivePlan`, `ClaimHoldsPlan`.
- `LaunchedOnceAndAsConfirmed`, `OnlyALaunchRewritesThePlan`. `InterventionInv` follows a
  launch from acceptance to its Run (`LaunchFits`, `ScheduledBegan`, `OneInMutex`), keeps
  a shutdown resume alone (`ResumeAlone`) and a chain with one active Run (`OneActive`).
- `ProcessesAreAccountedFor`. `ProcessInv` relates the five parties of a shutdown: what
  the tree may still hold (`TreeFits`), where the session waits (`SessionFits`), what is
  on the pipes (`WireFits`), how far the shutdown is (`ShutdownFits`), what was told
  (`ExitsAreTold`) and which scopes are owed (`ScopesFit`).

### Polling and picking: `PollProofs`

- `PollTellsTheTruth`, `PublicationIsConservative`. A poll that began under an older
  configuration ends under a newer one; `FreshReports` and `PollFollowsConfig` say which
  parts of its report still speak of the configuration that is published.
- `NoProjectIsStarved`. Sums over any finite set of Projects, so by induction on finite
  sets: the library's induction theorems cannot be used here (they take an
  operator as a parameter), and the proofs go through the well-foundedness of strict
  inclusion, and of `<`, instead. The bound on what a set S of k Projects may stand at
  is 2 * sum(S) <= T * k * (n - k): picking the largest keeps it (`Balanced`).

### Routines: `RoutineProofs`

- `EventsFireOnce` (`RoutineInvariant`), `EventsAccounted` (`EventsAreAccountedFor`). A
  dispatch is one step of many operations on the tables, a pass over the Projects for
  each phase, so the proof is about tables: `Sound` says what they satisfy between any
  two operations (`RowsFit`, `FanoutsFit`, `FiringsFit`: a firing of an event took its
  leg, so no second claim finds it unclaimed), `Onward` what an operation may do to
  them: reported legs, firings and counts stay, and a clock moves only when its event
  was counted or has its firing. Both are closed under passes of any length
  (`PassStays`; the room for the firings is an argument of the due pass,
  `WantingShrinks`). A synchronization may also set clocks from now; `DispatchedStep`
  shows that it does so only for the targets that the catch-up before it counted.
- `RoutineTypeOK` is not inductive: an event without a fan-out must have no legs, and
  an expired row must be a one-shot, or the upsert would leave a live row without a
  clock. Two definitions were wrong before the proof: the catch-up went on after a
  leg nobody can claim had aborted it, and two tables of conditions (`DueTarget`,
  `UpsertState`) had arms that overlap, whose order a CASE does not keep.

### Services: `ServiceProofs`

- `UpdateKeepsAGoodBuild`: each phase of cutover and rollback has its own tree that is
  complete and checked (`StagedIsChecked`, `RollbackHasAnother`), kills included.
- `FiringTellsWhatHappened`, `FiringVerdictStays`.

### Workspaces and reload: `WorkspaceProofs`

- `PreparationsKeepOrder`, `WorktreesAndCommitsAreKept`. The turns at the cache are
  taken in the order of the Runs (`TurnsInv`): the promise that an aborted caller left
  in the map still holds the next one back. `PreparationsFit` says which Run a working
  preparation belongs to (`OneLiveRun`), that a settled abort is quiet and that a half
  worktree is reported; `CandidatesAreApart` that retention's list and the live Runs
  have no worktree in common though the list is old.
- `ReloadsAgree`, `EditsKeepOrder`. `ReadFits`: what a reload has read is never older
  than what is in force; `TurnFits`: each caller waits once and only the holder has
  read something; `SaveFits`: a save's reload begins after its write, and while
  nobody else writes what was validated is on disk. Two statements were wrong before
  the proof: a configuration without Projects is rejected (the schema's `min(1)`),
  and a broken edit keeps a routine firing unless a file before it claims the name,
  also when that file hosts nothing.

### Left to TLC

- Liveness, under fairness, and ENABLED: outside this prover. `StopEnds`,
  `AbandonedWorkIsTakenUp`, `CancelEnds`, `RunsThatFallSilentEnd`,
  `DeferredClaimsComeBack`, `PlansSettle`, `InterventionSettles`, `DrainClears`, `FiringsEnd`.
- What holds only under a restriction of the constants (section 3, preconditions), and
  would need the restriction as an assumption of the module: `ParkedWalkIsAlone`,
  `StopLeavesNothingOwed`, the second half of `LabelsFollowTheAttempt`.
- `AdoptionKeepsCommits` and the statements of section 4 are false.

## 6. Not modelled, and abstractions

- Failures of SQLite itself, and the repair of a claim that fails after its row
  was written (`reconcilePostCreateClaimFailure`).
- The workflow graph: expansion, transition choice, the progress guard,
  terminality of a resume's state; a raw FSM's verdict is an input. Human-attention
  labels and comments, evidence files.
- Host-pressure hysteresis (a refusal is a fault), the file-overlap guard, the
  rate-limit guard inside the lifecycle's claim (it is in `IssuePoll`).
- Notifications (the outbox); an alert is told or not. Maestro, HTTP rendering, the
  CLI, doctor, init, service files.
- Watchdog: Routine Firings' samples, the sample history. A new turn id, which only Codex
  reports, behaves as its usage does: it is progress once. The watchdog's
  effect on the lifecycle is in `DaemonTick`.
- Follow-up: several pull requests of one Issue, the review context's text, drafts,
  the credential backoff.
- Interventions: previews, tokens and graph fingerprints (refusals that change
  nothing), ordinary state advances, waiting Runs.
- Processes: omp's framing and queue, reducers of protocol messages, validation
  probes, the stderr log, spawn errors, the Windows path, zombie checks.
- Workspaces: a crash with detached git running, processes that survive SIGKILL,
  force pushes by people, a file system that hangs for ever, hooks, the CLI's pruner.
- Routines: the daily summary's text, workspaces and evidence of a firing. Reload:
  schemas and templates are reduced to whether they accept.
- The drain flag of a self update is read in `SelfUpdate`'s own admission paths,
  not in the lifecycle's.
- The count of pending resumes is a set, released when the claim is made.
  `labels_none` holds `sym:stale`, as the documented default does.

Hazards of the code that the project does not reach: a notification claimed and
never sent, host pressure flapping between its two thresholds, two issues whose
declared files overlap, a workflow edit that removes the state a row is stamped
with, a database that fails between a label and a row.

## 7. Plan

1. `NotificationOutbox`: pending, sending, sent, and interrupted claims at startup.
2. `WorkflowWalk`: `decideNextStep`, expansion and the progress guard, against a
   reference reading of the transitions.
3. Host pressure and the file-overlap guard, as further guards of `ClaimCheck`.
4. An issue as seen from GitHub (claimed, running, settled) as an abstract
   specification of `RunLifecycle`, and a delayed-work ledger (accepted, fired,
   evidenced).
5. A proof of `ParkedWalkIsAlone` and of the second half of `LabelsFollowTheAttempt`.
   It needs that of an issue whose workflow is a raw FSM one Run at a time takes the
   walk on.
