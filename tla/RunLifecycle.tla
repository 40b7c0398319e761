---------------------------- MODULE RunLifecycle ----------------------------
(***************************************************************************)
(* The Run lifecycle: the operations of RunDispatch, RunAttempt and        *)
(* DaemonTick composed, with the properties the daemon owes.               *)
(***************************************************************************)
EXTENDS RunAttempt, DaemonTick

Init ==
  /\ up = TRUE /\ stopping = FALSE
  /\ mutex = <<>>
  /\ pc = [t \in Threads |-> "idle"]
  /\ work = [t \in Threads |-> NoWork]
  /\ cand = [b \in Batches |-> {}]
  /\ local = [r \in Runs |-> NoLocal]
  /\ inflight = {} /\ immune = {} /\ firings = {} /\ resuming = {}
  /\ latch = [r \in Runs |-> "none"]
  /\ provider = [r \in Runs |-> "none"]
  /\ sched = [i \in Issues |-> NoWork]
  /\ row = [r \in Runs |-> NoRow]
  /\ issueOf = [r \in Runs |-> CHOOSE i \in Issues : TRUE]
  /\ nrows = 0
  /\ open = [i \in Issues |-> TRUE]
  /\ ready = [i \in Issues |-> TRUE]
  /\ labels = [i \in Issues |-> {}]
  /\ seen = Unseen /\ todo = {}
  /\ spent = 0

ClaimStep(t) == \/ ClaimGate(t) \/ ClaimCheck(t) \/ ClaimPersist(t)
                \/ ClaimRollback(t) \/ ClaimLabelFails(t)
TimerStep(r) == \/ TimerDropped(r) \/ TimerUnavailable(r) \/ TimerAdmitted(r)
                \/ RetryGate(r) \/ RetryCheck(r) \/ RetryLabel(r)
                \/ WaitRead(r) \/ WaitEvaluate(r)
AttemptStep(r) == \/ RunEntry(r) \/ RunPreparationFails(r) \/ RunLoad(r)
                  \/ RunParks(r) \/ RunSetup(r) \/ RunStart(r)
                  \/ ProviderExit(r) \/ RunSettle(r) \/ RunClassify(r)
                  \/ RunTerminal(r) \/ RunLabels(r) \/ RunNext(r)
TickStep == \/ TickPoll \/ TickReconcile \/ TickWaits \/ TickWaitRead
            \/ TickWaitEvaluate \/ TickResumeOne \/ TickMark \/ TickLaunch
RoutineStep == \E f \in Firings : FireRoutine(f) \/ EndRoutine(f)
Environment == \/ \E r \in Runs : \/ RunTimeout(r) \/ WatchdogStale(r)
                                  \/ OperatorCancel(r)
               \/ \E i \in Issues : TrackerEdit(i)

DaemonStep ==
  \/ \E b \in Batches : BatchPick(b)
  \/ \E t \in Claimants : ClaimStep(t)
  \/ \E i \in Issues : TimerFire(i)
  \/ \E r \in Runs : TimerStep(r) \/ AttemptStep(r)
  \/ TickStep
  \/ RoutineStep

Next == \/ up /\ (DaemonStep \/ Environment \/ StopBegin \/ StopDone \/ Crash)
        \/ Restart

Spec == Init /\ [][Next]_vars

\* The fairness a Node event loop gives: a callback whose await has settled is
\* eventually run, network calls settle (they carry timeouts), an agent process
\* that was told to stop ends.  A running agent or Routine owes nothing.  Only
\* the holder of dispatchMutex can take a ClaimStep, and a Run has its timer or
\* its attempt under way, not both: one condition for each is enough.
AttemptProceeds(r) == /\ pc[Attempt(r)] # "running" \/ provider[r] = "stopping"
                      /\ AttemptStep(r)
Fairness ==
  /\ \A b \in Batches : WF_vars(up /\ BatchPick(b))
  /\ WF_vars(up /\ \E t \in Claimants : ClaimStep(t))
  /\ \A i \in Issues : WF_vars(up /\ TimerFire(i))
  /\ \A r \in Runs : WF_vars(up /\ (TimerStep(r) \/ AttemptProceeds(r)))
  /\ WF_vars(up /\ TickStep)
  /\ \A f \in Firings : WF_vars(up /\ stopping /\ EndRoutine(f))
  /\ WF_vars(up /\ StopDone)

FairSpec == Spec /\ Fairness

-----------------------------------------------------------------------------
ControlOK ==
  /\ mutex \in Seq(Threads)
  /\ pc \in [Threads -> PCs]
  /\ work \in [Threads -> Work \cup {NoWork}]
  /\ cand \in [Batches -> SUBSET Issues]
  /\ local \in [Runs -> Local]
RegistryOK ==
  /\ inflight \in SUBSET Runs /\ immune \in SUBSET Runs
  /\ latch \in [Runs -> Reasons]
  /\ provider \in [Runs -> {"none", "running", "stopping"}]
  /\ firings \in SUBSET Firings
TimerOK ==
  /\ sched \in [Issues -> Work \cup {NoWork}]
  /\ resuming \in SUBSET Runs
StoreOK ==
  /\ row \in [Runs -> Row]
  /\ issueOf \in [Runs -> Issues]
  /\ nrows \in 0 .. MaxRuns
GithubOK ==
  /\ open \in [Issues -> BOOLEAN] /\ ready \in [Issues -> BOOLEAN]
  /\ labels \in [Issues -> SUBSET Labels]
TickOK ==
  /\ seen \in [Issues -> [open : BOOLEAN, ready : BOOLEAN,
                          labels : SUBSET Labels]]
  /\ todo \in (SUBSET Issues) \cup (SUBSET Runs)
DaemonOK ==
  /\ up \in BOOLEAN /\ stopping \in BOOLEAN /\ spent \in 0 .. MaxDisturbances

\* Every variable has its type; a row's retries stay within the retry budget
\* (LIFECYCLE_POLICY.retry.cap; counted when scheduleNext's retry is accepted).
TypeOK == /\ DaemonOK /\ ControlOK /\ RegistryOK /\ TimerOK /\ StoreOK
          /\ GithubOK /\ TickOK

-----------------------------------------------------------------------------
(* Safety.                                                                 *)

\* Runs alone never hold more slots than the global or their Project's cap
\* (evaluateConcurrencyCapacity rechecked under dispatchMutex), and with
\* Routine Firings, which take no mutex, the caps are exceeded by at most one.
SlotsWithinCaps ==
  /\ Cardinality(inflight) <= GlobalCap
  /\ Cardinality(inflight) + Cardinality(firings) <= GlobalCap + 1
  /\ \A p \in Projects : Cardinality(RunsOf(p)) <= ProjectCap[p]

\* Two Runs of one issue are never in flight together: reserveSlot's
\* uniqueness, which the claim section must establish before it is reached.
OneRunPerIssue ==
  \A r, s \in inflight : issueOf[r] = issueOf[s] => r = s

\* An active row always has its attempt: whatever a cancel, a crash, a restart
\* or a shutdown interrupts, no row is left queued, preparing or running that
\* nothing works on (executeRetry, the claim rollback, the startup sweep).
NoOrphanRow ==
  \A r \in Rows : row[r].state \in ActiveStates /\ (up \/ stopping)
                     => pc[Attempt(r)] # "idle"

\* sym:running is on an issue only while an attempt of it has not finished its
\* label writes (as long as no label write fails and the process lives).
RunningLabelHasAttempt ==
  Disturbances \cap {"fault", "crash"} = {} =>
    \A i \in Issues : "running" \in labels[i]
      => \E r \in Rows : issueOf[r] = i /\ pc[Attempt(r)] # "idle"

\* Only the holder of dispatchMutex is between the checks of a claim and its
\* reservation, or between a Run's terminal write and scheduleNext, or
\* re-evaluating wait parks from the tick.
Inside == {"check", "label", "retrycheck", "retrylabel", "labels", "next",
            "wait", "waiteval"}
CriticalSections == \A t \in Threads : pc[t] \in Inside => Holds(t)

\* A cancel requested at any moment between reserveSlot and the end of the
\* attempt reaches the provider: none is left running with a latched cancel,
\* even when the cancel landed before attachProvider.
CancelReachesProvider ==
  \A r \in Runs : r \in inflight /\ latch[r] # "none" => provider[r] # "running"

\* After a graceful stop no owed retry has vanished: the newest row of an issue
\* is not a transient failure with retries left; it was retried, or recorded as
\* cancelled by the shutdown (or by the loss of eligibility).
StopLeavesNoOwedRetry ==
  ~up /\ stopping =>
    \A r \in Rows : IsNewest(r) /\ row[r].state = "failed"
                      /\ row[r].why = "transient" => row[r].retries = RetryCap

\* Nor has an owed state advance: a row stamped with the state it advanced to
\* is followed by a newer row, or resumable, or its issue is closed.
StopLeavesNoOwedAdvance ==
  ~up /\ stopping =>
    \A r \in Rows : IsNewest(r) /\ row[r].stamp = "forward"
                      /\ row[r].state \in {"succeeded", "failed"}
                      => ~open[issueOf[r]]

\* daemon_shutdown is never replaced by a reason that lands during the drain.
ShutdownReasonSticks ==
  [][\A r \in Rows : row[r].reason = "daemon_shutdown"
                       => row'[r].reason = "daemon_shutdown"]_vars

\* A walk's attempt that failed before its agent: its park may have been refused
\* after the row already said waiting, and the row is then written twice.
FailedPark(r) == /\ IsRaw(issueOf[r]) /\ ~local[r].ran
                 /\ pc[Attempt(r)] \in {"settle", "classify", "termq"}

\* A cancelled row is never run again; a succeeded or blocked row can only be
\* turned into a cancelled one, to be resumed after a shutdown.  The exception is
\* the row of a failed park, which a wait step may settle before its attempt does.
TerminalRowsStay ==
  [][\A r \in Rows : ~FailedPark(r) =>
       /\ row[r].state = "cancelled" => row'[r].state = "cancelled"
       /\ row[r].state \in {"succeeded", "blocked"} =>
            \/ row'[r].state = row[r].state
            \/ row'[r].state = "cancelled" /\ row'[r].reason = "daemon_shutdown"]_vars

\* A watchdog verdict on an attempt in flight survives the attempt's own writes
\* (ADR 0054), unless a cancel was requested first.
WatchdogVerdictSurvives ==
  [][\A r \in inflight :
       r \notin inflight' /\ up' /\ ~FailedPark(r) /\ latch[r] = "watchdog"
         /\ row[r].reason = "none" => row'[r].state = "stale"]_vars

\* No poll or candidate list outlives an attempt, which lets a second chain of Runs
\* begin beside the first (ADR 0052), and no shutdown's resumes count.
Undisturbed == ShortPolls /\ "stop" \notin Disturbances

\* Nor does a request to GitHub fail, or somebody edit the issue.
Steady == Undisturbed /\ Disturbances \cap {"fault", "edit"} = {}

\* An issue never has more successful continuations than the cap, counted over its
\* rows (countSucceededContinuations against LIFECYCLE_POLICY.continuation.cap).  An
\* advance of a raw FSM is a continuation too and asks no cap, so it is said of
\* markdown workflows.
ContinuationsWithinCap ==
  Undisturbed => \A i \in Issues : ~IsRaw(i) => SucceededContinuations(i) <= ContinuationCap

\* An issue whose walk is parked in a wait has no other Run in flight: neither a
\* fresh claim nor an advance may start beside the park (issue #737).
ParkedWalkIsAlone ==
  Steady => \A r \in Rows, s \in inflight :
    r # s /\ row[r].state = "waiting" => issueOf[r] # issueOf[s]

\* While a Run is in flight its issue wears sym:claimed, which keeps every later
\* poll from offering it to fresh dispatch.
RunningIssueIsClaimed ==
  \A r \in inflight : Undisturbed /\ (IsRaw(issueOf[r]) => Steady)
                        => "claimed" \in labels[issueOf[r]]

\* sym:running and sym:claimed agree with the attempt they are about.
LabelsFollowTheAttempt == RunningLabelHasAttempt /\ RunningIssueIsClaimed

\* What stop() found owed is not lost with the timers it clears.
StopLeavesNothingOwed == StopLeavesNoOwedRetry /\ StopLeavesNoOwedAdvance

\* What a row says has happened stays: a cancelled, blocked or succeeded Run, a
\* watchdog verdict, a shutdown's reason, whoever writes the row next.
VerdictsStick == TerminalRowsStay /\ WatchdogVerdictSurvives /\ ShutdownReasonSticks

\* The claim section, the retry section, Routine Firings and every way out of
\* an attempt together hand out slots as SlotRegistry promises.
Registry == INSTANCE SlotRegistry
              WITH held <- [r \in inflight |-> issueOf[r]]
ImplementsSlotRegistry == Registry!Spec

-----------------------------------------------------------------------------
(* What documents say and the code does not keep.                          *)

\* SPEC: Routine Firings consume the same slots as Runs.
SlotsNeverExceedCap ==
  Cardinality(inflight) + Cardinality(firings) <= GlobalCap

\* SPEC: a wait whose transition matches schedules a state advance.
WaitAdvanceIsScheduled ==
  [][\A r \in Rows : /\ row[r].state = "waiting" /\ row'[r].state = "succeeded"
                      /\ row'[r].stamp = "forward" /\ nrows' = nrows
                      => sched'[issueOf[r]] # NoWork
                         /\ sched'[issueOf[r]].kind = "advance"]_vars

\* SPEC: a waiting Run whose cancel was requested becomes cancelled.
WaitCancelIsHonoured ==
  [][\A r \in Rows : row[r].state = "waiting" /\ row[r].reason = "operator"
                      => row'[r].state \in {"waiting", "cancelled"}]_vars

\* SPEC: sym:stale marks a claim with no live local Run.
StaleMarksDeadClaims ==
  [][\A i \in Issues : "stale" \in labels'[i] \ labels[i] => ~InFlightIssue(i)]_vars

\* ADR 0088: the stamp of a killed Run is the state it was executing.
KilledRunKeepsItsState ==
  [][\A r \in Runs : pc[Attempt(r)] = "classify" /\ pc'[Attempt(r)] = "termq"
                       /\ local[r].cancel = "daemon_shutdown"
                       => row'[r].stamp # "forward"]_vars

\* RC: a watchdog terminal_reason says that the watchdog staled this attempt.
VerdictIsOfThisAttempt ==
  [][\A r \in inflight : r \notin inflight' /\ up' /\ row'[r].state = "stale"
                           => latch[r] # "none"]_vars

-----------------------------------------------------------------------------
(* What makes TypeOK inductive.                                            *)

\* A batch carries fresh claims, a timer the delayed work of its own Run, and a
\* thread in its claim has the claim at hand.
WorkInv ==
  /\ \A b \in Batches : work[Batch(b)] # NoWork =>
       work[Batch(b)].kind = "fresh" /\ work[Batch(b)].run = 0
  /\ \A r \in Runs : work[Timer(r)] # NoWork =>
       /\ work[Timer(r)].kind \in {"retry", "continuation", "advance", "resume"}
       /\ work[Timer(r)].run = r
  /\ \A t \in Claimants :
       pc[t] \in {"fired", "claimq", "check", "label"} => work[t] # NoWork

\* Delayed work is filed under its issue and belongs to a Run.
SchedInv ==
  \A i \in Issues : sched[i] # NoWork =>
    /\ sched[i].kind # "fresh" /\ sched[i].issue = i /\ sched[i].run \in Runs

\* The tick goes through Runs in some passes and through issues in the others.
TodoInv ==
  todo \in SUBSET (IF pc[Tick] \in {"wait", "waiteval", "resume"}
                   THEN Runs ELSE Issues)

\* A Run that parks has created its waiting row.
ChildInv == \A r \in Runs : local[r].next = "park" => local[r].child \in Runs

\* The store has room for the row of the claim whose label is being written.
RoomInv == \A t \in Claimants : pc[t] = "label" => nrows < MaxRuns

TypeInv == /\ TypeOK /\ WorkInv /\ SchedInv /\ TodoInv /\ ChildInv /\ RoomInv
           /\ CriticalSections

-----------------------------------------------------------------------------
(* What makes the slot properties inductive.                               *)

\* What a retry is about, wherever it is on its way, exists; so does the row of
\* every attempt and of every slot.
RetryPCs == {"retryq", "retrycheck", "retrylabel"}
RowsInv ==
  /\ inflight \subseteq Rows
  /\ \A r \in Runs : pc[Attempt(r)] # "idle" => r \in Rows
  /\ \A r \in Runs : pc[Timer(r)] \in RetryPCs => r \in Rows
  /\ \A r \in Runs : work[Timer(r)].kind = "retry" => r \in Rows
  /\ \A i \in Issues : sched[i].kind = "retry" => sched[i].run \in Rows

\* A slot for a Run of issue i can be granted.
Grantable(i) ==
  /\ ~InFlightIssue(i)
  /\ Cardinality(inflight) < GlobalCap
  /\ Cardinality(inflight) + Cardinality(firings) <= GlobalCap
  /\ Cardinality(RunsOf(ProjectOf[i])) < ProjectCap[ProjectOf[i]]
  /\ Cardinality(RunsOf(ProjectOf[i])) + Cardinality(FiringsOf(ProjectOf[i]))
       <= ProjectCap[ProjectOf[i]]

\* What a claim has checked is still so when its sym:claimed request settles,
\* but for one Routine Firing.
GrantInv == \A t \in Claimants : pc[t] = "label" => Grantable(work[t].issue)

SlotInv == RowsInv /\ GrantInv /\ SlotsWithinCaps /\ OneRunPerIssue

\* What makes NoOrphanRow inductive: a row that has its terminal state is not
\* active while its attempt still writes labels and schedules what is next.
OrphanInv ==
  /\ up \/ stopping => \A r \in Runs : row[r].state \in ActiveStates
                                       => pc[Attempt(r)] # "idle"
  /\ \A r \in Runs : pc[Attempt(r)] \in {"labels", "next"}
                       => row[r].state \notin ActiveStates

-----------------------------------------------------------------------------
(* What makes VerdictsStick inductive: of each row, the delayed work, the  *)
(* attempt and the wait step that may write it next.                       *)

\* Delayed work of row r, armed or in the hands of its timer.
Owed == {"retry", "continuation", "advance", "resume"}
ArmedFor(i, r) == sched[i].kind \in Owed /\ sched[i].run = r
Fired(r) == pc[Timer(r)] # "idle"
WorkAhead(r) == Fired(r) \/ \E i \in Issues : ArmedFor(i, r)

\* A failed park until its attempt is over: it arms nothing more, and a wait step
\* may have settled its row, and even armed an advance of it, in the meantime.
Lost(r) ==
  /\ IsRaw(issueOf[r]) /\ ~local[r].ran /\ local[r].next = "none"
  /\ local[r].outcome \in {"failed", "cancelled"}
  /\ pc[Attempt(r)] \in {"settle", "classify", "termq", "labels", "next"}

\* Delayed work is in one place, and of a row that exists and does not wait; a row
\* whose retry is pending says failed, or stale once its deadline struck.
TimerFits(r) ==
  LET w == work[Timer(r)] IN
  /\ Fired(r) => /\ w.kind \in Owed
                 /\ pc[Timer(r)] \in RetryPCs => w.kind = "retry"
                 /\ pc[Timer(r)] \in {"claimq", "check", "label"} => w.kind # "retry"
                 /\ w.kind = "retry" => row[r].state \in {"failed", "stale"}
                 /\ w.kind = "resume" => r \in resuming
                 /\ \A i \in Issues : ~ArmedFor(i, r)
  /\ \A i \in Issues : ArmedFor(i, r) =>
       /\ \A j \in Issues : ArmedFor(j, r) => j = i
       /\ sched[i].kind = "retry" => row[r].state \in {"failed", "stale"}
       /\ sched[i].kind = "resume" => r \in resuming
  /\ WorkAhead(r) => r \in Rows /\ row[r].state # "waiting"
  /\ r \in Rows \/ row[r].state = "none"

Starting == {"entry", "load", "setup", "ready", "running"}
AttemptPCs == {"idle", "settle", "classify", "termq", "labels", "next"} \cup Starting

\* An attempt in flight, and one that is being settled, finds its row as it left
\* it, and has no delayed work beside it, unless its park failed.
AttemptFits(r) ==
  LET at == pc[Attempt(r)] IN
  /\ at \in AttemptPCs
  /\ at = "entry" => row[r].state \in ActiveStates \cup {"failed", "stale"}
  /\ at \in {"load", "setup"} => ~local[r].ran
  /\ at \in {"load", "setup", "ready", "running", "settle", "classify"}
       => local[r].next = "none"
  /\ at \in {"load", "setup", "ready", "running", "settle", "classify", "termq"}
       => row[r].state \in ActiveStates \cup {"stale"} \/ Lost(r)
  /\ at \in {"labels", "next"}
       => /\ row[r].state \notin ActiveStates \cup {"waiting"}
          /\ local[r].outcome = "transient" => row[r].state = "failed"
  /\ at # "idle" /\ Fired(r) => Lost(r) /\ work[Timer(r)].kind = "advance"
  /\ at # "idle" => \A i \in Issues :
       ArmedFor(i, r) => Lost(r) /\ sched[i].kind = "advance"

\* A slot is held from the reservation to the settling of the attempt, and the
\* watchdog latches a cancel and writes its verdict in one step.
SlotFits(r) ==
  r \in inflight =>
    /\ \/ pc[Attempt(r)] \in Starting \cup {"settle"}
       \/ pc[Attempt(r)] = "idle" /\ pc[Timer(r)] = "retrylabel"
    /\ latch[r] = "watchdog" /\ row[r].reason = "none"
         => row[r].why = "watchdog" \/ FailedPark(r)

\* A wait that is evaluated was waiting when it was read, and still is unless a
\* deadline took it.
Evaluating(r) == \/ pc[Wait(r)] = "waiteval"
                 \/ pc[Tick] = "waiteval" /\ Lowest(r)
WaitFits(r) ==
  Evaluating(r) =>
    /\ r \in Rows /\ row[r].state \in {"waiting", "stale"} /\ ~WorkAhead(r)
    /\ pc[Attempt(r)] # "idle" => Lost(r)
    /\ ~stopping => row[r].reason # "daemon_shutdown"

\* A row that a shutdown killed in an earlier life has nothing under way but its
\* resumption.
ToResume(r) == pc[Tick] = "resume" /\ r \in todo
KilledRests(r) ==
  /\ ~stopping /\ row[r].reason = "daemon_shutdown" =>
       /\ pc[Attempt(r)] = "idle"
       /\ Fired(r) => work[Timer(r)].kind = "resume"
       /\ \A i \in Issues : ArmedFor(i, r) => sched[i].kind = "resume"
  /\ ToResume(r) => /\ r \in Rows /\ row[r].reason = "daemon_shutdown"
                    /\ ~stopping => row[r].state = "cancelled"

RowFits(r) == /\ TimerFits(r) /\ AttemptFits(r) /\ SlotFits(r) /\ WaitFits(r)
              /\ KilledRests(r)
VerdictInv == (\A r \in Runs : RowFits(r)) /\ (~up => inflight = {})

-----------------------------------------------------------------------------
(* What makes ContinuationsWithinCap inductive: of an issue whose workflow *)
(* is markdown, one Run at a time can still lead to another.               *)

\* A Run that is under way, or whose delayed work is, or that will schedule some.
Engaged(r) ==
  \/ r \in inflight \/ WorkAhead(r)
  \/ /\ pc[Attempt(r)] # "idle"
     /\ pc[Attempt(r)] = "next" =>
          local[r].outcome = "success" \/ WillRetry(local[r].outcome, row[r])

\* It may yet add to the successful continuations of its issue.
Continues(r) ==
  \/ row[r].cont /\ row[r].state # "succeeded"
  \/ Fired(r) /\ work[Timer(r)].kind = "continuation"
  \/ \E i \in Issues : ArmedFor(i, r) /\ sched[i].kind = "continuation"

\* Delayed work is filed under its row's issue, and no shutdown was recorded.
FiledFits(r) ==
  /\ Fired(r) => work[Timer(r)].issue = issueOf[r]
  /\ \A i \in Issues : ArmedFor(i, r) => issueOf[r] = i
  /\ row[r].reason # "daemon_shutdown"

\* A markdown workflow neither waits nor advances.
PlainFits(r) ==
  /\ row[r].state # "waiting" /\ ~Evaluating(r)
  /\ pc[Attempt(r)] \in {"termq", "labels", "next"} => local[r].next = "none"
  /\ Fired(r) => work[Timer(r)].kind \in {"retry", "continuation"}
  /\ \A i \in Issues : ArmedFor(i, r) => sched[i].kind \in {"retry", "continuation"}

\* The claim of an engaged Run keeps its issue from being offered again.
KeepsIssue(r) ==
  /\ "claimed" \in labels[issueOf[r]]
  /\ r \in inflight \/ ~Offered(issueOf[r])
  /\ Continues(r) => SucceededContinuations(issueOf[r]) < ContinuationCap

ChainFits(i) ==
  /\ \A r \in Rows : issueOf[r] = i => PlainFits(r) /\ (Engaged(r) => KeepsIssue(r))
  /\ \A r, s \in Rows :
       issueOf[r] = i /\ issueOf[s] = i /\ Engaged(r) /\ Engaged(s) => r = s
  /\ SucceededContinuations(i) <= ContinuationCap

Chained == /\ ~stopping /\ \A r \in Runs : FiledFits(r)
           /\ \A i \in Issues : ~IsRaw(i) => ChainFits(i)
ChainInv == Undisturbed => Chained

-----------------------------------------------------------------------------
(* What makes RunningLabelHasAttempt inductive: the attempt that wrote the *)
(* label, or that has still to take it off.                                *)

Wearing == {"ready", "running", "settle", "classify", "termq", "labels"}
Wears(r) == pc[Attempt(r)] \in Wearing
LabelInv ==
  Disturbances \cap {"fault", "crash"} = {} =>
    \A i \in Issues : "running" \in labels[i] => up /\ \E r \in Rows : issueOf[r] = i /\ Wears(r)

-----------------------------------------------------------------------------
(* Liveness, under FairSpec.                                               *)

\* A graceful stop ends: every claim, attempt, timer and tick unwinds.
StopEnds == (up /\ stopping) ~> ~up

\* A claim with nothing behind it, as a crash leaves it, is eventually marked
\* sym:stale for the operator (detectStaleClaims), unless something takes the
\* issue up or its claim goes: the promise of stale detection, which is skipped
\* whenever dispatchMutex is held.
DeadClaim(i) ==
  /\ open[i] /\ labels[i] \cap {"claimed", "running"} # {}
  /\ "stale" \notin labels[i] /\ ~InFlightIssue(i) /\ sched[i] = NoWork
  /\ \A r \in Rows : issueOf[r] = i =>
       row[r].state \notin ActiveStates \cup {"waiting"} /\ r \notin Resumable
DeadClaimsGetMarked ==
  \A i \in Issues : (up /\ ~stopping /\ DeadClaim(i))
                     ~> (~DeadClaim(i) \/ stopping \/ ~up)

\* A Run killed by a shutdown is eventually continued or handed back.
KilledRunsResume == \A r \in Runs :
  (up /\ r \in Resumable /\ ~StoreFull) ~>
    (r \notin Resumable \/ stopping \/ ~up \/ ~open[issueOf[r]])

\* What a crash or a stop left behind is taken up: its Runs and its claims.
AbandonedWorkIsTakenUp == KilledRunsResume /\ DeadClaimsGetMarked
=============================================================================
