----------------------------- MODULE RunAttempt -----------------------------
(***************************************************************************)
(* One attempt of a Run: runAttemptLifecycle and scheduleNext of           *)
(* lifecycle/run-controller.ts.                                            *)
(***************************************************************************)
EXTENDS LifecycleState

-----------------------------------------------------------------------------
(* The attempt: runAttemptLifecycle.  A cancel that lands before the       *)
(* provider is attached aborts preparation when a Run Slot Deadline is     *)
(* configured, and is noticed at the next check otherwise.                 *)

\* Mutant: a cancel is only noticed once the provider runs.
CancelIgnored(r) == FALSE
CancelledBeforeProviderStart(r) == latch[r] # "none"

\* updateRunState(preparing_workspace), then cancelledBeforeProviderStart.
RunEntry(r) ==
  /\ pc[Attempt(r)] = "entry"
  /\ row' = [row EXCEPT ![r].state = "preparing"]
  /\ local' = [local EXCEPT ![r] = [NoLocal EXCEPT !.fsm = (r \in immune)]]
  /\ Goto(Attempt(r), IF CancelledBeforeProviderStart(r) THEN "settle" ELSE "load")
  /\ UNCHANGED <<mutex, work, cand, daemonVars, registryVars, timerVars, issueOf,
                 nrows, githubVars, tickVars, spent>>

\* A preparation step rejected: its own failure, or the aborted deadline.
RunPreparationFails(r) ==
  /\ pc[Attempt(r)] \in {"load", "setup"}
  /\ \/ latch[r] # "none" /\ NoFault
     \/ latch[r] = "none" /\ Fault
  /\ \E o \in {"transient", "failed"} :
       local' = [local EXCEPT ![r].outcome = o]
  /\ Goto(Attempt(r), "settle")
  /\ UNCHANGED <<mutex, work, cand, daemonVars, registryVars, timerVars,
                 storeVars, githubVars, tickVars>>

\* loadWorkflow resolved: setRunCurrentState.
RunLoad(r) ==
  /\ pc[Attempt(r)] = "load"
  /\ row' = [row EXCEPT ![r].stamp = "entered"]
  /\ local' = [local EXCEPT ![r].fsm = @ \/ IsRaw(issueOf[r])]
  /\ Goto(Attempt(r), "setup")
  /\ UNCHANGED <<mutex, work, cand, daemonVars, registryVars, timerVars, issueOf,
                 nrows, githubVars, tickVars, spent>>

\* A watchdog verdict is kept over what the attempt wrote after it, unless a
\* cancel was requested (reassertRunWatchdogStale).
Preserved(q) == q.why = "watchdog" /\ (q.state = "stale" \/ q.reason = "none")
Settled(q) == IF Preserved(q) THEN [q EXCEPT !.state = "stale"] ELSE q

\* The poll or a batch still offers the issue as a fresh candidate, a batch has picked
\* it, or the tick still lists it for resumption.
Offered(i) == \/ seen[i].open /\ seen[i].ready /\ seen[i].labels = {}
              \/ pc[Tick] = "launch" /\ i \in todo
              \/ pc[Tick] = "resume" /\ \E r \in todo : issueOf[r] = i
              \/ \E b \in Batches : i \in cand[b]
              \/ \E b \in Batches : work[Batch(b)] # NoWork /\ work[Batch(b)].issue = i

LeaveRegistry(r) ==
  /\ ShortPolls => ~Offered(issueOf[r])
  /\ inflight' = inflight \ {r}
  /\ latch' = [latch EXCEPT ![r] = "none"]
  /\ immune' = immune \ {r}

\* The raw-FSM state to enter is a wait: the row parks without a provider and
\* leaves the registry in the same step.  A latched cancel prevents it;
\* schedule() throws when the issue already has delayed work.
RunParks(r) ==
  LET i == issueOf[r]
      entered == [row[r] EXCEPT !.stamp = "entered"]
      parked == [entered EXCEPT !.state = "waiting"]
  IN
  /\ pc[Attempt(r)] = "load" /\ IsRaw(i) /\ "park" \in Verdicts
  /\ \/ /\ latch[r] # "none"
        /\ row' = [row EXCEPT ![r] = entered]
        /\ Goto(Attempt(r), "settle")
        /\ UNCHANGED <<local, labels, sched, inflight, latch, immune>>
     \/ /\ latch[r] = "none" /\ sched[i] # NoWork
        /\ row' = [row EXCEPT ![r] = parked]
        /\ local' = [local EXCEPT ![r].outcome = "failed"]
        /\ Goto(Attempt(r), "settle")
        /\ UNCHANGED <<labels, sched, inflight, latch, immune>>
     \/ /\ latch[r] = "none" /\ sched[i] = NoWork
        /\ row' = [row EXCEPT ![r] = Settled(parked)]
        /\ labels' = [labels EXCEPT ![i] =
             IF Preserved(parked) THEN CancelLabels(@, "watchdog") ELSE @]
        /\ ScheduleWait(i, r)
        /\ LeaveRegistry(r)
        /\ local' = [local EXCEPT ![r] = NoLocal]
        /\ Goto(Attempt(r), "idle")
  /\ UNCHANGED <<mutex, work, cand, daemonVars, provider, firings, resuming,
                 issueOf, nrows, open, ready, tickVars, spent>>

\* Workspace, startAttempt and validate settled; sym:running is written, the
\* row runs, the attempt row exists, the label policy of the slot is updated.
RunSetup(r) ==
  /\ pc[Attempt(r)] = "setup"
  /\ labels' = [labels EXCEPT ![issueOf[r]] = @ \cup {"running"}]
  /\ row' = [row EXCEPT ![r].state = "running"]
  /\ local' = [local EXCEPT ![r].ran = TRUE]
  /\ immune' = IF local[r].fsm THEN immune \cup {r} ELSE immune \ {r}
  /\ Goto(Attempt(r), "ready")
  /\ UNCHANGED <<mutex, work, cand, daemonVars, inflight, latch, provider,
                 firings, timerVars, issueOf, nrows, open, ready, tickVars,
                 spent>>

\* iterateAttempt: the last cancel check, then attachProvider.
RunStart(r) ==
  /\ pc[Attempt(r)] = "ready"
  /\ \/ /\ CancelledBeforeProviderStart(r)
        /\ Goto(Attempt(r), "settle")
        /\ UNCHANGED provider
     \/ /\ ~CancelledBeforeProviderStart(r)
        /\ Goto(Attempt(r), "running")
        /\ provider' = [provider EXCEPT ![r] = "running"]
  /\ UNCHANGED <<mutex, work, cand, local, daemonVars, inflight, latch, immune,
                 firings, timerVars, storeVars, githubVars, tickVars, spent>>

\* The provider's event stream ended.  The outcome is classifyFailure's, with
\* failIfBranchNotPushed folded in (a success may become transient).
ProviderExit(r) ==
  /\ pc[Attempt(r)] = "running"
  /\ \E o \in ProviderOutcomes \cup {"failed"} :
       /\ o \notin ProviderOutcomes => provider[r] = "stopping"
       /\ provider[r] = "stopping" => o = "failed"   \* classified cancelled
       /\ local' = [local EXCEPT ![r].outcome = o]
  /\ provider' = [provider EXCEPT ![r] = "none"]
  /\ Goto(Attempt(r), "settle")
  /\ UNCHANGED <<mutex, work, cand, daemonVars, inflight, latch, immune, firings,
                 timerVars, storeVars, githubVars, tickVars, spent>>

\* The finally block up to classifyFailure: the slot is released; a preserved
\* watchdog verdict ends the attempt.
RunSettle(r) ==
  /\ pc[Attempt(r)] = "settle"
  /\ LeaveRegistry(r)
  /\ row' = [row EXCEPT ![r] = Settled(@)]
  /\ \/ /\ Preserved(row[r])
        /\ labels' = [labels EXCEPT ![issueOf[r]] = CancelLabels(@, "watchdog")]
        /\ local' = [local EXCEPT ![r] = NoLocal]
        /\ Goto(Attempt(r), "idle")
     \/ /\ ~Preserved(row[r])
        /\ local' = [local EXCEPT ![r].cancel = latch[r]]
        /\ Goto(Attempt(r), "classify")
        /\ UNCHANGED labels
  /\ UNCHANGED <<mutex, work, cand, daemonVars, provider, firings, timerVars,
                 issueOf, nrows, open, ready, tickVars, spent>>

Classified(r) ==
  IF local[r].cancel # "none" THEN "cancelled" ELSE local[r].outcome

\* What applyWorkflowOutcome may decide for a raw-FSM state.  A cancelled
\* attempt is evaluated too; only a transient failure with retries left
\* defers its non-terminal transitions.
WorkflowDecisions(r, o) ==
  IF ~local[r].ran \/ ~IsRaw(issueOf[r]) THEN {"none"}
  ELSE IF WillRetry(o, row[r])
       THEN {"none"} \cup (Verdicts \ {"advance", "park"})
       ELSE Verdicts

\* fuseWorkflowTerminal
Fused(o, d) ==
  IF d # "terminal" \/ o = "cancelled" THEN {o}
  ELSE {o, "failed", "blocked"}

\* classifyFailure, applyWorkflowOutcome (which stamps the row and creates the
\* waiting row at once) and recordTerminalReason, then the mutex is requested.
RunClassify(r) ==
  LET o == Classified(r)
      i == issueOf[r]
      parked == nrows + 1
  IN
  /\ pc[Attempt(r)] = "classify"
  /\ \E d \in WorkflowDecisions(r, o) : \E e \in Fused(o, d) :
       LET stamp == CASE d \in {"advance", "park"} -> "forward"
                      [] d = "terminal" -> "none"
                      [] ~IsRaw(i) /\ o = "success" -> "none"
                      [] OTHER -> row[r].stamp
           q == [row[r] EXCEPT !.stamp = stamp, !.why = e]
       IN
       \/ /\ d # "park"
          /\ row' = [row EXCEPT ![r] = q]
          /\ local' = [local EXCEPT ![r].outcome = e, ![r].next = d]
          /\ UNCHANGED <<issueOf, nrows>>
       \/ /\ d = "park" /\ ~StoreFull
          /\ nrows' = parked
          /\ issueOf' = [issueOf EXCEPT ![parked] = i]
          /\ row' = [row EXCEPT ![r] = q, ![parked] = WaitingRow]
          /\ local' = [local EXCEPT ![r].outcome = e, ![r].next = d,
                                    ![r].child = parked]
  /\ Goto(Attempt(r), "termq") /\ Acquire(Attempt(r))
  /\ UNCHANGED <<work, cand, daemonVars, registryVars, timerVars, githubVars,
                 tickVars, spent>>

FsmContinuing(r) == local[r].next \in {"advance", "park"}

\* completeTerminalRun, first half: the terminal state under dispatchMutex.
RunTerminal(r) ==
  /\ pc[Attempt(r)] = "termq" /\ Holds(Attempt(r))
  /\ row' = [row EXCEPT ![r].state = RunState(local[r].outcome)]
  /\ Goto(Attempt(r), "labels")
  /\ UNCHANGED <<mutex, work, cand, local, daemonVars, registryVars, timerVars,
                 issueOf, nrows, githubVars, tickVars, spent>>

\* completeTerminalRun, second half: applyTerminal, best effort.
RunLabels(r) ==
  LET o == local[r].outcome IN
  /\ pc[Attempt(r)] = "labels"
  /\ \/ /\ NoFault
        /\ labels' = [labels EXCEPT ![issueOf[r]] =
             TerminalLabels(@, o, local[r].cancel, FsmContinuing(r),
                            WillRetry(o, row[r]))]
     \/ Fault /\ UNCHANGED labels
  /\ Goto(Attempt(r), "next")
  /\ UNCHANGED <<mutex, work, cand, local, daemonVars, registryVars, timerVars,
                 storeVars, open, ready, tickVars>>

-----------------------------------------------------------------------------
(* scheduleNext, the last thing a Run does under dispatchMutex.            *)

NothingMore == UNCHANGED <<storeVars, labels, sched, spent>>

NextAdvance(r) ==
  LET i == issueOf[r]
      o == local[r].outcome
      w == [kind |-> "advance", issue |-> i, run |-> r]
      unscheduled ==      \* an exhausted or deterministic failure is labelled
        /\ labels' = IF RunState(o) \in {"failed", "blocked"}
                        /\ ~WillRetry(o, row[r])
                     THEN [labels EXCEPT ![i] = @ \cup {RunState(o)}]
                     ELSE labels
        /\ UNCHANGED <<storeVars, sched>>
  IN
  \/ /\ EligibleNow(i, TRUE) /\ NoFault
     /\ ScheduleRunWork(row, row, labels, w)
     /\ UNCHANGED <<issueOf, nrows>>
  \/ /\ ~EligibleNow(i, TRUE) /\ NoFault
     /\ unscheduled
  \/ Fault /\ unscheduled

NextRetry(r) ==
  LET w == [kind |-> "retry", issue |-> issueOf[r], run |-> r] IN
  /\ ScheduleRunWork(row, [row EXCEPT ![r].retries = @ + 1], labels, w)
  /\ UNCHANGED <<issueOf, nrows, spent>>

\* Mutant: off by one.
ContinuationOverCap(i) == SucceededContinuations(i) > ContinuationCap
ContinuationCapReached(i) == SucceededContinuations(i) >= ContinuationCap

NextContinuation(r) ==
  LET i == issueOf[r]
      capped == ContinuationCapReached(i)
      w == [kind |-> "continuation", issue |-> i, run |-> r]
  IN
  \/ Fault /\ UNCHANGED <<storeVars, labels, sched>>   \* refresh unavailable
  \/ /\ ~EligibleNow(i, FALSE) /\ NoFault
     /\ labels' = IF open[i] /\ local[r].fsm THEN labels
                  ELSE [labels EXCEPT ![i] = Released(@)]
     /\ UNCHANGED <<storeVars, sched>>
  \/ EligibleNow(i, FALSE) /\ ContinuationCap = 0 /\ NothingMore
  \/ EligibleNow(i, FALSE) /\ capped /\ StoreFull /\ NothingMore
  \/ /\ EligibleNow(i, FALSE) /\ NoFault /\ ContinuationCap > 0 /\ capped
     /\ ~StoreFull
     /\ nrows' = nrows + 1       \* createCapReachedFailureRun
     /\ issueOf' = [issueOf EXCEPT ![nrows + 1] = i]
     /\ row' = [row EXCEPT ![nrows + 1] =
                  [NoRow EXCEPT !.state = "failed", !.cont = TRUE,
                                !.why = "failed"]]
     /\ labels' = [labels EXCEPT ![i] = Released(@) \cup {"failed"}]
     /\ UNCHANGED sched
  \/ /\ EligibleNow(i, FALSE) /\ NoFault /\ ContinuationCap > 0 /\ ~capped
     /\ ScheduleRunWork(row, row, labels, w)
     /\ UNCHANGED <<issueOf, nrows>>

RunNext(r) ==
  LET o == local[r].outcome
      d == local[r].next
      suppressed == IsRaw(issueOf[r]) /\ d # "none"
  IN
  /\ pc[Attempt(r)] = "next"
  /\ \/ o = "cancelled" /\ NothingMore
     \/ o # "cancelled" /\ d = "advance" /\ NextAdvance(r)
     \/ /\ o # "cancelled" /\ d = "park"
        /\ ScheduleWait(issueOf[r], local[r].child)
        /\ UNCHANGED <<storeVars, labels, spent>>
     \/ /\ d \notin {"advance", "park"} /\ WillRetry(o, row[r])
        /\ NextRetry(r)
     \/ /\ d \notin {"advance", "park"} /\ o \notin {"cancelled", "success"}
        /\ ~WillRetry(o, row[r]) /\ NothingMore
     \/ /\ d \notin {"advance", "park"} /\ o = "success"
        /\ suppressed /\ NothingMore
     \/ /\ d \notin {"advance", "park"} /\ o = "success"
        /\ ~suppressed /\ NextContinuation(r)
  /\ Release /\ Goto(Attempt(r), "idle")
  /\ local' = [local EXCEPT ![r] = [NoLocal EXCEPT !.fsm = local[r].fsm]]
  /\ UNCHANGED <<work, cand, daemonVars, registryVars, resuming, open, ready,
                 tickVars>>
=============================================================================
