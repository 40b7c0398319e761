----------------------------- MODULE RunDispatch -----------------------------
(***************************************************************************)
(* Fresh dispatch, the claim section, delayed work (retry, continuation,   *)
(* state advance, shutdown resume) and wait parks: the operations of       *)
(* lifecycle/run-controller.ts that run before a Run's attempt.            *)
(***************************************************************************)
EXTENDS LifecycleState

-----------------------------------------------------------------------------
(* Fresh dispatch: dispatchFresh, pickTargetFromCandidates.  Which Project *)
(* wins the weighted round robin is left open here.                        *)

Pickable(b, i) ==
  /\ i \in cand[b] /\ Admits(ProjectOf[i])
  /\ ~IsIssueReserved(i) /\ ~Suppressed(i) /\ ~Parked(i)

BatchPick(b) ==
  /\ pc[Batch(b)] = "pick"
  /\ \/ \E i \in Issues :
          /\ Pickable(b, i)
          /\ cand' = [cand EXCEPT ![b] = @ \ {i}]
          /\ work' = [work EXCEPT ![Batch(b)] =
                        [kind |-> "fresh", issue |-> i, run |-> 0]]
          /\ Goto(Batch(b), "claimq") /\ Acquire(Batch(b))
     \/ /\ \A i \in Issues : ~Pickable(b, i)
        /\ cand' = [cand EXCEPT ![b] = {}]
        /\ Goto(Batch(b), "idle")
        /\ UNCHANGED <<work, mutex>>
  /\ UNCHANGED <<local, daemonVars, registryVars, timerVars, storeVars,
                 githubVars, tickVars, spent>>

-----------------------------------------------------------------------------
(* The claim section, claimAndPersistRun, held under dispatchMutex by a    *)
(* batch (fresh) or by a fired continuation, state advance or resume.      *)

Claimants == {Batch(b) : b \in Batches} \cup {Timer(r) : r \in Runs}

\* The claim ended without a Run.  Fresh: the batch goes on with its next
\* candidate.  Delayed work is armed again; a shutdown resume stays pending.
ClaimRefused(t) ==
  LET w == work[t] IN
  /\ Release
  /\ work' = [work EXCEPT ![t] = NoWork]
  /\ \/ /\ w.kind = "fresh"
        /\ Goto(t, "pick")
        /\ UNCHANGED <<sched, row, labels, resuming>>
     \/ /\ w.kind \in {"continuation", "advance"}
        /\ Goto(t, "idle")
        /\ ScheduleRunWork(row, row, labels, w)
        /\ UNCHANGED resuming
     \/ /\ w.kind = "resume"
        /\ Goto(t, "idle")
        /\ sched' = IF ~stopping /\ sched[w.issue] = NoWork
                    THEN [sched EXCEPT ![w.issue] = w] ELSE sched
        /\ resuming' = IF stopping THEN resuming \ {w.run} ELSE resuming
        /\ UNCHANGED <<row, labels>>

\* The shutdown gate threw before any side effect: the batch stops; the owner
\* of delayed work records the shutdown.
ClaimShutDown(t) ==
  LET w == work[t] IN
  /\ Release
  /\ work' = [work EXCEPT ![t] = NoWork]
  /\ Goto(t, "idle")
  /\ \/ /\ w.kind = "fresh"
        /\ UNCHANGED <<row, labels, resuming>>
     \/ /\ w.kind # "fresh"
        /\ row' = [row EXCEPT ![w.run] = CancelledRow(@, "daemon_shutdown")]
        /\ labels' = [labels EXCEPT ![w.issue] =
                        CancelLabels(@, "daemon_shutdown")]
        /\ resuming' = resuming \ {w.run}
  /\ UNCHANGED sched

ClaimGate(t) ==
  /\ pc[t] = "claimq" /\ Holds(t)
  /\ \/ /\ stopping
        /\ ClaimShutDown(t)
     \/ /\ ~stopping
        /\ work[t].kind = "fresh" /\ Suppressed(work[t].issue)
        /\ ClaimRefused(t)
     \/ /\ ~stopping
        /\ ~(work[t].kind = "fresh" /\ Suppressed(work[t].issue))
        /\ Goto(t, "check")
        /\ UNCHANGED <<mutex, work, sched, resuming, row, labels>>
  /\ UNCHANGED <<cand, local, daemonVars, registryVars, issueOf, nrows, open,
                 ready, tickVars, spent>>

\* Mutant: the caps were checked when the candidate was picked.
ReservedSinceThePick(w) == IsIssueReserved(w.issue) \/ StoreFull

Contended(w) == ~Admits(ProjectOf[w.issue]) \/ IsIssueReserved(w.issue)
                \/ StoreFull

\* After the host-pressure await: caps, reservation, wait-park recheck, then
\* the sym:claimed request is issued.  A fault is a pressured host; at the row
\* bound the host is pressured too.
ClaimCheck(t) ==
  LET refused == Contended(work[t])
      deferred == work[t].kind = "fresh" /\ Parked(work[t].issue)
  IN
  /\ pc[t] = "check" /\ Holds(t)
  /\ \/ (refused \/ deferred) /\ ClaimRefused(t) /\ NoFault
     \/ ~refused /\ Fault /\ ClaimRefused(t)
     \/ /\ ~refused /\ ~deferred
        /\ Goto(t, "label") /\ NoFault
        /\ UNCHANGED <<mutex, work, sched, resuming, row, labels>>
  /\ UNCHANGED <<cand, local, daemonVars, registryVars, issueOf, nrows, open,
                 ready, tickVars>>

\* createContinuationRun inherits the parent's current_state_id.
NewRow(w) ==
  [NoRow EXCEPT !.state = "queued", !.cont = (w.kind # "fresh"),
                !.stamp = IF w.kind = "fresh" THEN "none"
                          ELSE IF row[w.run].stamp = "none" THEN "none"
                          ELSE "entered"]

Claimed(ls) == ls \cup {"claimed"}

\* sym:claimed was written: createRun, then reserveSlot.
ClaimPersist(t) ==
  LET w == work[t]
      new == nrows + 1
  IN
  /\ pc[t] = "label" /\ Holds(t)
  /\ ~stopping
  /\ nrows' = new
  /\ issueOf' = [issueOf EXCEPT ![new] = w.issue]
  /\ row' = [row EXCEPT ![new] = NewRow(w)]
  /\ labels' = [labels EXCEPT ![w.issue] = Claimed(@)]
  /\ inflight' = inflight \cup {new}
  /\ latch' = [latch EXCEPT ![new] = "none"]
  /\ immune' = IF w.kind \in {"advance", "resume"} /\ IsRaw(w.issue)
               THEN immune \cup {new} ELSE immune \ {new}
  /\ pc' = [pc EXCEPT ![Attempt(new)] = "entry",
                      ![t] = IF w.kind = "fresh" THEN "pick" ELSE "idle"]
  /\ work' = [work EXCEPT ![t] = NoWork]
  /\ resuming' = resuming \ {w.run}
  /\ Release
  /\ UNCHANGED <<cand, local, daemonVars, provider, firings, sched, open,
                 ready, tickVars, spent>>

RolledBackRow(w) == [NewRow(w) EXCEPT !.state = "cancelled",
                                      !.reason = "daemon_shutdown"]

\* stop() landed during the label write: reserveSlot throws, the fresh row
\* records the shutdown and sym:claimed is taken back (best effort).
ClaimRollback(t) ==
  LET w == work[t]
      new == nrows + 1
  IN
  /\ pc[t] = "label" /\ Holds(t)
  /\ stopping
  /\ nrows' = new
  /\ issueOf' = [issueOf EXCEPT ![new] = w.issue]
  /\ row' = [row EXCEPT ![new] = RolledBackRow(w)]
  /\ \/ NoFault /\ labels' = [labels EXCEPT ![w.issue] = @ \ {"claimed"}]
     \/ Fault /\ labels' = [labels EXCEPT ![w.issue] = @ \cup {"claimed"}]
  /\ Goto(t, "idle")
  /\ work' = [work EXCEPT ![t] = NoWork]
  /\ resuming' = resuming \ {w.run}
  /\ Release
  /\ UNCHANGED <<cand, local, daemonVars, registryVars, sched, open, ready,
                 tickVars>>

\* The label write failed or timed out with its effect unknown: sym:claimed is
\* taken back (or stays, when that fails too) and the error ends the batch or
\* the delayed work.
ClaimLabelFails(t) ==
  LET i == work[t].issue IN
  /\ pc[t] = "label" /\ Holds(t)
  /\ Fault
  /\ \/ labels' = [labels EXCEPT ![i] = @ \ {"claimed"}]
     \/ labels' = [labels EXCEPT ![i] = @ \cup {"claimed"}]
  /\ Goto(t, "idle")
  /\ work' = [work EXCEPT ![t] = NoWork]
  /\ resuming' = resuming \ {work[t].run}
  /\ Release
  /\ UNCHANGED <<cand, local, daemonVars, registryVars, sched, storeVars, open,
                 ready, tickVars>>

-----------------------------------------------------------------------------
(* Delayed work.  The registry drops the entry before it runs the callback *)
(* so between the fire and the claim the issue is not reserved.            *)

TimerFire(i) ==
  LET w == sched[i] IN
  /\ w # NoWork
  /\ sched' = [sched EXCEPT ![i] = NoWork]
  /\ \/ /\ w.kind = "wait" /\ pc[Wait(w.run)] = "idle"
        /\ Goto(Wait(w.run), "waitq") /\ Acquire(Wait(w.run))
        /\ UNCHANGED work
     \/ /\ w.kind # "wait" /\ pc[Timer(w.run)] = "idle"
        /\ Goto(Timer(w.run), "fired")
        /\ work' = [work EXCEPT ![Timer(w.run)] = w]
        /\ UNCHANGED mutex
  /\ UNCHANGED <<cand, local, daemonVars, registryVars, resuming, storeVars,
                 githubVars, tickVars, spent>>

\* The callback's refreshed issue no longer admits the work.
TimerDropped(r) ==
  LET t == Timer(r)
      w == work[t]
      i == w.issue
      fsmOwned == w.kind \in {"advance", "resume"}
                  \/ (w.kind = "retry" /\ local[r].fsm)
      why == IF open[i] THEN "eligibility_loss" ELSE "closed_issue"
  IN
  /\ pc[t] = "fired"
  /\ ~EligibleNow(i, fsmOwned)
  /\ \/ /\ w.kind = "retry"         \* cancelScheduledLifecycleWork
        /\ row' = [row EXCEPT ![r] = CancelledRow(@, why)]
        /\ labels' = [labels EXCEPT ![i] = CancelLabels(@, why)]
     \/ /\ w.kind = "continuation"  \* claimLabels.release
        /\ labels' = [labels EXCEPT ![i] = Released(@)]
        /\ UNCHANGED row
     \/ /\ w.kind \in {"advance", "resume"}
        /\ UNCHANGED <<row, labels>>
  /\ Goto(t, "idle")
  /\ work' = [work EXCEPT ![t] = NoWork]
  /\ resuming' = resuming \ {r}
  /\ UNCHANGED <<mutex, cand, local, daemonVars, registryVars, sched, issueOf,
                 nrows, open, ready, tickVars, spent>>

\* The issue refresh was unavailable: the work is dropped without a trace.
TimerUnavailable(r) ==
  /\ pc[Timer(r)] = "fired"
  /\ Fault
  /\ Goto(Timer(r), "idle")
  /\ work' = [work EXCEPT ![Timer(r)] = NoWork]
  /\ resuming' = resuming \ {r}
  /\ UNCHANGED <<mutex, cand, local, daemonVars, registryVars, sched, storeVars,
                 githubVars, tickVars>>

TimerAdmitted(r) ==
  LET t == Timer(r)
      w == work[t]
      fsmOwned == w.kind \in {"advance", "resume"}
                  \/ (w.kind = "retry" /\ local[r].fsm)
  IN
  /\ pc[t] = "fired"
  /\ EligibleNow(w.issue, fsmOwned)
  /\ Goto(t, IF w.kind = "retry" THEN "retryq" ELSE "claimq")
  /\ Acquire(t)
  /\ UNCHANGED <<work, cand, local, daemonVars, registryVars, timerVars,
                 storeVars, githubVars, tickVars, spent>>

-----------------------------------------------------------------------------
(* executeRetry: same row, its own claim section that reserves before the  *)
(* label write.                                                            *)

RetryEnds(r) ==
  /\ Release
  /\ Goto(Timer(r), "idle")
  /\ work' = [work EXCEPT ![Timer(r)] = NoWork]

RetryGate(r) ==
  LET i == issueOf[r] IN
  /\ pc[Timer(r)] = "retryq" /\ Holds(Timer(r))
  /\ \/ /\ stopping
        /\ RetryEnds(r)
        /\ row' = [row EXCEPT ![r] = CancelledRow(@, "daemon_shutdown")]
        /\ labels' = [labels EXCEPT ![i] = CancelLabels(@, "daemon_shutdown")]
     \/ /\ ~stopping
        /\ Goto(Timer(r), "retrycheck")
        /\ UNCHANGED <<mutex, work, row, labels>>
  /\ UNCHANGED <<cand, local, daemonVars, registryVars, timerVars, issueOf,
                 nrows, open, ready, tickVars, spent>>

RetryCheck(r) ==
  LET i == issueOf[r]
      contended == ~Admits(ProjectOf[i]) \/ IsIssueReserved(i)
      rearmed == [kind |-> "retry", issue |-> i, run |-> r]
  IN
  /\ pc[Timer(r)] = "retrycheck" /\ Holds(Timer(r))
  /\ \/ /\ \/ contended /\ NoFault
           \/ ~contended /\ Fault       \* pressured host
        /\ RetryEnds(r)
        /\ ScheduleRunWork(row, row, labels, rearmed)
        /\ UNCHANGED <<inflight, latch, immune>>
     \/ /\ ~contended /\ stopping /\ NoFault
        /\ RetryEnds(r)
        /\ row' = [row EXCEPT ![r] = CancelledRow(@, "daemon_shutdown")]
        /\ labels' = [labels EXCEPT ![i] = CancelLabels(@, "daemon_shutdown")]
        /\ UNCHANGED <<sched, inflight, latch, immune>>
     \/ /\ ~contended /\ ~stopping /\ NoFault
        /\ inflight' = inflight \cup {r}
        /\ latch' = [latch EXCEPT ![r] = "none"]
        /\ immune' = IF local[r].fsm THEN immune \cup {r} ELSE immune \ {r}
        /\ Goto(Timer(r), "retrylabel")
        /\ UNCHANGED <<mutex, work, sched, row, labels>>
  /\ UNCHANGED <<cand, local, daemonVars, provider, firings, resuming, issueOf,
                 nrows, open, ready, tickVars>>

\* sym:claimed is re-added best effort, the mutex released, the attempt begun.
RetryLabel(r) ==
  /\ pc[Timer(r)] = "retrylabel" /\ Holds(Timer(r))
  /\ \/ NoFault /\ labels' = [labels EXCEPT ![issueOf[r]] = @ \cup {"claimed"}]
     \/ Fault /\ UNCHANGED labels
  /\ Release
  /\ pc' = [pc EXCEPT ![Timer(r)] = "idle", ![Attempt(r)] = "entry"]
  /\ work' = [work EXCEPT ![Timer(r)] = NoWork]
  /\ UNCHANGED <<cand, local, daemonVars, registryVars, timerVars, storeVars,
                 open, ready, tickVars>>

-----------------------------------------------------------------------------
(* reEvaluateWaitingRun, under dispatchMutex, from a fired wait_park or    *)
(* from the tick's reconcileWaitingRuns.                                   *)

\* Mutant: an advanced row is evaluated once more.
ProceedsUncancelled(r) == row[r].reason = "none"

\* The row is read once, before the refresh and the pull-request observation.
Proceeds(r) == row[r].state = "waiting" /\ row[r].reason = "none"

WaitDropped(r) ==
  /\ ~Proceeds(r)
  /\ row' = IF row[r].state = "waiting"
            THEN [row EXCEPT ![r].state = "cancelled"] ELSE row

\* After the observation.  What was read is not read again.
WaitDecided(r) ==
  LET i == issueOf[r]
      parked == nrows + 1
  IN
  \/ /\ ~open[i]
     /\ row' = [row EXCEPT ![r] = [MarkCancelRequested(@, "closed_issue")
                                    EXCEPT !.state = "cancelled"]]
     /\ UNCHANGED <<issueOf, nrows, labels, sched>>
  \* refresh unavailable, predicates not satisfied, or the daemon is stopping
  \/ UNCHANGED <<storeVars, labels, sched>>
  \/ /\ open[i] /\ ~stopping /\ "terminal" \in Verdicts
     /\ \/ /\ row' = [row EXCEPT ![r].state = "succeeded", ![r].stamp = "none"]
           /\ labels' = [labels EXCEPT ![i] = Released(@)]
        \/ /\ row' = [row EXCEPT ![r].state = "blocked", ![r].stamp = "none",
                                 ![r].why = "blocked"]
           /\ labels' = [labels EXCEPT ![i] = Released(@) \cup {"blocked"}]
     /\ UNCHANGED <<issueOf, nrows, sched>>
  \/ /\ open[i] /\ ~stopping /\ "advance" \in Verdicts
     /\ LET advanced == [row EXCEPT ![r].state = "succeeded",
                                    ![r].stamp = "forward"]
        IN ScheduleRunWork(advanced, advanced, labels,
             [kind |-> "advance", issue |-> i, run |-> r])
     /\ UNCHANGED <<issueOf, nrows>>
  \/ /\ open[i] /\ ~stopping /\ "park" \in Verdicts /\ ~StoreFull
     /\ nrows' = parked
     /\ issueOf' = [issueOf EXCEPT ![parked] = i]
     /\ row' = [row EXCEPT ![r].state = "succeeded", ![r].stamp = "forward",
                           ![parked] = WaitingRow]
     /\ ScheduleWait(i, parked)
     /\ UNCHANGED labels

WaitRead(r) ==
  /\ pc[Wait(r)] = "waitq" /\ Holds(Wait(r))
  /\ \/ WaitDropped(r) /\ Release /\ Goto(Wait(r), "idle")
     \/ Proceeds(r) /\ Goto(Wait(r), "waiteval") /\ UNCHANGED <<row, mutex>>
  /\ UNCHANGED <<work, cand, local, daemonVars, registryVars, timerVars,
                 issueOf, nrows, githubVars, tickVars, spent>>

WaitEvaluate(r) ==
  /\ pc[Wait(r)] = "waiteval" /\ Holds(Wait(r))
  /\ WaitDecided(r)
  /\ Release /\ Goto(Wait(r), "idle")
  /\ UNCHANGED <<work, cand, local, daemonVars, registryVars, resuming, open,
                 ready, tickVars, spent>>
=============================================================================
