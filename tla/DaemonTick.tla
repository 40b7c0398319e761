----------------------------- MODULE DaemonTick -----------------------------
(***************************************************************************)
(* The daemon around the Runs: the reconcile tick, Routine Firings, deadline*)
(* and watchdog, the operator and the tracker, shutdown, crash and restart.*)
(*                                                                         *)
(* Source: daemon.ts, reconcile.ts, stale-claims.ts, shutdown-resume.ts,   *)
(* watchdog.ts, routines/dispatcher.ts.                                    *)
(***************************************************************************)
EXTENDS RunDispatch

-----------------------------------------------------------------------------
(* The tick: poll, reconcileActiveRuns, reconcileWaitingRuns,              *)
(* resumeShutdownCancelledRuns, detectStaleClaims, launchWork.             *)

\* requestCancel on every Run of `hit`: the first reason is kept in the
\* registry, the handler (abort preparation, or stop the provider) is invoked.
LatchAfter(hit, why) ==
  [r \in Runs |-> IF r \in hit /\ latch[r] = "none" THEN why[r] ELSE latch[r]]
\* Mutant: the cancel is recorded and the agent left alone.
ProviderLeft(hit) == provider
ProviderAfter(hit) ==
  [r \in Runs |-> IF r \in hit /\ provider[r] = "running" THEN "stopping"
                  ELSE provider[r]]

TickPoll ==
  /\ pc[Tick] = "idle" /\ ~stopping
  /\ seen' = [i \in Issues |-> [open |-> open[i], ready |-> ready[i],
                                labels |-> labels[i]]]
  /\ Goto(Tick, "reconcile")
  /\ UNCHANGED <<mutex, work, cand, local, daemonVars, registryVars, timerVars,
                 storeVars, githubVars, todo, spent>>

\* Open issues are judged by the poll, the others (absent from it) by getIssue.
TickReconcile ==
  LET lost(r) == LET s == seen[issueOf[r]]
                 IN IF s.open THEN ~Eligible(TRUE, s.ready, s.labels, r \in immune)
                    ELSE ~open[issueOf[r]]
      hit == {r \in inflight : latch[r] = "none" /\ lost(r)}
      why == [r \in Runs |-> IF seen[issueOf[r]].open THEN "eligibility_loss"
                             ELSE "closed_issue"]
  IN
  /\ pc[Tick] = "reconcile"
  /\ row' = [r \in Runs |-> IF r \in hit THEN MarkCancelRequested(row[r], why[r])
                            ELSE row[r]]
  /\ latch' = LatchAfter(hit, why)
  /\ provider' = ProviderAfter(hit)
  /\ Goto(Tick, "waits")
  /\ UNCHANGED <<mutex, work, cand, local, daemonVars, inflight, immune, firings,
                 timerVars, issueOf, nrows, githubVars, tickVars, spent>>

\* Mutant: whatever has a row is live.
KnownIssues == {i \in Issues : \E r \in Rows : issueOf[r] = i}

\* collectLiveKeys
LiveIssues ==
  {i \in Issues : \/ IsIssueReserved(i)
                  \/ \E r \in Rows : /\ issueOf[r] = i
                                      /\ \/ row[r].state \in ActiveStates
                                         \/ row[r].state = "waiting"
                                         \/ r \in Resumable}

\* A pass with nothing to await runs on into the next pass in the same step;
\* `m` is dispatchMutex and `s` the poll as the pass leaves them.
\* issuePollStatus.candidateIssues: open, ready, no operational label.
EnterLaunch(s) ==
  /\ todo' = {i \in Issues : s[i].open /\ s[i].ready /\ s[i].labels = {}}
  /\ seen' = Unseen
  /\ Goto(Tick, "launch")

\* detectStaleClaims, skipped while the mutex is held.  What is live is read
\* once, before the first label write.
EnterDetect(m, s) ==
  LET dead == {i \in Issues \ LiveIssues :
                 /\ s[i].open /\ s[i].labels \cap {"claimed", "running"} # {}
                 /\ "stale" \notin s[i].labels}
  IN IF m # <<>> \/ dead = {} THEN EnterLaunch(s)
     ELSE todo' = dead /\ seen' = s /\ Goto(Tick, "mark")

\* resumeShutdownCancelledRuns, skipped while the mutex is held.
EnterResume(m, s) ==
  IF m # <<>> \/ Resumable = {} THEN EnterDetect(m, s)
  ELSE todo' = Resumable /\ seen' = s /\ Goto(Tick, "resume")

\* dispatchMutex.tryAcquire() around reconcileWaitingRuns.
TickWaits ==
  LET waiting == {r \in Rows : row[r].state = "waiting"} IN
  /\ pc[Tick] = "waits"
  /\ \/ /\ mutex = <<>> /\ waiting # {}
        /\ Acquire(Tick)
        /\ todo' = waiting /\ seen' = seen
        /\ Goto(Tick, "wait")
     \/ /\ mutex # <<>> \/ waiting = {}
        /\ EnterResume(mutex, seen)
        /\ UNCHANGED mutex
  /\ UNCHANGED <<work, cand, local, daemonVars, registryVars, timerVars,
                 storeVars, githubVars, spent>>

Lowest(r) == r \in todo /\ \A q \in todo : r <= q

TickWaitRead ==
  /\ pc[Tick] = "wait"
  /\ \/ \E r \in todo :
          /\ Lowest(r)
          /\ \/ /\ WaitDropped(r)
                /\ todo' = todo \ {r}
                /\ UNCHANGED pc
             \/ /\ Proceeds(r)
                /\ Goto(Tick, "waiteval")
                /\ UNCHANGED <<todo, row>>
          /\ UNCHANGED <<mutex, seen>>
     \/ /\ todo = {}
        /\ Release
        /\ EnterResume(Tail(mutex), seen)
        /\ UNCHANGED row
  /\ UNCHANGED <<work, cand, local, daemonVars, registryVars, timerVars,
                 issueOf, nrows, githubVars, spent>>

TickWaitEvaluate ==
  /\ pc[Tick] = "waiteval"
  /\ \E r \in todo :
       /\ Lowest(r)
       /\ WaitDecided(r)
       /\ todo' = todo \ {r}
  /\ Goto(Tick, "wait")
  /\ UNCHANGED <<mutex, work, cand, local, daemonVars, registryVars, resuming,
                 open, ready, seen, spent>>

Resumes(r) == /\ seen[issueOf[r]].open
              /\ ~IsIssueReserved(issueOf[r]) /\ r \notin resuming

TickResumeOne ==
  /\ pc[Tick] = "resume"
  /\ \/ \E r \in todo :
          LET i == issueOf[r] IN
          /\ todo' = todo \ {r}
          /\ \/ /\ ~Resumes(r)
                /\ UNCHANGED <<row, labels, seen, sched, resuming, spent>>
             \/ /\ Resumes(r) /\ Fault       \* the label write failed: defer
                /\ row[r].stamp = "none" \/ "stale" \in seen[i].labels
                /\ UNCHANGED <<row, labels, seen, sched, resuming>>
             \/ /\ Resumes(r) /\ NoFault /\ row[r].stamp = "none"
                /\ labels' = [labels EXCEPT ![i] = Released(@)]
                /\ seen' = [seen EXCEPT ![i].labels = Released(@)]
                /\ row' = [row EXCEPT ![r].declined = TRUE]
                /\ UNCHANGED <<sched, resuming>>
             \/ /\ Resumes(r) /\ NoFault /\ row[r].stamp # "none"
                /\ labels' = [labels EXCEPT ![i] =
                      IF "stale" \in seen[i].labels THEN @ \ {"stale"} ELSE @]
                /\ seen' = [seen EXCEPT ![i].labels = @ \ {"stale"}]
                /\ sched' = IF stopping THEN sched ELSE [sched EXCEPT ![i] =
                      [kind |-> "resume", issue |-> i, run |-> r]]
                /\ resuming' = IF stopping THEN resuming ELSE resuming \cup {r}
                /\ UNCHANGED row
          /\ UNCHANGED pc
     \/ /\ todo = {} /\ EnterDetect(mutex, seen)
        /\ UNCHANGED <<row, labels, sched, resuming, spent>>
  /\ UNCHANGED <<mutex, work, cand, local, daemonVars, registryVars, issueOf,
                 nrows, open, ready>>

TickMark ==
  /\ pc[Tick] = "mark"
  /\ \/ \E i \in todo :
          /\ todo' = todo \ {i}
          /\ \/ Fault /\ UNCHANGED <<labels, seen>>
             \/ /\ NoFault
                /\ labels' = [labels EXCEPT ![i] = @ \cup {"stale"}]
                /\ seen' = [seen EXCEPT ![i].labels = @ \cup {"stale"}]
          /\ UNCHANGED pc
     \/ /\ todo = {} /\ EnterLaunch(seen)
        /\ UNCHANGED <<labels, spent>>
  /\ UNCHANGED <<mutex, work, cand, local, daemonVars, registryVars, timerVars,
                 storeVars, open, ready>>

\* launchWork starts a dispatchFresh of its own, beside those still running.
TickLaunch ==
  /\ pc[Tick] = "launch"
  /\ \/ \E b \in Batches :
          /\ pc[Batch(b)] = "idle" /\ todo # {}
          /\ cand' = [cand EXCEPT ![b] = todo]
          /\ pc' = [pc EXCEPT ![Batch(b)] = "pick", ![Tick] = "idle"]
     \/ /\ todo = {} \/ \A b \in Batches : pc[Batch(b)] # "idle"
        /\ Goto(Tick, "idle") /\ UNCHANGED cand
  /\ todo' = {}
  /\ UNCHANGED <<mutex, work, local, daemonVars, registryVars, timerVars,
                 storeVars, githubVars, seen, spent>>

-----------------------------------------------------------------------------
(* Routine Firings share the registry.  Their cap check and reserveSlot    *)
(* are one synchronous step and do not take dispatchMutex.                 *)

FireRoutine(f) ==
  /\ f \notin firings /\ ~stopping
  /\ Admits(FiringProject[f])
  /\ firings' = firings \cup {f}
  /\ UNCHANGED <<daemonVars, controlVars, inflight, latch, immune, provider,
                 timerVars, storeVars, githubVars, tickVars, spent>>

EndRoutine(f) ==
  /\ f \in firings
  /\ firings' = firings \ {f}
  /\ UNCHANGED <<daemonVars, controlVars, inflight, latch, immune, provider,
                 timerVars, storeVars, githubVars, tickVars, spent>>

-----------------------------------------------------------------------------
(* Deadline, watchdog, operator and tracker.                               *)

\* createRunSlotDeadline.onExpire: in flight and the CAS succeeds.
RunTimeout(r) ==
  /\ Disturb("timeout")
  /\ r \in inflight /\ row[r].reason = "none" /\ row[r].why # "watchdog"
  /\ row' = [row EXCEPT ![r].state = "stale", ![r].why = "watchdog"]
  /\ latch' = LatchAfter({r}, [s \in Runs |-> "watchdog"])
  /\ provider' = ProviderAfter({r})
  /\ UNCHANGED <<daemonVars, controlVars, inflight, immune, firings, timerVars,
                 issueOf, nrows, githubVars, tickVars>>

\* casRunWatchdogStale
Stalable(q) == q.state = "running" /\ q.reason = "none" /\ q.why # "watchdog"

\* The sampling watchdog marks a row that is `running` in the store; it does
\* not ask the registry.
WatchdogStale(r) ==
  /\ Disturb("watchdog")
  /\ Stalable(row[r])
  /\ row' = [row EXCEPT ![r].state = "stale", ![r].why = "watchdog"]
  /\ latch' = LatchAfter({r} \cap inflight, [s \in Runs |-> "watchdog"])
  /\ provider' = ProviderAfter({r} \cap inflight)
  /\ UNCHANGED <<daemonVars, controlVars, inflight, immune, firings, timerVars,
                 issueOf, nrows, githubVars, tickVars>>

\* The operator cancels a Run whose row is not terminal.
OperatorCancel(r) ==
  /\ Disturb("operator")
  /\ row[r].state \in ActiveStates \cup {"waiting"}
  /\ row' = [row EXCEPT ![r] = MarkCancelRequested(@, "operator")]
  /\ latch' = LatchAfter({r} \cap inflight, [s \in Runs |-> "operator"])
  /\ provider' = ProviderAfter({r} \cap inflight)
  /\ UNCHANGED <<daemonVars, controlVars, inflight, immune, firings, timerVars,
                 issueOf, nrows, githubVars, tickVars>>

TrackerEdit(i) ==
  /\ Disturb("edit")
  /\ \/ open' = [open EXCEPT ![i] = ~@] /\ UNCHANGED ready
     \/ ready' = [ready EXCEPT ![i] = ~@] /\ UNCHANGED open
  /\ UNCHANGED <<daemonVars, controlVars, registryVars, timerVars, storeVars,
                 labels, tickVars>>

-----------------------------------------------------------------------------
(* Graceful shutdown, crash, restart.                                      *)

\* Mutant: work whose owner is not told that it was cleared.
OwnedButAdvance == {"retry", "continuation"}
OwnedKinds == {"retry", "continuation", "advance"}
ScheduledOwners == {r \in Rows : \E i \in Issues :
                      /\ sched[i] # NoWork /\ sched[i].run = r
                      /\ sched[i].kind \in OwnedKinds}

\* stop() up to its first await: the registry closes, every live row records
\* daemon_shutdown, every Run is told to cancel (the shutdown reason replaces
\* an earlier one), every timer is cleared and its owner, when it has one,
\* cancelled.  No mutex is taken.
StopBegin ==
  /\ ~stopping /\ Disturb("stop")
  /\ stopping' = TRUE
  /\ row' = [r \in Runs |->
       IF r \in inflight THEN MarkCancelRequested(row[r], "daemon_shutdown")
       ELSE IF r \in ScheduledOwners THEN CancelledRow(row[r], "daemon_shutdown")
       ELSE row[r]]
  /\ latch' = [r \in Runs |-> IF r \in inflight THEN "daemon_shutdown"
                              ELSE latch[r]]
  /\ provider' = ProviderAfter(inflight)
  /\ labels' = [i \in Issues |->
       IF \E r \in ScheduledOwners : issueOf[r] = i
       THEN CancelLabels(labels[i], "daemon_shutdown") ELSE labels[i]]
  /\ sched' = [i \in Issues |-> NoWork]
  /\ UNCHANGED <<up, controlVars, inflight, immune, firings, resuming, issueOf,
                 nrows, open, ready, tickVars>>

Quiet == mutex = <<>> /\ firings = {} /\ \A t \in Threads : pc[t] = "idle"

\* stop() has awaited the tick and every dispatch, and closes the store.
StopDone ==
  /\ stopping /\ Quiet
  /\ up' = FALSE
  /\ UNCHANGED <<stopping, controlVars, registryVars, timerVars, storeVars,
                 githubVars, tickVars, spent>>

Fresh ==
  /\ mutex' = <<>>
  /\ pc' = [t \in Threads |-> "idle"]
  /\ work' = [t \in Threads |-> NoWork]
  /\ cand' = [b \in Batches |-> {}]
  /\ local' = [r \in Runs |-> NoLocal]
  /\ inflight' = {} /\ immune' = {} /\ firings' = {} /\ resuming' = {}
  /\ latch' = [r \in Runs |-> "none"]
  /\ provider' = [r \in Runs |-> "none"]
  /\ sched' = [i \in Issues |-> NoWork]
  /\ seen' = Unseen /\ todo' = {}

Crash ==
  /\ Disturb("crash")
  /\ up' = FALSE /\ stopping' = FALSE
  /\ Fresh
  /\ UNCHANGED <<storeVars, githubVars>>

\* Mutant: only a row that got as far as its agent is leaked.
RunningLeaks(q) == q.state = "running"
\* Mutant: startup also takes up what the shutdown had already cancelled.
CancelledLeaks(q) == q.state \in ActiveStates \cup {"cancelled"}
Leaked(q) == \/ q.state \in ActiveStates
             \/ q.state = "waiting" /\ q.stamp = "none"

\* Startup: findLeakedRuns / markRunsStale, then empty registries.
Restart ==
  /\ ~up
  /\ up' = TRUE /\ stopping' = FALSE
  /\ Fresh
  /\ row' = [r \in Runs |->
       IF Leaked(row[r]) THEN [row[r] EXCEPT !.state = "stale", !.why = "failed"]
       ELSE row[r]]
  /\ UNCHANGED <<issueOf, nrows, githubVars, spent>>
=============================================================================
