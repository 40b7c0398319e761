--------------------------- MODULE LifecycleState ---------------------------
(***************************************************************************)
(* The state of the Symphonika daemon that the Run lifecycle reads and     *)
(* writes, and the helpers its operations share.                           *)
(*                                                                         *)
(* The daemon is one Node process.  A "thread" is one chain of awaits; a   *)
(* step of the specification is the synchronous code between two awaits.   *)
(* Threads interleave only at awaits; `mutex` is the FIFO AsyncMutex called*)
(* dispatchMutex in the code, its head being the holder.                   *)
(*                                                                         *)
(* Source: in-flight-runs.ts, active-runs.ts, scheduled-work.ts,           *)
(* claim-label-writer.ts, run-store.ts (under src/lifecycle and src/).     *)
(***************************************************************************)
EXTENDS Naturals, FiniteSets, Sequences

CONSTANTS
  Issues,           \* GitHub issues that carry the Project's filters
  Projects,         \* Dispatch Projects
  ProjectOf,        \* [Issues -> Projects]
  RawFsm,           \* Projects whose workflow is a raw FSM (others: markdown)
  Batches,          \* dispatchFresh calls that may overlap (bound)
  Firings,          \* Routine Firings that may be in flight (bound)
  FiringProject,    \* [Firings -> Projects]
  GlobalCap,        \* providers.max_in_flight
  ProjectCap,       \* [Projects -> Nat], already defaulted to the global cap
  RetryCap,         \* LIFECYCLE_POLICY.retry.cap
  ContinuationCap,  \* LIFECYCLE_POLICY.continuation.cap
  ProviderOutcomes, \* how an agent process may end (input)
  Verdicts,         \* what a raw FSM's transitions may decide (input)
  MaxRuns,          \* rows the store may hold (bound)
  ShortPolls,       \* timing assumption: an attempt outlives every poll and
                    \* candidate list that is older than its claim
  Disturbances,     \* what the environment may do to the daemon, see below
  MaxDisturbances   \* how often, in total (bound)

ASSUME SetsAssumption ==
  /\ Issues # {} /\ IsFiniteSet(Firings)
  /\ RawFsm \subseteq Projects
  /\ ProjectOf \in [Issues -> Projects]
  /\ FiringProject \in [Firings -> Projects]

ASSUME BoundsAssumption ==
  /\ GlobalCap \in Nat /\ ProjectCap \in [Projects -> Nat]
  /\ RetryCap \in Nat /\ ContinuationCap \in Nat
  /\ ProviderOutcomes \subseteq {"success", "transient", "failed", "nochange"}
  /\ Verdicts \subseteq {"advance", "park", "terminal", "nomatch"}
  /\ RawFsm # {} => Verdicts \ {"park"} # {}
  /\ ShortPolls \in BOOLEAN
  /\ MaxRuns \in Nat /\ MaxDisturbances \in Nat
  /\ Disturbances \subseteq {"fault", "edit", "operator", "watchdog",
                             "timeout", "stop", "crash"}

VARIABLES
  up,         \* the process is alive
  stopping,   \* stop() ran: registry closed and scheduler latched, in one step
  mutex,      \* dispatchMutex: queue of threads, the head holds it
  pc,         \* where each thread is suspended
  work,       \* the claim or delayed work a batch or timer thread carries
  cand,       \* candidate issues a batch still has to try
  inflight,   \* Runs holding a slot in the InFlightRunRegistry
  latch,      \* registry entry's cancel reason ("none" when not requested)
  immune,     \* registry entries with respectsIssueLabels = false
  provider,   \* agent process of a Run: "none", "running", "stopping"
  firings,    \* Routine Firings holding a slot in the same registry
  sched,      \* the issue's delayed work (ScheduledWorkRegistry)
  resuming,   \* parents with a pending shutdown resume
  row,        \* the runs table; rows 1..nrows exist, newest last
  issueOf,    \* the issue of a row
  nrows,
  local,      \* locals of runAttemptLifecycle's finally block
  open, ready, labels,   \* GitHub: issue state, ready label, sym:* labels
  seen,       \* issuePollStatus: what the last poll saw
  todo,       \* what the tick's current pass still has to go through
  spent       \* disturbances so far

Runs == 1 .. MaxRuns

Attempt(r) == <<"run", r>>     \* runAttemptLifecycle of row r
Timer(r)   == <<"timer", r>>   \* a fired retry / continuation / advance of r
Wait(r)    == <<"wait", r>>    \* a fired wait_park of waiting row r
Batch(b)   == <<"batch", b>>   \* dispatchFresh
Tick       == <<"tick", 0>>    \* tick(): poll, reconcile, launchWork

Threads == {Attempt(r) : r \in Runs} \cup {Timer(r) : r \in Runs}
           \cup {Wait(r) : r \in Runs} \cup {Batch(b) : b \in Batches}
           \cup {Tick}

ActiveStates == {"queued", "preparing", "running"}
RowStates == ActiveStates \cup {"none", "waiting", "succeeded", "failed",
                                "blocked", "cancelled", "stale"}
Reasons == {"none", "daemon_shutdown", "closed_issue", "eligibility_loss",
            "operator", "watchdog"}
Outcomes == {"none", "success", "transient", "failed", "nochange", "blocked",
             "cancelled"}
Decisions == {"none", "advance", "park", "terminal", "nomatch"}
Labels == {"claimed", "running", "failed", "blocked", "stale"}
Kinds == {"fresh", "retry", "continuation", "advance", "resume", "wait"}
PCs == {"idle", "pick", "claimq", "check", "label", "fired", "retryq",
        "retrycheck", "retrylabel", "waitq", "entry", "load", "setup",
        "ready", "running", "settle", "classify", "termq", "labels", "next",
        "reconcile", "waits", "wait", "waiteval", "resume", "mark",
        "launch"}

NoWork == [kind |-> "none"]
Work == [kind : Kinds, issue : Issues, run : Runs \cup {0}]

\* `reason` is cancel_reason (cancel_requested = (reason # "none")); `why` is
\* the class of terminal_reason; `stamp` says whether current_state_id is null,
\* the state the row executes, or the target of the transition it took.
NoRow == [state |-> "none", reason |-> "none", why |-> "none", retries |-> 0,
          cont |-> FALSE, stamp |-> "none", declined |-> FALSE]
Row == [state : RowStates, reason : Reasons, why : Outcomes \cup {"watchdog"},
        retries : 0 .. RetryCap, cont : BOOLEAN, stamp : {"none", "entered", "forward"},
        declined : BOOLEAN]
NoLocal == [outcome |-> "none", next |-> "none", cancel |-> "none",
            ran |-> FALSE, fsm |-> FALSE, child |-> 0]
Local == [outcome : Outcomes, next : Decisions, cancel : Reasons,
          ran : BOOLEAN, fsm : BOOLEAN, child : Runs \cup {0}]

daemonVars   == <<up, stopping>>
controlVars  == <<mutex, pc, work, cand, local>>
registryVars == <<inflight, latch, immune, provider, firings>>
timerVars    == <<sched, resuming>>
storeVars    == <<row, issueOf, nrows>>
githubVars   == <<open, ready, labels>>
tickVars     == <<seen, todo>>
vars == <<daemonVars, controlVars, registryVars, timerVars, storeVars,
          githubVars, tickVars, spent>>

-----------------------------------------------------------------------------
(* Reads of the store, the registries and the tracker.                     *)

Unseen == [i \in Issues |-> [open |-> FALSE, ready |-> FALSE, labels |-> {}]]

Rows == 1 .. nrows

\* Bound: the one row still free belongs to a claim under way.
StoreFull == nrows + 2 > MaxRuns

Holds(t) == mutex # <<>> /\ Head(mutex) = t

IsNewest(r) == \A s \in Rows : issueOf[s] = issueOf[r] => s <= r

RunsOf(p) == {r \in inflight : ProjectOf[issueOf[r]] = p}
FiringsOf(p) == {f \in firings : FiringProject[f] = p}

\* Mutant: the caps compared with <=.
AdmitsOneMore(p) ==
  /\ Cardinality(inflight) + Cardinality(firings) <= GlobalCap
  /\ Cardinality(RunsOf(p)) + Cardinality(FiringsOf(p)) <= ProjectCap[p]

\* evaluateConcurrencyCapacity: the global cap first, then the Project's.
Admits(p) ==
  /\ Cardinality(inflight) + Cardinality(firings) < GlobalCap
  /\ Cardinality(RunsOf(p)) + Cardinality(FiringsOf(p)) < ProjectCap[p]

InFlightIssue(i) == \E r \in inflight : issueOf[r] = i
\* Mutant: a Run in flight is not a reservation.
IsIssueScheduled(i) == sched[i] # NoWork
IsIssueReserved(i) == InFlightIssue(i) \/ sched[i] # NoWork

\* latestRunSuppressesFreshDispatch
Suppressed(i) == \E r \in Rows : /\ issueOf[r] = i /\ IsNewest(r)
                                 /\ row[r].state = "blocked"
                                 /\ row[r].why = "nochange"

\* isIssueParkedAtRawFsmState
Parked(i) == /\ ProjectOf[i] \in RawFsm
             /\ \E r \in Rows : /\ issueOf[r] = i /\ row[r].state = "waiting"
                                 /\ row[r].stamp # "none"

Resumable == {r \in Rows : /\ row[r].state = "cancelled"
                           /\ row[r].reason = "daemon_shutdown"
                           /\ ~row[r].declined /\ IsNewest(r)}

SucceededContinuations(i) ==
  Cardinality({r \in Rows : /\ issueOf[r] = i /\ row[r].cont
                            /\ row[r].state = "succeeded"})

\* evaluateRunContinuationEligibility; the documented default labels_none
\* contains sym:stale, the other sym:* labels are the daemon's own.
Eligible(isOpen, isReady, ls, fsmOwned) ==
  isOpen /\ (fsmOwned \/ (isReady /\ "stale" \notin ls))
EligibleNow(i, fsmOwned) == Eligible(open[i], ready[i], labels[i], fsmOwned)

IsRaw(i) == ProjectOf[i] \in RawFsm

-----------------------------------------------------------------------------
(* Row and label values written by the code.                               *)

\* createWaitingRun
WaitingRow == [NoRow EXCEPT !.state = "waiting", !.cont = TRUE,
                            !.stamp = "entered"]

\* markCancelRequested: daemon_shutdown is never replaced.
MarkCancelRequested(q, why) ==
  [q EXCEPT !.reason = IF @ = "daemon_shutdown" THEN @ ELSE why]

\* The row half of cancelScheduledLifecycleWork.
CancelledRow(q, why) ==
  [MarkCancelRequested(q, why) EXCEPT !.state = "cancelled", !.why = "cancelled"]

\* ClaimLabelWriter.release
Released(ls) == ls \ {"claimed", "stale"}

\* ClaimLabelWriter.applyTerminal for a cancelled outcome.
CancelLabels(ls, why) ==
  ls \ ({"running"}
         \cup (IF why \in {"closed_issue", "eligibility_loss"}
               THEN {"claimed", "stale"} ELSE {})
         \cup (IF why = "closed_issue" THEN {"failed", "blocked"} ELSE {}))

\* mapOutcomeToRunState
RunState(o) == CASE o = "success" -> "succeeded"
                 [] o = "cancelled" -> "cancelled"
                 [] o \in {"blocked", "nochange"} -> "blocked"
                 [] OTHER -> "failed"

\* Mutant: one retry too many.
WillRetryOnceMore(o, q) == o = "transient" /\ q.retries <= RetryCap
WillRetry(o, q) == o = "transient" /\ q.retries < RetryCap

\* Mutant: a walk that goes on keeps sym:running.
LabelsKeptForTheWalk(ls, o, why, fsmContinuing, willRetry) ==
  IF fsmContinuing \/ willRetry THEN ls ELSE CancelLabels(ls, why)

\* ClaimLabelWriter.applyTerminal
TerminalLabels(ls, o, why, fsmContinuing, willRetry) ==
  IF o = "cancelled" THEN CancelLabels(ls, why)
  ELSE LET unlabelled == ls \ {"running"}
           mark == IF o = "success" \/ willRetry \/ fsmContinuing THEN {}
                   ELSE IF RunState(o) = "blocked" THEN {"blocked"}
                   ELSE {"failed"}
           kept == fsmContinuing \/ willRetry \/ o = "success"
       IN (IF kept THEN unlabelled ELSE Released(unlabelled)) \cup mark

\* scheduleRunWork: refused while stopping (the owner's row then records the
\* shutdown), throws when the issue already has delayed work (the work is
\* lost), otherwise armed; `accepted` is the table with onAccepted applied.
ScheduleRunWork(rows, accepted, ls, w) ==
  \/ /\ stopping
     /\ row' = [rows EXCEPT ![w.run] = CancelledRow(@, "daemon_shutdown")]
     /\ labels' = [ls EXCEPT ![w.issue] = CancelLabels(@, "daemon_shutdown")]
     /\ sched' = sched
  \/ /\ ~stopping /\ sched[w.issue] # NoWork
     /\ row' = rows /\ labels' = ls /\ sched' = sched
  \/ /\ ~stopping /\ sched[w.issue] = NoWork
     /\ row' = accepted /\ labels' = ls
     /\ sched' = [sched EXCEPT ![w.issue] = w]

\* schedule() of a wait_park: no shutdown owner, a refusal leaves the row.
ScheduleWait(i, r) ==
  sched' = IF ~stopping /\ sched[i] = NoWork
           THEN [sched EXCEPT ![i] = [kind |-> "wait", issue |-> i, run |-> r]]
           ELSE sched

\* One more disturbance of kind k.  A fault is a failed or timed-out GitHub
\* call, a failed preparation step or a host-pressure refusal.
Disturb(k) == /\ k \in Disturbances /\ spent < MaxDisturbances
              /\ spent' = spent + 1
Fault == Disturb("fault")
NoFault == spent' = spent

Goto(t, where) == pc' = [pc EXCEPT ![t] = where]
Acquire(t) == mutex' = Append(mutex, t)
Release == mutex' = Tail(mutex)
=============================================================================
