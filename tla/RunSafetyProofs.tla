---------------------------- MODULE RunSafetyProofs ----------------------------
(***************************************************************************)
(* What the lifecycle keeps whatever claims, retries, Routine Firings,     *)
(* cancels, shutdowns and crashes interleave.                              *)
(*                                                                         *)
(* Slots: the caps hold, an issue has one Run in flight at most, and the   *)
(* lifecycle hands out slots as SlotRegistry promises.  Most steps are     *)
(* calm: they return slots or leave them alone, and start nothing that     *)
(* could take one.  What is left is a claim that has passed its checks,    *)
(* the two grants to a Run and the grant to a Firing.                      *)
(*                                                                         *)
(* Rows: none is left queued, preparing or running without its attempt.    *)
(* Only three writes make a row active: the claim's createRun, which       *)
(* starts the attempt in the same step, and two writes of the attempt      *)
(* itself.  An attempt ends by leaving the row parked, stale or terminal.  *)
(*                                                                         *)
(* Cancels: a requested one reaches the provider.                          *)
(*                                                                         *)
(* Verdicts: what a row says has happened stays, whoever writes the row    *)
(* next.  The invariant VerdictInv says of each row what its delayed work, *)
(* its attempt, its slot and its wait step may find there.  A step is      *)
(* about one row, but for the reasons that a reconcile, a stop and a       *)
(* restart write to several: of every other row it is LeftAlone, and one   *)
(* lemma (AloneFits) carries the invariant over.  Of the row a step is     *)
(* about, each lemma shows RowDone: the row fits afterwards, and what it   *)
(* said sticks.                                                            *)
(*                                                                         *)
(* Continuations: an issue has no more successful ones than the cap.  Of   *)
(* an issue with a markdown workflow one Run at most is Engaged, that is,  *)
(* can still lead to another (ChainInv).  Most steps let every row rest    *)
(* (RowRests) and every issue (IssueRests); a claim makes a Newborn of an  *)
(* issue that had none engaged; what is left moves the engaged row of its  *)
(* issue (StepChained).                                                    *)
(*                                                                         *)
(* Labels: sym:running is worn by an issue only while an attempt of it has *)
(* still to take it off (LabelInv).                                        *)
(***************************************************************************)
EXTENDS RunLifecycleProofs, FiniteSetTheorems

USE DEF daemonVars, controlVars, registryVars, timerVars, storeVars, githubVars,
        tickVars

-----------------------------------------------------------------------------
(* Counting.                                                               *)

\* Everything that is counted against a cap is finite.
LEMMA SlotsFinite ==
  ASSUME TypeInv, NEW p
  PROVE  /\ IsFiniteSet(inflight) /\ IsFiniteSet(firings)
         /\ IsFiniteSet(RunsOf(p)) /\ IsFiniteSet(FiringsOf(p))
         /\ Cardinality(inflight) \in Nat /\ Cardinality(firings) \in Nat
         /\ Cardinality(RunsOf(p)) \in Nat /\ Cardinality(FiringsOf(p)) \in Nat
<1>1. IsFiniteSet(Runs)
  BY BoundsAssumption, FS_Interval DEF Runs
<1>2. inflight \in SUBSET Runs /\ firings \in SUBSET Firings
  BY DEF TypeInv, TypeOK, RegistryOK
<1>3. IsFiniteSet(inflight) /\ IsFiniteSet(firings)
  BY <1>1, <1>2, FS_Subset, SetsAssumption
<1>4. RunsOf(p) \in SUBSET inflight /\ FiringsOf(p) \in SUBSET firings
  BY DEF RunsOf, FiringsOf
<1>5. IsFiniteSet(RunsOf(p)) /\ IsFiniteSet(FiringsOf(p))
  BY <1>3, <1>4, FS_Subset
<1>. QED  BY <1>3, <1>5, FS_CardinalityType

\* What evaluateConcurrencyCapacity and the reservation check admit can be
\* granted.
LEMMA AdmittedIsGrantable ==
  ASSUME TypeInv, NEW i \in Issues, Admits(ProjectOf[i]), ~IsIssueReserved(i)
  PROVE  Grantable(i)
<1>. DEFINE p == ProjectOf[i]
<1>1. p \in Projects /\ GlobalCap \in Nat /\ ProjectCap[p] \in Nat
  BY SetsAssumption, BoundsAssumption
<1>2. /\ Cardinality(inflight) \in Nat /\ Cardinality(firings) \in Nat
      /\ Cardinality(RunsOf(p)) \in Nat /\ Cardinality(FiringsOf(p)) \in Nat
  BY SlotsFinite
<1>3. /\ Cardinality(inflight) + Cardinality(firings) < GlobalCap
      /\ Cardinality(RunsOf(p)) + Cardinality(FiringsOf(p)) < ProjectCap[p]
  BY DEF Admits
<1>4. ~InFlightIssue(i)
  BY DEF IsIssueReserved, InFlightIssue
<1>5. /\ Cardinality(inflight) < GlobalCap
      /\ Cardinality(inflight) + Cardinality(firings) <= GlobalCap
      /\ Cardinality(RunsOf(p)) < ProjectCap[p]
      /\ Cardinality(RunsOf(p)) + Cardinality(FiringsOf(p)) <= ProjectCap[p]
  <2>. HIDE DEF p
  <2>. QED  BY <1>1, <1>2, <1>3
<1>. QED  BY <1>4, <1>5 DEF Grantable

-----------------------------------------------------------------------------
(* Calm steps.                                                             *)

\* Slots are left alone, or one is returned, or all are.
SlotsReturned ==
  \/ inflight' = inflight /\ firings' = firings
  \/ (\E r \in Runs : inflight' = inflight \ {r}) /\ firings' = firings
  \/ inflight' = inflight /\ (\E f \in Firings : firings' = firings \ {f})
  \/ inflight' = {} /\ firings' = {}

\* The table grows at its end, if at all.
RowsAdded ==
  \/ nrows' = nrows /\ issueOf' = issueOf
  \/ /\ nrows' = nrows + 1
     /\ \E i \in Issues : issueOf' = [issueOf EXCEPT ![nrows + 1] = i]

\* A retry is scheduled for a row that exists.
SchedCalm == \A i \in Issues : sched'[i].kind = "retry" => sched'[i].run \in Rows

\* No attempt, retry or claim gets to where it could take a slot.
NothingBegins ==
  /\ \A r \in Runs : pc'[Attempt(r)] # "idle" => r \in Rows
  /\ \A r \in Runs : pc'[Timer(r)] \in RetryPCs => r \in Rows
  /\ \A r \in Runs : work'[Timer(r)].kind = "retry" => r \in Rows
  /\ SchedCalm
  /\ \A t \in Claimants : pc'[t] = "label" => pc[t] = "label" /\ work'[t] = work[t]

Calm == SlotsReturned /\ RowsAdded /\ NothingBegins

\* Rows that exist stay, with their issue.
LEMMA RowsStay ==
  ASSUME TypeInv, RowsInv, RowsAdded
  PROVE  /\ Rows \subseteq Rows' /\ \A r \in inflight : issueOf'[r] = issueOf[r]
<1>1. nrows \in Nat /\ inflight \subseteq 1 .. nrows /\ inflight \subseteq Runs
  BY BoundsAssumption DEF TypeInv, TypeOK, StoreOK, RegistryOK, RowsInv, Rows
<1>2. Rows \subseteq Rows'
  BY <1>1 DEF RowsAdded, Rows
<1>3. ASSUME NEW r \in inflight PROVE issueOf'[r] = issueOf[r]
  <2>1. r # nrows + 1 /\ r \in Runs
    BY <1>1
  <2>. QED  BY <2>1 DEF RowsAdded, TypeInv, TypeOK, StoreOK
<1>. QED  BY <1>2, <1>3

\* Returning slots lowers every count.
LEMMA ReturnsLower ==
  ASSUME TypeInv, RowsInv, SlotsReturned, RowsAdded, NEW p
  PROVE  /\ inflight' \subseteq inflight
         /\ Cardinality(inflight') \in Nat /\ Cardinality(firings') \in Nat
         /\ Cardinality(RunsOf(p)') \in Nat /\ Cardinality(FiringsOf(p)') \in Nat
         /\ Cardinality(inflight') <= Cardinality(inflight)
         /\ Cardinality(firings') <= Cardinality(firings)
         /\ Cardinality(RunsOf(p)') <= Cardinality(RunsOf(p))
         /\ Cardinality(FiringsOf(p)') <= Cardinality(FiringsOf(p))
<1>1. inflight' \in SUBSET inflight /\ firings' \in SUBSET firings
  BY DEF SlotsReturned
<1>2. RunsOf(p)' \in SUBSET RunsOf(p)
  BY <1>1, RowsStay DEF RunsOf
<1>3. FiringsOf(p)' \in SUBSET FiringsOf(p)
  BY <1>1 DEF FiringsOf
<1>4. /\ IsFiniteSet(inflight) /\ IsFiniteSet(firings)
      /\ IsFiniteSet(RunsOf(p)) /\ IsFiniteSet(FiringsOf(p))
  BY SlotsFinite
<1>5. ASSUME NEW S, IsFiniteSet(S), NEW T \in SUBSET S
      PROVE  Cardinality(T) \in Nat /\ Cardinality(T) <= Cardinality(S)
  BY <1>5, FS_Subset, FS_CardinalityType
<1>. QED  BY <1>1, <1>2, <1>3, <1>4, <1>5

LEMMA CalmKeeps ==
  ASSUME TypeInv, SlotInv, Calm
  PROVE  SlotInv'
<1>. USE DEF SlotInv, Calm
<1>1. Rows \subseteq Rows' /\ \A r \in inflight : issueOf'[r] = issueOf[r]
  BY RowsStay
<1>2. inflight' \subseteq inflight
  BY DEF SlotsReturned
<1>3. RowsInv'
  BY <1>1, <1>2 DEF RowsInv, NothingBegins, SchedCalm
<1>4. OneRunPerIssue'
  BY <1>1, <1>2 DEF OneRunPerIssue
<1>5. SlotsWithinCaps'
  <2>1. /\ Cardinality(inflight') <= GlobalCap
        /\ Cardinality(inflight') + Cardinality(firings') <= GlobalCap + 1
    BY ReturnsLower, SlotsFinite, BoundsAssumption DEF SlotsWithinCaps
  <2>2. ASSUME NEW p \in Projects PROVE Cardinality(RunsOf(p)') <= ProjectCap[p]
    BY ReturnsLower, SlotsFinite, BoundsAssumption DEF SlotsWithinCaps
  <2>. QED  BY <2>1, <2>2 DEF SlotsWithinCaps
<1>6. GrantInv'
  <2>. SUFFICES ASSUME NEW t \in Claimants, pc'[t] = "label"
                PROVE  Grantable(work[t].issue)'
    BY DEF GrantInv
  <2>1. pc[t] = "label" /\ work'[t] = work[t]
    BY DEF NothingBegins
  <2>2. PICK i \in Issues : i = work[t].issue
    BY <2>1, ClaimWork DEF TypeInv, TypeOK
  <2>3. PICK p \in Projects : p = ProjectOf[i]
    BY SetsAssumption
  <2>4. Grantable(i)
    BY <2>1, <2>2 DEF GrantInv
  <2>5. ~InFlightIssue(i)'
    BY <1>1, <1>2, <2>4 DEF Grantable, InFlightIssue
  <2>6. /\ Cardinality(inflight') < GlobalCap
        /\ Cardinality(inflight') + Cardinality(firings') <= GlobalCap
    BY <2>4, ReturnsLower, SlotsFinite, BoundsAssumption DEF Grantable
  <2>7. /\ Cardinality(RunsOf(p)') < ProjectCap[p]
        /\ Cardinality(RunsOf(p)') + Cardinality(FiringsOf(p)') <= ProjectCap[p]
    BY <2>3, <2>4, ReturnsLower, SlotsFinite, BoundsAssumption DEF Grantable
  <2>8. Grantable(i)'
    BY <2>3, <2>5, <2>6, <2>7 DEF Grantable
  <2>. QED  BY <2>1, <2>2, <2>8
<1>. QED  BY <1>3, <1>4, <1>5, <1>6

-----------------------------------------------------------------------------
(* Which steps are calm.                                                   *)

\* One thread moves on, to no label write, and may be done with its work.
LEMMA CalmMove ==
  ASSUME TypeInv, SlotInv, NEW t \in Threads, NEW where, where # "label",
         pc' = [pc EXCEPT ![t] = where],
         work' = work \/ work' = [work EXCEPT ![t] = NoWork],
         \A r \in Runs : t = Attempt(r) => pc[t] # "idle",
         \A r \in Runs : t = Timer(r) /\ where \in RetryPCs => r \in Rows,
         SchedCalm
  PROVE  NothingBegins
<1>. USE DEF TypeInv, TypeOK, SlotInv
<1>1. \A u \in Threads : pc'[u] = IF u = t THEN where ELSE pc[u]
  BY DEF ControlOK
<1>2. \A u \in Threads : work'[u] = work[u] \/ (u = t /\ work'[u] = NoWork)
  BY DEF ControlOK
<1>3. \A r \in Runs : work'[Timer(r)].kind = "retry" => r \in Rows
  BY <1>2, ThreadNames DEF NoWork, RowsInv
<1>4. \A u \in Claimants : pc'[u] = "label" => pc[u] = "label" /\ work'[u] = work[u]
  BY <1>1, <1>2, ThreadNames
<1>5. \A r \in Runs : pc'[Attempt(r)] # "idle" => r \in Rows
  BY <1>1, ThreadNames DEF RowsInv
<1>6. \A r \in Runs : pc'[Timer(r)] \in RetryPCs => r \in Rows
  BY <1>1, ThreadNames DEF RowsInv
<1>. QED  BY <1>3, <1>4, <1>5, <1>6 DEF NothingBegins

\* No thread moves.
LEMMA CalmStill ==
  ASSUME TypeInv, SlotInv, pc' = pc, work' = work,
         SchedCalm
  PROVE  NothingBegins
BY DEF NothingBegins, SlotInv, RowsInv

LEMMA SchedStays ==
  ASSUME SlotInv, sched' = sched
  PROVE  SchedCalm
BY DEF SchedCalm, SlotInv, RowsInv

LEMMA SchedOne ==
  ASSUME TypeInv, SlotInv, NEW i \in Issues, NEW w,
         w.kind = "retry" => w.run \in Rows,
         sched' = sched \/ sched' = [sched EXCEPT ![i] = w]
  PROVE  SchedCalm
BY DEF SchedCalm, SlotInv, RowsInv, TypeInv, TypeOK, TimerOK

LEMMA ScheduleCalm ==
  ASSUME TypeInv, SlotInv, NEW rows, NEW accepted, NEW ls, NEW w,
         w.issue \in Issues, w.kind = "retry" => w.run \in Rows,
         ScheduleRunWork(rows, accepted, ls, w)
  PROVE  SchedCalm
BY SchedOne DEF ScheduleRunWork

LEMMA ScheduleWaitCalm ==
  ASSUME TypeInv, SlotInv, NEW i \in Issues, NEW r, ScheduleWait(i, r)
  PROVE  SchedCalm
<1>. DEFINE w == [kind |-> "wait", issue |-> i, run |-> r]
<1>1. w.kind # "retry"
  OBVIOUS
<1>2. sched' = sched \/ sched' = [sched EXCEPT ![i] = w]
  BY DEF ScheduleWait
<1>. HIDE DEF w
<1>. QED  BY <1>1, <1>2, SchedOne

-----------------------------------------------------------------------------
(* Dispatch and delayed work.                                              *)

LEMMA BatchPickCalm ==
  ASSUME TypeInv, SlotInv, NEW b \in Batches, BatchPick(b)
  PROVE  Calm
<1>. USE DEF TypeInv, TypeOK
<1>1. Batch(b) \in Threads /\ Batch(b) \in Claimants
  BY ThreadNames
<1>2. \A u \in Threads : u # Batch(b) => pc'[u] = pc[u] /\ work'[u] = work[u]
  BY <1>1 DEF BatchPick, Goto, ControlOK
<1>3. pc'[Batch(b)] # "label"
  BY <1>1 DEF BatchPick, Goto, ControlOK
<1>4. SchedCalm
  BY SchedStays DEF BatchPick
<1>5. NothingBegins
  BY <1>1, <1>2, <1>3, <1>4, ThreadNames, ThreadsDiffer
  DEF NothingBegins, SlotInv, RowsInv
<1>. QED  BY <1>5 DEF Calm, SlotsReturned, RowsAdded, BatchPick

LEMMA ClaimEndsCalm ==
  ASSUME TypeInv, SlotInv, NEW t \in Claimants, pc[t] \in ClaimPCs,
         ClaimRefused(t) \/ ClaimShutDown(t)
  PROVE  NothingBegins
<1>. DEFINE w == work[t]
<1>1. /\ w.issue \in Issues /\ t \in Threads
      /\ \A r \in Runs : t # Attempt(r)
  BY ClaimWork, ThreadNames, ThreadsDiffer DEF TypeInv, TypeOK, ClaimPCs
<1>2. \E where \in {"pick", "idle"} :
        pc' = [pc EXCEPT ![t] = where] /\ work' = [work EXCEPT ![t] = NoWork]
  BY DEF ClaimRefused, ClaimShutDown, Goto
<1>3. SchedCalm
  <2>1. \/ sched' = sched
        \/ w.kind \in {"continuation", "advance"}
           /\ ScheduleRunWork(row, row, labels, w)
        \/ w.kind = "resume" /\ sched' = [sched EXCEPT ![w.issue] = w]
    BY DEF ClaimRefused, ClaimShutDown
  <2>. HIDE DEF w
  <2>. QED  BY <1>1, <2>1, SchedStays, SchedOne, ScheduleCalm
<1>. QED  BY <1>1, <1>2, <1>3, CalmMove DEF RetryPCs

\* A claimant moves on, to no label write.
LEMMA ClaimantMove ==
  ASSUME TypeInv, SlotInv, NEW t \in Claimants, NEW where \in {"check", "idle"},
         pc' = [pc EXCEPT ![t] = where], sched' = sched,
         work' = work \/ work' = [work EXCEPT ![t] = NoWork]
  PROVE  NothingBegins
<1>1. t \in Threads /\ \A r \in Runs : t # Attempt(r)
  BY ThreadNames, ThreadsDiffer
<1>2. SchedCalm
  BY SchedStays
<1>3. where # "label" /\ where \notin RetryPCs
  BY DEF RetryPCs
<1>. QED  BY <1>1, <1>2, <1>3, CalmMove

LEMMA ClaimGateCalm ==
  ASSUME TypeInv, SlotInv, NEW t \in Claimants, ClaimGate(t)
  PROVE  Calm
<1>1. NothingBegins
  <2>1. CASE ClaimRefused(t) \/ ClaimShutDown(t)
    BY <2>1, ClaimEndsCalm DEF ClaimGate, ClaimPCs
  <2>2. CASE Goto(t, "check") /\ sched' = sched /\ work' = work
    BY <2>2, ClaimantMove DEF Goto
  <2>. QED  BY <2>1, <2>2 DEF ClaimGate
<1>. QED  BY <1>1 DEF Calm, SlotsReturned, RowsAdded, ClaimGate

LEMMA ClaimRollbackCalm ==
  ASSUME TypeInv, SlotInv, NEW t \in Claimants, ClaimRollback(t)
  PROVE  Calm
<1>1. NothingBegins
  BY ClaimantMove DEF ClaimRollback, Goto
<1>2. work[t].issue \in Issues
  BY ClaimWork DEF ClaimRollback, TypeInv, TypeOK
<1>. QED  BY <1>1, <1>2 DEF Calm, SlotsReturned, RowsAdded, ClaimRollback

LEMMA ClaimLabelFailsCalm ==
  ASSUME TypeInv, SlotInv, NEW t \in Claimants, ClaimLabelFails(t)
  PROVE  Calm
<1>1. NothingBegins
  BY ClaimantMove DEF ClaimLabelFails, Goto
<1>. QED  BY <1>1 DEF Calm, SlotsReturned, RowsAdded, ClaimLabelFails

\* A fired retry is about a row that exists.
LEMMA TimerFireCalm ==
  ASSUME TypeInv, SlotInv, NEW i \in Issues, TimerFire(i)
  PROVE  Calm
<1>. DEFINE w == sched[i]
<1>. USE DEF TypeInv, TypeOK
<1>1. w.run \in Runs /\ (w.kind = "retry" => w.run \in Rows)
  BY DEF TimerFire, SchedInv, SlotInv, RowsInv
<1>2. SchedCalm
  BY SchedOne DEF TimerFire, NoWork
<1>3. NothingBegins
  <2>1. CASE w.kind = "wait"
    <3>1. Wait(w.run) \in Threads /\ \A r \in Runs : Wait(w.run) # Attempt(r)
                                                  /\ Wait(w.run) # Timer(r)
      BY <1>1, ThreadNames, ThreadsDiffer
    <3>. QED  BY <1>2, <2>1, <3>1, CalmMove DEF TimerFire, Goto
  <2>2. CASE w.kind # "wait"
    <3>. DEFINE t == Timer(w.run)
    <3>1. /\ t \in Threads /\ t \in Claimants
          /\ \A r \in Runs : t # Attempt(r) /\ (t = Timer(r) => r = w.run)
      BY <1>1, ThreadNames, ThreadsDiffer
    <3>2. /\ pc' = [pc EXCEPT ![t] = "fired"]
          /\ work' = [work EXCEPT ![t] = w]
      BY <2>2 DEF TimerFire, Goto
    <3>3. /\ \A u \in Threads : u # t => pc'[u] = pc[u] /\ work'[u] = work[u]
          /\ pc'[t] = "fired" /\ work'[t] = w
      BY <3>1, <3>2 DEF ControlOK
    <3>. HIDE DEF t, w
    <3>4. \A r \in Runs : pc'[Attempt(r)] # "idle" => r \in Rows
      BY <3>1, <3>3, ThreadNames DEF SlotInv, RowsInv
    <3>5. \A r \in Runs : pc'[Timer(r)] \in RetryPCs => r \in Rows
      BY <3>1, <3>3, ThreadNames DEF SlotInv, RowsInv, RetryPCs
    <3>6. \A r \in Runs : work'[Timer(r)].kind = "retry" => r \in Rows
      BY <1>1, <3>1, <3>3, ThreadNames DEF SlotInv, RowsInv
    <3>7. \A u \in Claimants : pc'[u] = "label" => pc[u] = "label" /\ work'[u] = work[u]
      BY <3>3, ThreadNames
    <3>. QED  BY <1>2, <3>4, <3>5, <3>6, <3>7 DEF NothingBegins
  <2>. QED  BY <2>1, <2>2
<1>. QED  BY <1>3 DEF Calm, SlotsReturned, RowsAdded, TimerFire

LEMMA TimerStepCalm ==
  ASSUME TypeInv, SlotInv, NEW r \in Runs,
         TimerDropped(r) \/ TimerUnavailable(r) \/ TimerAdmitted(r) \/ RetryGate(r)
  PROVE  Calm
<1>. DEFINE t == Timer(r)
<1>1. /\ t \in Threads
      /\ \A s \in Runs : t # Attempt(s) /\ (t = Timer(s) => s = r)
  BY ThreadNames, ThreadsDiffer
<1>2. work[t].kind = "retry" => r \in Rows
  BY DEF SlotInv, RowsInv
<1>3. CASE TimerDropped(r) \/ TimerUnavailable(r)
  <2>1. NothingBegins
    BY <1>1, <1>3, CalmMove, SchedStays
    DEF TimerDropped, TimerUnavailable, Goto, RetryPCs
  <2>. QED  BY <1>3, <2>1
            DEF Calm, SlotsReturned, RowsAdded, TimerDropped, TimerUnavailable
<1>4. CASE TimerAdmitted(r)
  <2>1. \/ pc' = [pc EXCEPT ![t] = "retryq"] /\ work[t].kind = "retry"
        \/ pc' = [pc EXCEPT ![t] = "claimq"]
    BY <1>4 DEF TimerAdmitted, Goto
  <2>2. NothingBegins
    BY <1>1, <1>2, <1>4, <2>1, CalmMove, SchedStays DEF TimerAdmitted, RetryPCs
  <2>. QED  BY <1>4, <2>2 DEF Calm, SlotsReturned, RowsAdded, TimerAdmitted
<1>5. CASE RetryGate(r)
  <2>1. r \in Rows
    BY <1>5 DEF RetryGate, SlotInv, RowsInv, RetryPCs
  <2>2. NothingBegins
    BY <1>1, <1>5, <2>1, CalmMove, SchedStays DEF RetryGate, RetryEnds, Goto
  <2>. QED  BY <1>5, <2>2 DEF Calm, SlotsReturned, RowsAdded, RetryGate
<1>. QED  BY <1>3, <1>4, <1>5

LEMMA RetryLabelCalm ==
  ASSUME TypeInv, SlotInv, NEW r \in Runs, RetryLabel(r)
  PROVE  Calm
<1>. USE DEF TypeInv, TypeOK, RetryLabel
<1>1. r \in Rows
  BY DEF SlotInv, RowsInv, RetryPCs
<1>2. \A u \in Threads : /\ pc'[u] = IF u = Attempt(r) THEN "entry"
                                  ELSE IF u = Timer(r) THEN "idle" ELSE pc[u]
                        /\ work'[u] = IF u = Timer(r) THEN NoWork ELSE work[u]
  BY DEF ControlOK
<1>3. SchedCalm
  BY SchedStays
<1>4. \A s \in Runs : pc'[Attempt(s)] # "idle" => s \in Rows
  BY <1>1, <1>2, ThreadNames, ThreadsDiffer DEF SlotInv, RowsInv
<1>5. \A s \in Runs : pc'[Timer(s)] \in RetryPCs => s \in Rows
  BY <1>2, ThreadNames, ThreadsDiffer DEF SlotInv, RowsInv, RetryPCs
<1>6. \A s \in Runs : work'[Timer(s)].kind = "retry" => s \in Rows
  BY <1>2, ThreadNames, ThreadsDiffer DEF SlotInv, RowsInv, NoWork
<1>7. \A u \in Claimants : pc'[u] = "label" => pc[u] = "label" /\ work'[u] = work[u]
  BY <1>2, ThreadNames, ThreadsDiffer
<1>8. NothingBegins
  BY <1>3, <1>4, <1>5, <1>6, <1>7 DEF NothingBegins
<1>. QED  BY <1>8 DEF Calm, SlotsReturned, RowsAdded

\* What a wait evaluation schedules and adds.
LEMMA WaitDecidedCalm ==
  ASSUME TypeInv, SlotInv, NEW r \in Runs, WaitDecided(r)
  PROVE  SchedCalm /\ RowsAdded
<1>. DEFINE i == issueOf[r]
            w == [kind |-> "advance", issue |-> i, run |-> r]
<1>1. i \in Issues /\ w.issue = i /\ w.kind # "retry"
  BY DEF TypeInv, TypeOK, StoreOK
<1>2. \/ sched' = sched
      \/ \E rows : ScheduleRunWork(rows, rows, labels, w)
      \/ ScheduleWait(i, nrows + 1)
  BY DEF WaitDecided
<1>3. RowsAdded
  BY <1>1 DEF WaitDecided, RowsAdded
<1>. HIDE DEF w
<1>4. SchedCalm
  BY <1>1, <1>2, SchedStays, ScheduleCalm, ScheduleWaitCalm
<1>. QED  BY <1>3, <1>4

LEMMA WaitStepCalm ==
  ASSUME TypeInv, SlotInv, NEW r \in Runs, WaitRead(r) \/ WaitEvaluate(r)
  PROVE  Calm
<1>1. /\ Wait(r) \in Threads
      /\ \A s \in Runs : Wait(r) # Attempt(s) /\ Wait(r) # Timer(s)
  BY ThreadNames, ThreadsDiffer
<1>2. SchedCalm /\ RowsAdded
  BY WaitDecidedCalm, SchedStays DEF WaitRead, WaitEvaluate, RowsAdded
<1>3. \E where \in {"idle", "waiteval"} : pc' = [pc EXCEPT ![Wait(r)] = where]
  BY DEF WaitRead, WaitEvaluate, Goto
<1>4. work' = work
  BY DEF WaitRead, WaitEvaluate
<1>5. NothingBegins
  BY <1>1, <1>2, <1>3, <1>4, CalmMove
<1>. QED  BY <1>2, <1>5 DEF Calm, SlotsReturned, WaitRead, WaitEvaluate

-----------------------------------------------------------------------------
(* The attempt.                                                            *)

\* A step of an attempt under way that schedules nothing out of place.
LEMMA AttemptMove ==
  ASSUME TypeInv, SlotInv, NEW r \in Runs, NEW where, where # "label",
         pc[Attempt(r)] # "idle", pc' = [pc EXCEPT ![Attempt(r)] = where],
         work' = work, SchedCalm
  PROVE  NothingBegins
BY CalmMove, ThreadNames, ThreadsDiffer

\* The steps that keep the slot and the delayed work.
LEMMA AttemptKeepsCalm ==
  ASSUME TypeInv, SlotInv, NEW r \in Runs,
         \/ RunEntry(r) \/ RunPreparationFails(r) \/ RunLoad(r) \/ RunSetup(r)
         \/ RunStart(r) \/ ProviderExit(r) \/ RunTerminal(r) \/ RunLabels(r)
         \/ RunClassify(r)
  PROVE  Calm
<1>1. /\ pc[Attempt(r)] # "idle" /\ work' = work /\ sched' = sched
      /\ inflight' = inflight /\ firings' = firings
  BY DEF RunEntry, RunPreparationFails, RunLoad, RunSetup, RunStart, ProviderExit,
         RunTerminal, RunLabels, RunClassify
<1>2. \E where \in PCs \ {"label"} : pc' = [pc EXCEPT ![Attempt(r)] = where]
  BY DEF RunEntry, RunPreparationFails, RunLoad, RunSetup, RunStart, ProviderExit,
         RunTerminal, RunLabels, RunClassify, Goto, PCs
<1>3. NothingBegins
  BY <1>1, <1>2, AttemptMove, SchedStays
<1>4. RowsAdded
  <2>1. CASE RunClassify(r)
    <3>1. issueOf[r] \in Issues
      BY DEF TypeInv, TypeOK, StoreOK
    <3>. QED  BY <2>1, <3>1 DEF RunClassify, RowsAdded
  <2>2. CASE ~RunClassify(r)
    BY <2>2 DEF RunEntry, RunPreparationFails, RunLoad, RunSetup, RunStart,
                ProviderExit, RunTerminal, RunLabels, RowsAdded
  <2>. QED  BY <2>1, <2>2
<1>. QED  BY <1>1, <1>3, <1>4 DEF Calm, SlotsReturned

\* The steps that return the slot.
LEMMA AttemptReturnsCalm ==
  ASSUME TypeInv, SlotInv, NEW r \in Runs, RunParks(r) \/ RunSettle(r)
  PROVE  Calm
<1>1. /\ pc[Attempt(r)] # "idle" /\ work' = work
      /\ firings' = firings /\ nrows' = nrows /\ issueOf' = issueOf
  BY DEF RunParks, RunSettle
<1>2. inflight' = inflight \/ inflight' = inflight \ {r}
  BY DEF RunParks, RunSettle, LeaveRegistry
<1>3. \E where \in {"settle", "idle", "classify"} :
        pc' = [pc EXCEPT ![Attempt(r)] = where]
  BY DEF RunParks, RunSettle, Goto
<1>4. SchedCalm
  <2>1. issueOf[r] \in Issues
    BY DEF TypeInv, TypeOK, StoreOK
  <2>2. sched' = sched \/ ScheduleWait(issueOf[r], r)
    BY DEF RunParks, RunSettle
  <2>. QED  BY <2>1, <2>2, SchedStays, ScheduleWaitCalm
<1>5. NothingBegins
  BY <1>1, <1>3, <1>4, AttemptMove
<1>. QED  BY <1>1, <1>2, <1>5 DEF Calm, SlotsReturned, RowsAdded

\* scheduleNext.
LEMMA RunNextCalm ==
  ASSUME TypeInv, SlotInv, NEW r \in Runs, RunNext(r)
  PROVE  Calm
<1>. DEFINE i == issueOf[r]
            work_(k) == [kind |-> k, issue |-> i, run |-> r]
<1>1. /\ i \in Issues /\ r \in Rows
      /\ pc[Attempt(r)] # "idle" /\ work' = work
  BY DEF TypeInv, TypeOK, StoreOK, RunNext, SlotInv, RowsInv
<1>2. pc' = [pc EXCEPT ![Attempt(r)] = "idle"]
  BY DEF RunNext, Goto
<1>3. \/ NextAdvance(r) \/ NextRetry(r) \/ NextContinuation(r)
      \/ NothingMore
      \/ ScheduleWait(i, local[r].child) /\ UNCHANGED storeVars
  BY DEF RunNext
<1>4. RowsAdded
  BY <1>1, <1>3
  DEF RowsAdded, NextAdvance, NextRetry, NextContinuation, NothingMore
<1>5. SchedCalm
  <2>1. \/ sched' = sched \/ ScheduleWait(i, local[r].child)
        \/ \E k \in Kinds : \E accepted :
              ScheduleRunWork(row, accepted, labels, work_(k))
    BY <1>3 DEF NextAdvance, NextRetry, NextContinuation, NothingMore, Kinds
  <2>2. \A k : work_(k).issue = i /\ work_(k).run = r
    OBVIOUS
  <2>. HIDE DEF work_
  <2>. QED  BY <1>1, <2>1, <2>2, SchedStays, ScheduleWaitCalm, ScheduleCalm
<1>6. NothingBegins
  BY <1>1, <1>2, <1>5, AttemptMove
<1>. QED  BY <1>4, <1>6 DEF Calm, SlotsReturned, RunNext

-----------------------------------------------------------------------------
(* The tick, the environment, shutdown, crash and restart.                 *)

LEMMA TickCalm ==
  ASSUME TypeInv, SlotInv, TickStep
  PROVE  Calm
<1>1. /\ Tick \in Threads /\ Tick \notin Claimants
      /\ \A r \in Runs : Tick # Attempt(r) /\ Tick # Timer(r)
  BY ThreadNames, ThreadsDiffer
<1>2. work' = work /\ inflight' = inflight /\ firings' = firings
  BY DEF TickStep, TickPoll, TickReconcile, TickWaits, TickWaitRead,
         TickWaitEvaluate, TickResumeOne, TickMark, TickLaunch
<1>3. SchedCalm /\ RowsAdded
  <2>1. CASE TickWaitEvaluate
    <3>1. PICK r \in todo : WaitDecided(r)
      BY <2>1 DEF TickWaitEvaluate
    <3>2. r \in Runs
      BY <2>1 DEF TickWaitEvaluate, TypeInv, TodoInv
    <3>. QED  BY <3>1, <3>2, WaitDecidedCalm
  <2>2. CASE TickResumeOne
    <3>1. RowsAdded
      BY <2>2 DEF TickResumeOne, RowsAdded
    <3>2. CASE sched' = sched
      BY <3>1, <3>2, SchedStays
    <3>3. CASE sched' # sched
      <4>1. PICK r \in todo : sched' = [sched EXCEPT ![issueOf[r]] =
                          [kind |-> "resume", issue |-> issueOf[r], run |-> r]]
        BY <2>2, <3>3 DEF TickResumeOne
      <4>. DEFINE w == [kind |-> "resume", issue |-> issueOf[r], run |-> r]
      <4>2. r \in Runs /\ issueOf[r] \in Issues /\ w.kind # "retry"
        BY <2>2 DEF TickResumeOne, TypeInv, TypeOK, TodoInv, StoreOK
      <4>3. sched' = [sched EXCEPT ![issueOf[r]] = w]
        BY <4>1
      <4>. HIDE DEF w
      <4>. QED  BY <3>1, <4>2, <4>3, SchedOne
    <3>. QED  BY <3>2, <3>3
  <2>3. CASE sched' = sched /\ UNCHANGED <<issueOf, nrows>>
    BY <2>3, SchedStays DEF RowsAdded
  <2>. QED  BY <2>1, <2>2, <2>3
            DEF TickStep, TickPoll, TickReconcile, TickWaits, TickWaitRead,
                TickMark, TickLaunch
<1>4. NothingBegins
  <2>1. CASE TickLaunch
    <3>1. \A u \in Threads :
            \/ pc'[u] = pc[u]
            \/ u = Tick /\ pc'[u] = "idle"
            \/ pc'[u] = "pick" /\ \E b \in Batches : u = Batch(b)
      <4>1. pc \in [Threads -> PCs]
        BY DEF TypeInv, TypeOK, ControlOK
      <4>2. CASE pc' = [pc EXCEPT ![Tick] = "idle"]
        BY <1>1, <4>1, <4>2
      <4>3. ASSUME NEW b \in Batches,
                   pc' = [pc EXCEPT ![Batch(b)] = "pick", ![Tick] = "idle"]
            PROVE  \A u \in Threads : pc'[u] = IF u = Tick THEN "idle"
                                               ELSE IF u = Batch(b) THEN "pick"
                                               ELSE pc[u]
        BY <4>1, <4>3
      <4>. QED  BY <2>1, <4>2, <4>3 DEF TickLaunch, Goto
    <3>2. \A r \in Runs : pc'[Attempt(r)] = pc[Attempt(r)] /\ pc'[Timer(r)] = pc[Timer(r)]
      BY <1>1, <3>1, ThreadNames, ThreadsDiffer
    <3>3. \A u \in Claimants : pc'[u] = "label" => pc[u] = "label"
      BY <3>1, ThreadNames
    <3>. QED  BY <1>2, <1>3, <3>2, <3>3 DEF NothingBegins, SlotInv, RowsInv
  <2>2. CASE pc' = pc
    BY <1>2, <1>3, <2>2, CalmStill
  <2>3. CASE \E where \in PCs \ {"label"} : pc' = [pc EXCEPT ![Tick] = where]
    BY <1>1, <1>2, <1>3, <2>3, CalmMove
  <2>4. EnterDetect(mutex, seen) \/ EnterDetect(Tail(mutex), seen)
        \/ EnterResume(mutex, seen) \/ EnterResume(Tail(mutex), seen)
        \/ EnterLaunch(seen)
        => \E where \in PCs \ {"label"} : pc' = [pc EXCEPT ![Tick] = where]
    BY DEF EnterResume, EnterDetect, EnterLaunch, Goto, PCs
  <2>. QED  BY <2>1, <2>2, <2>3, <2>4
            DEF TickStep, TickPoll, TickReconcile, TickWaits, TickWaitRead,
                TickWaitEvaluate, TickResumeOne, TickMark, Goto, PCs
<1>. QED  BY <1>2, <1>3, <1>4 DEF Calm, SlotsReturned

LEMMA EnvironmentCalm ==
  ASSUME TypeInv, SlotInv, Environment \/ StopDone \/ \E f \in Firings : EndRoutine(f)
  PROVE  Calm
<1>1. /\ pc' = pc /\ work' = work /\ sched' = sched
      /\ nrows' = nrows /\ issueOf' = issueOf
  BY DEF Environment, RunTimeout, WatchdogStale, OperatorCancel, TrackerEdit,
         StopDone, EndRoutine
<1>2. SlotsReturned
  BY DEF Environment, RunTimeout, WatchdogStale, OperatorCancel, TrackerEdit,
         StopDone, EndRoutine, SlotsReturned
<1>. QED  BY <1>1, <1>2, CalmStill, SchedStays DEF Calm, RowsAdded

LEMMA StopBeginCalm ==
  ASSUME TypeInv, SlotInv, StopBegin
  PROVE  Calm
<1>1. SchedCalm
  BY DEF StopBegin, SchedCalm, NoWork
<1>. QED  BY <1>1, CalmStill DEF StopBegin, Calm, SlotsReturned, RowsAdded

LEMMA FreshCalm ==
  ASSUME TypeInv, SlotInv, Crash \/ Restart
  PROVE  Calm
<1>1. Fresh /\ nrows' = nrows /\ issueOf' = issueOf
  BY DEF Crash, Restart
<1>2. \A t \in Threads : pc'[t] = "idle" /\ work'[t] = NoWork
  BY <1>1 DEF Fresh
<1>3. SchedCalm
  BY <1>1 DEF Fresh, SchedCalm, NoWork
<1>4. NothingBegins
  BY <1>2, <1>3, ThreadNames DEF NothingBegins, NoWork, RetryPCs
<1>. QED  BY <1>1, <1>4 DEF Calm, SlotsReturned, RowsAdded, Fresh

-----------------------------------------------------------------------------
(* The steps that are not calm.                                            *)

\* The checks of a claim passed: its slot can be granted.
LEMMA ClaimCheckSlots ==
  ASSUME TypeInv, SlotInv, NEW t \in Claimants, ClaimCheck(t)
  PROVE  SlotInv' /\ SlotsReturned /\ RowsAdded
<1>. DEFINE w == work[t]
<1>1. SlotsReturned /\ RowsAdded
  BY DEF ClaimCheck, SlotsReturned, RowsAdded
<1>2. CASE ClaimRefused(t)
  <2>1. NothingBegins
    BY <1>2, ClaimEndsCalm DEF ClaimCheck, ClaimPCs
  <2>. QED  BY <1>1, <2>1, CalmKeeps DEF Calm
<1>3. CASE ~ClaimRefused(t)
  <2>1. /\ ~Contended(w) /\ pc' = [pc EXCEPT ![t] = "label"]
        /\ inflight' = inflight /\ firings' = firings /\ issueOf' = issueOf
        /\ nrows' = nrows /\ work' = work /\ sched' = sched
    BY <1>3 DEF ClaimCheck, Goto
  <2>2. w.issue \in Issues
    BY ClaimWork DEF ClaimCheck, TypeInv, TypeOK
  <2>3. Grantable(w.issue)
    BY <2>1, <2>2, AdmittedIsGrantable DEF Contended
  <2>4. \A u \in Threads : pc'[u] = IF u = t THEN "label" ELSE pc[u]
    BY <2>1 DEF TypeInv, TypeOK, ControlOK
  <2>5. GrantInv'
    <3>. SUFFICES ASSUME NEW u \in Claimants, pc'[u] = "label"
                  PROVE  Grantable(work[u].issue)'
      BY DEF GrantInv
    <3>1. Grantable(work[u].issue)
      BY <2>3, <2>4, ThreadNames DEF SlotInv, GrantInv
    <3>. QED  BY <2>1, <3>1
              DEF Grantable, InFlightIssue, RunsOf, FiringsOf
  <2>6. RowsInv'
    BY <2>1, <2>4, ThreadNames, ThreadsDiffer
    DEF SlotInv, RowsInv, Rows, RetryPCs
  <2>7. SlotsWithinCaps' /\ OneRunPerIssue'
    BY <2>1 DEF SlotInv, SlotsWithinCaps, OneRunPerIssue, RunsOf
  <2>. QED  BY <1>1, <2>5, <2>6, <2>7 DEF SlotInv
<1>. QED  BY <1>2, <1>3

\* Run r takes a slot for issue i, and no claim is left with its checks passed.
Granted(r, i) ==
  /\ r \in Runs \ inflight /\ Grantable(i)
  /\ inflight' = inflight \cup {r} /\ firings' = firings
  /\ issueOf' = [issueOf EXCEPT ![r] = i]
  /\ \A t \in Claimants : pc'[t] # "label"

LEMMA GrantKeeps ==
  ASSUME TypeInv, SlotInv, NEW r, NEW i \in Issues, Granted(r, i)
  PROVE  GrantInv' /\ SlotsWithinCaps' /\ OneRunPerIssue'
<1>. USE DEF Granted
<1>1. /\ issueOf'[r] = i
      /\ \A s \in inflight : issueOf'[s] = issueOf[s] /\ issueOf[s] # i
  BY DEF TypeInv, TypeOK, StoreOK, RegistryOK, Grantable, InFlightIssue
<1>2. GrantInv'
  BY DEF GrantInv
<1>3. OneRunPerIssue'
  BY <1>1 DEF SlotInv, OneRunPerIssue
<1>4. /\ Cardinality(inflight') = Cardinality(inflight) + 1
      /\ Cardinality(inflight) \in Nat /\ Cardinality(firings) \in Nat
  BY SlotsFinite, FS_AddElement
<1>5. ASSUME NEW p \in Projects PROVE Cardinality(RunsOf(p)') <= ProjectCap[p]
  <2>1. CASE p # ProjectOf[i]
    <3>1. RunsOf(p)' = RunsOf(p)
      BY <1>1, <2>1 DEF RunsOf
    <3>. QED  BY <3>1 DEF SlotInv, SlotsWithinCaps
  <2>2. CASE p = ProjectOf[i]
    <3>1. RunsOf(p)' = RunsOf(p) \cup {r} /\ r \notin RunsOf(p)
      BY <1>1, <2>2 DEF RunsOf
    <3>2. /\ Cardinality(RunsOf(p)') = Cardinality(RunsOf(p)) + 1
          /\ Cardinality(RunsOf(p)) \in Nat
      BY <3>1, SlotsFinite, FS_AddElement
    <3>3. Cardinality(RunsOf(p)) < ProjectCap[p] /\ ProjectCap[p] \in Nat
      BY <2>2, BoundsAssumption DEF Grantable
    <3>. QED  BY <3>2, <3>3
  <2>. QED  BY <2>1, <2>2
<1>6. /\ Cardinality(inflight') <= GlobalCap
      /\ Cardinality(inflight') + Cardinality(firings') <= GlobalCap + 1
  BY <1>4, BoundsAssumption DEF Grantable
<1>. QED  BY <1>2, <1>3, <1>5, <1>6 DEF SlotsWithinCaps

\* The holder of dispatchMutex is the only one with its checks passed.
LEMMA OnlyHolderPassed ==
  ASSUME TypeInv, NEW t, Holds(t), NEW u \in Claimants, pc[u] = "label"
  PROVE  u = t
BY ThreadNames DEF TypeInv, CriticalSections, Inside, Holds

LEMMA ClaimPersistSlots ==
  ASSUME TypeInv, SlotInv, NEW t \in Claimants, ClaimPersist(t)
  PROVE  SlotInv' /\ \E r \in Runs, i \in Issues : Granted(r, i)
<1>. DEFINE new == nrows + 1
            i == work[t].issue
<1>. USE DEF ClaimPersist, TypeInv, TypeOK
<1>1. t \in Threads /\ pc[t] = "label" /\ i \in Issues /\ Grantable(i)
  BY ClaimWork, ThreadNames DEF SlotInv, GrantInv
<1>2. /\ nrows \in Nat /\ new \in Runs /\ new \notin Rows /\ Rows' = Rows \cup {new}
  BY <1>1, BoundsAssumption DEF RoomInv, StoreOK, Runs, Rows
<1>3. new \notin inflight
  BY <1>2 DEF SlotInv, RowsInv
<1>4. \A u \in Threads :
        /\ pc'[u] = IF u = t THEN pc'[t] ELSE IF u = Attempt(new) THEN "entry" ELSE pc[u]
        /\ pc'[t] \in {"pick", "idle"}
        /\ work'[u] = IF u = t THEN NoWork ELSE work[u]
  BY <1>1 DEF ControlOK
<1>5. \A u \in Claimants : pc'[u] # "label"
  <2>1. \A u \in Claimants : pc[u] = "label" => u = t
    BY OnlyHolderPassed
  <2>2. \A u \in Claimants : u \in Threads /\ u # Attempt(new)
    BY <1>2, ThreadNames, ThreadsDiffer
  <2>. HIDE DEF ClaimPersist, TypeInv, TypeOK, new
  <2>. QED  BY <1>4, <2>1, <2>2
<1>6. Granted(new, i)
  BY <1>1, <1>2, <1>3, <1>5 DEF Granted
<1>7. RowsInv'
  <2>1. inflight' \subseteq Rows'
    BY <1>2 DEF SlotInv, RowsInv
  <2>2. \A r \in Runs : pc'[Attempt(r)] # "idle" => r \in Rows'
    BY <1>2, <1>4, ThreadNames, ThreadsDiffer DEF SlotInv, RowsInv
  <2>3. \A r \in Runs : pc'[Timer(r)] \in RetryPCs => r \in Rows'
    BY <1>2, <1>4, ThreadNames, ThreadsDiffer DEF SlotInv, RowsInv, RetryPCs
  <2>4. \A r \in Runs : work'[Timer(r)].kind = "retry" => r \in Rows'
    BY <1>2, <1>4, ThreadNames DEF SlotInv, RowsInv, NoWork
  <2>5. \A j \in Issues : sched'[j].kind = "retry" => sched'[j].run \in Rows'
    BY <1>2 DEF SlotInv, RowsInv
  <2>. QED  BY <2>1, <2>2, <2>3, <2>4, <2>5 DEF RowsInv
<1>. HIDE DEF new, i
<1>. QED  BY <1>1, <1>2, <1>6, <1>7, GrantKeeps DEF SlotInv

LEMMA RetryCheckSlots ==
  ASSUME TypeInv, SlotInv, NEW r \in Runs, RetryCheck(r)
  PROVE  SlotInv' /\ (Calm \/ \E i \in Issues : Granted(r, i))
<1>. DEFINE i == issueOf[r]
            t == Timer(r)
            rearmed == [kind |-> "retry", issue |-> i, run |-> r]
<1>1. /\ i \in Issues /\ r \in Rows /\ t \in Threads
      /\ \A s \in Runs : t # Attempt(s) /\ (t = Timer(s) => s = r)
  BY ThreadNames, ThreadsDiffer
  DEF RetryCheck, TypeInv, TypeOK, StoreOK, SlotInv, RowsInv, RetryPCs
<1>2. CASE RetryEnds(r)
  <2>1. rearmed.issue = i /\ rearmed.run = r
    OBVIOUS
  <2>2. \/ inflight' = inflight /\ ScheduleRunWork(row, row, labels, rearmed)
        \/ inflight' = inflight /\ sched' = sched
        \/ pc' = [pc EXCEPT ![t] = "retrylabel"]
    BY DEF RetryCheck, Goto
  <2>3. pc' = [pc EXCEPT ![t] = "idle"] /\ work' = [work EXCEPT ![t] = NoWork]
    BY <1>2 DEF RetryEnds, Goto
  <2>4. pc' # [pc EXCEPT ![t] = "retrylabel"]
    BY <1>1, <2>3 DEF TypeInv, TypeOK, ControlOK
  <2>. HIDE DEF rearmed
  <2>5. SchedCalm /\ inflight' = inflight
    BY <1>1, <2>1, <2>2, <2>4, ScheduleCalm, SchedStays
  <2>6. NothingBegins
    BY <1>1, <2>3, <2>5, CalmMove DEF RetryPCs
  <2>7. Calm
    BY <2>5, <2>6 DEF Calm, SlotsReturned, RowsAdded, RetryCheck
  <2>. QED  BY <2>7, CalmKeeps
<1>3. CASE ~RetryEnds(r)
  <2>1. /\ Holds(t) /\ pc[t] = "retrycheck"
        /\ Admits(ProjectOf[i]) /\ ~IsIssueReserved(i)
        /\ pc' = [pc EXCEPT ![t] = "retrylabel"]
        /\ inflight' = inflight \cup {r} /\ firings' = firings
        /\ issueOf' = issueOf /\ nrows' = nrows /\ work' = work /\ sched' = sched
    BY <1>3 DEF RetryCheck, Goto
  <2>2. Grantable(i) /\ r \notin inflight
    <3>1. Grantable(i)
      BY <1>1, <2>1, AdmittedIsGrantable
    <3>2. r \notin inflight
      BY <2>1 DEF IsIssueReserved, InFlightIssue
    <3>. QED  BY <3>1, <3>2
  <2>3. \A u \in Threads : pc'[u] = IF u = t THEN "retrylabel" ELSE pc[u]
    BY <2>1 DEF TypeInv, TypeOK, ControlOK
  <2>4. \A u \in Claimants : pc'[u] # "label"
    BY <2>1, <2>3, OnlyHolderPassed, ThreadNames
  <2>5. issueOf' = [issueOf EXCEPT ![r] = i]
    BY <2>1 DEF TypeInv, TypeOK, StoreOK
  <2>6. Granted(r, i)
    BY <2>1, <2>2, <2>4, <2>5 DEF Granted
  <2>7. RowsInv'
    BY <1>1, <2>1, <2>3, ThreadNames DEF SlotInv, RowsInv, Rows
  <2>. HIDE DEF i
  <2>. QED  BY <1>1, <2>6, <2>7, GrantKeeps DEF SlotInv
<1>. QED  BY <1>2, <1>3

\* A Routine Firing checks the caps in the step that takes its slot.
LEMMA FireRoutineSlots ==
  ASSUME TypeInv, SlotInv, NEW f \in Firings, FireRoutine(f)
  PROVE  SlotInv'
<1>. USE DEF FireRoutine
<1>1. /\ FiringProject[f] \in Projects
      /\ IsFiniteSet(firings) /\ f \notin firings
      /\ Cardinality(inflight) \in Nat /\ Cardinality(firings) \in Nat
  BY SlotsFinite, SetsAssumption
<1>2. /\ Cardinality(firings') = Cardinality(firings) + 1
      /\ Cardinality(inflight) + Cardinality(firings) < GlobalCap
  BY <1>1, FS_AddElement DEF Admits
<1>3. SlotsWithinCaps'
  <2>1. /\ Cardinality(inflight') <= GlobalCap
        /\ Cardinality(inflight') + Cardinality(firings') <= GlobalCap + 1
    BY <1>1, <1>2, BoundsAssumption
  <2>2. \A p \in Projects : Cardinality(RunsOf(p)') <= ProjectCap[p]
    BY DEF SlotInv, SlotsWithinCaps, RunsOf
  <2>. QED  BY <2>1, <2>2 DEF SlotsWithinCaps
<1>4. OneRunPerIssue' /\ RowsInv'
  BY DEF SlotInv, OneRunPerIssue, RowsInv, Rows
<1>5. GrantInv'
  <2>. SUFFICES ASSUME NEW t \in Claimants, pc'[t] = "label"
                PROVE  Grantable(work[t].issue)'
    BY DEF GrantInv
  <2>1. PICK i \in Issues : i = work[t].issue
    BY ClaimWork DEF TypeInv, TypeOK
  <2>2. PICK p \in Projects : p = ProjectOf[i]
    BY SetsAssumption
  <2>3. Grantable(i)
    BY <2>1 DEF SlotInv, GrantInv
  <2>4. ~InFlightIssue(i)' /\ RunsOf(p)' = RunsOf(p)
    BY <2>3 DEF Grantable, InFlightIssue, RunsOf
  <2>5. Cardinality(RunsOf(p)) + Cardinality(FiringsOf(p)') <= ProjectCap[p]
    <3>1. CASE p = FiringProject[f]
      <4>1. FiringsOf(p)' = FiringsOf(p) \cup {f} /\ f \notin FiringsOf(p)
        BY <3>1 DEF FiringsOf
      <4>2. /\ Cardinality(FiringsOf(p)') = Cardinality(FiringsOf(p)) + 1
            /\ Cardinality(FiringsOf(p)) \in Nat /\ Cardinality(RunsOf(p)) \in Nat
        <5>1. IsFiniteSet(FiringsOf(p))
          BY SlotsFinite
        <5>. QED  BY <4>1, <5>1, SlotsFinite, FS_AddElement
      <4>3. Cardinality(RunsOf(p)) + Cardinality(FiringsOf(p)) < ProjectCap[p]
        BY <3>1 DEF Admits
      <4>. QED  BY <4>2, <4>3, BoundsAssumption
    <3>2. CASE p # FiringProject[f]
      <4>1. FiringsOf(p)' = FiringsOf(p)
        BY <3>2 DEF FiringsOf
      <4>. QED  BY <2>2, <2>3, <4>1 DEF Grantable
    <3>. QED  BY <3>1, <3>2
  <2>6. Cardinality(inflight) + Cardinality(firings') <= GlobalCap
    BY <1>1, <1>2, BoundsAssumption
  <2>7. Grantable(i)'
    BY <2>2, <2>3, <2>4, <2>5, <2>6 DEF Grantable
  <2>. QED  BY <2>1, <2>7
<1>. QED  BY <1>3, <1>4, <1>5 DEF SlotInv

-----------------------------------------------------------------------------
(* The theorems.                                                           *)

LEMMA InitSlots == Init => SlotInv
<1>. SUFFICES ASSUME Init PROVE SlotInv
  OBVIOUS
<1>. USE DEF Init
<1>1. RowsInv
  BY ThreadNames DEF RowsInv, NoWork, RetryPCs
<1>2. GrantInv
  BY ThreadNames DEF GrantInv
<1>3. OneRunPerIssue
  BY DEF OneRunPerIssue
<1>4. SlotsWithinCaps
  <2>1. inflight = {} /\ firings = {} /\ \A p : RunsOf(p) = {}
    BY DEF RunsOf
  <2>2. Cardinality({}) = 0 /\ Cardinality(inflight) = 0 /\ Cardinality(firings) = 0
    BY <2>1, FS_EmptySet, Zenon
  <2>3. /\ Cardinality(inflight) <= GlobalCap
        /\ Cardinality(inflight) + Cardinality(firings) <= GlobalCap + 1
    BY <2>1, <2>2, BoundsAssumption
  <2>4. ASSUME NEW p \in Projects PROVE Cardinality(RunsOf(p)) <= ProjectCap[p]
    <3>1. Cardinality(RunsOf(p)) = 0 /\ ProjectCap[p] \in Nat
      BY <2>1, <2>2, BoundsAssumption
    <3>. QED  BY <3>1
  <2>. QED  BY <2>3, <2>4 DEF SlotsWithinCaps
<1>. QED  BY <1>1, <1>2, <1>3, <1>4 DEF SlotInv

\* What a step may do to the slots.
LEMMA StepSlots ==
  ASSUME TypeInv, SlotInv, [Next]_vars
  PROVE  \/ SlotsReturned /\ RowsAdded /\ SlotInv'
         \/ (\E r \in Runs, i \in Issues : Granted(r, i)) /\ SlotInv'
         \/ \E f \in Firings : FireRoutine(f)
<1>1. CASE UNCHANGED vars
  <2>1. pc' = pc /\ work' = work /\ sched' = sched /\ inflight' = inflight
        /\ firings' = firings /\ nrows' = nrows /\ issueOf' = issueOf
    BY <1>1 DEF vars
  <2>2. Calm
    BY <2>1, CalmStill, SchedStays DEF Calm, SlotsReturned, RowsAdded
  <2>. QED  BY <2>2, CalmKeeps DEF Calm
<1>2. ASSUME NEW t \in Claimants, ClaimStep(t)
      PROVE  \/ SlotsReturned /\ RowsAdded /\ SlotInv'
             \/ (\E r \in Runs, i \in Issues : Granted(r, i)) /\ SlotInv'
  <2>1. CASE ClaimGate(t) \/ ClaimRollback(t) \/ ClaimLabelFails(t)
    BY <2>1, ClaimGateCalm, ClaimRollbackCalm, ClaimLabelFailsCalm, CalmKeeps DEF Calm
  <2>2. CASE ClaimCheck(t)
    BY <2>2, ClaimCheckSlots
  <2>3. CASE ClaimPersist(t)
    BY <2>3, ClaimPersistSlots
  <2>. QED  BY <1>2, <2>1, <2>2, <2>3 DEF ClaimStep
<1>3. ASSUME NEW r \in Runs, RetryCheck(r)
      PROVE  \/ SlotsReturned /\ RowsAdded /\ SlotInv'
             \/ (\E q \in Runs, i \in Issues : Granted(q, i)) /\ SlotInv'
  BY <1>3, RetryCheckSlots DEF Calm
<1>4. ASSUME NEW r \in Runs, TimerStep(r) \/ AttemptStep(r), ~RetryCheck(r)
      PROVE  SlotsReturned /\ RowsAdded /\ SlotInv'
  <2>1. CASE TimerStep(r)
    BY <1>4, <2>1, TimerStepCalm, RetryLabelCalm, WaitStepCalm, CalmKeeps
    DEF TimerStep, Calm
  <2>2. CASE AttemptStep(r)
    BY <1>4, <2>2, AttemptKeepsCalm, AttemptReturnsCalm, RunNextCalm, CalmKeeps
    DEF AttemptStep, Calm
  <2>. QED  BY <1>4, <2>1, <2>2
<1>5. CASE \/ \E b \in Batches : BatchPick(b)
           \/ \E i \in Issues : TimerFire(i)
           \/ TickStep \/ Environment \/ StopBegin \/ StopDone \/ Crash \/ Restart
           \/ \E f \in Firings : EndRoutine(f)
  <2>1. Calm
    BY <1>5, BatchPickCalm, TimerFireCalm, TickCalm, EnvironmentCalm, StopBeginCalm,
       FreshCalm
  <2>. QED  BY <2>1, CalmKeeps DEF Calm
<1>. QED  BY <1>1, <1>2, <1>3, <1>4, <1>5 DEF Next, DaemonStep, RoutineStep

LEMMA NextSlots == TypeInv /\ SlotInv /\ [Next]_vars => SlotInv'
BY StepSlots, FireRoutineSlots

\* The inductive invariant: slots, and the checks a claim has behind it.
THEOREM SlotInvariance == Spec => []SlotInv
<1>1. Spec => []TypeInv
  BY TypeInvariance
<1>. QED  BY <1>1, InitSlots, NextSlots, PTL DEF Spec

\* Runs never hold more slots than the global or their Project's cap, and with
\* Routine Firings at most one more: the check of evaluateConcurrencyCapacity,
\* made before the await of the sym:claimed request, still holds after it.
THEOREM CapsHold == Spec => []SlotsWithinCaps
<1>1. SlotInv => SlotsWithinCaps
  BY DEF SlotInv
<1>. QED  BY <1>1, SlotInvariance, PTL

\* Two Runs of one issue are never in flight together, so reserveSlot never
\* finds its issue taken.
THEOREM OneRunEach == Spec => []OneRunPerIssue
<1>1. SlotInv => OneRunPerIssue
  BY DEF SlotInv
<1>. QED  BY <1>1, SlotInvariance, PTL

-----------------------------------------------------------------------------
(* The refinement.                                                         *)

\* Restricting or extending the map from slots to issues.
LEMMA InitRegistry == Init => Registry!Init
<1>1. ASSUME Init PROVE [r \in inflight |-> issueOf[r]] = << >>
  BY <1>1 DEF Init
<1>. QED  BY <1>1 DEF Init, Registry!Init

\* The instance counts as the lifecycle does.
LEMMA SameCount == \A S : Registry!Cardinality(S) = Cardinality(S)
BY DEF Registry!Cardinality, Cardinality

LEMMA StepRegistry ==
  ASSUME TypeInv, SlotInv, [Next]_vars
  PROVE  [Registry!Next]_Registry!slotVars
<1>. DEFINE held == [r \in inflight |-> issueOf[r]]
<1>1. /\ DOMAIN held = inflight
      /\ \A p : /\ Registry!HeldOf(p) = RunsOf(p)
                /\ Registry!FiringsIn(p) = FiringsOf(p)
      /\ Registry!Used = Cardinality(inflight) + Cardinality(firings)
  <2>1. \A r \in inflight : held[r] = issueOf[r]
    OBVIOUS
  <2>2. ASSUME NEW p PROVE Registry!HeldOf(p) = RunsOf(p)
    BY <2>1 DEF Registry!HeldOf, RunsOf
  <2>3. ASSUME NEW p PROVE Registry!FiringsIn(p) = FiringsOf(p)
    BY DEF Registry!FiringsIn, FiringsOf
  <2>4. Registry!Used = Cardinality(inflight) + Cardinality(firings)
    BY SameCount DEF Registry!Used
  <2>. QED  BY <2>2, <2>3, <2>4
<1>2. CASE SlotsReturned /\ RowsAdded
  <2>1. \A r \in inflight : issueOf'[r] = issueOf[r]
    BY <1>2, RowsStay DEF SlotInv
  <2>2. CASE inflight' = inflight
    <3>1. held' = held
      BY <2>1, <2>2
    <3>2. CASE firings' = firings
      BY <3>1, <3>2 DEF Registry!slotVars
    <3>3. CASE \E f \in Firings : firings' = firings \ {f}
      <4>1. PICK f \in Firings : firings' = firings \ {f}
        BY <3>3
      <4>2. CASE f \in firings
        BY <3>1, <4>1, <4>2 DEF Registry!Next, Registry!UnregisterFiring
      <4>3. CASE f \notin firings
        BY <3>1, <4>1, <4>3 DEF Registry!slotVars
      <4>. QED  BY <4>2, <4>3
    <3>4. CASE inflight' = {} /\ firings' = {}
      BY <3>4 DEF Registry!Next, Registry!ProcessEnds
    <3>. QED  BY <1>2, <3>2, <3>3, <3>4 DEF SlotsReturned
  <2>3. CASE inflight' # inflight
    <3>1. CASE inflight' = {} /\ firings' = {}
      BY <3>1 DEF Registry!Next, Registry!ProcessEnds
    <3>2. CASE (\E r \in Runs : inflight' = inflight \ {r}) /\ firings' = firings
      <4>1. PICK r \in Runs : inflight' = inflight \ {r}
        BY <3>2
      <4>2. r \in inflight
        BY <2>3, <4>1
      <4>3. held' = [s \in DOMAIN held \ {r} |-> held[s]]
        BY <1>1, <2>1, <4>1
      <4>4. Registry!Unregister(r)
        BY <1>1, <3>2, <4>2, <4>3 DEF Registry!Unregister
      <4>. QED  BY <4>4 DEF Registry!Next
    <3>. QED  BY <1>2, <2>3, <3>1, <3>2 DEF SlotsReturned
  <2>. QED  BY <2>2, <2>3
<1>3. ASSUME NEW r \in Runs, NEW i \in Issues, Granted(r, i)
      PROVE  Registry!Reserve(r, i)
  <2>. USE <1>3 DEF Granted
  <2>1. /\ issueOf'[r] = i
        /\ \A s \in inflight : issueOf'[s] = issueOf[s] /\ issueOf[s] # i
    BY DEF TypeInv, TypeOK, StoreOK, RegistryOK, Grantable, InFlightIssue
  <2>2. held' = [s \in DOMAIN held \cup {r} |-> IF s = r THEN i ELSE held[s]]
    BY <1>1, <2>1
  <2>3. r \notin DOMAIN held /\ \A s \in DOMAIN held : held[s] # i
    BY <1>1, <2>1
  <2>. QED  BY <1>1, <2>2, <2>3, SameCount DEF Registry!Reserve, Grantable
<1>4. ASSUME NEW f \in Firings, FireRoutine(f)
      PROVE  Registry!ReserveFiring(f)
  <2>1. held' = held
    BY <1>4 DEF FireRoutine
  <2>. QED  BY <1>1, <1>4, <2>1, SameCount
            DEF FireRoutine, Admits, Registry!ReserveFiring
<1>. QED  BY <1>2, <1>3, <1>4, StepSlots DEF Registry!Next

\* The claim section, the retry section, Routine Firings and every way out of
\* an attempt implement the registry's promise.
THEOREM RegistryRefined == Spec => ImplementsSlotRegistry
BY InitRegistry, StepRegistry, TypeInvariance, SlotInvariance, PTL
DEF Spec, Registry!Spec, ImplementsSlotRegistry

-----------------------------------------------------------------------------
(* Writes to rows.                                                         *)

\* Recording a cancel keeps the state or makes it cancelled, a watchdog verdict
\* kept over other writes makes it stale.
LEMMA StateWritten ==
  ASSUME NEW q \in Row, NEW why
  PROVE  /\ MarkCancelRequested(q, why).state = q.state
         /\ CancelledRow(q, why).state = "cancelled"
         /\ Settled(q).state \in {q.state, "stale"}
<1>1. MarkCancelRequested(q, why).state = q.state
  BY DEF MarkCancelRequested, Row
<1>2. CancelledRow(q, why).state = "cancelled"
  <2>. DEFINE m == MarkCancelRequested(q, why)
  <2>1. "state" \in DOMAIN m
    BY DEF MarkCancelRequested, Row
  <2>. HIDE DEF m
  <2>2. [m EXCEPT !.state = "cancelled", !.why = "cancelled"].state = "cancelled"
    BY <2>1
  <2>. QED  BY <2>2 DEF CancelledRow, m
<1>3. Settled(q).state \in {q.state, "stale"}
  BY DEF Settled, Row
<1>. QED  BY <1>1, <1>2, <1>3

\* No row of the table `after` is active that is not active now.
NoneBegunIn(after) ==
  \A r \in Runs : after[r].state \in ActiveStates => row[r].state \in ActiveStates
NoneBegun == NoneBegunIn(row')

LEMMA CancelBeginsNone ==
  ASSUME TypeInv, NEW rows \in [Runs -> Row], NoneBegunIn(rows), NEW r \in Runs, NEW why
  PROVE  NoneBegunIn([rows EXCEPT ![r] = CancelledRow(@, why)])
<1>1. CancelledRow(rows[r], why).state \notin ActiveStates
  BY StateWritten DEF ActiveStates
<1>. QED  BY <1>1 DEF NoneBegunIn

LEMMA ScheduleBeginsNone ==
  ASSUME TypeInv, NEW rows \in [Runs -> Row], NoneBegunIn(rows),
         NEW accepted, NoneBegunIn(accepted),
         NEW ls, NEW w, w.run \in Runs, ScheduleRunWork(rows, accepted, ls, w)
  PROVE  NoneBegun
<1>1. NoneBegunIn([rows EXCEPT ![w.run] = CancelledRow(@, "daemon_shutdown")])
  BY CancelBeginsNone
<1>. QED  BY <1>1, Zenon DEF ScheduleRunWork, NoneBegun

LEMMA SameTable ==
  ASSUME TypeInv
  PROVE  row \in [Runs -> Row] /\ NoneBegunIn(row) /\ (row' = row => NoneBegun)
BY DEF TypeInv, TypeOK, StoreOK, NoneBegunIn, NoneBegun

-----------------------------------------------------------------------------
(* Steps outside attempts.                                                 *)

AttemptsStay == \A r \in Runs : pc'[Attempt(r)] = pc[Attempt(r)]
Aside == NoneBegun /\ AttemptsStay /\ UNCHANGED daemonVars

LEMMA AsideKeeps ==
  ASSUME OrphanInv, NoneBegun, AttemptsStay, up' \/ stopping' => up \/ stopping
  PROVE  OrphanInv'
BY DEF OrphanInv, NoneBegun, NoneBegunIn, AttemptsStay

LEMMA OthersMove ==
  ASSUME TypeInv, NEW t, \A r \in Runs : t # Attempt(r), NEW where,
         pc' = [pc EXCEPT ![t] = where] \/ pc' = pc
  PROVE  AttemptsStay
BY ThreadNames DEF TypeInv, TypeOK, ControlOK, AttemptsStay

LEMMA ClaimEndsAside ==
  ASSUME TypeInv, NEW t \in Claimants, pc[t] \in ClaimPCs,
         ClaimRefused(t) \/ ClaimShutDown(t)
  PROVE  NoneBegun /\ AttemptsStay
<1>. DEFINE w == work[t]
<1>1. w.kind # "fresh" => w.run \in Runs
  BY ClaimWork DEF TypeInv, TypeOK, ClaimPCs
<1>2. \E where : pc' = [pc EXCEPT ![t] = where]
  BY DEF ClaimRefused, ClaimShutDown, Goto
<1>3. AttemptsStay
  BY <1>2, OthersMove, ThreadsDiffer
<1>4. \/ row' = row
      \/ w.kind # "fresh" /\ ScheduleRunWork(row, row, labels, w)
      \/ /\ w.kind # "fresh"
         /\ row' = [row EXCEPT ![w.run] = CancelledRow(@, "daemon_shutdown")]
  BY DEF ClaimRefused, ClaimShutDown
<1>. HIDE DEF w
<1>5. NoneBegun
  BY <1>1, <1>4, SameTable, ScheduleBeginsNone, CancelBeginsNone DEF NoneBegun
<1>. QED  BY <1>3, <1>5

LEMMA ClaimAside ==
  ASSUME TypeInv, NEW t \in Claimants,
         ClaimGate(t) \/ ClaimCheck(t) \/ ClaimRollback(t) \/ ClaimLabelFails(t)
  PROVE  Aside
<1>1. pc[t] \in ClaimPCs /\ \A r \in Runs : t # Attempt(r)
  BY ThreadsDiffer DEF ClaimGate, ClaimCheck, ClaimRollback, ClaimLabelFails, ClaimPCs
<1>2. CASE ClaimRefused(t) \/ ClaimShutDown(t)
  BY <1>1, <1>2, ClaimEndsAside
  DEF Aside, ClaimGate, ClaimCheck, ClaimRollback, ClaimLabelFails
<1>3. CASE row' = row /\ \E where : Goto(t, where)
  BY <1>1, <1>3, OthersMove, SameTable
  DEF Aside, Goto, ClaimGate, ClaimCheck, ClaimRollback, ClaimLabelFails
<1>4. CASE ClaimRollback(t)
  <2>1. row' = [row EXCEPT ![nrows + 1] = RolledBackRow(work[t])]
    BY <1>4 DEF ClaimRollback
  <2>2. RolledBackRow(work[t]).state = "cancelled"
    <3>1. NewRow(work[t]) \in Row
      BY NewRowType, BoundsAssumption
    <3>. QED  BY <3>1 DEF RolledBackRow, Row
  <2>3. NoneBegun
    BY <2>1, <2>2, SameTable DEF NoneBegun, NoneBegunIn, ActiveStates
  <2>4. AttemptsStay
    BY <1>1, <1>4, OthersMove DEF ClaimRollback, Goto
  <2>. QED  BY <1>4, <2>3, <2>4 DEF Aside, ClaimRollback
<1>. QED  BY <1>1, <1>2, <1>3, <1>4 DEF ClaimGate, ClaimCheck, ClaimLabelFails

LEMMA TimerAside ==
  ASSUME TypeInv, NEW r \in Runs,
         \/ TimerDropped(r) \/ TimerUnavailable(r) \/ TimerAdmitted(r)
         \/ RetryGate(r) \/ RetryCheck(r)
  PROVE  Aside
<1>. DEFINE t == Timer(r)
            rearmed == [kind |-> "retry", issue |-> issueOf[r], run |-> r]
<1>1. \A s \in Runs : t # Attempt(s)
  BY ThreadsDiffer
<1>2. \E where : pc' = [pc EXCEPT ![t] = where]
  BY DEF TimerDropped, TimerUnavailable, TimerAdmitted, RetryGate, RetryCheck,
         RetryEnds, Goto
<1>3. AttemptsStay
  BY <1>1, <1>2, OthersMove
<1>4. \/ row' = row
      \/ \E why : row' = [row EXCEPT ![r] = CancelledRow(@, why)]
      \/ ScheduleRunWork(row, row, labels, rearmed)
  BY DEF TimerDropped, TimerUnavailable, TimerAdmitted, RetryGate, RetryCheck
<1>5. rearmed.run \in Runs
  OBVIOUS
<1>. HIDE DEF rearmed
<1>6. NoneBegun
  BY <1>4, <1>5, SameTable, ScheduleBeginsNone, CancelBeginsNone DEF NoneBegun
<1>. QED  BY <1>3, <1>6 DEF Aside, TimerDropped, TimerUnavailable, TimerAdmitted,
                            RetryGate, RetryCheck

LEMMA PickFireAside ==
  ASSUME TypeInv,
         (\E b \in Batches : BatchPick(b)) \/ (\E i \in Issues : TimerFire(i))
  PROVE  Aside
<1>1. CASE \E b \in Batches : BatchPick(b)
  BY <1>1, SameTable, OthersMove, ThreadsDiffer DEF Aside, BatchPick, Goto
<1>2. CASE \E i \in Issues : TimerFire(i)
  <2>1. PICK i \in Issues : TimerFire(i)
    BY <1>2
  <2>2. sched[i].run \in Runs
    BY <2>1 DEF TimerFire, TypeInv, SchedInv
  <2>3. \E t \in {Wait(sched[i].run), Timer(sched[i].run)} :
          \E where : pc' = [pc EXCEPT ![t] = where]
    BY <2>1 DEF TimerFire, Goto
  <2>4. AttemptsStay
    BY <2>2, <2>3, OthersMove, ThreadsDiffer
  <2>. QED  BY <2>1, <2>4, SameTable DEF Aside, TimerFire
<1>. QED  BY <1>1, <1>2

\* A wait evaluation makes rows waiting, cancelled, succeeded or blocked.
LEMMA WaitWrites ==
  ASSUME TypeInv, NEW r \in Runs, WaitDecided(r) \/ WaitDropped(r)
  PROVE  NoneBegun
<1>. DEFINE w == [kind |-> "advance", issue |-> issueOf[r], run |-> r]
            advanced == [row EXCEPT ![r].state = "succeeded", ![r].stamp = "forward"]
<1>0. row \in [Runs -> Row] /\ row[r] \in Row
  BY SameTable
<1>1. CASE WaitDropped(r)
  BY <1>0, <1>1 DEF WaitDropped, NoneBegun, NoneBegunIn, ActiveStates, Row
<1>2. CASE row' = row
  BY <1>2, SameTable
<1>3. CASE row' = [row EXCEPT ![r] = [MarkCancelRequested(@, "closed_issue")
                                       EXCEPT !.state = "cancelled"]]
  <2>1. MarkCancelRequested(row[r], "closed_issue") \in Row
    BY <1>0, CancelReasonType DEF Reasons
  <2>2. [MarkCancelRequested(row[r], "closed_issue") EXCEPT !.state = "cancelled"].state
          = "cancelled"
    BY <2>1 DEF Row
  <2>. QED  BY <1>0, <1>3, <2>2 DEF NoneBegun, NoneBegunIn, ActiveStates
<1>4. CASE \/ row' = [row EXCEPT ![r].state = "succeeded", ![r].stamp = "none"]
           \/ row' = [row EXCEPT ![r].state = "blocked", ![r].stamp = "none",
                                 ![r].why = "blocked"]
  BY <1>0, <1>4 DEF NoneBegun, NoneBegunIn, ActiveStates, Row
<1>5. CASE ScheduleRunWork(advanced, advanced, labels, w)
  <2>1. advanced \in [Runs -> Row] /\ NoneBegunIn(advanced) /\ w.run \in Runs
    BY <1>0 DEF NoneBegunIn, ActiveStates, Row, RowStates
  <2>. HIDE DEF w, advanced
  <2>. QED  BY <1>5, <2>1, ScheduleBeginsNone
<1>6. CASE row' = [row EXCEPT ![r].state = "succeeded", ![r].stamp = "forward",
                              ![nrows + 1] = WaitingRow]
  <2>1. WaitingRow.state = "waiting"
    BY DEF WaitingRow, NoRow
  <2>. QED  BY <1>0, <1>6, <2>1 DEF NoneBegun, NoneBegunIn, ActiveStates, Row
<1>. QED  BY <1>1, <1>2, <1>3, <1>4, <1>5, <1>6 DEF WaitDecided

LEMMA WaitAside ==
  ASSUME TypeInv, NEW r \in Runs, WaitRead(r) \/ WaitEvaluate(r)
  PROVE  Aside
<1>1. \E where : pc' = [pc EXCEPT ![Wait(r)] = where]
  BY DEF WaitRead, WaitEvaluate, Goto
<1>2. AttemptsStay
  BY <1>1, OthersMove, ThreadsDiffer
<1>3. NoneBegun
  BY WaitWrites, SameTable DEF WaitRead, WaitEvaluate
<1>. QED  BY <1>2, <1>3 DEF Aside, WaitRead, WaitEvaluate

LEMMA TickAside ==
  ASSUME TypeInv, TickStep
  PROVE  Aside
<1>0. row \in [Runs -> Row]
  BY SameTable
<1>1. NoneBegun
  <2>1. CASE TickReconcile
    <3>1. \A r \in Runs : row'[r].state = row[r].state
      BY <1>0, <2>1, StateWritten DEF TickReconcile
    <3>. QED  BY <3>1 DEF NoneBegun, NoneBegunIn
  <2>2. CASE \E r \in todo : TickWaitEvaluate /\ WaitDecided(r)
    BY <2>2, WaitWrites DEF TickWaitEvaluate, TypeInv, TodoInv
  <2>3. CASE \E r \in todo : TickWaitRead /\ WaitDropped(r)
    BY <2>3, WaitWrites DEF TickWaitRead, TypeInv, TodoInv
  <2>4. CASE \E r \in todo : row' = [row EXCEPT ![r].declined = TRUE]
    BY <1>0, <2>4 DEF NoneBegun, NoneBegunIn, Row
  <2>5. CASE row' = row
    BY <2>5, SameTable
  <2>. QED  BY <2>1, <2>2, <2>3, <2>4, <2>5
            DEF TickStep, TickPoll, TickWaits, TickWaitRead, TickWaitEvaluate,
                TickResumeOne, TickMark, TickLaunch
<1>2. AttemptsStay
  <2>1. CASE TickLaunch
    <3>1. ASSUME NEW b \in Batches,
                 pc' = [pc EXCEPT ![Batch(b)] = "pick", ![Tick] = "idle"]
          PROVE  AttemptsStay
      BY <3>1, ThreadNames, ThreadsDiffer
      DEF AttemptsStay, TypeInv, TypeOK, ControlOK
    <3>2. CASE pc' = [pc EXCEPT ![Tick] = "idle"]
      BY <3>2, OthersMove, ThreadsDiffer
    <3>. QED  BY <2>1, <3>1, <3>2 DEF TickLaunch, Goto
  <2>2. CASE pc' = pc \/ \E where : pc' = [pc EXCEPT ![Tick] = where]
    BY <2>2, OthersMove, ThreadsDiffer
  <2>3. EnterDetect(mutex, seen) \/ EnterDetect(Tail(mutex), seen)
        \/ EnterResume(mutex, seen) \/ EnterResume(Tail(mutex), seen)
        \/ EnterLaunch(seen)
        => \E where : pc' = [pc EXCEPT ![Tick] = where]
    BY DEF EnterResume, EnterDetect, EnterLaunch, Goto
  <2>. QED  BY <2>1, <2>2, <2>3
            DEF TickStep, TickPoll, TickReconcile, TickWaits, TickWaitRead,
                TickWaitEvaluate, TickResumeOne, TickMark, Goto
<1>3. UNCHANGED daemonVars
  BY DEF TickStep, TickPoll, TickReconcile, TickWaits, TickWaitRead,
         TickWaitEvaluate, TickResumeOne, TickMark, TickLaunch
<1>. QED  BY <1>1, <1>2, <1>3 DEF Aside

LEMMA EnvironmentAside ==
  ASSUME TypeInv, Environment \/ RoutineStep
  PROVE  Aside
<1>0. row \in [Runs -> Row]
  BY SameTable
<1>1. pc' = pc /\ UNCHANGED daemonVars
  BY DEF Environment, RunTimeout, WatchdogStale, OperatorCancel, TrackerEdit,
         RoutineStep, FireRoutine, EndRoutine
<1>2. NoneBegun
  <2>1. CASE \E r \in Runs :
               row' = [row EXCEPT ![r].state = "stale", ![r].why = "watchdog"]
    BY <1>0, <2>1 DEF NoneBegun, NoneBegunIn, ActiveStates, Row
  <2>2. CASE \E r \in Runs :
               row' = [row EXCEPT ![r] = MarkCancelRequested(@, "operator")]
    <3>1. \A r \in Runs : MarkCancelRequested(row[r], "operator").state = row[r].state
      BY <1>0, StateWritten
    <3>. QED  BY <1>0, <2>2, <3>1 DEF NoneBegun, NoneBegunIn
  <2>3. CASE row' = row
    BY <2>3, SameTable
  <2>. QED  BY <2>1, <2>2, <2>3
            DEF Environment, RunTimeout, WatchdogStale, OperatorCancel, TrackerEdit,
                RoutineStep, FireRoutine, EndRoutine
<1>. QED  BY <1>1, <1>2 DEF Aside, AttemptsStay

-----------------------------------------------------------------------------
(* Steps that begin, carry on or end an attempt.                           *)

\* One attempt moves: it may write what it likes to its own row as long as it
\* does not end, or enter its last phase, with the row active.
LEMMA AttemptKeeps ==
  ASSUME TypeInv, OrphanInv, NEW r \in Runs, NEW where,
         pc' = [pc EXCEPT ![Attempt(r)] = where], UNCHANGED daemonVars,
         \A s \in Runs : s # r /\ row'[s].state \in ActiveStates
                            => row[s].state \in ActiveStates,
         where \in {"idle", "labels", "next"} => row'[r].state \notin ActiveStates
  PROVE  OrphanInv'
<1>1. \A s \in Runs : pc'[Attempt(s)] = IF s = r THEN where ELSE pc[Attempt(s)]
  BY ThreadNames, ThreadsDiffer DEF TypeInv, TypeOK, ControlOK
<1>. QED  BY <1>1 DEF OrphanInv

\* createRun, and the attempt started in the same step.
LEMMA ClaimPersistOrphan ==
  ASSUME TypeInv, OrphanInv, NEW t \in Claimants, ClaimPersist(t)
  PROVE  OrphanInv'
<1>. DEFINE new == nrows + 1
<1>1. t \in Threads /\ new \in Runs /\ \A r \in Runs : t # Attempt(r)
  BY ThreadNames, ThreadsDiffer, BoundsAssumption
  DEF ClaimPersist, TypeInv, TypeOK, RoomInv, StoreOK, Runs
<1>2. \A s \in Runs : pc'[Attempt(s)] = IF s = new THEN "entry" ELSE pc[Attempt(s)]
  BY <1>1, ThreadNames, ThreadsDiffer
  DEF ClaimPersist, TypeInv, TypeOK, ControlOK
<1>3. \A s \in Runs : s # new => row'[s] = row[s]
  BY SameTable DEF ClaimPersist
<1>4. UNCHANGED daemonVars
  BY DEF ClaimPersist
<1>. HIDE DEF new
<1>. QED  BY <1>2, <1>3, <1>4 DEF OrphanInv

LEMMA RetryLabelOrphan ==
  ASSUME TypeInv, OrphanInv, NEW r \in Runs, RetryLabel(r)
  PROVE  OrphanInv'
<1>1. \A s \in Runs : pc'[Attempt(s)] = IF s = r THEN "entry" ELSE pc[Attempt(s)]
  BY ThreadNames, ThreadsDiffer DEF RetryLabel, TypeInv, TypeOK, ControlOK
<1>2. row' = row /\ UNCHANGED daemonVars
  BY DEF RetryLabel
<1>. QED  BY <1>1, <1>2 DEF OrphanInv

LEMMA AttemptCarriesOn ==
  ASSUME TypeInv, OrphanInv, NEW r \in Runs,
         \/ RunEntry(r) \/ RunPreparationFails(r) \/ RunLoad(r) \/ RunSetup(r)
         \/ RunStart(r) \/ ProviderExit(r) \/ RunClassify(r)
  PROVE  OrphanInv'
<1>1. UNCHANGED daemonVars
  BY DEF RunEntry, RunPreparationFails, RunLoad, RunSetup, RunStart, ProviderExit,
         RunClassify
<1>2. \E where \in {"settle", "load", "setup", "ready", "running", "termq"} :
        pc' = [pc EXCEPT ![Attempt(r)] = where]
  BY DEF RunEntry, RunPreparationFails, RunLoad, RunSetup, RunStart, ProviderExit,
         RunClassify, Goto
<1>3. \A s \in Runs : s # r /\ row'[s].state \in ActiveStates
                          => row[s].state \in ActiveStates
  <2>1. CASE RunClassify(r)
    <3>1. \E q : \/ row' = [row EXCEPT ![r] = q]
                 \/ row' = [row EXCEPT ![r] = q, ![nrows + 1] = WaitingRow]
      BY <2>1 DEF RunClassify
    <3>2. WaitingRow.state \notin ActiveStates
      BY DEF WaitingRow, NoRow, ActiveStates
    <3>. QED  BY <3>1, <3>2, SameTable
  <2>2. CASE \E q : row' = [row EXCEPT ![r] = q]
    BY <2>2, SameTable
  <2>3. CASE row' = row
    BY <2>3
  <2>. QED  BY <2>1, <2>2, <2>3
            DEF RunEntry, RunPreparationFails, RunLoad, RunSetup, RunStart,
                ProviderExit
<1>. QED  BY <1>1, <1>2, <1>3, AttemptKeeps

\* The attempt parks, or ends with a verdict the watchdog keeps.
LEMMA AttemptSettles ==
  ASSUME TypeInv, OrphanInv, NEW r \in Runs, RunParks(r) \/ RunSettle(r)
  PROVE  OrphanInv'
<1>0. row \in [Runs -> Row] /\ row[r] \in Row
  BY SameTable
<1>1. UNCHANGED daemonVars
  BY DEF RunParks, RunSettle
<1>2. PICK where : /\ pc' = [pc EXCEPT ![Attempt(r)] = where]
                   /\ where \in {"idle", "settle", "classify"}
                   /\ \E q : row' = [row EXCEPT ![r] = q]
                   /\ where = "idle" =>
                        \/ /\ RunSettle(r) /\ Preserved(row[r])
                        \/ row' = [row EXCEPT ![r] =
                             Settled([[row[r] EXCEPT !.stamp = "entered"]
                                        EXCEPT !.state = "waiting"])]
  BY DEF RunParks, RunSettle, Goto
<1>3. ASSUME where = "idle" PROVE row'[r].state \notin ActiveStates
  <2>1. CASE RunSettle(r) /\ Preserved(row[r])
    BY <1>0, <2>1 DEF RunSettle, Settled, Row, ActiveStates
  <2>2. CASE row' = [row EXCEPT ![r] =
                      Settled([[row[r] EXCEPT !.stamp = "entered"]
                                 EXCEPT !.state = "waiting"])]
    <3>. DEFINE q == [[row[r] EXCEPT !.stamp = "entered"] EXCEPT !.state = "waiting"]
    <3>1. q \in Row /\ q.state = "waiting"
      BY <1>0 DEF Row, RowStates
    <3>2. row'[r] = Settled(q)
      BY <1>0, <2>2
    <3>. HIDE DEF q
    <3>. QED  BY <3>1, <3>2, StateWritten DEF ActiveStates
  <2>. QED  BY <1>2, <1>3, <2>1, <2>2
<1>4. \A s \in Runs : s # r => row'[s] = row[s]
  BY <1>0, <1>2
<1>. QED  BY <1>1, <1>2, <1>3, <1>4, AttemptKeeps

\* completeTerminalRun, and what follows it.
LEMMA AttemptEnds ==
  ASSUME TypeInv, OrphanInv, NEW r \in Runs,
         RunTerminal(r) \/ RunLabels(r) \/ RunNext(r)
  PROVE  OrphanInv'
<1>0. row \in [Runs -> Row] /\ row[r] \in Row
  BY SameTable
<1>1. UNCHANGED daemonVars
  BY DEF RunTerminal, RunLabels, RunNext
<1>2. CASE RunTerminal(r)
  <2>1. row' = [row EXCEPT ![r].state = RunState(local[r].outcome)]
        /\ pc' = [pc EXCEPT ![Attempt(r)] = "labels"]
    BY <1>2 DEF RunTerminal, Goto
  <2>2. RunState(local[r].outcome) \notin ActiveStates
    BY DEF RunState, ActiveStates
  <2>. HIDE DEF RunState
  <2>3. row'[r].state \notin ActiveStates /\ \A s \in Runs : s # r => row'[s] = row[s]
    BY <1>0, <2>1, <2>2 DEF Row
  <2>. QED  BY <1>1, <2>1, <2>3, AttemptKeeps
<1>3. CASE RunLabels(r) \/ RunNext(r)
  <2>1. row[r].state \notin ActiveStates
    BY <1>3 DEF OrphanInv, RunLabels, RunNext
  <2>2. \E where : pc' = [pc EXCEPT ![Attempt(r)] = where]
    BY <1>3 DEF RunLabels, RunNext, Goto
  <2>3. NoneBegun
    <3>. DEFINE w(k) == [kind |-> k, issue |-> issueOf[r], run |-> r]
                counted == [row EXCEPT ![r].retries = @ + 1]
                capped == [NoRow EXCEPT !.state = "failed", !.cont = TRUE,
                                        !.why = "failed"]
    <3>1. \/ row' = row
          \/ \E k \in Kinds : \/ ScheduleRunWork(row, row, labels, w(k))
                              \/ ScheduleRunWork(row, counted, labels, w(k))
          \/ row' = [row EXCEPT ![nrows + 1] = capped]
      BY <1>3 DEF RunLabels, RunNext, NextAdvance, NextRetry, NextContinuation,
                  NothingMore, Kinds
    <3>2. NoneBegunIn(counted)
      BY <1>0 DEF NoneBegunIn, Row
    <3>3. capped.state \notin ActiveStates
      BY DEF NoRow, ActiveStates
    <3>4. \A k : w(k).run \in Runs
      OBVIOUS
    <3>. HIDE DEF w, counted, capped
    <3>5. CASE row' = [row EXCEPT ![nrows + 1] = capped]
      BY <1>0, <3>3, <3>5 DEF NoneBegun, NoneBegunIn
    <3>. QED  BY <3>1, <3>2, <3>4, <3>5, SameTable, ScheduleBeginsNone
  <2>. QED  BY <1>1, <2>1, <2>2, <2>3, AttemptKeeps DEF NoneBegun, NoneBegunIn
<1>. QED  BY <1>2, <1>3

-----------------------------------------------------------------------------
(* Shutdown, crash, restart.                                               *)

LEMMA StopOrphan ==
  ASSUME TypeInv, OrphanInv, up, StopBegin \/ StopDone
  PROVE  OrphanInv'
<1>0. row \in [Runs -> Row]
  BY SameTable
<1>1. AttemptsStay
  BY DEF AttemptsStay, StopBegin, StopDone
<1>2. NoneBegun
  <2>1. CASE StopBegin
    <3>1. \A r \in Runs : row'[r].state \in {row[r].state, "cancelled"}
      BY <1>0, <2>1, StateWritten DEF StopBegin
    <3>. QED  BY <3>1 DEF NoneBegun, NoneBegunIn, ActiveStates
  <2>2. CASE StopDone
    BY <2>2, SameTable DEF StopDone
  <2>. QED  BY <2>1, <2>2
<1>. QED  BY <1>1, <1>2, AsideKeeps

\* findLeakedRuns takes every row whose attempt died with the process.
LEMMA RestartOrphan ==
  ASSUME TypeInv, OrphanInv, Crash \/ Restart
  PROVE  OrphanInv'
<1>1. \A r \in Runs : pc'[Attempt(r)] = "idle"
  BY ThreadNames DEF Crash, Restart, Fresh
<1>2. CASE Crash
  BY <1>1, <1>2 DEF OrphanInv, Crash
<1>3. CASE Restart
  <2>1. ASSUME NEW r \in Runs PROVE row'[r].state \notin ActiveStates
    <3>1. row[r] \in Row
      BY SameTable
    <3>2. CASE Leaked(row[r])
      BY <1>3, <3>1, <3>2 DEF Restart, Row, ActiveStates
    <3>3. CASE ~Leaked(row[r])
      BY <1>3, <3>3 DEF Restart, Leaked
    <3>. QED  BY <3>2, <3>3
  <2>. QED  BY <1>1, <2>1 DEF OrphanInv
<1>. QED  BY <1>2, <1>3

LEMMA InitOrphan == Init => OrphanInv
BY ThreadNames DEF Init, OrphanInv, NoRow, ActiveStates

LEMMA NextOrphan == TypeInv /\ OrphanInv /\ [Next]_vars => OrphanInv'
<1>. SUFFICES ASSUME TypeInv, OrphanInv, [Next]_vars PROVE OrphanInv'
  OBVIOUS
<1>1. CASE UNCHANGED vars
  BY <1>1 DEF vars, OrphanInv
<1>2. CASE Aside
  BY <1>2, AsideKeeps DEF Aside
<1>3. ASSUME NEW t \in Claimants, ClaimStep(t) PROVE OrphanInv'
  <2>1. CASE ClaimPersist(t)
    BY <2>1, ClaimPersistOrphan
  <2>2. CASE ~ClaimPersist(t)
    BY <1>2, <1>3, <2>2, ClaimAside DEF ClaimStep
  <2>. QED  BY <2>1, <2>2
<1>4. ASSUME NEW r \in Runs, TimerStep(r) PROVE OrphanInv'
  <2>1. CASE RetryLabel(r)
    BY <2>1, RetryLabelOrphan
  <2>2. CASE ~RetryLabel(r)
    BY <1>2, <1>4, <2>2, TimerAside, WaitAside DEF TimerStep
  <2>. QED  BY <2>1, <2>2
<1>5. ASSUME NEW r \in Runs, AttemptStep(r) PROVE OrphanInv'
  BY <1>5, AttemptCarriesOn, AttemptSettles, AttemptEnds DEF AttemptStep
<1>6. CASE \/ \E b \in Batches : BatchPick(b)
           \/ \E i \in Issues : TimerFire(i)
           \/ TickStep \/ RoutineStep \/ Environment
  BY <1>2, <1>6, PickFireAside, TickAside, EnvironmentAside
<1>7. CASE up /\ (StopBegin \/ StopDone)
  BY <1>7, StopOrphan
<1>8. CASE Crash \/ Restart
  BY <1>8, RestartOrphan
<1>. QED  BY <1>1, <1>3, <1>4, <1>5, <1>6, <1>7, <1>8 DEF Next, DaemonStep

\* An active row always has its attempt: whatever a cancel, a crash, a restart
\* or a shutdown interrupts, no row is left queued, preparing or running that
\* nothing works on.
THEOREM NoneOrphaned == Spec => []NoOrphanRow
<1>1. TypeInv /\ OrphanInv => NoOrphanRow
  BY BoundsAssumption
  DEF OrphanInv, NoOrphanRow, TypeInv, TypeOK, StoreOK, Rows, Runs
<1>. QED  BY <1>1, TypeInvariance, InitOrphan, NextOrphan, PTL DEF Spec

-----------------------------------------------------------------------------
(* A requested cancel reaches the provider.  Only steps that request one   *)
(* touch a latch of a Run in flight, and they tell its provider in the     *)
(* same step; a provider starts only under an empty latch.                 *)

\* No Run in flight has a cancel that it had not before, no provider starts.
LatchesStand ==
  /\ \A r \in Runs : r \in inflight' /\ latch'[r] # "none"
                       => r \in inflight /\ latch[r] # "none"
  /\ UNCHANGED provider

LEMMA StandingKeeps ==
  ASSUME CancelReachesProvider, LatchesStand
  PROVE  CancelReachesProvider'
BY DEF CancelReachesProvider, LatchesStand

\* requestCancel on the Runs of `hit`, of which those in flight count.
LEMMA RequestKeeps ==
  ASSUME TypeInv, CancelReachesProvider, UNCHANGED inflight, NEW hit, NEW why,
         latch' = LatchAfter(hit, why),
         provider' = ProviderAfter(hit) \/ provider' = ProviderAfter(hit \cap inflight)
  PROVE  CancelReachesProvider'
<1>1. ASSUME NEW r \in Runs, r \in inflight, latch'[r] # "none"
      PROVE  provider'[r] # "running"
  <2>1. provider'[r] = IF r \in hit /\ provider[r] = "running" THEN "stopping"
                       ELSE provider[r]
    BY <1>1 DEF ProviderAfter
  <2>2. latch'[r] = IF r \in hit /\ latch[r] = "none" THEN why[r] ELSE latch[r]
    BY DEF LatchAfter
  <2>3. latch[r] # "none" => provider[r] # "running"
    BY <1>1 DEF CancelReachesProvider
  <2>. QED  BY <1>1, <2>1, <2>2, <2>3
<1>. QED  BY <1>1 DEF CancelReachesProvider

LEMMA ClaimReaches ==
  ASSUME TypeInv, CancelReachesProvider, NEW t \in Claimants, ClaimStep(t)
  PROVE  CancelReachesProvider'
<1>1. CASE ClaimPersist(t)
  <2>1. latch \in [Runs -> Reasons]
    BY DEF TypeInv, TypeOK, RegistryOK
  <2>2. LatchesStand
    BY <1>1, <2>1 DEF ClaimPersist, LatchesStand
  <2>. QED  BY <2>2, StandingKeeps
<1>2. CASE ~ClaimPersist(t)
  <2>1. LatchesStand
    BY <1>2 DEF LatchesStand, ClaimStep, ClaimGate, ClaimCheck, ClaimRollback,
                ClaimLabelFails
  <2>. QED  BY <2>1, StandingKeeps
<1>. QED  BY <1>1, <1>2

LEMMA TimerReaches ==
  ASSUME TypeInv, CancelReachesProvider, NEW r \in Runs, TimerStep(r)
  PROVE  CancelReachesProvider'
<1>1. latch \in [Runs -> Reasons]
  BY DEF TypeInv, TypeOK, RegistryOK
<1>2. CASE RetryCheck(r)
  <2>1. \/ inflight' = inflight /\ latch' = latch
        \/ inflight' = inflight \cup {r} /\ latch' = [latch EXCEPT ![r] = "none"]
    BY <1>2 DEF RetryCheck
  <2>2. LatchesStand
    BY <1>1, <1>2, <2>1 DEF RetryCheck, LatchesStand
  <2>. QED  BY <2>2, StandingKeeps
<1>3. CASE ~RetryCheck(r)
  <2>1. LatchesStand
    BY <1>3 DEF LatchesStand, TimerStep, TimerDropped, TimerUnavailable,
                TimerAdmitted, RetryGate, RetryLabel, WaitRead, WaitEvaluate
  <2>. QED  BY <2>1, StandingKeeps
<1>. QED  BY <1>2, <1>3

LEMMA AttemptReaches ==
  ASSUME TypeInv, CancelReachesProvider, NEW r \in Runs, AttemptStep(r)
  PROVE  CancelReachesProvider'
<1>1. latch \in [Runs -> Reasons] /\ provider \in [Runs -> {"none", "running", "stopping"}]
  BY DEF TypeInv, TypeOK, RegistryOK
<1>2. CASE LeaveRegistry(r) /\ UNCHANGED provider
  BY <1>1, <1>2, StandingKeeps DEF LeaveRegistry, LatchesStand
<1>3. CASE UNCHANGED <<inflight, latch, provider>>
  BY <1>3, StandingKeeps DEF LatchesStand
<1>4. CASE RunStart(r)
  BY <1>1, <1>3, <1>4
  DEF RunStart, CancelledBeforeProviderStart, CancelReachesProvider
<1>5. CASE ProviderExit(r)
  BY <1>1, <1>5 DEF ProviderExit, CancelReachesProvider
<1>6. CASE RunParks(r)
  BY <1>2, <1>3, <1>6 DEF RunParks
<1>7. CASE RunSettle(r)
  BY <1>2, <1>7 DEF RunSettle
<1>8. CASE ~(RunStart(r) \/ ProviderExit(r) \/ RunParks(r) \/ RunSettle(r))
  BY <1>3, <1>8 DEF AttemptStep, RunEntry, RunPreparationFails, RunLoad, RunSetup,
                    RunClassify, RunTerminal, RunLabels, RunNext
<1>. QED  BY <1>4, <1>5, <1>6, <1>7, <1>8

LEMMA TickReaches ==
  ASSUME TypeInv, CancelReachesProvider, TickStep
  PROVE  CancelReachesProvider'
<1>1. CASE TickReconcile
  BY <1>1, RequestKeeps DEF TickReconcile
<1>2. CASE ~TickReconcile
  <2>1. UNCHANGED <<inflight, latch, provider>>
    BY <1>2 DEF TickStep, TickPoll, TickWaits, TickWaitRead, TickWaitEvaluate,
                TickResumeOne, TickMark, TickLaunch
  <2>. QED  BY <2>1, StandingKeeps DEF LatchesStand
<1>. QED  BY <1>1, <1>2

LEMMA EnvironmentReaches ==
  ASSUME TypeInv, CancelReachesProvider, Environment \/ RoutineStep
  PROVE  CancelReachesProvider'
<1>1. CASE \E r \in Runs : RunTimeout(r) \/ WatchdogStale(r) \/ OperatorCancel(r)
  BY <1>1, RequestKeeps DEF RunTimeout, WatchdogStale, OperatorCancel
<1>2. CASE UNCHANGED <<inflight, latch, provider>>
  BY <1>2, StandingKeeps DEF LatchesStand
<1>. QED  BY <1>1, <1>2 DEF Environment, TrackerEdit, RoutineStep, FireRoutine, EndRoutine

LEMMA LifetimeReaches ==
  ASSUME TypeInv, CancelReachesProvider, StopBegin \/ StopDone \/ Crash \/ Restart
  PROVE  CancelReachesProvider'
<1>1. CASE StopBegin
  BY <1>1 DEF StopBegin, ProviderAfter, CancelReachesProvider
<1>2. CASE StopDone
  BY <1>2, StandingKeeps DEF StopDone, LatchesStand
<1>3. CASE Crash \/ Restart
  BY <1>3 DEF Crash, Restart, Fresh, CancelReachesProvider
<1>. QED  BY <1>1, <1>2, <1>3

LEMMA NextReaches ==
  TypeInv /\ CancelReachesProvider /\ [Next]_vars => CancelReachesProvider'
<1>. SUFFICES ASSUME TypeInv, CancelReachesProvider, [Next]_vars
              PROVE  CancelReachesProvider'
  OBVIOUS
<1>1. CASE UNCHANGED vars
  BY <1>1 DEF vars, CancelReachesProvider
<1>2. CASE \/ \E b \in Batches : BatchPick(b)
           \/ \E i \in Issues : TimerFire(i)
  BY <1>2, StandingKeeps DEF BatchPick, TimerFire, LatchesStand
<1>3. CASE \/ \E t \in Claimants : ClaimStep(t)
           \/ \E r \in Runs : TimerStep(r) \/ AttemptStep(r)
           \/ TickStep \/ RoutineStep \/ Environment
  BY <1>3, ClaimReaches, TimerReaches, AttemptReaches, TickReaches,
     EnvironmentReaches
<1>4. CASE StopBegin \/ StopDone \/ Crash \/ Restart
  BY <1>4, LifetimeReaches
<1>. QED  BY <1>1, <1>2, <1>3, <1>4 DEF Next, DaemonStep

\* A cancel that lands before, during or after the provider is attached (from
\* reconciliation, a deadline, the watchdog, the operator or a shutdown) leaves
\* no agent of a Run in flight running untold.
THEOREM CancelsReachProviders == Spec => []CancelReachesProvider
<1>1. Init => CancelReachesProvider
  BY DEF Init, CancelReachesProvider
<1>. QED  BY <1>1, TypeInvariance, NextReaches, PTL DEF Spec

-----------------------------------------------------------------------------
(* What rows say stays: each step writes one row, but for the reasons that *)
(* a reconcile, a stop and a restart write to several.                     *)

\* What a step may do to what a row says.
RowSticks(r) ==
  /\ r \in Rows /\ row[r].reason = "daemon_shutdown"
       => row'[r].reason = "daemon_shutdown"
  /\ r \in Rows /\ ~FailedPark(r) /\ row[r].state = "cancelled"
       => row'[r].state = "cancelled"
  /\ r \in Rows /\ ~FailedPark(r) /\ row[r].state \in {"succeeded", "blocked"}
       => \/ row'[r].state = row[r].state
          \/ row'[r].state = "cancelled" /\ row'[r].reason = "daemon_shutdown"
  /\ r \in inflight /\ r \notin inflight' /\ up' /\ ~FailedPark(r)
       /\ latch[r] = "watchdog" /\ row[r].reason = "none" => row'[r].state = "stale"
RowDone(r) == RowFits(r)' /\ RowSticks(r)

\* Reasons, states and verdicts of rows as the code writes them.
LEMMA WrittenRows ==
  ASSUME NEW q \in Row, NEW why \in Reasons \ {"none"}
  PROVE  /\ MarkCancelRequested(q, why).state = q.state
         /\ MarkCancelRequested(q, why).why = q.why
         /\ MarkCancelRequested(q, why).reason # "none"
         /\ MarkCancelRequested(q, why).reason =
              IF q.reason = "daemon_shutdown" THEN "daemon_shutdown" ELSE why
         /\ CancelledRow(q, why).state = "cancelled"
         /\ CancelledRow(q, why).reason = MarkCancelRequested(q, why).reason
         /\ Settled(q).reason = q.reason /\ Settled(q).why = q.why
         /\ Settled(q).state = IF Preserved(q) THEN "stale" ELSE q.state
<1>. DEFINE m == MarkCancelRequested(q, why)
<1>1. /\ m.state = q.state /\ m.why = q.why /\ m.reason # "none"
      /\ m.reason = IF q.reason = "daemon_shutdown" THEN "daemon_shutdown" ELSE why
  BY DEF MarkCancelRequested, Row
<1>0. m \in Row
  BY CancelReasonType
<1>2. Settled(q).reason = q.reason /\ Settled(q).why = q.why
      /\ Settled(q).state = IF Preserved(q) THEN "stale" ELSE q.state
  BY DEF Settled, Row
<1>. HIDE DEF m
<1>3. [m EXCEPT !.state = "cancelled", !.why = "cancelled"].state = "cancelled"
      /\ [m EXCEPT !.state = "cancelled", !.why = "cancelled"].reason = m.reason
  BY <1>0 DEF Row
<1>4. CancelledRow(q, why).state = "cancelled" /\ CancelledRow(q, why).reason = m.reason
  BY <1>3 DEF CancelledRow, m
<1>. QED  BY <1>1, <1>2, <1>4 DEF m

\* What is armed for a row stays, or goes.
ArmsNone(s) == \A i \in Issues : ArmedFor(i, s)' => ArmedFor(i, s)
                                                    /\ sched'[i] = sched[i]
\* The tick does not take the row up.
TickPasses(s) == /\ pc'[Tick] = "waiteval" /\ Lowest(s)'
                      => pc[Tick] = "waiteval" /\ Lowest(s)
                 /\ ToResume(s)' => ToResume(s)
\* Nor does it, but to list it for resumption.
TickTurns(s) == /\ pc'[Tick] = "waiteval" /\ Lowest(s)'
                     => pc[Tick] = "waiteval" /\ Lowest(s)
                /\ ToResume(s)' => ToResume(s) \/ s \in Resumable

\* A step that is about other rows.
LeftAlone(s) ==
  /\ pc'[Attempt(s)] = pc[Attempt(s)] /\ pc'[Timer(s)] = pc[Timer(s)]
  /\ pc'[Wait(s)] = "waiteval" => pc[Wait(s)] = "waiteval"
  /\ work'[Timer(s)] = work[Timer(s)] /\ ArmsNone(s)
  /\ row'[s] = row[s] /\ issueOf'[s] = issueOf[s] /\ local'[s] = local[s]
  /\ s \in inflight' <=> s \in inflight
  /\ latch'[s] = latch[s]
  /\ s \in resuming => s \in resuming'
  /\ s \in Rows => s \in Rows'
  /\ stopping' = stopping /\ TickTurns(s)

\* A row that a step leaves alone still fits, and says what it said.
LEMMA AloneFits ==
  ASSUME NEW s \in Runs, RowFits(s), LeftAlone(s)
  PROVE  RowDone(s)
<1>. USE DEF LeftAlone, RowFits
<1>1. /\ Fired(s)' <=> Fired(s)
      /\ WorkAhead(s)' => WorkAhead(s)
      /\ Lost(s) => Lost(s)'
      /\ FailedPark(s) <=> FailedPark(s)'
      /\ Evaluating(s)' => Evaluating(s)
  BY DEF Fired, WorkAhead, Lost, FailedPark, Evaluating, IsRaw, ArmsNone, TickTurns
<1>2. TimerFits(s)'
  <2>1. Fired(s)' => \A i \in Issues : ~ArmedFor(i, s)'
    BY <1>1 DEF TimerFits, ArmsNone
  <2>2. ASSUME NEW i \in Issues, ArmedFor(i, s)'
        PROVE  /\ \A j \in Issues : ArmedFor(j, s)' => j = i
               /\ sched'[i].kind = "retry" => row[s].state \in {"failed", "stale"}
               /\ sched'[i].kind = "resume" => s \in resuming
    <3>1. ArmedFor(i, s) /\ sched'[i] = sched[i]
      BY <2>2 DEF ArmsNone
    <3>2. \A j \in Issues : ArmedFor(j, s)' => ArmedFor(j, s)
      BY DEF ArmsNone
    <3>. QED  BY <3>1, <3>2 DEF TimerFits
  <2>. QED  BY <1>1, <2>1, <2>2 DEF TimerFits
<1>3. AttemptFits(s)'
  <2>1. pc[Attempt(s)] # "idle" => \A i \in Issues :
          ArmedFor(i, s)' => Lost(s) /\ sched'[i].kind = "advance"
    BY DEF AttemptFits, ArmsNone
  <2>. QED  BY <1>1, <2>1 DEF AttemptFits
<1>4. SlotFits(s)'
  BY <1>1 DEF SlotFits
<1>5. WaitFits(s)'
  BY <1>1 DEF WaitFits
<1>6. KilledRests(s)'
  BY <1>1 DEF KilledRests, ArmsNone, TickTurns, Resumable
<1>7. RowSticks(s)
  BY DEF RowSticks
<1>. QED  BY <1>2, <1>3, <1>4, <1>5, <1>6, <1>7 DEF RowDone

-----------------------------------------------------------------------------
(* One thread moves.                                                       *)

SameThreads(s) ==
  /\ pc'[Attempt(s)] = pc[Attempt(s)] /\ pc'[Timer(s)] = pc[Timer(s)]
  /\ pc'[Wait(s)] = pc[Wait(s)] /\ work'[Timer(s)] = work[Timer(s)]
AttemptMoves(s, where) ==
  /\ pc'[Attempt(s)] = where /\ pc'[Timer(s)] = pc[Timer(s)]
  /\ pc'[Wait(s)] = pc[Wait(s)] /\ work'[Timer(s)] = work[Timer(s)]
TimerMoves(s, where) ==
  /\ pc'[Attempt(s)] = pc[Attempt(s)] /\ pc'[Timer(s)] = where
  /\ pc'[Wait(s)] = pc[Wait(s)]
WaitMoves(s, where) ==
  /\ pc'[Attempt(s)] = pc[Attempt(s)] /\ pc'[Timer(s)] = pc[Timer(s)]
  /\ pc'[Wait(s)] = where /\ work'[Timer(s)] = work[Timer(s)]

\* A thread that moves is of one row, or of none.
LEMMA OneMoves ==
  ASSUME TypeInv, NEW t \in Threads, NEW where, pc' = [pc EXCEPT ![t] = where],
         work' = work \/ \E w : work' = [work EXCEPT ![t] = w]
  PROVE  /\ \A s \in Runs : /\ t = Attempt(s) => AttemptMoves(s, where)
                            /\ t = Timer(s) => TimerMoves(s, where)
                            /\ t = Wait(s) => WaitMoves(s, where)
                            /\ t \notin {Attempt(s), Timer(s), Wait(s)} => SameThreads(s)
         /\ t # Tick => pc'[Tick] = pc[Tick]
<1>1. \A u \in Threads : pc'[u] = IF u = t THEN where ELSE pc[u]
  BY DEF TypeInv, TypeOK, ControlOK
<1>2. \A u \in Threads : u # t => work'[u] = work[u]
  BY DEF TypeInv, TypeOK, ControlOK
<1>3. Tick \in Threads
  BY ThreadNames
<1>. SUFFICES ASSUME NEW s \in Runs
     PROVE  /\ t = Attempt(s) => AttemptMoves(s, where)
            /\ t = Timer(s) => TimerMoves(s, where)
            /\ t = Wait(s) => WaitMoves(s, where)
            /\ t \notin {Attempt(s), Timer(s), Wait(s)} => SameThreads(s)
  BY <1>1, <1>3
<1>4. /\ Attempt(s) \in Threads /\ Timer(s) \in Threads /\ Wait(s) \in Threads
      /\ Attempt(s) # Timer(s) /\ Attempt(s) # Wait(s) /\ Timer(s) # Wait(s)
  BY ThreadNames, ThreadsDiffer
<1>. HIDE DEF Attempt, Timer, Wait
<1>. QED  BY <1>1, <1>2, <1>4 DEF AttemptMoves, TimerMoves, WaitMoves, SameThreads

\* The rows that a step does not name, when it moves no thread of theirs.
LEMMA OthersAlone ==
  ASSUME TypeInv, NEW s \in Runs, RowFits(s), SameThreads(s), ArmsNone(s),
         row'[s] = row[s], issueOf'[s] = issueOf[s], local'[s] = local[s],
         s \in inflight' <=> s \in inflight, latch'[s] = latch[s],
         s \in resuming => s \in resuming', s \in Rows => s \in Rows',
         stopping' = stopping, TickPasses(s)
  PROVE  RowDone(s)
BY AloneFits DEF LeftAlone, SameThreads, TickPasses, TickTurns

LEMMA TickElsewhere ==
  ASSUME NEW s, pc'[Tick] = pc[Tick], todo' = todo
  PROVE  TickPasses(s)
BY DEF TickPasses, Lowest, ToResume

LEMMA ArmsStay ==
  ASSUME NEW s, sched' = sched
  PROVE  ArmsNone(s)
BY DEF ArmsNone, ArmedFor

\* No thread of any row moves, and no row is written.
Elsewhere ==
  /\ \A s \in Runs : SameThreads(s)
  /\ pc'[Tick] = pc[Tick] /\ todo' = todo
  /\ UNCHANGED <<sched, row, issueOf, nrows, local, inflight, latch, resuming, stopping>>

LEMMA ElsewhereDone ==
  ASSUME TypeInv, \A s \in Runs : RowFits(s), Elsewhere
  PROVE  \A s \in Runs : RowDone(s)
BY OthersAlone, TickElsewhere, ArmsStay DEF Elsewhere, Rows

\* Fresh dispatch picks: no row exists yet.
LEMMA BatchPickDone ==
  ASSUME TypeInv, \A s \in Runs : RowFits(s), NEW b \in Batches, BatchPick(b)
  PROVE  \A s \in Runs : RowDone(s)
<1>1. Batch(b) \in Threads /\ Batch(b) # Tick
      /\ \A s \in Runs : Batch(b) \notin {Attempt(s), Timer(s), Wait(s)}
  BY ThreadNames, ThreadsDiffer
<1>2. /\ \E where : pc' = [pc EXCEPT ![Batch(b)] = where]
      /\ work' = work \/ \E w : work' = [work EXCEPT ![Batch(b)] = w]
  BY DEF BatchPick, Goto
<1>3. (\A s \in Runs : SameThreads(s)) /\ pc'[Tick] = pc[Tick]
  BY <1>1, <1>2, OneMoves
<1>4. Elsewhere
  BY <1>3 DEF Elsewhere, BatchPick
<1>. QED  BY <1>4, ElsewhereDone

\* A timer fires: what was armed passes to the hands of its timer.
LEMMA TimerFireDone ==
  ASSUME TypeInv, \A s \in Runs : RowFits(s), NEW i \in Issues, TimerFire(i)
  PROVE  \A s \in Runs : RowDone(s)
<1>. DEFINE w == sched[i]
<1>. PICK r \in Runs : r = w.run
  BY DEF TimerFire, TypeInv, SchedInv
<1>1. w # NoWork /\ w.kind # "fresh" /\ w \in Work
  BY DEF TimerFire, TypeInv, SchedInv, TypeOK, TimerOK
<1>2. sched' = [sched EXCEPT ![i] = NoWork] /\ sched \in [Issues -> Work \cup {NoWork}]
  BY DEF TimerFire, TypeInv, TypeOK, TimerOK
<1>3. \A s \in Runs : ArmsNone(s)
  BY <1>2 DEF ArmsNone, ArmedFor, NoWork, Owed
<1>4. \A j \in Issues, s \in Runs : ArmedFor(j, s)' => j # i
  BY <1>2 DEF ArmedFor, NoWork, Owed
<1>5. /\ row' = row /\ issueOf' = issueOf /\ nrows' = nrows /\ local' = local
      /\ inflight' = inflight /\ latch' = latch /\ resuming' = resuming
      /\ stopping' = stopping /\ todo' = todo /\ Rows' = Rows
  BY DEF TimerFire, Rows
<1>6. Timer(r) \in Threads /\ Wait(r) \in Threads /\ Timer(r) # Tick /\ Wait(r) # Tick
  BY ThreadNames, ThreadsDiffer
<1>7. CASE w.kind = "wait"
  <2>1. pc' = [pc EXCEPT ![Wait(r)] = "waitq"] /\ work' = work
    BY <1>7 DEF TimerFire, Goto
  <2>2. \A s \in Runs : s # r => SameThreads(s)
    BY <2>1, <1>6, OneMoves, ThreadsDiffer
  <2>3. WaitMoves(r, "waitq") /\ pc'[Tick] = pc[Tick]
    BY <2>1, <1>6, OneMoves
  <2>4. RowDone(r)
    BY <2>3, <1>3, <1>5, TickElsewhere, AloneFits
    DEF LeftAlone, WaitMoves, TickPasses, TickTurns
  <2>. QED  BY <2>2, <2>3, <2>4, <1>3, <1>5, TickElsewhere, OthersAlone
<1>8. CASE w.kind # "wait"
  <2>1. /\ pc' = [pc EXCEPT ![Timer(r)] = "fired"] /\ pc[Timer(r)] = "idle"
        /\ work' = [work EXCEPT ![Timer(r)] = w]
    BY <1>8 DEF TimerFire, Goto
  <2>2. \A s \in Runs : s # r => SameThreads(s)
    BY <2>1, <1>6, OneMoves, ThreadsDiffer
  <2>3. TimerMoves(r, "fired") /\ pc'[Tick] = pc[Tick]
    BY <2>1, <1>6, OneMoves
  <2>4. work'[Timer(r)] = w
    BY <2>1, <1>6 DEF TypeInv, TypeOK, ControlOK
  <2>5. w.kind \in Owed /\ ArmedFor(i, r)
    BY <1>1, <1>8 DEF ArmedFor, Owed, Work, Kinds
  <2>6. TimerFits(r) /\ AttemptFits(r) /\ SlotFits(r) /\ WaitFits(r) /\ KilledRests(r)
    BY DEF RowFits
  <2>7. Fired(r)' /\ WorkAhead(r) /\ \A j \in Issues : ~ArmedFor(j, r)'
    BY <2>3, <2>5, <2>6, <1>3, <1>4 DEF Fired, WorkAhead, TimerMoves, TimerFits, ArmsNone
  <2>8. r \in Rows /\ row[r].state # "waiting"
        /\ (w.kind = "retry" => row[r].state \in {"failed", "stale"})
        /\ (w.kind = "resume" => r \in resuming)
    BY <2>5, <2>6, <2>7 DEF TimerFits
  <2>9. TimerFits(r)'
    <3>. HIDE DEF w
    <3>. QED  BY <2>3, <2>4, <2>5, <2>7, <2>8, <1>5 DEF TimerFits, TimerMoves, RetryPCs
  <2>10. Lost(r) => Lost(r)'
    BY <2>3, <1>5 DEF Lost, TimerMoves, IsRaw
  <2>11. pc[Attempt(r)] # "idle" => Lost(r) /\ w.kind = "advance"
    BY <2>5, <2>6 DEF AttemptFits
  <2>12. AttemptFits(r)'
    <3>. HIDE DEF w
    <3>. QED  BY <2>3, <2>4, <2>6, <2>7, <2>10, <2>11, <1>5 DEF AttemptFits, TimerMoves
  <2>13. SlotFits(r)'
    <3>1. FailedPark(r) => FailedPark(r)'
      BY <2>3, <1>5 DEF FailedPark, TimerMoves, IsRaw
    <3>. QED  BY <2>1, <2>3, <2>6, <1>5, <3>1 DEF SlotFits, TimerMoves
  <2>14. WaitFits(r)'
    <3>1. ~Evaluating(r)
      BY <2>6, <2>7 DEF WaitFits
    <3>2. ~Evaluating(r)'
      BY <2>3, <1>5, <3>1 DEF Evaluating, TimerMoves, Lowest
    <3>. QED  BY <3>2 DEF WaitFits
  <2>15. KilledRests(r)'
    <3>1. ToResume(r)' => ToResume(r)
      BY <2>3, <1>5 DEF ToResume
    <3>. HIDE DEF w
    <3>. QED  BY <2>3, <2>4, <2>5, <2>6, <2>7, <1>5, <3>1 DEF KilledRests, TimerMoves, w
  <2>16. RowDone(r)
    BY <2>9, <2>12, <2>13, <2>14, <2>15, <1>5 DEF RowDone, RowFits, RowSticks
  <2>. QED  BY <2>2, <2>3, <2>16, <1>3, <1>5, TickElsewhere, OthersAlone
<1>. QED  BY <1>7, <1>8

-----------------------------------------------------------------------------
(* A timer's own row.                                                      *)

RowStill(s) ==
  /\ issueOf'[s] = issueOf[s] /\ local'[s] = local[s]
  /\ s \in inflight' <=> s \in inflight
  /\ latch'[s] = latch[s]
  /\ s \in Rows => s \in Rows'
  /\ stopping' = stopping /\ TickPasses(s)

\* The timer gets on with the work it carries.
LEMMA TimerGoesOn ==
  ASSUME TypeInv, NEW r \in Runs, RowFits(r), Fired(r), pc[Timer(r)] # "retrylabel",
         NEW where \in {"retryq", "retrycheck", "claimq", "check", "label"},
         where \in RetryPCs <=> work[Timer(r)].kind = "retry",
         TimerMoves(r, where), work'[Timer(r)] = work[Timer(r)], ArmsNone(r),
         row'[r] = row[r], r \in resuming => r \in resuming', RowStill(r)
  PROVE  RowDone(r)
<1>. USE DEF TimerMoves, RowStill
<1>0. TimerFits(r) /\ AttemptFits(r) /\ SlotFits(r) /\ WaitFits(r) /\ KilledRests(r)
  BY DEF RowFits
<1>1. Fired(r)' /\ WorkAhead(r) /\ \A j \in Issues : ~ArmedFor(j, r)'
  BY <1>0 DEF Fired, WorkAhead, TimerFits, ArmsNone
<1>2. TimerFits(r)'
  BY <1>0, <1>1 DEF TimerFits, RetryPCs
<1>3. (Lost(r) => Lost(r)') /\ (FailedPark(r) => FailedPark(r)')
  BY DEF Lost, FailedPark, IsRaw
<1>4. AttemptFits(r)'
  BY <1>0, <1>1, <1>3 DEF AttemptFits
<1>5. SlotFits(r)'
  BY <1>0, <1>3 DEF SlotFits
<1>6. ~Evaluating(r)'
  BY <1>0, <1>1 DEF Evaluating, WaitFits, TickPasses
<1>7. WaitFits(r)'
  BY <1>6 DEF WaitFits
<1>8. KilledRests(r)'
  BY <1>0, <1>1 DEF KilledRests, TickPasses
<1>. QED  BY <1>2, <1>4, <1>5, <1>7, <1>8 DEF RowDone, RowFits, RowSticks

\* The timer ends: its row is cancelled, or its work armed again, or neither.
CancelWritten(r) ==
  /\ row'[r].state = "cancelled" /\ row'[r].reason # "none"
  /\ row[r].reason = "daemon_shutdown" => row'[r].reason = "daemon_shutdown"
ArmedAgain(r) ==
  /\ \E j \in Issues : \A l \in Issues :
       ArmedFor(l, r)' => l = j /\ sched'[l].kind = work[Timer(r)].kind
  /\ r \in resuming => r \in resuming'

LEMMA TimerEnds ==
  ASSUME TypeInv, NEW r \in Runs, RowFits(r), Fired(r), pc[Timer(r)] # "retrylabel",
         TimerMoves(r, "idle"), RowStill(r),
         \/ row'[r] = row[r]
         \/ /\ CancelWritten(r)
            /\ \/ stopping /\ row'[r].reason = "daemon_shutdown"
               \/ work[Timer(r)].kind = "retry",
         ArmsNone(r) \/ (row'[r] = row[r] /\ ArmedAgain(r))
  PROVE  RowDone(r)
<1>. USE DEF TimerMoves, RowStill
<1>. DEFINE k == work[Timer(r)].kind
<1>0. TimerFits(r) /\ AttemptFits(r) /\ SlotFits(r) /\ WaitFits(r) /\ KilledRests(r)
  BY DEF RowFits
<1>1. ~Fired(r)' /\ WorkAhead(r) /\ k \in Owed /\ r \in Rows /\ row[r].state # "waiting"
      /\ (k = "retry" => row[r].state \in {"failed", "stale"})
      /\ (k = "resume" => r \in resuming)
  BY <1>0 DEF Fired, WorkAhead, TimerFits
<1>2. \A l \in Issues : ArmedFor(l, r)' => row'[r] = row[r] /\ ArmedAgain(r)
  BY <1>0 DEF ArmsNone, TimerFits
<1>3. ASSUME NEW i \in Issues, ArmedFor(i, r)'
      PROVE  /\ sched'[i].kind = k
             /\ \A j \in Issues : ArmedFor(j, r)' => j = i
             /\ sched'[i].kind = "retry" => row'[r].state \in {"failed", "stale"}
             /\ sched'[i].kind = "resume" => r \in resuming'
  BY <1>1, <1>2, <1>3 DEF ArmedAgain
<1>4. row'[r].state # "waiting" /\ r \in Rows'
  BY <1>1 DEF CancelWritten
<1>. HIDE DEF k
<1>5. TimerFits(r)'
  BY <1>1, <1>3, <1>4 DEF TimerFits
<1>6. (Lost(r) => Lost(r)') /\ (FailedPark(r) => FailedPark(r)')
  BY DEF Lost, FailedPark, IsRaw
<1>7. pc[Attempt(r)] # "idle" => Lost(r) /\ k = "advance"
  BY <1>0 DEF AttemptFits, k, Fired
<1>8. AttemptFits(r)'
  <2>1. CASE pc[Attempt(r)] = "idle"
    BY <2>1 DEF AttemptFits, Starting, AttemptPCs
  <2>2. CASE pc[Attempt(r)] # "idle"
    <3>1. Lost(r)' /\ k = "advance" /\ pc'[Attempt(r)] \in {"settle", "classify", "termq", "labels", "next"}
      BY <1>6, <1>7, <2>2 DEF Lost
    <3>2. local'[r].outcome # "transient" /\ local'[r].next = "none"
      BY <3>1 DEF Lost
    <3>3. pc[Attempt(r)] \in {"labels", "next"}
            => row'[r].state \notin ActiveStates \cup {"waiting"}
      BY <1>0, <1>4 DEF AttemptFits, CancelWritten, ActiveStates
    <3>. QED  BY <1>1, <1>3, <3>1, <3>2, <3>3 DEF AttemptFits, Starting, AttemptPCs
  <2>. QED  BY <2>1, <2>2
<1>9. SlotFits(r)'
  BY <1>0, <1>6 DEF SlotFits, CancelWritten
<1>10. ~Evaluating(r)'
  BY <1>0, <1>1 DEF Evaluating, WaitFits, TickPasses
<1>11. WaitFits(r)'
  BY <1>10 DEF WaitFits
<1>12. ~stopping /\ row'[r].reason = "daemon_shutdown" =>
          pc[Attempt(r)] = "idle" /\ (k = "resume" \/ row'[r] # row[r])
  <2>1. CASE row'[r] = row[r]
    BY <1>0, <2>1 DEF KilledRests, Fired, k
  <2>2. CASE row'[r] # row[r]
    BY <1>7, <2>2 DEF k
  <2>. QED  BY <2>1, <2>2
<1>13. KilledRests(r)'
  <2>1. ToResume(r)' => r \in Rows' /\ row'[r].reason = "daemon_shutdown"
                        /\ (~stopping => row'[r].state = "cancelled")
    BY <1>0, <1>4 DEF KilledRests, TickPasses, CancelWritten
  <2>. QED  BY <1>1, <1>2, <1>3, <1>12, <2>1 DEF KilledRests
<1>14. RowSticks(r)
  BY <1>1 DEF RowSticks, CancelWritten, k
<1>. QED  BY <1>5, <1>8, <1>9, <1>11, <1>13, <1>14 DEF RowDone, RowFits

\* Scheduling arms work of one row only; refused at a stop, it cancels that row.
LEMMA ScheduleWrites ==
  ASSUME TypeInv, NEW rows \in [Runs -> Row], NEW accepted \in [Runs -> Row], NEW ls,
         NEW w, NEW r \in Runs, w.run = r, w.issue \in Issues,
         ScheduleRunWork(rows, accepted, ls, w)
  PROVE  /\ \A s \in Runs : s # r => ArmsNone(s)
         /\ stopping => /\ ArmsNone(r) /\ \A s \in Runs : s # r => row'[s] = rows[s]
                        /\ row'[r].state = "cancelled" /\ row'[r].reason = "daemon_shutdown"
         /\ ~stopping => \/ ArmsNone(r) /\ row' = rows
                         \/ /\ row' = accepted
                            /\ \A l \in Issues : ArmedFor(l, r)' =>
                                 \/ ArmedFor(l, r) /\ l # w.issue
                                 \/ l = w.issue /\ sched'[l].kind = w.kind
<1>0. sched \in [Issues -> Work \cup {NoWork}]
  BY DEF TypeInv, TypeOK, TimerOK
<1>1. CASE sched' = sched /\ (~stopping => row' = rows)
  <2>1. \A s \in Runs : ArmsNone(s)
    BY <1>1, ArmsStay
  <2>2. /\ CancelledRow(rows[r], "daemon_shutdown").state = "cancelled"
        /\ CancelledRow(rows[r], "daemon_shutdown").reason = "daemon_shutdown"
    BY WrittenRows DEF Reasons
  <2>3. stopping => row' = [rows EXCEPT ![r] = CancelledRow(@, "daemon_shutdown")]
    BY DEF ScheduleRunWork
  <2>5. \A l \in Issues : ArmedFor(l, r)' => ArmedFor(l, r) /\ sched'[l] = sched[l]
    BY <1>1 DEF ArmedFor
  <2>. QED  BY <1>1, <2>1, <2>2, <2>3, <2>5 DEF ArmsNone
<1>2. CASE /\ ~stopping /\ sched[w.issue] = NoWork
           /\ row' = accepted /\ sched' = [sched EXCEPT ![w.issue] = w]
  <2>1. \A l \in Issues : sched'[l] = IF l = w.issue THEN w ELSE sched[l]
    BY <1>0, <1>2
  <2>. QED  BY <1>2, <2>1 DEF ArmsNone, ArmedFor
<1>. QED  BY <1>1, <1>2 DEF ScheduleRunWork

LEMMA ScheduleWaitArms ==
  ASSUME TypeInv, NEW i \in Issues, NEW q, ScheduleWait(i, q), NEW s
  PROVE  ArmsNone(s)
<1>. DEFINE w == [kind |-> "wait", issue |-> i, run |-> q]
<1>1. sched' = sched \/ sched' = [sched EXCEPT ![i] = w]
  BY DEF ScheduleWait
<1>2. w.kind = "wait"
  OBVIOUS
<1>. HIDE DEF w
<1>. QED  BY <1>1, <1>2 DEF ArmsNone, ArmedFor, Owed, TypeInv, TypeOK, TimerOK

LEMMA ClaimantMoves ==
  ASSUME TypeInv, NEW t \in Claimants, NEW where, pc' = [pc EXCEPT ![t] = where],
         work' = work \/ \E w : work' = [work EXCEPT ![t] = w]
  PROVE  /\ \A s \in Runs : /\ t # Timer(s) => SameThreads(s)
                            /\ t = Timer(s) => TimerMoves(s, where)
         /\ pc'[Tick] = pc[Tick]
<1>1. t \in Threads /\ t # Tick /\ \A s \in Runs : t # Attempt(s) /\ t # Wait(s)
  BY ThreadNames, ThreadsDiffer
<1>. QED  BY <1>1, OneMoves

\* The registry, the attempts and the tick stay as they are.
OnlyClaims ==
  UNCHANGED <<local, inflight, latch, stopping, todo>>

\* A claim ends without a Run.
LEMMA ClaimEnds ==
  ASSUME TypeInv, \A s \in Runs : RowFits(s), NEW t \in Claimants,
         pc[t] \in {"claimq", "check"}, OnlyClaims, UNCHANGED <<issueOf, nrows>>,
         ClaimRefused(t) \/ (stopping /\ ClaimShutDown(t))
  PROVE  \A s \in Runs : RowDone(s)
<1>. USE DEF OnlyClaims
<1>. DEFINE w == work[t]
<1>0. w \in Work /\ Rows' = Rows /\ row \in [Runs -> Row]
  BY ClaimWork, SameTable DEF TypeInv, TypeOK, Rows
<1>1. PICK where : pc' = [pc EXCEPT ![t] = where] /\ where \in {"idle", "pick"}
                   /\ (w.kind # "fresh" => where = "idle")
  BY DEF ClaimRefused, ClaimShutDown, Goto
<1>2. work' = [work EXCEPT ![t] = NoWork]
  BY DEF ClaimRefused, ClaimShutDown
<1>3. /\ \A s \in Runs : /\ t # Timer(s) => SameThreads(s)
                         /\ t = Timer(s) => TimerMoves(s, where)
      /\ \A s \in Runs : TickPasses(s)
  BY <1>1, <1>2, ClaimantMoves, TickElsewhere
<1>4. CASE w.kind = "fresh"
  <2>1. UNCHANGED <<sched, row, resuming>>
    BY <1>4 DEF ClaimRefused, ClaimShutDown
  <2>2. \A s \in Runs : t # Timer(s)
    BY <1>0, <1>4 DEF TypeInv, WorkInv, NoWork
  <2>. QED  BY <1>0, <1>3, <2>1, <2>2, ArmsStay, OthersAlone
<1>5. CASE w.kind # "fresh"
  <2>1. PICK r \in Runs : t = Timer(r)
    BY <1>0, <1>5 DEF TypeInv, WorkInv, NoWork, Claimants
  <2>2. w.run = r /\ w.kind \in Owed /\ w.issue \in Issues
    BY <1>0, <1>5, <2>1 DEF TypeInv, WorkInv, NoWork, Owed, Work
  <2>3. \A i \in Issues : ~ArmedFor(i, r)
    BY <2>1 DEF RowFits, TimerFits, Fired
  <2>4. /\ \A s \in Runs : s # r => /\ row'[s] = row[s] /\ ArmsNone(s)
                                    /\ s \in resuming => s \in resuming'
        /\ row'[r] = row[r] \/ (CancelWritten(r) /\ stopping
                                  /\ row'[r].reason = "daemon_shutdown")
        /\ ArmsNone(r) \/ (row'[r] = row[r] /\ ArmedAgain(r))
    <3>. HIDE DEF w
    <3>1. CASE stopping /\ ClaimShutDown(t)
      <4>1. row' = [row EXCEPT ![r] = CancelledRow(@, "daemon_shutdown")]
        BY <1>5, <2>2, <3>1 DEF ClaimShutDown, w
      <4>2. sched' = sched /\ resuming' = resuming \ {r} /\ stopping
        BY <1>5, <2>2, <3>1 DEF ClaimShutDown, w
      <4>3. /\ CancelledRow(row[r], "daemon_shutdown").state = "cancelled"
            /\ CancelledRow(row[r], "daemon_shutdown").reason = "daemon_shutdown"
        BY <1>0, WrittenRows DEF Reasons
      <4>. QED  BY <1>0, <4>1, <4>2, <4>3, ArmsStay DEF CancelWritten
    <3>2. CASE ClaimRefused(t) /\ w.kind \in {"continuation", "advance"}
      <4>1. ScheduleRunWork(row, row, labels, w) /\ resuming' = resuming
        BY <3>2 DEF ClaimRefused, w
      <4>2. CASE stopping
        BY <1>0, <2>2, <4>1, <4>2, ScheduleWrites DEF CancelWritten
      <4>3. CASE ~stopping
        BY <1>0, <2>1, <2>2, <2>3, <4>1, <4>3, ScheduleWrites DEF ArmedAgain, w
      <4>. QED  BY <4>2, <4>3
    <3>3. CASE ClaimRefused(t) /\ w.kind = "resume"
      <4>1. /\ row' = row
            /\ sched' = IF ~stopping /\ sched[w.issue] = NoWork
                        THEN [sched EXCEPT ![w.issue] = w] ELSE sched
            /\ resuming' = IF stopping THEN resuming \ {r} ELSE resuming
        BY <2>2, <3>3 DEF ClaimRefused, w
      <4>2. sched \in [Issues -> Work \cup {NoWork}]
        BY DEF TypeInv, TypeOK, TimerOK
      <4>3. CASE sched' = sched
        BY <4>1, <4>3, ArmsStay
      <4>4. CASE ~stopping /\ sched' = [sched EXCEPT ![w.issue] = w]
        <5>1. \A l \in Issues : sched'[l] = IF l = w.issue THEN w ELSE sched[l]
          BY <4>2, <4>4
        <5>2. \A s \in Runs : s # r => ArmsNone(s)
          BY <2>2, <5>1 DEF ArmsNone, ArmedFor
        <5>3. \A l \in Issues : ArmedFor(l, r)' => l = w.issue /\ sched'[l].kind = w.kind
          BY <2>3, <5>1 DEF ArmedFor
        <5>. QED  BY <2>1, <2>2, <4>1, <4>4, <5>2, <5>3 DEF ArmedAgain, w
      <4>. QED  BY <4>1, <4>3, <4>4
    <3>. QED  BY <1>5, <2>2, <3>1, <3>2, <3>3 DEF ClaimRefused, w
  <2>5. \A s \in Runs : RowStill(s)
    BY <1>0, <1>3 DEF RowStill
  <2>6. ASSUME NEW s \in Runs, s # r PROVE RowDone(s)
    <3>1. SameThreads(s)
      BY <1>3, <2>1, <2>6, ThreadsDiffer
    <3>. QED  BY <1>0, <1>3, <2>4, <2>6, <3>1, OthersAlone
  <2>7. RowDone(r)
    <3>1. TimerMoves(r, "idle") /\ Fired(r) /\ pc[Timer(r)] # "retrylabel"
      BY <1>1, <1>3, <1>5, <2>1 DEF Fired
    <3>. QED  BY <2>4, <2>5, <3>1, TimerEnds
  <2>. QED  BY <2>6, <2>7
<1>. QED  BY <1>4, <1>5

LEMMA ClaimGateCheckDone ==
  ASSUME TypeInv, \A s \in Runs : RowFits(s), NEW t \in Claimants,
         ClaimGate(t) \/ ClaimCheck(t)
  PROVE  \A s \in Runs : RowDone(s)
<1>1. pc[t] \in {"claimq", "check"} /\ OnlyClaims /\ UNCHANGED <<issueOf, nrows>>
  BY DEF ClaimGate, ClaimCheck, OnlyClaims
<1>2. CASE ClaimRefused(t) \/ (stopping /\ ClaimShutDown(t))
  BY <1>1, <1>2, ClaimEnds
<1>3. CASE /\ \E where \in {"check", "label"} : Goto(t, where)
           /\ UNCHANGED <<mutex, work, sched, resuming, row, labels>>
  <2>1. PICK where \in {"check", "label"} : pc' = [pc EXCEPT ![t] = where]
    BY <1>3 DEF Goto
  <2>2. /\ \A s \in Runs : /\ t # Timer(s) => SameThreads(s)
                           /\ t = Timer(s) => TimerMoves(s, where)
        /\ \A s \in Runs : TickPasses(s)
    BY <1>1, <1>3, <2>1, ClaimantMoves, TickElsewhere DEF OnlyClaims
  <2>3. Rows' = Rows /\ \A s \in Runs : ArmsNone(s) /\ RowStill(s)
    BY <1>1, <1>3, <2>2, ArmsStay DEF OnlyClaims, RowStill, Rows
  <2>4. ASSUME NEW s \in Runs PROVE RowDone(s)
    <3>1. CASE t # Timer(s)
      BY <1>1, <1>3, <2>2, <2>3, <3>1, OthersAlone DEF OnlyClaims
    <3>2. CASE t = Timer(s)
      <4>1. Fired(s) /\ pc[Timer(s)] # "retrylabel" /\ work[Timer(s)].kind # "retry"
        BY <1>1, <3>2 DEF Fired, RowFits, TimerFits
      <4>. QED  BY <1>3, <2>2, <2>3, <3>2, <4>1, TimerGoesOn DEF RetryPCs
    <3>. QED  BY <3>1, <3>2
  <2>. QED  BY <2>4
<1>. QED  BY <1>2, <1>3 DEF ClaimGate, ClaimCheck

\* A row is created, with no attempt: nothing was about it before.
LEMMA NewRowDone ==
  ASSUME RowsInv, NEW r \in Runs, RowFits(r), r \notin Rows, r \in Rows',
         SameThreads(r), ArmsNone(r), r \in inflight' => r \in inflight,
         TickPasses(r), stopping' = stopping,
         row'[r].state \in {"cancelled", "waiting", "failed"},
         row'[r].reason = "daemon_shutdown" => stopping
  PROVE  RowDone(r)
<1>. USE DEF SameThreads
<1>0. TimerFits(r) /\ AttemptFits(r) /\ WaitFits(r) /\ KilledRests(r)
  BY DEF RowFits
<1>1. ~Fired(r) /\ (\A i \in Issues : ~ArmedFor(i, r)) /\ ~Evaluating(r) /\ ~ToResume(r)
  BY <1>0 DEF TimerFits, WorkAhead, WaitFits, KilledRests
<1>2. pc[Attempt(r)] = "idle" /\ r \notin inflight
  BY DEF RowsInv
<1>3. ~Fired(r)' /\ (\A i \in Issues : ~ArmedFor(i, r)') /\ ~Evaluating(r)' /\ ~ToResume(r)'
  BY <1>1 DEF Fired, ArmsNone, Evaluating, TickPasses
<1>4. ~WorkAhead(r)'
  BY <1>3 DEF WorkAhead
<1>5. TimerFits(r)' /\ AttemptFits(r)' /\ SlotFits(r)' /\ WaitFits(r)' /\ KilledRests(r)'
  BY <1>2, <1>3, <1>4
  DEF TimerFits, AttemptFits, SlotFits, WaitFits, KilledRests, Starting, AttemptPCs
<1>. QED  BY <1>2, <1>5 DEF RowDone, RowFits, RowSticks

\* There is room for the row of the claim whose label is written.
LEMMA RoomHere ==
  ASSUME TypeInv, NEW t \in Claimants, pc[t] = "label"
  PROVE  \E new \in Runs : new = nrows + 1
BY BoundsAssumption DEF TypeInv, TypeOK, RoomInv, StoreOK, Runs

\* A claim fails at its label, or is rolled back: the new row tells of the stop.
LEMMA ClaimFailsDone ==
  ASSUME TypeInv, \A s \in Runs : RowFits(s), RowsInv, NEW t \in Claimants,
         ClaimLabelFails(t) \/ ClaimRollback(t)
  PROVE  \A s \in Runs : RowDone(s)
<1>. DEFINE w == work[t]
<1>. PICK new \in Runs : new = nrows + 1
  BY RoomHere DEF ClaimLabelFails, ClaimRollback
<1>0. /\ w \in Work /\ row \in [Runs -> Row] /\ pc[t] = "label" 
      /\ nrows \in Nat /\ issueOf \in [Runs -> Issues] /\ Rows \subseteq Runs
      /\ new \notin Rows
  BY ClaimWork, SameTable, BoundsAssumption
  DEF TypeInv, TypeOK, ClaimLabelFails, ClaimRollback, RoomInv, StoreOK, Runs, Rows
<1>1. /\ pc' = [pc EXCEPT ![t] = "idle"] /\ work' = [work EXCEPT ![t] = NoWork]
      /\ UNCHANGED <<sched, local, inflight, latch, stopping, todo>>
      /\ resuming' = resuming \ {w.run}
  BY DEF ClaimLabelFails, ClaimRollback, Goto
<1>2. /\ \A s \in Runs : /\ t # Timer(s) => SameThreads(s)
                         /\ t = Timer(s) => TimerMoves(s, "idle")
      /\ \A s \in Runs : TickPasses(s) /\ ArmsNone(s)
  BY <1>1, ClaimantMoves, TickElsewhere, ArmsStay
<1>3. /\ \A s \in Runs : s # new => row'[s] = row[s] /\ issueOf'[s] = issueOf[s]
      /\ Rows \subseteq Rows'
      /\ \/ row' = row /\ issueOf' = issueOf
         \/ /\ new \in Rows' /\ row'[new].state = "cancelled" /\ stopping
  <2>1. CASE ClaimLabelFails(t)
    BY <2>1 DEF ClaimLabelFails, Rows
  <2>2. CASE ClaimRollback(t)
    <3>1. RolledBackRow(w).state = "cancelled"
      <4>1. NewRow(w) \in Row
        BY NewRowType, BoundsAssumption
      <4>. QED  BY <4>1 DEF RolledBackRow, Row
    <3>2. /\ row' = [row EXCEPT ![new] = RolledBackRow(w)] /\ nrows' = new /\ stopping
          /\ issueOf' = [issueOf EXCEPT ![new] = w.issue]
      BY <2>2 DEF ClaimRollback
    <3>3. Rows \subseteq Rows' /\ new \in Rows'
      BY <1>0, <3>2 DEF Rows
    <3>. QED  BY <1>0, <3>1, <3>2, <3>3
  <2>. QED  BY <2>1, <2>2
<1>. HIDE DEF w
<1>4. ASSUME NEW s \in Runs, s # new PROVE RowDone(s)
  <2>1. RowStill(s) /\ row'[s] = row[s]
    BY <1>1, <1>2, <1>3, <1>4 DEF RowStill
  <2>2. CASE t = Timer(s)
    <3>1. Fired(s) /\ pc[Timer(s)] # "retrylabel"
      BY <1>0, <2>2 DEF Fired
    <3>. QED  BY <1>2, <2>1, <2>2, <3>1, TimerEnds
  <2>3. CASE t # Timer(s)
    <3>1. w.run = s => t = Timer(s)
      BY <1>0 DEF w, TypeInv, WorkInv, NoWork, Claimants, Runs
    <3>. QED  BY <1>1, <1>2, <1>3, <2>1, <2>3, <3>1, OthersAlone DEF RowStill
  <2>. QED  BY <2>2, <2>3
<1>5. RowDone(new)
  <2>1. t # Timer(new)
    BY <1>0 DEF RowFits, TimerFits, WorkAhead, Fired
  <2>2. SameThreads(new)
    BY <1>0, <1>2, <2>1
  <2>3. CASE row' = row /\ issueOf' = issueOf
    <3>1. w.run # new
      BY <1>0, <2>1 DEF w, TypeInv, WorkInv, NoWork, Claimants, Runs
    <3>. QED  BY <1>0, <1>1, <1>2, <1>3, <2>2, <2>3, <3>1, OthersAlone
  <2>4. CASE new \in Rows' /\ row'[new].state = "cancelled" /\ stopping
    BY <1>0, <1>1, <1>2, <2>2, <2>4, NewRowDone
  <2>. QED  BY <1>3, <2>3, <2>4
<1>. QED  BY <1>4, <1>5

\* The claim's row is new, its attempt about to begin; the claimant is done.
LEMMA ClaimPersistDone ==
  ASSUME TypeInv, \A s \in Runs : RowFits(s), RowsInv, NEW t \in Claimants,
         ClaimPersist(t)
  PROVE  \A s \in Runs : RowDone(s)
<1>. DEFINE w == work[t]
<1>. PICK new \in Runs : new = nrows + 1
  BY RoomHere DEF ClaimPersist
<1>0. /\ w \in Work /\ row \in [Runs -> Row] /\ pc[t] = "label" 
      /\ nrows \in Nat /\ issueOf \in [Runs -> Issues] /\ Rows \subseteq Runs
      /\ new \notin Rows /\ inflight \subseteq Runs /\ latch \in [Runs -> Reasons]
  BY ClaimWork, SameTable, BoundsAssumption
  DEF TypeInv, TypeOK, ClaimPersist, RoomInv, StoreOK, RegistryOK, Runs, Rows
<1>1. /\ UNCHANGED <<sched, local, stopping, todo>> /\ ~stopping
      /\ inflight' = inflight \cup {new} /\ latch' = [latch EXCEPT ![new] = "none"]
      /\ resuming' = resuming \ {w.run} /\ work' = [work EXCEPT ![t] = NoWork]
      /\ row' = [row EXCEPT ![new] = NewRow(w)] /\ nrows' = new
      /\ issueOf' = [issueOf EXCEPT ![new] = w.issue]
  BY DEF ClaimPersist
<1>2. PICK where \in {"pick", "idle"} :
        /\ pc' = [pc EXCEPT ![Attempt(new)] = "entry", ![t] = where]
        /\ w.kind # "fresh" => where = "idle"
  BY DEF ClaimPersist
<1>. HIDE DEF w
<1>3. /\ \A u \in Threads : pc'[u] = IF u = t THEN where
                                     ELSE IF u = Attempt(new) THEN "entry" ELSE pc[u]
      /\ \A u \in Threads : u # t => work'[u] = work[u]
  BY <1>1, <1>2 DEF TypeInv, TypeOK, ControlOK
<1>4. /\ \A s \in Runs : /\ t # Attempt(s) /\ t # Wait(s)
                         /\ Attempt(s) \in Threads /\ Timer(s) \in Threads
                         /\ Wait(s) \in Threads
      /\ t # Tick /\ Tick \in Threads /\ \A s \in Runs : Attempt(s) # Tick
  BY ThreadNames, ThreadsDiffer
<1>5. /\ t # Timer(new) /\ ~Fired(new) /\ \A i \in Issues : ~ArmedFor(i, new)
      /\ ~Evaluating(new) /\ ~ToResume(new)
  BY <1>0 DEF RowFits, TimerFits, WorkAhead, Fired, WaitFits, KilledRests
<1>6. pc'[Tick] = pc[Tick] /\ \A s \in Runs : TickPasses(s) /\ ArmsNone(s)
  <2>1. pc'[Tick] = pc[Tick]
    BY <1>0, <1>3, <1>4
  <2>. QED  BY <1>1, <2>1, TickElsewhere, ArmsStay
<1>7. /\ \A s \in Runs : s # new =>
           /\ row'[s] = row[s] /\ issueOf'[s] = issueOf[s] /\ latch'[s] = latch[s]
           /\ s \in inflight' <=> s \in inflight
      /\ Rows \subseteq Rows' /\ new \in Rows'
  BY <1>0, <1>1 DEF Rows
<1>8. \A s \in Runs : w.run = s => t = Timer(s)
  BY <1>0 DEF w, TypeInv, WorkInv, NoWork, Claimants, Runs
<1>9. ASSUME NEW s \in Runs, s # new PROVE RowDone(s)
  <2>1. pc'[Attempt(s)] = pc[Attempt(s)] /\ pc'[Wait(s)] = pc[Wait(s)]
    BY <1>0, <1>3, <1>4, <1>9, ThreadsDiffer
  <2>2. RowStill(s)
    BY <1>1, <1>6, <1>7, <1>9 DEF RowStill
  <2>3. CASE t = Timer(s)
    <3>1. TimerMoves(s, "idle") /\ Fired(s) /\ pc[Timer(s)] # "retrylabel"
      <4>1. where = "idle"
        BY <1>0, <1>2, <2>3 DEF w, TypeInv, WorkInv, NoWork
      <4>. QED  BY <1>0, <1>3, <1>4, <2>1, <2>3, <4>1 DEF TimerMoves, Fired
    <3>. QED  BY <1>6, <1>7, <1>9, <2>2, <3>1, TimerEnds
  <2>4. CASE t # Timer(s)
    <3>1. SameThreads(s)
      BY <1>0, <1>3, <1>4, <1>9, <2>1, <2>4, ThreadsDiffer DEF SameThreads
    <3>. QED  BY <1>1, <1>6, <1>7, <1>8, <1>9, <2>4, <3>1, OthersAlone
  <2>. QED  BY <2>3, <2>4
<1>10. RowDone(new)
  <2>1. /\ pc'[Attempt(new)] = "entry" /\ pc'[Timer(new)] = pc[Timer(new)]
        /\ pc'[Wait(new)] = pc[Wait(new)]
    BY <1>0, <1>3, <1>4, <1>5, ThreadsDiffer
  <2>2. row'[new].state = "queued" /\ row'[new].reason = "none" /\ latch'[new] = "none"
    BY <1>0, <1>1 DEF NewRow, NoRow
  <2>3. ~Fired(new)' /\ ~Evaluating(new)' /\ ~ToResume(new)'
        /\ \A i \in Issues : ~ArmedFor(i, new)'
    BY <1>0, <1>5, <1>6, <2>1 DEF Fired, Evaluating, TickPasses, ArmsNone
  <2>4. TimerFits(new)' /\ AttemptFits(new)'
    BY <1>7, <2>1, <2>2, <2>3
    DEF TimerFits, WorkAhead, AttemptFits, Starting, AttemptPCs, ActiveStates
  <2>6. SlotFits(new)' /\ WaitFits(new)' /\ KilledRests(new)'
    BY <1>7, <2>1, <2>2, <2>3 DEF SlotFits, WaitFits, KilledRests, Starting
  <2>5. new \notin inflight
    BY <1>0 DEF RowsInv
  <2>. QED  BY <1>0, <2>4, <2>5, <2>6 DEF RowDone, RowFits, RowSticks
<1>. QED  BY <1>9, <1>10

\* The refreshed issue no longer admits the work, or the refresh failed.
LEMMA TimerDropsDone ==
  ASSUME TypeInv, \A s \in Runs : RowFits(s), NEW r \in Runs,
         TimerDropped(r) \/ TimerUnavailable(r)
  PROVE  \A s \in Runs : RowDone(s)
<1>0. row \in [Runs -> Row] /\ Timer(r) \in Claimants /\ pc[Timer(r)] = "fired"
  BY SameTable, ThreadNames DEF TimerDropped, TimerUnavailable
<1>1. /\ pc' = [pc EXCEPT ![Timer(r)] = "idle"] /\ resuming' = resuming \ {r}
      /\ UNCHANGED <<sched, local, inflight, latch, stopping, todo, issueOf, nrows>>
      /\ work' = [work EXCEPT ![Timer(r)] = NoWork]
  BY DEF TimerDropped, TimerUnavailable, Goto
<1>2. /\ \A s \in Runs : /\ Timer(r) # Timer(s) => SameThreads(s)
                         /\ Timer(r) = Timer(s) => TimerMoves(s, "idle")
      /\ \A s \in Runs : TickPasses(s) /\ ArmsNone(s)
  BY <1>0, <1>1, ClaimantMoves, TickElsewhere, ArmsStay
<1>3. /\ \A s \in Runs : s # r => row'[s] = row[s]
      /\ \/ row'[r] = row[r]
         \/ CancelWritten(r) /\ work[Timer(r)].kind = "retry"
  <2>1. CASE row' = row
    BY <2>1
  <2>2. CASE /\ work[Timer(r)].kind = "retry"
             /\ \E why \in {"eligibility_loss", "closed_issue"} :
                  row' = [row EXCEPT ![r] = CancelledRow(@, why)]
    <3>1. PICK why \in {"eligibility_loss", "closed_issue"} :
            row' = [row EXCEPT ![r] = CancelledRow(@, why)]
      BY <2>2
    <3>2. /\ CancelledRow(row[r], why).state = "cancelled"
          /\ CancelledRow(row[r], why).reason # "none"
          /\ row[r].reason = "daemon_shutdown"
               => CancelledRow(row[r], why).reason = "daemon_shutdown"
      BY <1>0, WrittenRows DEF Reasons
    <3>. QED  BY <1>0, <2>2, <3>1, <3>2 DEF CancelWritten
  <2>. QED  BY <2>1, <2>2 DEF TimerDropped, TimerUnavailable
<1>4. Rows' = Rows /\ \A s \in Runs : RowStill(s)
  BY <1>1, <1>2 DEF RowStill, Rows
<1>5. ASSUME NEW s \in Runs, s # r PROVE RowDone(s)
  <2>1. SameThreads(s)
    BY <1>2, <1>5, ThreadsDiffer
  <2>. QED  BY <1>1, <1>2, <1>3, <1>4, <1>5, <2>1, OthersAlone
<1>6. RowDone(r)
  <2>1. Fired(r) /\ pc[Timer(r)] # "retrylabel"
    BY <1>0 DEF Fired
  <2>. QED  BY <1>2, <1>3, <1>4, <2>1, TimerEnds
<1>. QED  BY <1>5, <1>6

\* The timer goes on with its work; nothing else changes.
LEMMA TimerOnDone ==
  ASSUME TypeInv, \A s \in Runs : RowFits(s), NEW r \in Runs,
         pc[Timer(r)] \in {"fired", "retryq"},
         NEW where \in {"retryq", "retrycheck", "claimq"},
         where \in RetryPCs <=> work[Timer(r)].kind = "retry",
         pc' = [pc EXCEPT ![Timer(r)] = where],
         UNCHANGED <<work, local, inflight, latch, stopping, todo, resuming, sched,
                     row, issueOf, nrows>>
  PROVE  \A s \in Runs : RowDone(s)
<1>0. Timer(r) \in Claimants
  BY ThreadNames
<1>1. /\ \A s \in Runs : /\ Timer(r) # Timer(s) => SameThreads(s)
                         /\ Timer(r) = Timer(s) => TimerMoves(s, where)
      /\ \A s \in Runs : TickPasses(s) /\ ArmsNone(s)
  BY <1>0, ClaimantMoves, TickElsewhere, ArmsStay
<1>2. Rows' = Rows /\ \A s \in Runs : RowStill(s)
  BY <1>1 DEF RowStill, Rows
<1>3. ASSUME NEW s \in Runs, s # r PROVE RowDone(s)
  <2>1. SameThreads(s)
    BY <1>1, <1>3, ThreadsDiffer
  <2>. QED  BY <1>1, <1>2, <1>3, <2>1, OthersAlone
<1>4. RowDone(r)
  <2>1. Fired(r) /\ pc[Timer(r)] # "retrylabel"
    BY DEF Fired
  <2>. QED  BY <1>1, <1>2, <2>1, TimerGoesOn
<1>. QED  BY <1>3, <1>4

LEMMA TimerAdmittedDone ==
  ASSUME TypeInv, \A s \in Runs : RowFits(s), NEW r \in Runs, TimerAdmitted(r)
  PROVE  \A s \in Runs : RowDone(s)
<1>. DEFINE where == IF work[Timer(r)].kind = "retry" THEN "retryq" ELSE "claimq"
<1>1. where \in {"retryq", "claimq"} /\ (where \in RetryPCs <=> work[Timer(r)].kind = "retry")
  BY DEF RetryPCs
<1>2. /\ pc' = [pc EXCEPT ![Timer(r)] = where] /\ pc[Timer(r)] = "fired"
      /\ UNCHANGED <<work, local, inflight, latch, stopping, todo, resuming, sched,
                     row, issueOf, nrows>>
  BY DEF TimerAdmitted, Goto
<1>. HIDE DEF where
<1>. QED  BY <1>1, <1>2, TimerOnDone

\* What a retry's timer is about, past its queue.
LEMMA RetryStands ==
  ASSUME NEW r \in Runs, RowFits(r), pc[Timer(r)] \in RetryPCs
  PROVE  /\ Fired(r) /\ work[Timer(r)].kind = "retry" /\ pc[Attempt(r)] = "idle"
         /\ r \in Rows /\ row[r].state \in {"failed", "stale"}
         /\ ~stopping => row[r].reason # "daemon_shutdown"
         /\ ~Evaluating(r) /\ \A i \in Issues : ~ArmedFor(i, r)
<1>1. Fired(r) /\ work[Timer(r)].kind = "retry"
  BY DEF RowFits, TimerFits, Fired, RetryPCs
<1>2. r \in Rows /\ row[r].state \in {"failed", "stale"} /\ \A i \in Issues : ~ArmedFor(i, r)
  BY <1>1 DEF RowFits, TimerFits, WorkAhead
<1>3. pc[Attempt(r)] = "idle" /\ ~Evaluating(r)
  BY <1>1 DEF RowFits, AttemptFits, WaitFits, WorkAhead
<1>4. ~stopping => row[r].reason # "daemon_shutdown"
  BY <1>1 DEF RowFits, KilledRests
<1>. QED  BY <1>1, <1>2, <1>3, <1>4

\* A retry ends without an attempt.
LEMMA RetryEndsDone ==
  ASSUME TypeInv, \A s \in Runs : RowFits(s), NEW r \in Runs,
         pc[Timer(r)] \in {"retryq", "retrycheck"},
         pc' = [pc EXCEPT ![Timer(r)] = "idle"],
         work' = [work EXCEPT ![Timer(r)] = NoWork],
         UNCHANGED <<local, inflight, latch, stopping, todo, resuming, issueOf, nrows>>,
         \/ /\ sched' = sched /\ stopping
            /\ row' = [row EXCEPT ![r] = CancelledRow(@, "daemon_shutdown")]
         \/ ScheduleRunWork(row, row, labels,
                            [kind |-> "retry", issue |-> issueOf[r], run |-> r])
  PROVE  \A s \in Runs : RowDone(s)
<1>0. row \in [Runs -> Row] /\ Timer(r) \in Claimants /\ issueOf[r] \in Issues
  BY SameTable, ThreadNames DEF TypeInv, TypeOK, StoreOK
<1>1. /\ \A s \in Runs : /\ Timer(r) # Timer(s) => SameThreads(s)
                         /\ Timer(r) = Timer(s) => TimerMoves(s, "idle")
      /\ \A s \in Runs : TickPasses(s)
  BY <1>0, ClaimantMoves, TickElsewhere
<1>2. Rows' = Rows /\ \A s \in Runs : RowStill(s)
  BY <1>1 DEF RowStill, Rows
<1>3. Fired(r) /\ work[Timer(r)].kind = "retry" /\ \A i \in Issues : ~ArmedFor(i, r)
  BY RetryStands DEF RetryPCs
<1>4. /\ \A s \in Runs : s # r => row'[s] = row[s] /\ ArmsNone(s)
      /\ row'[r] = row[r] \/ CancelWritten(r)
      /\ ArmsNone(r) \/ (row'[r] = row[r] /\ ArmedAgain(r))
  <2>1. CASE /\ sched' = sched /\ stopping
             /\ row' = [row EXCEPT ![r] = CancelledRow(@, "daemon_shutdown")]
    <3>1. /\ CancelledRow(row[r], "daemon_shutdown").state = "cancelled"
          /\ CancelledRow(row[r], "daemon_shutdown").reason = "daemon_shutdown"
      BY <1>0, WrittenRows DEF Reasons
    <3>. QED  BY <1>0, <2>1, <3>1, ArmsStay DEF CancelWritten
  <2>2. CASE ScheduleRunWork(row, row, labels,
                            [kind |-> "retry", issue |-> issueOf[r], run |-> r])
    <3>. DEFINE w == [kind |-> "retry", issue |-> issueOf[r], run |-> r]
    <3>1. ScheduleRunWork(row, row, labels, w) /\ w.run = r /\ w.issue \in Issues
          /\ w.kind = "retry"
      BY <1>0, <2>2
    <3>. HIDE DEF w
    <3>2. CASE stopping
      BY <1>0, <3>1, <3>2, ScheduleWrites DEF CancelWritten
    <3>3. CASE ~stopping
      BY <1>0, <1>3, <3>1, <3>3, ScheduleWrites DEF ArmedAgain
    <3>. QED  BY <3>2, <3>3
  <2>. QED  BY <2>1, <2>2
<1>5. ASSUME NEW s \in Runs, s # r PROVE RowDone(s)
  <2>1. SameThreads(s)
    BY <1>1, <1>5, ThreadsDiffer
  <2>. QED  BY <1>1, <1>2, <1>4, <1>5, <2>1, OthersAlone
<1>6. RowDone(r)
  <2>1. pc[Timer(r)] # "retrylabel"
    OBVIOUS
  <2>. QED  BY <1>1, <1>2, <1>3, <1>4, <2>1, TimerEnds
<1>. QED  BY <1>5, <1>6

LEMMA RetryGateDone ==
  ASSUME TypeInv, \A s \in Runs : RowFits(s), NEW r \in Runs, RetryGate(r)
  PROVE  \A s \in Runs : RowDone(s)
<1>0. /\ pc[Timer(r)] = "retryq" /\ work[Timer(r)].kind = "retry"
      /\ UNCHANGED <<local, inflight, latch, stopping, todo, resuming, issueOf, nrows,
                     sched>>
  BY RetryStands DEF RetryGate, RetryPCs
<1>1. CASE ~stopping
  <2>1. pc' = [pc EXCEPT ![Timer(r)] = "retrycheck"] /\ work' = work /\ row' = row
    BY <1>1 DEF RetryGate, Goto
  <2>. QED  BY <1>0, <2>1, TimerOnDone DEF RetryPCs
<1>2. CASE stopping
  <2>1. /\ pc' = [pc EXCEPT ![Timer(r)] = "idle"]
        /\ work' = [work EXCEPT ![Timer(r)] = NoWork]
        /\ row' = [row EXCEPT ![r] = CancelledRow(@, "daemon_shutdown")]
    BY <1>2 DEF RetryGate, RetryEnds, Goto
  <2>. QED  BY <1>0, <1>2, <2>1, RetryEndsDone
<1>. QED  BY <1>1, <1>2

LEMMA RetryCheckDone ==
  ASSUME TypeInv, \A s \in Runs : RowFits(s), NEW r \in Runs, RetryCheck(r)
  PROVE  \A s \in Runs : RowDone(s)
<1>0. /\ pc[Timer(r)] = "retrycheck"
      /\ UNCHANGED <<local, stopping, todo, resuming, issueOf, nrows>>
      /\ inflight \in SUBSET Runs /\ latch \in [Runs -> Reasons]
  BY DEF RetryCheck, TypeInv, TypeOK, RegistryOK
<1>1. CASE /\ RetryEnds(r) /\ UNCHANGED <<inflight, latch>>
           /\ \/ ScheduleRunWork(row, row, labels,
                            [kind |-> "retry", issue |-> issueOf[r], run |-> r])
              \/ /\ sched' = sched /\ stopping
                 /\ row' = [row EXCEPT ![r] = CancelledRow(@, "daemon_shutdown")]
  <2>1. /\ pc' = [pc EXCEPT ![Timer(r)] = "idle"]
        /\ work' = [work EXCEPT ![Timer(r)] = NoWork]
    BY <1>1 DEF RetryEnds, Goto
  <2>. QED  BY <1>0, <1>1, <2>1, RetryEndsDone
<1>2. CASE /\ ~stopping /\ inflight' = inflight \cup {r}
           /\ latch' = [latch EXCEPT ![r] = "none"]
           /\ Goto(Timer(r), "retrylabel")
           /\ UNCHANGED <<work, sched, row>>
  <2>0. Timer(r) \in Claimants
    BY ThreadNames
  <2>1. pc' = [pc EXCEPT ![Timer(r)] = "retrylabel"] /\ work' = work
    BY <1>2 DEF Goto
  <2>2. /\ \A s \in Runs : /\ Timer(r) # Timer(s) => SameThreads(s)
                           /\ Timer(r) = Timer(s) => TimerMoves(s, "retrylabel")
        /\ \A s \in Runs : TickPasses(s) /\ ArmsNone(s)
    BY <1>0, <1>2, <2>0, <2>1, ClaimantMoves, TickElsewhere, ArmsStay
  <2>3. Rows' = Rows
    BY <1>0 DEF Rows
  <2>4. ASSUME NEW s \in Runs, s # r PROVE RowDone(s)
    <3>1. SameThreads(s)
      BY <2>2, <2>4, ThreadsDiffer
    <3>2. (s \in inflight' <=> s \in inflight) /\ latch'[s] = latch[s]
      BY <1>0, <1>2, <2>4
    <3>. QED  BY <1>0, <1>2, <2>2, <2>3, <3>1, <3>2, OthersAlone
  <2>5. RowDone(r)
    <3>1. /\ Fired(r) /\ work[Timer(r)].kind = "retry" /\ pc[Attempt(r)] = "idle"
          /\ r \in Rows /\ row[r].state \in {"failed", "stale"}
          /\ ~stopping => row[r].reason # "daemon_shutdown"
          /\ ~Evaluating(r) /\ \A i \in Issues : ~ArmedFor(i, r)
      BY <1>0, RetryStands DEF RetryPCs
    <3>2. /\ pc'[Timer(r)] = "retrylabel" /\ pc'[Attempt(r)] = "idle"
          /\ pc'[Wait(r)] = pc[Wait(r)] /\ work' = work /\ latch'[r] = "none"
      BY <1>0, <1>2, <2>1, <2>2, <3>1 DEF TimerMoves
    <3>3. Fired(r)' /\ ~Evaluating(r)' /\ (\A i \in Issues : ~ArmedFor(i, r)')
          /\ (ToResume(r)' => ToResume(r))
      BY <2>2, <3>1, <3>2 DEF Fired, Evaluating, ArmsNone, TickPasses
    <3>4. TimerFits(r)'
      BY <1>0, <1>2, <2>3, <3>1, <3>2, <3>3 DEF TimerFits, RetryPCs, Owed
    <3>5. AttemptFits(r)' /\ SlotFits(r)' /\ WaitFits(r)'
      BY <3>2, <3>3 DEF AttemptFits, SlotFits, WaitFits, Starting, AttemptPCs
    <3>6. KilledRests(r)'
      BY <1>0, <1>2, <2>3, <3>1, <3>2, <3>3 DEF KilledRests, RowFits
    <3>. QED  BY <1>2, <3>4, <3>5, <3>6 DEF RowDone, RowFits, RowSticks
  <2>. QED  BY <2>4, <2>5
<1>. QED  BY <1>1, <1>2, Zenon DEF RetryCheck

LEMMA RetryLabelDone ==
  ASSUME TypeInv, \A s \in Runs : RowFits(s), NEW r \in Runs, RetryLabel(r)
  PROVE  \A s \in Runs : RowDone(s)
<1>0. /\ pc[Timer(r)] = "retrylabel" /\ Rows' = Rows
      /\ UNCHANGED <<local, inflight, latch, stopping, todo, resuming, issueOf, nrows,
                     row, sched>>
      /\ pc' = [pc EXCEPT ![Timer(r)] = "idle", ![Attempt(r)] = "entry"]
      /\ work' = [work EXCEPT ![Timer(r)] = NoWork]
  BY DEF RetryLabel, Rows
<1>1. /\ \A u \in Threads : pc'[u] = IF u = Attempt(r) THEN "entry"
                                     ELSE IF u = Timer(r) THEN "idle" ELSE pc[u]
      /\ \A u \in Threads : u # Timer(r) => work'[u] = work[u]
  BY <1>0 DEF TypeInv, TypeOK, ControlOK
<1>2. Tick \in Threads /\ \A s \in Runs : Attempt(s) \in Threads /\ Timer(s) \in Threads
        /\ Wait(s) \in Threads /\ Attempt(s) # Tick /\ Timer(s) # Tick
  BY ThreadNames, ThreadsDiffer
<1>3. pc'[Tick] = pc[Tick] /\ \A s \in Runs : TickPasses(s) /\ ArmsNone(s)
  <2>1. pc'[Tick] = pc[Tick]
    BY <1>1, <1>2
  <2>. QED  BY <1>0, <2>1, TickElsewhere, ArmsStay
<1>4. ASSUME NEW s \in Runs, s # r PROVE RowDone(s)
  <2>1. SameThreads(s)
    BY <1>1, <1>2, <1>4, ThreadsDiffer DEF SameThreads
  <2>. QED  BY <1>0, <1>3, <2>1, OthersAlone
<1>5. RowDone(r)
  <2>1. /\ Fired(r) /\ work[Timer(r)].kind = "retry" /\ pc[Attempt(r)] = "idle"
        /\ r \in Rows /\ row[r].state \in {"failed", "stale"}
        /\ ~stopping => row[r].reason # "daemon_shutdown"
        /\ ~Evaluating(r) /\ \A i \in Issues : ~ArmedFor(i, r)
    BY <1>0, RetryStands DEF RetryPCs
  <2>2. /\ pc'[Timer(r)] = "idle" /\ pc'[Attempt(r)] = "entry"
        /\ pc'[Wait(r)] = pc[Wait(r)]
    BY <1>1, <1>2, ThreadsDiffer
  <2>3. ~Fired(r)' /\ ~Evaluating(r)' /\ (\A i \in Issues : ~ArmedFor(i, r)')
        /\ (ToResume(r)' => ToResume(r))
    BY <1>3, <2>1, <2>2 DEF Fired, Evaluating, ArmsNone, TickPasses
  <2>4. TimerFits(r)' /\ AttemptFits(r)'
    BY <1>0, <2>1, <2>2, <2>3 DEF TimerFits, WorkAhead, AttemptFits, Starting,
                                             AttemptPCs
  <2>5. SlotFits(r)'
    <3>1. FailedPark(r) => FALSE
      BY <2>1 DEF FailedPark
    <3>. QED  BY <1>0, <2>2, <3>1 DEF SlotFits, Starting, RowFits
  <2>6. WaitFits(r)' /\ KilledRests(r)'
    BY <1>0, <2>1, <2>2, <2>3 DEF WaitFits, KilledRests, RowFits
  <2>. QED  BY <1>0, <2>4, <2>5, <2>6 DEF RowDone, RowFits, RowSticks
<1>. QED  BY <1>4, <1>5

-----------------------------------------------------------------------------
(* Wait steps.                                                             *)

\* A row that waits has nothing under way but, it may be, a failed park.
WaitStands(r) ==
  /\ r \in Rows /\ row[r].state \in {"waiting", "stale"} /\ ~WorkAhead(r)
  /\ pc[Attempt(r)] # "idle" => Lost(r) /\ pc[Attempt(r)] \notin {"labels", "next"}

LEMMA WaitingStands ==
  ASSUME NEW r \in Runs, RowFits(r), row[r].state = "waiting"
  PROVE  WaitStands(r)
<1>1. ~WorkAhead(r) /\ r \in Rows
  BY DEF RowFits, TimerFits
<1>. QED  BY <1>1 DEF RowFits, AttemptFits, WaitStands, ActiveStates, Starting, AttemptPCs

\* A wait step of row r.
WaitFrame(r) ==
  /\ \A s \in Runs : s # r => SameThreads(s)
  /\ pc'[Attempt(r)] = pc[Attempt(r)] /\ pc'[Timer(r)] = pc[Timer(r)]
  /\ work'[Timer(r)] = work[Timer(r)]
  /\ \A s \in Runs : TickPasses(s)
  /\ UNCHANGED <<local, inflight, latch, resuming, stopping>>

\* What it may write, and arm, of that row.
WaitWritten(r) ==
  /\ row'[r] = row[r] \/ row'[r].state \in {"cancelled", "succeeded", "blocked"}
  /\ \/ row'[r].reason = row[r].reason
     \/ /\ row[r].reason # "daemon_shutdown"
        /\ row'[r].reason \notin {"none", "daemon_shutdown"}
  /\ \/ ArmsNone(r)
     \/ /\ row'[r].state = "succeeded"
        /\ ~stopping /\ row'[r].reason # "daemon_shutdown"
        /\ \E j \in Issues : \A l \in Issues :
             ArmedFor(l, r)' => l = j /\ sched'[l].kind = "advance"

LEMMA WaitSettles ==
  ASSUME NEW r \in Runs, RowFits(r), WaitStands(r), WaitFrame(r), ~Evaluating(r)',
         issueOf'[r] = issueOf[r], r \in Rows', WaitWritten(r)
  PROVE  RowDone(r)
<1>. USE DEF WaitFrame, WaitWritten
<1>0. TimerFits(r) /\ AttemptFits(r) /\ SlotFits(r) /\ KilledRests(r)
  BY DEF RowFits
<1>1. ~Fired(r) /\ (\A i \in Issues : ~ArmedFor(i, r)) /\ ~Fired(r)'
      /\ row[r].state \in {"waiting", "stale"} /\ r \in Rows
      /\ (row'[r].state = "waiting" => row'[r] = row[r])
  BY DEF WaitStands, WorkAhead, Fired
<1>2. (Lost(r) => Lost(r)') /\ (FailedPark(r) <=> FailedPark(r)')
  BY DEF Lost, FailedPark, IsRaw
<1>3. \A i \in Issues : ArmedFor(i, r)' =>
        /\ sched'[i].kind = "advance" /\ row'[r].state = "succeeded"
        /\ ~stopping /\ row'[r].reason # "daemon_shutdown"
        /\ \A j \in Issues : ArmedFor(j, r)' => j = i
  BY <1>1 DEF ArmsNone
<1>4. TimerFits(r)'
  BY <1>1, <1>3 DEF TimerFits, WorkAhead
<1>5. AttemptFits(r)'
  <2>1. CASE pc[Attempt(r)] = "idle"
    BY <2>1 DEF AttemptFits, Starting, AttemptPCs
  <2>2. CASE pc[Attempt(r)] # "idle"
    <3>1. Lost(r)' /\ pc'[Attempt(r)] \in {"settle", "classify", "termq"}
      BY <1>2, <2>2 DEF WaitStands, Lost
    <3>2. local'[r].next = "none"
      BY <3>1 DEF Lost
    <3>. QED  BY <1>1, <1>3, <3>1, <3>2 DEF AttemptFits, Starting, AttemptPCs
  <2>. QED  BY <2>1, <2>2
<1>6. SlotFits(r)'
  <2>1. ASSUME r \in inflight
        PROVE  FailedPark(r)'
    <3>1. pc[Attempt(r)] # "idle"
      BY <1>0, <1>1, <2>1 DEF SlotFits, Fired, Starting
    <3>. QED  BY <1>2, <3>1 DEF WaitStands, Lost, FailedPark
  <2>2. r \in inflight => \/ pc[Attempt(r)] \in Starting \cup {"settle"}
                          \/ pc[Attempt(r)] = "idle" /\ pc[Timer(r)] = "retrylabel"
    BY <1>0 DEF SlotFits
  <2>. QED  BY <2>1, <2>2 DEF SlotFits
<1>7. WaitFits(r)'
  BY DEF WaitFits
<1>8. KilledRests(r)'
  <2>1. ToResume(r)' => stopping /\ row'[r].reason = "daemon_shutdown"
    BY <1>0, <1>1 DEF KilledRests, TickPasses
  <2>2. ~stopping /\ row'[r].reason = "daemon_shutdown" => pc'[Attempt(r)] = "idle"
    BY <1>0 DEF KilledRests
  <2>. QED  BY <1>1, <1>3, <2>1, <2>2 DEF KilledRests
<1>. QED  BY <1>1, <1>4, <1>5, <1>6, <1>7, <1>8 DEF RowDone, RowFits, RowSticks

\* Another row, that a wait step of row r leaves alone.
LEMMA WaitOthers ==
  ASSUME TypeInv, NEW r \in Runs, NEW s \in Runs, s # r, RowFits(s), WaitFrame(r),
         row'[s] = row[s], issueOf'[s] = issueOf[s], s \in Rows => s \in Rows',
         ArmsNone(s)
  PROVE  RowDone(s)
BY OthersAlone DEF WaitFrame

\* What is decided is written, and armed or parked.
LEMMA DecidedDone ==
  ASSUME TypeInv, \A s \in Runs : RowFits(s), RowsInv, NEW r \in Runs, Evaluating(r),
         WaitDecided(r), WaitFrame(r), ~Evaluating(r)',
         pc[Attempt(r)] \notin {"labels", "next"}
  PROVE  \A s \in Runs : RowDone(s)
<1>. DEFINE i == issueOf[r]
            w == [kind |-> "advance", issue |-> i, run |-> r]
            advanced == [row EXCEPT ![r].state = "succeeded", ![r].stamp = "forward"]
<1>0. row \in [Runs -> Row] /\ row[r] \in Row /\ i \in Issues
      /\ issueOf \in [Runs -> Issues] /\ nrows \in Nat
  BY SameTable DEF TypeInv, TypeOK, StoreOK
<1>1. WaitStands(r) /\ (~stopping => row[r].reason # "daemon_shutdown")
  BY DEF RowFits, WaitFits, WaitStands
<1>2. ASSUME \A s \in Runs : s # r => row'[s] = row[s] /\ ArmsNone(s),
             UNCHANGED <<issueOf, nrows>>, WaitWritten(r)
      PROVE  \A s \in Runs : RowDone(s)
  <2>1. Rows' = Rows /\ r \in Rows
    BY <1>1, <1>2 DEF Rows, WaitStands
  <2>2. RowDone(r)
    BY <1>1, <1>2, <2>1, WaitSettles
  <2>. QED  BY <1>2, <2>1, <2>2, WaitOthers
<1>3. CASE /\ sched' = sched /\ UNCHANGED <<issueOf, nrows>>
           /\ \/ row' = row
              \/ row' = [row EXCEPT ![r].state = "succeeded", ![r].stamp = "none"]
              \/ row' = [row EXCEPT ![r].state = "blocked", ![r].stamp = "none",
                                    ![r].why = "blocked"]
  <2>1. \A s \in Runs : s # r => row'[s] = row[s]
    BY <1>0, <1>3
  <2>2. /\ row'[r] = row[r] \/ row'[r].state \in {"cancelled", "succeeded", "blocked"}
        /\ row'[r].reason = row[r].reason
    BY <1>0, <1>3 DEF Row
  <2>. QED  BY <1>2, <1>3, <2>1, <2>2, ArmsStay DEF WaitWritten
<1>4. CASE /\ sched' = sched /\ UNCHANGED <<issueOf, nrows>>
           /\ row' = [row EXCEPT ![r] = [MarkCancelRequested(@, "closed_issue")
                                          EXCEPT !.state = "cancelled"]]
  <2>. DEFINE m == MarkCancelRequested(row[r], "closed_issue")
  <2>1. /\ m \in Row /\ m.reason # "none"
        /\ m.reason = IF row[r].reason = "daemon_shutdown" THEN "daemon_shutdown"
                      ELSE "closed_issue"
    BY <1>0, CancelReasonType, WrittenRows DEF Reasons
  <2>2. row'[r] = [m EXCEPT !.state = "cancelled"]
        /\ \A s \in Runs : s # r => row'[s] = row[s]
    BY <1>0, <1>4
  <2>. HIDE DEF m
  <2>3. row'[r].state = "cancelled" /\ row'[r].reason = m.reason
    BY <2>1, <2>2 DEF Row
  <2>. QED  BY <1>2, <1>4, <2>1, <2>2, <2>3, ArmsStay DEF WaitWritten
<1>5. CASE /\ ~stopping /\ ScheduleRunWork(advanced, advanced, labels, w)
           /\ UNCHANGED <<issueOf, nrows>>
  <2>1. advanced \in [Runs -> Row] /\ w.run = r /\ w.issue \in Issues /\ w.kind = "advance"
    BY <1>0 DEF Row, RowStates
  <2>2. /\ \A s \in Runs : s # r => advanced[s] = row[s]
        /\ advanced[r].state = "succeeded" /\ advanced[r].reason = row[r].reason
    BY <1>0 DEF Row
  <2>3. \A l \in Issues : ~ArmedFor(l, r)
    BY <1>1 DEF WaitStands, WorkAhead
  <2>. HIDE DEF w, advanced
  <2>4. /\ \A s \in Runs : s # r => ArmsNone(s)
        /\ row' = advanced
        /\ \/ ArmsNone(r)
           \/ \A l \in Issues : ArmedFor(l, r)' =>
                \/ ArmedFor(l, r) /\ l # w.issue
                \/ l = w.issue /\ sched'[l].kind = w.kind
    BY <1>5, <2>1, ScheduleWrites
  <2>5. WaitWritten(r)
    BY <1>1, <1>5, <2>1, <2>2, <2>3, <2>4 DEF WaitWritten
  <2>. QED  BY <1>2, <1>5, <2>2, <2>4, <2>5
<1>6. CASE /\ ~stopping /\ ~StoreFull /\ nrows' = nrows + 1
           /\ issueOf' = [issueOf EXCEPT ![nrows + 1] = i]
           /\ row' = [row EXCEPT ![r].state = "succeeded", ![r].stamp = "forward",
                                 ![nrows + 1] = WaitingRow]
           /\ ScheduleWait(i, nrows + 1)
  <2>. PICK new \in Runs : new = nrows + 1
    BY <1>0, <1>6, BoundsAssumption DEF StoreFull, Runs
  <2>1. new \notin Rows /\ Rows \subseteq Rows' /\ new \in Rows' /\ r # new
        /\ r \in Rows
    BY <1>0, <1>1, <1>6 DEF Rows, WaitStands
  <2>2. \A s \in Runs : ArmsNone(s)
    BY <1>0, <1>6, ScheduleWaitArms
  <2>3. /\ \A s \in Runs : s # r /\ s # new => row'[s] = row[s]
        /\ \A s \in Runs : s # new => issueOf'[s] = issueOf[s]
        /\ row'[new] = WaitingRow
        /\ row'[r].state = "succeeded" /\ row'[r].reason = row[r].reason
    BY <1>0, <1>6, <2>1 DEF Row
  <2>4. RowDone(r)
    BY <1>1, <2>1, <2>2, <2>3, WaitSettles DEF WaitWritten
  <2>5. RowDone(new)
    <3>1. row'[new].state = "waiting" /\ row'[new].reason = "none"
      BY <2>3 DEF WaitingRow, NoRow
    <3>. QED  BY <2>1, <2>2, <3>1, NewRowDone DEF WaitFrame
  <2>6. ASSUME NEW s \in Runs, s # r, s # new PROVE RowDone(s)
    BY <2>1, <2>2, <2>3, <2>6, WaitOthers
  <2>. QED  BY <2>4, <2>5, <2>6
<1>. QED  BY <1>3, <1>4, <1>5, <1>6 DEF WaitDecided

\* A row that waits no more, or whose cancel was requested, is not evaluated.
LEMMA DroppedDone ==
  ASSUME TypeInv, \A s \in Runs : RowFits(s), NEW r \in Runs, ~Evaluating(r),
         WaitDropped(r), WaitFrame(r), ~Evaluating(r)',
         UNCHANGED <<issueOf, nrows, sched>>
  PROVE  \A s \in Runs : RowDone(s)
<1>0. row \in [Runs -> Row] /\ row[r] \in Row /\ Rows' = Rows
  BY SameTable DEF Rows
<1>1. /\ \A s \in Runs : ArmsNone(s)
      /\ \A s \in Runs : s # r => row'[s] = row[s]
  BY <1>0, ArmsStay DEF WaitDropped
<1>2. ASSUME NEW s \in Runs, s # r PROVE RowDone(s)
  BY <1>0, <1>1, <1>2, WaitOthers
<1>3. RowDone(r)
  <2>1. CASE row[r].state = "waiting"
    <3>1. row'[r].state = "cancelled" /\ row'[r].reason = row[r].reason
      BY <1>0, <2>1 DEF WaitDropped, Row
    <3>2. WaitStands(r) /\ r \in Rows'
      BY <1>0, <2>1, WaitingStands DEF WaitStands
    <3>. QED  BY <1>1, <3>1, <3>2, WaitSettles DEF WaitWritten
  <2>2. CASE row[r].state # "waiting"
    <3>1. row' = row
      BY <2>2 DEF WaitDropped
    <3>2. LeftAlone(r)
      BY <1>0, <1>1, <3>1
      DEF LeftAlone, WaitFrame, TickPasses, TickTurns, Evaluating
    <3>. QED  BY <3>2, AloneFits
  <2>. QED  BY <2>1, <2>2
<1>. QED  BY <1>2, <1>3

\* A row is read, and found waiting.
LEMMA ReadDone ==
  ASSUME TypeInv, \A s \in Runs : RowFits(s), NEW r \in Runs, Proceeds(r),
         \A s \in Runs : s # r => SameThreads(s) /\ TickPasses(s),
         pc'[Attempt(r)] = pc[Attempt(r)], pc'[Timer(r)] = pc[Timer(r)],
         work'[Timer(r)] = work[Timer(r)], ToResume(r)' => ToResume(r),
         UNCHANGED <<local, inflight, latch, resuming, stopping, issueOf, nrows, sched,
                     row>>
  PROVE  \A s \in Runs : RowDone(s)
<1>0. Rows' = Rows /\ \A s \in Runs : ArmsNone(s)
  BY ArmsStay DEF Rows
<1>1. ASSUME NEW s \in Runs, s # r PROVE RowDone(s)
  BY <1>0, <1>1, OthersAlone
<1>2. RowDone(r)
  <2>0. TimerFits(r) /\ AttemptFits(r) /\ SlotFits(r) /\ KilledRests(r)
    BY DEF RowFits
  <2>1. /\ Fired(r)' <=> Fired(r)
        /\ WorkAhead(r)' <=> WorkAhead(r)
        /\ Lost(r)' <=> Lost(r)
        /\ FailedPark(r)' <=> FailedPark(r)
        /\ \A i \in Issues : ArmedFor(i, r)' <=> ArmedFor(i, r)
    BY DEF Fired, WorkAhead, Lost, FailedPark, IsRaw, ArmedFor
  <2>2. TimerFits(r)'
    BY <1>0, <2>0, <2>1 DEF TimerFits
  <2>3. AttemptFits(r)'
    BY <1>0, <2>0, <2>1 DEF AttemptFits
  <2>4. SlotFits(r)'
    BY <2>0, <2>1 DEF SlotFits
  <2>5. WaitFits(r)'
    <3>1. WaitStands(r) /\ row[r].reason = "none"
      BY WaitingStands DEF Proceeds
    <3>. QED  BY <1>0, <2>1, <3>1 DEF WaitFits, WaitStands
  <2>6. KilledRests(r)'
    BY <1>0, <2>0, <2>1 DEF KilledRests
  <2>. QED  BY <2>2, <2>3, <2>4, <2>5, <2>6 DEF RowDone, RowFits, RowSticks
<1>. QED  BY <1>1, <1>2

\* One thread at a time is past its queue for dispatchMutex.
LEMMA OnlyHolder ==
  ASSUME TypeInv, NEW t \in Threads, Holds(t)
  PROVE  \A u \in Threads : u # t => pc[u] \notin Inside
BY DEF TypeInv, CriticalSections, Holds

LEMMA WaitStepDone ==
  ASSUME TypeInv, \A s \in Runs : RowFits(s), RowsInv, NEW r \in Runs,
         WaitRead(r) \/ WaitEvaluate(r)
  PROVE  \A s \in Runs : RowDone(s)
<1>0. /\ Wait(r) \in Threads /\ Holds(Wait(r)) /\ work' = work
      /\ pc[Wait(r)] \in {"waitq", "waiteval"}
      /\ UNCHANGED <<local, inflight, latch, resuming, stopping, todo>>
      /\ Wait(r) # Tick /\ Tick \in Threads /\ Attempt(r) \in Threads /\ Attempt(r) # Wait(r)
  BY ThreadNames, ThreadsDiffer DEF WaitRead, WaitEvaluate
<1>1. pc[Tick] \notin Inside /\ pc[Attempt(r)] \notin Inside
  BY <1>0, OnlyHolder
<1>2. ASSUME NEW where, pc' = [pc EXCEPT ![Wait(r)] = where]
      PROVE  WaitFrame(r) /\ WaitMoves(r, where)
  <2>1. /\ \A s \in Runs : s # r => SameThreads(s)
        /\ WaitMoves(r, where) /\ pc'[Tick] = pc[Tick]
    BY <1>0, <1>2, OneMoves, ThreadsDiffer
  <2>2. \A s \in Runs : TickPasses(s)
    BY <1>0, <2>1, TickElsewhere
  <2>. QED  BY <1>0, <1>1, <2>1, <2>2 DEF WaitFrame, WaitMoves
<1>5. ASSUME pc' = [pc EXCEPT ![Wait(r)] = "idle"]
      PROVE  WaitFrame(r) /\ ~Evaluating(r)'
  <2>1. WaitFrame(r) /\ WaitMoves(r, "idle")
    BY <1>2, <1>5
  <2>2. pc'[Tick] = pc[Tick] /\ pc'[Wait(r)] = "idle"
    BY <1>0, <1>5, <2>1 DEF WaitMoves, TypeInv, TypeOK, ControlOK
  <2>. QED  BY <1>1, <2>1, <2>2 DEF Evaluating, Inside
<1>3. CASE WaitRead(r)
  <2>1. UNCHANGED <<issueOf, nrows, sched>> /\ ~Evaluating(r)
    BY <1>1, <1>3 DEF WaitRead, Evaluating, Inside
  <2>2. CASE WaitDropped(r) /\ pc' = [pc EXCEPT ![Wait(r)] = "idle"]
    BY <1>0, <1>5, <2>1, <2>2, DroppedDone
  <2>3. CASE Proceeds(r) /\ pc' = [pc EXCEPT ![Wait(r)] = "waiteval"] /\ row' = row
    <3>1. WaitFrame(r)
      BY <1>2, <2>3
    <3>. QED  BY <1>0, <2>1, <2>3, <3>1, ReadDone DEF WaitFrame, TickPasses
  <2>. QED  BY <1>3, <2>2, <2>3 DEF WaitRead, Goto
<1>4. CASE WaitEvaluate(r)
  <2>1. Evaluating(r) /\ WaitDecided(r) /\ pc' = [pc EXCEPT ![Wait(r)] = "idle"]
    BY <1>4 DEF WaitEvaluate, Evaluating, Goto
  <2>2. WaitFrame(r) /\ ~Evaluating(r)' /\ pc[Attempt(r)] \notin {"labels", "next"}
    BY <1>1, <1>5, <2>1 DEF Inside
  <2>. QED  BY <2>1, <2>2, DecidedDone
<1>. QED  BY <1>3, <1>4

-----------------------------------------------------------------------------
(* The tick.                                                               *)

LEMMA TickMoves ==
  ASSUME TypeInv, pc' = pc \/ \E where : pc' = [pc EXCEPT ![Tick] = where],
         work' = work
  PROVE  \A s \in Runs : SameThreads(s)
<1>1. CASE pc' = pc
  BY <1>1 DEF SameThreads
<1>2. CASE \E where : pc' = [pc EXCEPT ![Tick] = where]
  BY <1>2, OneMoves, ThreadNames, ThreadsDiffer
<1>. QED  BY <1>1, <1>2

\* A step of the tick that writes no row and arms nothing.
LEMMA TickTurnsDone ==
  ASSUME TypeInv, \A s \in Runs : RowFits(s), \A s \in Runs : TickTurns(s),
         pc' = pc \/ \E where : pc' = [pc EXCEPT ![Tick] = where],
         UNCHANGED <<work, local, inflight, latch, resuming, stopping, issueOf, nrows,
                     sched, row>>
  PROVE  \A s \in Runs : RowDone(s)
<1>1. Rows' = Rows /\ \A s \in Runs : ArmsNone(s) /\ SameThreads(s)
  BY TickMoves, ArmsStay DEF Rows
<1>. QED  BY <1>1, AloneFits DEF LeftAlone, SameThreads

\* The passes that follow one another in a step.
LEMMA EntersTurn ==
  ASSUME TypeInv, NEW m, NEW p, EnterResume(m, p) \/ EnterDetect(m, p) \/ EnterLaunch(p)
  PROVE  /\ \A s \in Runs : TickTurns(s)
         /\ \E where : pc' = [pc EXCEPT ![Tick] = where]
<1>1. PICK where \in {"resume", "mark", "launch"} :
         /\ pc' = [pc EXCEPT ![Tick] = where]
         /\ where = "resume" => todo' = Resumable
  BY DEF EnterResume, EnterDetect, EnterLaunch, Goto
<1>2. pc'[Tick] = where
  BY <1>1, ThreadNames DEF TypeInv, TypeOK, ControlOK
<1>. QED  BY <1>1, <1>2 DEF TickTurns, ToResume

LEMMA TickWaitReadDone ==
  ASSUME TypeInv, \A s \in Runs : RowFits(s), TickWaitRead
  PROVE  \A s \in Runs : RowDone(s)
<1>0. /\ pc[Tick] = "wait" /\ Tick \in Threads /\ todo \in SUBSET Runs
      /\ UNCHANGED <<work, local, inflight, latch, resuming, stopping, issueOf, nrows,
                     sched>>
  BY ThreadNames DEF TickWaitRead, TypeInv, TodoInv
<1>1. \A s \in Runs : pc[Wait(s)] # "waiteval" /\ ~Evaluating(s)
  <2>1. Holds(Tick)
    BY <1>0 DEF TypeInv, CriticalSections, Inside
  <2>2. \A s \in Runs : pc[Wait(s)] # "waiteval"
    BY <1>0, <2>1, OnlyHolder, ThreadNames, ThreadsDiffer DEF Inside
  <2>. QED  BY <1>0, <2>2 DEF Evaluating
<1>2. CASE todo = {} /\ EnterResume(Tail(mutex), seen) /\ row' = row
  BY <1>0, <1>2, EntersTurn, TickTurnsDone
<1>3. ASSUME NEW r \in todo, Lowest(r), WaitDropped(r), todo' = todo \ {r}, pc' = pc
      PROVE  \A s \in Runs : RowDone(s)
  <2>1. \A s \in Runs : SameThreads(s) /\ TickPasses(s) /\ ~Evaluating(s)'
    BY <1>0, <1>1, <1>3 DEF SameThreads, TickPasses, ToResume, Evaluating
  <2>2. WaitFrame(r)
    BY <1>0, <2>1 DEF WaitFrame, SameThreads
  <2>. QED  BY <1>0, <1>1, <1>3, <2>1, <2>2, DroppedDone
<1>4. ASSUME NEW r \in todo, Lowest(r), Proceeds(r), UNCHANGED <<todo, row>>,
             pc' = [pc EXCEPT ![Tick] = "waiteval"]
      PROVE  \A s \in Runs : RowDone(s)
  <2>1. \A s \in Runs : SameThreads(s)
    BY <1>0, <1>4, TickMoves
  <2>2. pc'[Tick] = "waiteval"
    BY <1>0, <1>4 DEF TypeInv, TypeOK, ControlOK
  <2>3. \A s \in Runs : s # r => ~Lowest(s)'
    <3>1. ASSUME NEW s \in Runs, Lowest(s)' PROVE s = r
      <4>1. s \in todo /\ s <= r /\ r <= s /\ r \in Runs
        BY <1>0, <1>4, <3>1 DEF Lowest
      <4>. QED  BY <4>1 DEF Runs
    <3>. QED  BY <3>1
  <2>4. \A s \in Runs : s # r => TickPasses(s)
    BY <2>2, <2>3 DEF TickPasses, ToResume
  <2>5. ~ToResume(r)'
    BY <2>2 DEF ToResume
  <2>. QED  BY <1>0, <1>4, <2>1, <2>4, <2>5, ReadDone DEF SameThreads
<1>. QED  BY <1>2, <1>3, <1>4 DEF TickWaitRead, Goto

LEMMA TickWaitEvaluateDone ==
  ASSUME TypeInv, \A s \in Runs : RowFits(s), RowsInv, TickWaitEvaluate
  PROVE  \A s \in Runs : RowDone(s)
<1>0. /\ pc[Tick] = "waiteval" /\ Tick \in Threads /\ todo \in SUBSET Runs
      /\ UNCHANGED <<work, local, inflight, latch, resuming, stopping>>
      /\ pc' = [pc EXCEPT ![Tick] = "wait"]
  BY ThreadNames DEF TickWaitEvaluate, TypeInv, TodoInv, Goto
<1>1. \A s \in Runs : pc[Wait(s)] # "waiteval" /\ pc[Attempt(s)] \notin {"labels", "next"}
  <2>1. Holds(Tick)
    BY <1>0 DEF TypeInv, CriticalSections, Inside
  <2>. QED  BY <1>0, <2>1, OnlyHolder, ThreadNames, ThreadsDiffer DEF Inside
<1>2. \A s \in Runs : SameThreads(s)
  BY <1>0, TickMoves
<1>3. pc'[Tick] = "wait"
  BY <1>0 DEF TypeInv, TypeOK, ControlOK
<1>4. \A s \in Runs : TickPasses(s) /\ ~Evaluating(s)'
  BY <1>1, <1>2, <1>3 DEF TickPasses, ToResume, Evaluating, SameThreads
<1>5. PICK r \in todo : Lowest(r) /\ WaitDecided(r)
  BY DEF TickWaitEvaluate
<1>6. Evaluating(r) /\ WaitFrame(r)
  BY <1>0, <1>2, <1>4, <1>5 DEF Evaluating, WaitFrame, SameThreads
<1>. QED  BY <1>0, <1>1, <1>4, <1>5, <1>6, DecidedDone

-----------------------------------------------------------------------------
(* An attempt's own row.                                                   *)

\* A step of the attempt of row r, that arms nothing and leaves the other rows.
AttemptFrame(r, where) ==
  /\ pc' = [pc EXCEPT ![Attempt(r)] = where]
  /\ UNCHANGED <<work, todo, stopping, resuming, sched>>

\* What is under way beside an attempt: only a failed park has any such thing.
LEMMA AttemptStands ==
  ASSUME RowsInv, NEW r \in Runs, RowFits(r), pc[Attempt(r)] # "idle"
  PROVE  /\ r \in Rows
         /\ WorkAhead(r) => Lost(r)
         /\ Evaluating(r) => Lost(r) /\ ~WorkAhead(r)
         /\ stopping \/ row[r].reason # "daemon_shutdown"
         /\ ToResume(r) => row[r].reason = "daemon_shutdown" /\ stopping
         /\ Fired(r) => work[Timer(r)].kind = "advance" /\ pc[Timer(r)] \notin RetryPCs
         /\ \A i \in Issues : ArmedFor(i, r) => sched[i].kind = "advance"
<1>1. r \in Rows
  BY DEF RowsInv
<1>2. /\ Fired(r) => Lost(r) /\ work[Timer(r)].kind = "advance"
      /\ \A i \in Issues : ArmedFor(i, r) => Lost(r) /\ sched[i].kind = "advance"
  BY DEF RowFits, AttemptFits
<1>3. Fired(r) => pc[Timer(r)] \notin RetryPCs
  BY <1>2 DEF RowFits, TimerFits
<1>4. Evaluating(r) => Lost(r) /\ ~WorkAhead(r)
  BY DEF RowFits, WaitFits
<1>5. stopping \/ row[r].reason # "daemon_shutdown"
  BY DEF RowFits, KilledRests
<1>6. ToResume(r) => row[r].reason = "daemon_shutdown" /\ stopping
  BY <1>5 DEF RowFits, KilledRests
<1>. QED  BY <1>1, <1>2, <1>3, <1>4, <1>5, <1>6 DEF WorkAhead

LEMMA AttemptOwn ==
  ASSUME TypeInv, RowsInv, NEW r \in Runs, RowFits(r), pc[Attempt(r)] # "idle",
         NEW where, AttemptFrame(r, where), r \in Rows', issueOf'[r] = issueOf[r],
         row'[r].reason = row[r].reason,
         WorkAhead(r) => row'[r].state # "waiting",
         Evaluating(r) => row'[r].state \in {"waiting", "stale"},
         Lost(r) => Lost(r)' \/ where = "idle",
         AttemptFits(r)', SlotFits(r)', RowSticks(r)
  PROVE  RowDone(r)
<1>0. Attempt(r) \in Threads /\ Attempt(r) # Tick
  BY ThreadNames, ThreadsDiffer
<1>1. AttemptMoves(r, where) /\ pc'[Tick] = pc[Tick]
  BY <1>0, OneMoves DEF AttemptFrame
<1>2. /\ Fired(r)' <=> Fired(r)
      /\ WorkAhead(r)' <=> WorkAhead(r)
      /\ Evaluating(r)' <=> Evaluating(r)
      /\ ToResume(r)' <=> ToResume(r)
      /\ \A i \in Issues : ArmedFor(i, r)' <=> ArmedFor(i, r)
      /\ pc'[Attempt(r)] = where /\ pc'[Timer(r)] = pc[Timer(r)]
      /\ work'[Timer(r)] = work[Timer(r)]
  BY <1>1 DEF Fired, WorkAhead, Evaluating, ToResume, Lowest, ArmedFor, AttemptFrame,
              AttemptMoves
<1>3. /\ r \in Rows
      /\ WorkAhead(r) => Lost(r)
      /\ Evaluating(r) => Lost(r) /\ ~WorkAhead(r)
      /\ stopping \/ row[r].reason # "daemon_shutdown"
      /\ ToResume(r) => row[r].reason = "daemon_shutdown" /\ stopping
      /\ Fired(r) => work[Timer(r)].kind = "advance" /\ pc[Timer(r)] \notin RetryPCs
      /\ \A i \in Issues : ArmedFor(i, r) => sched[i].kind = "advance"
  BY AttemptStands
<1>4. TimerFits(r)'
  BY <1>2, <1>3 DEF AttemptFrame, TimerFits, RowFits
<1>5. WaitFits(r)'
  BY <1>2, <1>3 DEF AttemptFrame, WaitFits
<1>6. KilledRests(r)'
  BY <1>2, <1>3 DEF AttemptFrame, KilledRests
<1>. QED  BY <1>4, <1>5, <1>6 DEF RowDone, RowFits

LEMMA AttemptOthers ==
  ASSUME TypeInv, NEW r \in Runs, NEW s \in Runs, s # r, RowFits(s),
         NEW where, AttemptFrame(r, where), s \in Rows => s \in Rows',
         issueOf'[s] = issueOf[s], row'[s] = row[s], local'[s] = local[s],
         s \in inflight' <=> s \in inflight, latch'[s] = latch[s]
  PROVE  RowDone(s)
<1>0. Attempt(r) \in Threads /\ Attempt(r) # Tick
  BY ThreadNames, ThreadsDiffer
<1>1. SameThreads(s) /\ pc'[Tick] = pc[Tick]
  BY <1>0, OneMoves, ThreadsDiffer DEF AttemptFrame
<1>. QED  BY <1>1, OthersAlone, ArmsStay, TickElsewhere DEF AttemptFrame

\* An attempt without a failed park, that writes its own row and its own locals.
LEMMA AttemptPlain ==
  ASSUME TypeInv, RowsInv, \A s \in Runs : RowFits(s), NEW r \in Runs,
         pc[Attempt(r)] # "idle", ~Lost(r), NEW where, AttemptFrame(r, where),
         UNCHANGED <<issueOf, nrows, inflight, latch>>,
         NEW l, local' = [local EXCEPT ![r] = l],
         NEW q, row' = [row EXCEPT ![r] = q], q.reason = row[r].reason,
         q.why = row[r].why, ~FailedPark(r),
         q.state = row[r].state \/ row[r].state \in ActiveStates \cup {"failed", "stale"},
         pc[Attempt(r)] \in Starting, where \in Starting \cup {"settle"},
         q.state \in ActiveStates \cup {"stale"} \/ (where = "settle" /\ Lost(r)'),
         where \in {"load", "setup"} => ~l.ran,
         l.next = "none"
  PROVE  \A s \in Runs : RowDone(s)
<1>0. row \in [Runs -> Row] /\ Rows' = Rows /\ row'[r] = q /\ local'[r] = l
      /\ (\A s \in Runs : s # r => row'[s] = row[s] /\ local'[s] = local[s])
      /\ r \in Rows
  BY SameTable DEF Rows, TypeInv, TypeOK, ControlOK, RowsInv
<1>1. ASSUME NEW s \in Runs, s # r PROVE RowDone(s)
  BY <1>0, <1>1, AttemptOthers
<1>2. ~WorkAhead(r) /\ ~Evaluating(r)
  BY AttemptStands
<1>3. pc'[Attempt(r)] = where /\ pc'[Timer(r)] = pc[Timer(r)]
  <2>1. Attempt(r) \in Threads
    BY ThreadNames
  <2>2. AttemptMoves(r, where)
    BY <2>1, OneMoves DEF AttemptFrame
  <2>. QED  BY <2>2 DEF AttemptMoves
<1>4. AttemptFits(r)'
  <2>1. ~Fired(r)' /\ \A i \in Issues : ~ArmedFor(i, r)'
    BY <1>2, <1>3 DEF WorkAhead, Fired, ArmedFor, AttemptFrame
  <2>2. where \notin {"labels", "next", "classify", "termq", "idle"}
    BY DEF Starting
  <2>3. where = "settle" => q.state \in ActiveStates \cup {"stale"} \/ Lost(r)'
    OBVIOUS
  <2>. QED  BY <1>0, <1>3, <2>1, <2>2, <2>3 DEF AttemptFits, AttemptPCs, Starting
<1>5. SlotFits(r)'
  <2>1. r \in inflight /\ latch[r] = "watchdog" /\ row[r].reason = "none"
          => row[r].why = "watchdog"
    BY DEF RowFits, SlotFits
  <2>. QED  BY <1>0, <1>3, <2>1 DEF SlotFits
<1>6. RowSticks(r)
  BY <1>0 DEF RowSticks, ActiveStates
<1>7. RowDone(r)
  BY <1>0, <1>2, <1>4, <1>5, <1>6, AttemptOwn
<1>. QED  BY <1>1, <1>7

\* The attempt up to its settling.
LEMMA AttemptRunsDone ==
  ASSUME TypeInv, RowsInv, \A s \in Runs : RowFits(s), NEW r \in Runs,
         \/ RunEntry(r) \/ RunPreparationFails(r) \/ RunLoad(r) \/ RunSetup(r)
         \/ RunStart(r) \/ ProviderExit(r)
         \/ RunParks(r) /\ pc' = [pc EXCEPT ![Attempt(r)] = "settle"]
  PROVE  \A s \in Runs : RowDone(s)
<1>. DEFINE at == pc[Attempt(r)]
<1>0. /\ row \in [Runs -> Row] /\ row[r] \in Row /\ local[r] \in Local
      /\ local \in [Runs -> Local]
      /\ UNCHANGED <<issueOf, nrows, inflight, latch, work, todo, stopping, resuming, sched>>
      /\ at \in Starting /\ at # "idle" /\ ~Lost(r) /\ ~FailedPark(r)
  <2>1. at \in Starting
    BY DEF RunEntry, RunPreparationFails, RunLoad, RunSetup, RunStart, ProviderExit,
           RunParks, Starting
  <2>2. UNCHANGED <<issueOf, nrows, inflight, latch, work, todo, stopping, resuming, sched>>
    <3>1. CASE RunParks(r) /\ pc' = [pc EXCEPT ![Attempt(r)] = "settle"]
      <4>1. pc'[Attempt(r)] = "settle"
        BY <3>1, ThreadNames DEF TypeInv, TypeOK, ControlOK
      <4>2. ~Goto(Attempt(r), "idle")
        BY <4>1, ThreadNames DEF Goto, TypeInv, TypeOK, ControlOK
      <4>. QED  BY <3>1, <4>2 DEF RunParks
    <3>. QED  BY <3>1 DEF RunEntry, RunPreparationFails, RunLoad, RunSetup, RunStart,
                          ProviderExit
  <2>. QED  BY <2>1, <2>2, SameTable
       DEF Starting, Lost, FailedPark, TypeInv, TypeOK, ControlOK
<1>1. /\ at = "entry" => row[r].state \in ActiveStates \cup {"failed", "stale"}
      /\ at # "entry" => row[r].state \in ActiveStates \cup {"stale"}
      /\ at \in {"load", "setup"} => ~local[r].ran
      /\ at # "entry" => local[r].next = "none"
  BY <1>0 DEF RowFits, AttemptFits, Starting
<1>2. ASSUME NEW where, AttemptFrame(r, where), NEW l, local' = [local EXCEPT ![r] = l],
             NEW q, row' = [row EXCEPT ![r] = q], q.reason = row[r].reason,
             q.why = row[r].why, q.state \in ActiveStates \cup {"stale"}
                                   \/ (where = "settle" /\ Lost(r)'),
             where \in Starting \cup {"settle"},
             where \in {"load", "setup"} => ~l.ran, l.next = "none"
      PROVE  \A s \in Runs : RowDone(s)
  BY <1>0, <1>1, <1>2, AttemptPlain
<1>3. local = [local EXCEPT ![r] = local[r]] /\ row = [row EXCEPT ![r] = row[r]]
  BY <1>0
<1>4. /\ "settle" \in Starting \cup {"settle"} /\ "load" \in Starting \cup {"settle"}
      /\ "setup" \in Starting \cup {"settle"} /\ "ready" \in Starting \cup {"settle"}
      /\ "running" \in Starting \cup {"settle"}
      /\ "preparing" \in ActiveStates /\ "running" \in ActiveStates
  BY DEF Starting, ActiveStates
<1>. HIDE DEF at
<1>5. CASE RunEntry(r)
  <2>. DEFINE q == [row[r] EXCEPT !.state = "preparing"]
              l == [NoLocal EXCEPT !.fsm = (r \in immune)]
  <2>0. PICK where \in {"settle", "load"} : pc' = [pc EXCEPT ![Attempt(r)] = where]
    BY <1>5 DEF RunEntry, Goto
  <2>1. /\ q.state = "preparing" /\ q.reason = row[r].reason /\ q.why = row[r].why
        /\ l.next = "none" /\ ~l.ran
        /\ row' = [row EXCEPT ![r] = q] /\ local' = [local EXCEPT ![r] = l]
    BY <1>0, <1>5 DEF RunEntry, Row, NoLocal
  <2>. HIDE DEF q, l
  <2>. QED  BY <1>0, <1>2, <1>4, <2>0, <2>1 DEF AttemptFrame
<1>6. CASE RunPreparationFails(r)
  <2>1. PICK o \in {"transient", "failed"} : local' = [local EXCEPT ![r].outcome = o]
    BY <1>6 DEF RunPreparationFails
  <2>. DEFINE l == [local[r] EXCEPT !.outcome = o]
  <2>2. /\ l.next = "none" /\ local' = [local EXCEPT ![r] = l] /\ row' = row
        /\ pc' = [pc EXCEPT ![Attempt(r)] = "settle"] /\ at # "entry"
    BY <1>0, <1>1, <1>6, <2>1 DEF RunPreparationFails, Goto, Local, at
  <2>. HIDE DEF l
  <2>. QED  BY <1>0, <1>1, <1>2, <1>3, <1>4, <2>2 DEF AttemptFrame
<1>7. CASE RunLoad(r)
  <2>. DEFINE q == [row[r] EXCEPT !.stamp = "entered"]
              l == [local[r] EXCEPT !.fsm = @ \/ IsRaw(issueOf[r])]
  <2>0. at = "load" /\ pc' = [pc EXCEPT ![Attempt(r)] = "setup"]
    BY <1>7 DEF RunLoad, Goto, at
  <2>1. /\ q.state = row[r].state /\ q.reason = row[r].reason /\ q.why = row[r].why
        /\ l.next = "none" /\ ~l.ran
        /\ row' = [row EXCEPT ![r] = q] /\ local' = [local EXCEPT ![r] = l]
    BY <1>0, <1>1, <1>7, <2>0 DEF RunLoad, Row, Local
  <2>. HIDE DEF q, l
  <2>. QED  BY <1>0, <1>1, <1>2, <1>4, <2>0, <2>1 DEF AttemptFrame
<1>8. CASE RunSetup(r)
  <2>. DEFINE q == [row[r] EXCEPT !.state = "running"]
              l == [local[r] EXCEPT !.ran = TRUE]
  <2>0. at = "setup" /\ pc' = [pc EXCEPT ![Attempt(r)] = "ready"]
    BY <1>8 DEF RunSetup, Goto, at
  <2>1. /\ q.state = "running" /\ q.reason = row[r].reason /\ q.why = row[r].why
        /\ l.next = "none"
        /\ row' = [row EXCEPT ![r] = q] /\ local' = [local EXCEPT ![r] = l]
    BY <1>0, <1>1, <1>8, <2>0 DEF RunSetup, Row, Local
  <2>. HIDE DEF q, l
  <2>. QED  BY <1>0, <1>2, <1>4, <2>0, <2>1 DEF AttemptFrame
<1>9. CASE RunStart(r)
  <2>1. PICK where \in {"settle", "running"} : pc' = [pc EXCEPT ![Attempt(r)] = where]
    BY <1>9 DEF RunStart, Goto
  <2>2. at = "ready" /\ row' = row /\ local' = local
    BY <1>9 DEF RunStart, at
  <2>. QED  BY <1>0, <1>1, <1>2, <1>3, <1>4, <2>1, <2>2 DEF AttemptFrame
<1>10. CASE ProviderExit(r)
  <2>1. PICK o : local' = [local EXCEPT ![r].outcome = o]
    BY <1>10 DEF ProviderExit
  <2>. DEFINE l == [local[r] EXCEPT !.outcome = o]
  <2>2. /\ l.next = "none" /\ local' = [local EXCEPT ![r] = l] /\ row' = row
        /\ pc' = [pc EXCEPT ![Attempt(r)] = "settle"] /\ at # "entry"
    BY <1>0, <1>1, <1>10, <2>1 DEF ProviderExit, Goto, Local, at
  <2>. HIDE DEF l
  <2>. QED  BY <1>0, <1>1, <1>2, <1>3, <1>4, <2>2 DEF AttemptFrame
<1>11. CASE RunParks(r) /\ pc' = [pc EXCEPT ![Attempt(r)] = "settle"]
  <2>. DEFINE entered == [row[r] EXCEPT !.stamp = "entered"]
              parked == [entered EXCEPT !.state = "waiting"]
              l == [local[r] EXCEPT !.outcome = "failed"]
  <2>0. at = "load" /\ IsRaw(issueOf[r]) /\ ~Goto(Attempt(r), "idle")
    <3>1. pc'[Attempt(r)] = "settle"
      BY <1>11, ThreadNames DEF TypeInv, TypeOK, ControlOK
    <3>2. ~Goto(Attempt(r), "idle")
      BY <3>1, ThreadNames DEF Goto, TypeInv, TypeOK, ControlOK
    <3>. QED  BY <1>11, <3>2 DEF RunParks, at
  <2>1. /\ entered.state = row[r].state /\ entered.reason = row[r].reason
        /\ entered.why = row[r].why /\ entered \in Row
    BY <1>0 DEF Row
  <2>2. /\ parked.reason = row[r].reason /\ parked.why = row[r].why
    <3>. HIDE DEF entered
    <3>. QED  BY <2>1 DEF Row
  <2>3. l.next = "none" /\ ~l.ran /\ l.outcome = "failed"
    BY <1>0, <1>1, <2>0 DEF Local
  <2>4. \/ row' = [row EXCEPT ![r] = entered] /\ local' = local
        \/ row' = [row EXCEPT ![r] = parked] /\ local' = [local EXCEPT ![r] = l]
    BY <1>0, <1>11, <2>0 DEF RunParks
  <2>5. AttemptFrame(r, "settle")
    BY <1>0, <1>11 DEF AttemptFrame
  <2>. HIDE DEF entered, parked, l
  <2>6. CASE row' = [row EXCEPT ![r] = entered] /\ local' = local
    BY <1>0, <1>1, <1>2, <1>3, <1>4, <2>0, <2>1, <2>5, <2>6
  <2>7. CASE row' = [row EXCEPT ![r] = parked] /\ local' = [local EXCEPT ![r] = l]
    <3>1. Lost(r)'
      <4>1. local'[r] = l /\ pc'[Attempt(r)] = "settle" /\ issueOf' = issueOf
        BY <1>0, <1>11, <2>7, ThreadNames DEF TypeInv, TypeOK, ControlOK
      <4>. QED  BY <2>0, <2>3, <4>1 DEF Lost, IsRaw
    <3>. QED  BY <1>2, <1>4, <2>2, <2>3, <2>5, <2>7, <3>1
  <2>. QED  BY <2>4, <2>6, <2>7
<1>. QED  BY <1>5, <1>6, <1>7, <1>8, <1>9, <1>10, <1>11

\* An attempt is over, and may have armed what comes next.
LEMMA AttemptLeaves ==
  ASSUME TypeInv, RowsInv, NEW r \in Runs, RowFits(r), pc[Attempt(r)] # "idle",
         ~WorkAhead(r), ~Evaluating(r), AttemptMoves(r, "idle"), TickPasses(r),
         r \notin inflight', r \in Rows', stopping' = stopping, resuming' = resuming,
         \/ row'[r].reason = row[r].reason
         \/ stopping /\ row'[r].reason = "daemon_shutdown",
         \/ ArmsNone(r)
         \/ /\ ~stopping /\ row'[r].state # "waiting"
            /\ \E j \in Issues, k \in {"advance", "retry", "continuation"} :
                 /\ \A i \in Issues : ArmedFor(i, r)' => i = j /\ sched'[i].kind = k
                 /\ k = "retry" => row'[r].state \in {"failed", "stale"},
         RowSticks(r)
  PROVE  RowDone(r)
<1>. USE DEF AttemptMoves
<1>1. /\ r \in Rows
      /\ stopping \/ row[r].reason # "daemon_shutdown"
      /\ ToResume(r) => row[r].reason = "daemon_shutdown" /\ stopping
  BY AttemptStands
<1>2. /\ ~Fired(r)' /\ ~Evaluating(r)' /\ (ToResume(r)' => ToResume(r))
      /\ (ArmsNone(r) => \A i \in Issues : ~ArmedFor(i, r)')
  BY DEF WorkAhead, Fired, Evaluating, TickPasses, ArmsNone
<1>3. \A i \in Issues : ArmedFor(i, r)' =>
        /\ \A j \in Issues : ArmedFor(j, r)' => j = i
        /\ sched'[i].kind = "retry" => row'[r].state \in {"failed", "stale"}
        /\ sched'[i].kind # "resume" /\ ~stopping /\ row'[r].state # "waiting"
  BY <1>2
<1>4. TimerFits(r)'
  BY <1>2, <1>3 DEF TimerFits, WorkAhead
<1>5. AttemptFits(r)' /\ SlotFits(r)' /\ WaitFits(r)'
  BY <1>2 DEF AttemptFits, AttemptPCs, Starting, SlotFits, WaitFits
<1>6. KilledRests(r)'
  BY <1>1, <1>2, <1>3 DEF KilledRests
<1>. QED  BY <1>4, <1>5, <1>6 DEF RowDone, RowFits

\* The attempt of a row ends as its walk parks.
LEMMA RunParksDone ==
  ASSUME TypeInv, RowsInv, \A s \in Runs : RowFits(s), NEW r \in Runs, RunParks(r)
  PROVE  \A s \in Runs : RowDone(s)
<1>. DEFINE entered == [row[r] EXCEPT !.stamp = "entered"]
            parked == [entered EXCEPT !.state = "waiting"]
<1>0. /\ row \in [Runs -> Row] /\ row[r] \in Row /\ pc[Attempt(r)] = "load" /\ ~Lost(r)
      /\ UNCHANGED <<issueOf, nrows, work, todo, stopping, resuming>>
      /\ local \in [Runs -> Local] /\ latch \in [Runs -> Reasons] /\ inflight \in SUBSET Runs
      /\ issueOf[r] \in Issues
      /\ Attempt(r) \in Threads /\ Attempt(r) # Tick
  BY SameTable, ThreadNames, ThreadsDiffer
  DEF RunParks, Lost, TypeInv, TypeOK, ControlOK, RegistryOK, StoreOK
<1>1. CASE pc' = [pc EXCEPT ![Attempt(r)] = "settle"]
  BY <1>1, AttemptRunsDone
<1>2. CASE /\ latch[r] = "none" /\ row' = [row EXCEPT ![r] = Settled(parked)]
           /\ ScheduleWait(issueOf[r], r) /\ LeaveRegistry(r)
           /\ local' = [local EXCEPT ![r] = NoLocal]
           /\ Goto(Attempt(r), "idle")
  <2>1. \A s \in Runs : ArmsNone(s)
    BY <1>0, <1>2, ScheduleWaitArms
  <2>2. /\ \A s \in Runs : s # r => SameThreads(s)
        /\ AttemptMoves(r, "idle") /\ pc'[Tick] = pc[Tick]
    BY <1>0, <1>2, OneMoves, ThreadsDiffer DEF Goto
  <2>3. (\A s \in Runs : TickPasses(s)) /\ Rows' = Rows
    BY <1>0, <2>2, TickElsewhere DEF Rows
  <2>4. /\ \A s \in Runs : s # r => /\ row'[s] = row[s] /\ local'[s] = local[s]
                                    /\ latch'[s] = latch[s]
                                    /\ s \in inflight' <=> s \in inflight
        /\ r \notin inflight' /\ row'[r] = Settled(parked)
    BY <1>0, <1>2 DEF LeaveRegistry
  <2>5. row'[r].reason = row[r].reason
    <3>1. entered \in Row /\ entered.reason = row[r].reason
      BY <1>0 DEF Row
    <3>2. parked \in Row /\ parked.reason = entered.reason
      <4>. HIDE DEF entered
      <4>. QED  BY <3>1 DEF Row, RowStates
    <3>. HIDE DEF entered, parked
    <3>3. Settled(parked).reason = parked.reason
      BY <3>2 DEF Settled, Row
    <3>. QED  BY <2>4, <3>1, <3>2, <3>3
  <2>6. ~WorkAhead(r) /\ ~Evaluating(r) /\ r \in Rows
    BY <1>0, AttemptStands
  <2>7. RowSticks(r)
    BY <1>0, <1>2, <2>5 DEF RowSticks, RowFits, AttemptFits, ActiveStates
  <2>8. RowDone(r)
    BY <1>0, <2>1, <2>2, <2>3, <2>4, <2>5, <2>6, <2>7, AttemptLeaves
  <2>9. ASSUME NEW s \in Runs, s # r PROVE RowDone(s)
    BY <1>0, <2>1, <2>2, <2>3, <2>4, <2>9, OthersAlone
  <2>. QED  BY <2>8, <2>9
<1>. QED  BY <1>1, <1>2 DEF RunParks, Goto

LEMMA RunSettleDone ==
  ASSUME TypeInv, RowsInv, \A s \in Runs : RowFits(s), NEW r \in Runs, RunSettle(r)
  PROVE  \A s \in Runs : RowDone(s)
<1>0. /\ row \in [Runs -> Row] /\ row[r] \in Row /\ pc[Attempt(r)] = "settle"
      /\ UNCHANGED <<issueOf, nrows, work, todo, stopping, resuming, sched>>
      /\ local \in [Runs -> Local] /\ local[r] \in Local
      /\ latch \in [Runs -> Reasons] /\ inflight \in SUBSET Runs
      /\ row' = [row EXCEPT ![r] = Settled(@)] /\ LeaveRegistry(r)
  BY SameTable DEF RunSettle, TypeInv, TypeOK, ControlOK, RegistryOK, StoreOK
<1>1. PICK where \in {"idle", "classify"} :
        /\ pc' = [pc EXCEPT ![Attempt(r)] = where]
        /\ where = "idle" => Preserved(row[r]) /\ local' = [local EXCEPT ![r] = NoLocal]
        /\ where = "classify" => ~Preserved(row[r])
                                 /\ local' = [local EXCEPT ![r].cancel = latch[r]]
  BY DEF RunSettle, Goto
<1>2. AttemptFrame(r, where) /\ pc'[Attempt(r)] = where /\ pc'[Timer(r)] = pc[Timer(r)]
  <2>1. AttemptFrame(r, where)
    BY <1>0, <1>1 DEF AttemptFrame
  <2>2. AttemptMoves(r, where)
    BY <1>0, <1>1, OneMoves, ThreadNames
  <2>. QED  BY <2>1, <2>2 DEF AttemptMoves
<1>3. /\ \A s \in Runs : s # r => /\ row'[s] = row[s] /\ local'[s] = local[s]
                                  /\ latch'[s] = latch[s]
                                  /\ s \in inflight' <=> s \in inflight
      /\ r \notin inflight' /\ row'[r] = Settled(row[r])
  BY <1>0, <1>1 DEF LeaveRegistry
<1>4. /\ row'[r].reason = row[r].reason
      /\ row'[r].state = IF Preserved(row[r]) THEN "stale" ELSE row[r].state
  BY <1>0, <1>3, WrittenRows DEF Reasons
<1>5. where = "classify" => /\ local'[r].ran = local[r].ran
                            /\ local'[r].next = local[r].next
                            /\ local'[r].outcome = local[r].outcome
  BY <1>0, <1>1 DEF Local
<1>6. Lost(r) => Lost(r)' \/ where = "idle"
  BY <1>0, <1>1, <1>2, <1>5 DEF Lost, IsRaw
<1>7. r \in Rows /\ Rows' = Rows
  BY <1>0 DEF RowsInv, Rows
<1>8. AttemptFits(r)'
  <2>1. CASE where = "idle"
    BY <1>2, <2>1 DEF AttemptFits, AttemptPCs, Starting
  <2>2. CASE where = "classify"
    <3>1. /\ row[r].state \in ActiveStates \cup {"stale"} \/ Lost(r)
          /\ local[r].next = "none" /\ (Fired(r) => Lost(r) /\ work[Timer(r)].kind = "advance")
          /\ \A i \in Issues : ArmedFor(i, r) => Lost(r) /\ sched[i].kind = "advance"
      BY <1>0 DEF RowFits, AttemptFits
    <3>2. (Fired(r)' <=> Fired(r)) /\ \A i \in Issues : ArmedFor(i, r)' <=> ArmedFor(i, r)
      BY <1>0, <1>2 DEF Fired, ArmedFor
    <3>. QED  BY <1>0, <1>1, <1>2, <1>4, <1>5, <1>6, <2>2, <3>1, <3>2
         DEF AttemptFits, AttemptPCs, Starting
  <2>. QED  BY <1>1, <2>1, <2>2
<1>9. SlotFits(r)'
  BY <1>3 DEF SlotFits
<1>10. RowSticks(r)
  <2>1. ~FailedPark(r) => row[r].state \in ActiveStates \cup {"stale"}
    BY <1>0 DEF RowFits, AttemptFits, Lost, FailedPark
  <2>2. r \in inflight /\ ~FailedPark(r) /\ latch[r] = "watchdog" /\ row[r].reason = "none"
          => Preserved(row[r])
    BY DEF RowFits, SlotFits, Preserved
  <2>. QED  BY <1>4, <2>1, <2>2 DEF RowSticks, ActiveStates
<1>11. RowDone(r)
  <2>1. WorkAhead(r) => row[r].state # "waiting"
    BY DEF RowFits, TimerFits
  <2>2. Evaluating(r) => row[r].state \in {"waiting", "stale"}
    BY DEF RowFits, WaitFits
  <2>. QED  BY <1>0, <1>2, <1>4, <1>6, <1>7, <1>8, <1>9, <1>10, <2>1, <2>2, AttemptOwn
<1>12. ASSUME NEW s \in Runs, s # r PROVE RowDone(s)
  BY <1>0, <1>2, <1>3, <1>7, <1>12, AttemptOthers
<1>. QED  BY <1>11, <1>12

\* An attempt that is past its slot, and whose row keeps its reason.
LEMMA AttemptClosing ==
  ASSUME TypeInv, RowsInv, NEW r \in Runs, RowFits(r),
         pc[Attempt(r)] \in {"classify", "termq", "labels"},
         NEW where \in {"termq", "labels", "next"}, AttemptFrame(r, where),
         r \in Rows', issueOf'[r] = issueOf[r], row'[r].reason = row[r].reason,
         UNCHANGED <<inflight, latch>>,
         WorkAhead(r) => row'[r].state # "waiting",
         Evaluating(r) => row'[r].state = row[r].state,
         local'[r].ran = local[r].ran,
         Lost(r) => local'[r].next = "none" /\ local'[r].outcome \in {"failed", "cancelled"},
         where = "termq" => row'[r].state = row[r].state /\ pc[Attempt(r)] = "classify",
         where \in {"labels", "next"}
           => /\ row'[r].state \notin ActiveStates \cup {"waiting"}
              /\ local'[r].outcome = "transient" => row'[r].state = "failed",
         \/ row'[r].state = row[r].state
         \/ pc[Attempt(r)] = "termq"
  PROVE  RowDone(r)
<1>1. pc'[Attempt(r)] = where /\ pc'[Timer(r)] = pc[Timer(r)]
  <2>1. AttemptMoves(r, where)
    BY OneMoves, ThreadNames DEF AttemptFrame
  <2>. QED  BY <2>1 DEF AttemptMoves
<1>2. Lost(r) => Lost(r)'
  BY <1>1 DEF Lost, IsRaw
<1>3. AttemptFits(r)'
  <2>1. /\ pc[Attempt(r)] \in {"classify", "termq"}
             => row[r].state \in ActiveStates \cup {"stale"} \/ Lost(r)
        /\ (Fired(r) => Lost(r) /\ work[Timer(r)].kind = "advance")
        /\ \A i \in Issues : ArmedFor(i, r) => Lost(r) /\ sched[i].kind = "advance"
    BY DEF RowFits, AttemptFits
  <2>2. (Fired(r)' <=> Fired(r)) /\ \A i \in Issues : ArmedFor(i, r)' <=> ArmedFor(i, r)
    BY <1>1 DEF Fired, ArmedFor, AttemptFrame
  <2>. QED  BY <1>1, <1>2, <2>1, <2>2
       DEF AttemptFrame, AttemptFits, AttemptPCs, Starting
<1>4. SlotFits(r)'
  BY DEF SlotFits, RowFits, Starting
<1>5. RowSticks(r)
  <2>1. pc[Attempt(r)] = "termq" /\ ~FailedPark(r) => row[r].state \in ActiveStates \cup {"stale"}
    BY DEF RowFits, AttemptFits, Lost, FailedPark
  <2>. QED  BY <2>1 DEF RowSticks, ActiveStates
<1>6. Evaluating(r) => row[r].state \in {"waiting", "stale"}
  BY DEF RowFits, WaitFits
<1>. QED  BY <1>2, <1>3, <1>4, <1>5, <1>6, AttemptOwn

LEMMA RunTerminalLabelsDone ==
  ASSUME TypeInv, RowsInv, \A s \in Runs : RowFits(s), NEW r \in Runs,
         RunTerminal(r) \/ RunLabels(r)
  PROVE  \A s \in Runs : RowDone(s)
<1>. DEFINE where == IF pc[Attempt(r)] = "termq" THEN "labels" ELSE "next"
<1>0. /\ row \in [Runs -> Row] /\ row[r] \in Row /\ local[r] \in Local
      /\ UNCHANGED <<issueOf, nrows, inflight, latch, work, todo, stopping, resuming, sched,
                     local>>
      /\ pc[Attempt(r)] \in {"termq", "labels"}
      /\ pc' = [pc EXCEPT ![Attempt(r)] = where]
      /\ row' = IF pc[Attempt(r)] = "termq"
                THEN [row EXCEPT ![r].state = RunState(local[r].outcome)] ELSE row
  BY SameTable DEF RunTerminal, RunLabels, Goto, TypeInv, TypeOK, ControlOK
<1>1. where \in {"labels", "next"}
  OBVIOUS
<1>. HIDE DEF where
<1>2. AttemptFrame(r, where) /\ r \in Rows /\ Rows' = Rows
      /\ \A s \in Runs : s # r => row'[s] = row[s]
  BY <1>0 DEF AttemptFrame, RowsInv, Rows
<1>3. RunState(local[r].outcome) \notin ActiveStates \cup {"waiting"}
      /\ (local[r].outcome = "transient" => RunState(local[r].outcome) = "failed")
  BY <1>0 DEF RunState, Local, Outcomes, ActiveStates
<1>4. /\ row'[r].reason = row[r].reason
      /\ row'[r].state \notin ActiveStates \cup {"waiting"}
      /\ local[r].outcome = "transient" => row'[r].state = "failed"
      /\ row'[r].state = row[r].state \/ pc[Attempt(r)] = "termq"
  <2>1. CASE pc[Attempt(r)] = "termq"
    BY <1>0, <1>3, <2>1 DEF Row
  <2>2. CASE pc[Attempt(r)] = "labels"
    BY <1>0, <2>2 DEF RowFits, AttemptFits
  <2>. QED  BY <1>0, <2>1, <2>2
<1>5. Evaluating(r) => row'[r].state = row[r].state
  <2>1. pc[Attempt(r)] = "termq" => ~Evaluating(r)
    <3>. SUFFICES ASSUME pc[Attempt(r)] = "termq" PROVE ~Evaluating(r)
      OBVIOUS
    <3>1. CASE RunLabels(r)
      BY <3>1 DEF RunLabels
    <3>2. CASE RunTerminal(r)
      <4>1. Holds(Attempt(r)) /\ Attempt(r) \in Threads
        BY <3>2, ThreadNames DEF RunTerminal
      <4>. QED  BY <4>1, OnlyHolder, ThreadNames, ThreadsDiffer DEF Evaluating, Inside
    <3>. QED  BY <3>1, <3>2
  <2>. QED  BY <1>4, <2>1
<1>6. Lost(r) => local'[r].next = "none" /\ local'[r].outcome \in {"failed", "cancelled"}
  BY <1>0 DEF Lost
<1>7. RowDone(r)
  BY <1>0, <1>1, <1>2, <1>4, <1>5, <1>6, AttemptClosing
<1>8. ASSUME NEW s \in Runs, s # r PROVE RowDone(s)
  BY <1>0, <1>2, <1>8, AttemptOthers
<1>. QED  BY <1>7, <1>8

LEMMA RunClassifyDone ==
  ASSUME TypeInv, RowsInv, \A s \in Runs : RowFits(s), NEW r \in Runs, RunClassify(r)
  PROVE  \A s \in Runs : RowDone(s)
<1>. DEFINE i == issueOf[r]
            o == Classified(r)
<1>0. /\ row \in [Runs -> Row] /\ row[r] \in Row /\ local[r] \in Local /\ nrows \in Nat
      /\ local \in [Runs -> Local] /\ issueOf \in [Runs -> Issues] /\ i \in Issues
      /\ UNCHANGED <<inflight, latch, work, todo, stopping, resuming, sched>>
      /\ pc[Attempt(r)] = "classify" /\ pc' = [pc EXCEPT ![Attempt(r)] = "termq"]
  BY SameTable DEF RunClassify, Goto, TypeInv, TypeOK, ControlOK, StoreOK
<1>1. PICK d \in WorkflowDecisions(r, o) : \E e \in Fused(o, d) :
       LET stamp == CASE d \in {"advance", "park"} -> "forward"
                      [] d = "terminal" -> "none"
                      [] ~IsRaw(i) /\ o = "success" -> "none"
                      [] OTHER -> row[r].stamp
           q == [row[r] EXCEPT !.stamp = stamp, !.why = e]
       IN
       \/ /\ d # "park"
          /\ row' = [row EXCEPT ![r] = q]
          /\ local' = [local EXCEPT ![r].outcome = e, ![r].next = d]
          /\ UNCHANGED <<issueOf, nrows>>
       \/ /\ d = "park" /\ ~StoreFull
          /\ nrows' = nrows + 1
          /\ issueOf' = [issueOf EXCEPT ![nrows + 1] = i]
          /\ row' = [row EXCEPT ![r] = q, ![nrows + 1] = WaitingRow]
          /\ local' = [local EXCEPT ![r].outcome = e, ![r].next = d,
                                    ![r].child = nrows + 1]
  BY DEF RunClassify
<1>2. PICK e \in Fused(o, d) : \E stamp :
       LET q == [row[r] EXCEPT !.stamp = stamp, !.why = e]
       IN
       \/ /\ row' = [row EXCEPT ![r] = q]
          /\ local' = [local EXCEPT ![r].outcome = e, ![r].next = d]
          /\ UNCHANGED <<issueOf, nrows>>
       \/ /\ ~StoreFull
          /\ nrows' = nrows + 1
          /\ issueOf' = [issueOf EXCEPT ![nrows + 1] = i]
          /\ row' = [row EXCEPT ![r] = q, ![nrows + 1] = WaitingRow]
          /\ local' = [local EXCEPT ![r].outcome = e, ![r].next = d,
                                    ![r].child = nrows + 1]
  BY <1>1
<1>3. PICK stamp :
       LET q == [row[r] EXCEPT !.stamp = stamp, !.why = e]
       IN
       \/ /\ row' = [row EXCEPT ![r] = q]
          /\ local' = [local EXCEPT ![r].outcome = e, ![r].next = d]
          /\ UNCHANGED <<issueOf, nrows>>
       \/ /\ ~StoreFull
          /\ nrows' = nrows + 1
          /\ issueOf' = [issueOf EXCEPT ![nrows + 1] = i]
          /\ row' = [row EXCEPT ![r] = q, ![nrows + 1] = WaitingRow]
          /\ local' = [local EXCEPT ![r].outcome = e, ![r].next = d,
                                    ![r].child = nrows + 1]
  BY <1>2
<1>. DEFINE q == [row[r] EXCEPT !.stamp = stamp, !.why = e]
<1>4. q.state = row[r].state /\ q.reason = row[r].reason
  BY <1>0 DEF Row
<1>5. Lost(r) => d = "none" /\ e \in {"failed", "cancelled"}
  BY DEF Lost, WorkflowDecisions, Fused, Classified
<1>. HIDE DEF q, o
<1>6. /\ AttemptFrame(r, "termq") /\ r \in Rows
      /\ \A s \in Runs : s # r => local'[s] = local[s]
      /\ local'[r].ran = local[r].ran /\ local'[r].next = d /\ local'[r].outcome = e
  BY <1>0, <1>3 DEF AttemptFrame, RowsInv, Local
<1>7. ASSUME row'[r] = q, r \in Rows', issueOf'[r] = issueOf[r]
      PROVE  RowDone(r)
  <2>1. WorkAhead(r) => row[r].state # "waiting"
    BY DEF RowFits, TimerFits
  <2>. QED  BY <1>0, <1>4, <1>5, <1>6, <1>7, <2>1, AttemptClosing
<1>8. CASE row' = [row EXCEPT ![r] = q] /\ UNCHANGED <<issueOf, nrows>>
  <2>1. Rows' = Rows /\ row'[r] = q /\ \A s \in Runs : s # r => row'[s] = row[s]
    BY <1>0, <1>8 DEF Rows
  <2>2. RowDone(r)
    BY <1>6, <1>7, <1>8, <2>1
  <2>3. ASSUME NEW s \in Runs, s # r PROVE RowDone(s)
    BY <1>0, <1>6, <1>8, <2>1, <2>3, AttemptOthers
  <2>. QED  BY <2>2, <2>3
<1>9. CASE /\ ~StoreFull /\ nrows' = nrows + 1
           /\ issueOf' = [issueOf EXCEPT ![nrows + 1] = i]
           /\ row' = [row EXCEPT ![r] = q, ![nrows + 1] = WaitingRow]
  <2>. PICK new \in Runs : new = nrows + 1
    BY <1>0, <1>9, BoundsAssumption DEF StoreFull, Runs
  <2>1. new \notin Rows /\ Rows \subseteq Rows' /\ new \in Rows' /\ r # new
    BY <1>0, <1>6, <1>9 DEF Rows
  <2>2. /\ \A s \in Runs : s # r /\ s # new => row'[s] = row[s]
        /\ \A s \in Runs : s # new => issueOf'[s] = issueOf[s]
        /\ row'[new] = WaitingRow /\ row'[r] = q
    BY <1>0, <1>9, <2>1
  <2>3. RowDone(r)
    BY <1>6, <1>7, <2>1, <2>2
  <2>4. RowDone(new)
    <3>1. row'[new].state = "waiting" /\ row'[new].reason = "none"
      BY <2>2 DEF WaitingRow, NoRow
    <3>2. SameThreads(new) /\ pc'[Tick] = pc[Tick]
      BY <1>0, <2>1, OneMoves, ThreadNames, ThreadsDiffer
    <3>. QED  BY <1>0, <2>1, <3>1, <3>2, NewRowDone, ArmsStay, TickElsewhere
  <2>5. ASSUME NEW s \in Runs, s # r, s # new PROVE RowDone(s)
    BY <1>0, <1>6, <2>1, <2>2, <2>5, AttemptOthers
  <2>. QED  BY <2>3, <2>4, <2>5
<1>. QED  BY <1>3, <1>8, <1>9 DEF q

\* scheduleNext, of an attempt that is over.
LEMMA RunNextDone ==
  ASSUME TypeInv, RowsInv, \A s \in Runs : RowFits(s), NEW r \in Runs, RunNext(r)
  PROVE  \A s \in Runs : RowDone(s)
<1>. DEFINE i == issueOf[r]
<1>0. /\ row \in [Runs -> Row] /\ row[r] \in Row /\ local[r] \in Local /\ nrows \in Nat
      /\ local \in [Runs -> Local] /\ issueOf \in [Runs -> Issues] /\ i \in Issues
      /\ UNCHANGED <<inflight, latch, work, todo, stopping, resuming>>
      /\ pc[Attempt(r)] = "next" /\ pc' = [pc EXCEPT ![Attempt(r)] = "idle"]
      /\ \A s \in Runs : s # r => local'[s] = local[s]
      /\ Attempt(r) \in Threads /\ Attempt(r) # Tick
  BY SameTable, ThreadNames, ThreadsDiffer
  DEF RunNext, Goto, TypeInv, TypeOK, ControlOK, StoreOK
<1>1. /\ \A s \in Runs : s # r => SameThreads(s)
      /\ AttemptMoves(r, "idle") /\ pc'[Tick] = pc[Tick]
  BY <1>0, OneMoves, ThreadsDiffer
<1>2. \A s \in Runs : TickPasses(s)
  BY <1>0, <1>1, TickElsewhere
<1>3. /\ r \in Rows /\ r \notin inflight /\ ~Evaluating(r)
      /\ row[r].state \notin ActiveStates \cup {"waiting"}
      /\ local[r].outcome = "transient" => row[r].state = "failed"
      /\ stopping \/ row[r].reason # "daemon_shutdown"
      /\ ~Lost(r) => ~WorkAhead(r)
  <2>1. Holds(Attempt(r))
    BY <1>0 DEF TypeInv, CriticalSections, Inside
  <2>2. ~Evaluating(r)
    BY <1>0, <2>1, OnlyHolder, ThreadNames, ThreadsDiffer DEF Evaluating, Inside
  <2>3. r \notin inflight
    BY <1>0 DEF RowFits, SlotFits, Starting
  <2>. QED  BY <1>0, <2>2, <2>3, AttemptStands DEF RowFits, AttemptFits
\* The rows that the attempt is not about, when none of them is written.
<1>4. ASSUME Rows \subseteq Rows', NEW s \in Runs, s # r,
             row'[s] = row[s], issueOf'[s] = issueOf[s], ArmsNone(s)
      PROVE  RowDone(s)
  BY <1>0, <1>1, <1>2, <1>4, OthersAlone
\* Nothing is written or armed.
<1>5. ASSUME UNCHANGED <<row, issueOf, nrows, sched>>
      PROVE  \A s \in Runs : RowDone(s)
  <2>1. Rows' = Rows /\ \A s \in Runs : ArmsNone(s)
    BY <1>5, ArmsStay DEF Rows
  <2>2. RowDone(r)
    <3>0. TimerFits(r) /\ AttemptFits(r) /\ SlotFits(r) /\ KilledRests(r)
      BY DEF RowFits
    <3>1. /\ Fired(r)' <=> Fired(r)
          /\ WorkAhead(r)' <=> WorkAhead(r)
          /\ \A j \in Issues : ArmedFor(j, r)' <=> ArmedFor(j, r)
          /\ ~Evaluating(r)' /\ (ToResume(r)' <=> ToResume(r))
      BY <1>0, <1>1, <1>3, <1>5
      DEF Fired, WorkAhead, ArmedFor, Evaluating, ToResume, AttemptMoves, Lowest
    <3>2. TimerFits(r)'
      BY <1>0, <1>1, <1>5, <2>1, <3>0, <3>1 DEF TimerFits, AttemptMoves
    <3>3. AttemptFits(r)' /\ SlotFits(r)' /\ WaitFits(r)'
      BY <1>0, <1>1, <1>3, <3>1
      DEF AttemptMoves, AttemptFits, AttemptPCs, Starting, SlotFits, WaitFits
    <3>4. KilledRests(r)'
      BY <1>0, <1>1, <1>3, <1>5, <2>1, <3>0, <3>1 DEF KilledRests, AttemptMoves
    <3>. QED  BY <1>0, <1>5, <3>2, <3>3, <3>4 DEF RowDone, RowFits, RowSticks
  <2>. QED  BY <1>4, <1>5, <2>1, <2>2
\* The attempt's row, when it is written or something armed.
<1>6. ASSUME ~Lost(r), r \in Rows',
             \/ row'[r].state = row[r].state /\ row'[r].reason = row[r].reason
             \/ /\ stopping /\ row'[r].state = "cancelled"
                /\ row'[r].reason = "daemon_shutdown",
             \/ ArmsNone(r)
             \/ /\ ~stopping
                /\ \E j \in Issues, k \in {"advance", "retry", "continuation"} :
                     /\ \A l \in Issues : ArmedFor(l, r)' => l = j /\ sched'[l].kind = k
                     /\ k = "retry" => row[r].state = "failed"
      PROVE  RowDone(r)
  <2>1. RowSticks(r)
    BY <1>0, <1>3, <1>6 DEF RowSticks
  <2>2. \/ ArmsNone(r)
        \/ /\ ~stopping /\ row'[r].state # "waiting"
           /\ \E j \in Issues, k \in {"advance", "retry", "continuation"} :
                /\ \A l \in Issues : ArmedFor(l, r)' => l = j /\ sched'[l].kind = k
                /\ k = "retry" => row'[r].state \in {"failed", "stale"}
    BY <1>3, <1>6
  <2>. QED  BY <1>0, <1>1, <1>2, <1>3, <1>6, <2>1, <2>2, AttemptLeaves
\* Delayed work of the row is armed, or refused.
<1>7. ASSUME ~Lost(r), UNCHANGED <<issueOf, nrows>>,
             NEW accepted \in [Runs -> Row], NEW w, w.run = r, w.issue = i,
             w.kind \in {"advance", "retry", "continuation"},
             w.kind = "retry" => row[r].state = "failed",
             \A s \in Runs : s # r => accepted[s] = row[s],
             accepted[r].state = row[r].state, accepted[r].reason = row[r].reason,
             ScheduleRunWork(row, accepted, labels, w)
      PROVE  \A s \in Runs : RowDone(s)
  <2>0. Rows' = Rows /\ w.issue \in Issues
    BY <1>0, <1>7 DEF Rows
  <2>1. /\ \A s \in Runs : s # r => ArmsNone(s)
        /\ stopping => /\ ArmsNone(r) /\ \A s \in Runs : s # r => row'[s] = row[s]
                       /\ row'[r].state = "cancelled" /\ row'[r].reason = "daemon_shutdown"
        /\ ~stopping => \/ ArmsNone(r) /\ row' = row
                        \/ /\ row' = accepted
                           /\ \A l \in Issues : ArmedFor(l, r)' =>
                                \/ ArmedFor(l, r) /\ l # w.issue
                                \/ l = w.issue /\ sched'[l].kind = w.kind
    BY <1>0, <1>7, <2>0, ScheduleWrites
  <2>2. \A l \in Issues : ~ArmedFor(l, r)
    BY <1>3, <1>7 DEF WorkAhead
  <2>3. \A s \in Runs : s # r => row'[s] = row[s]
    BY <1>7, <2>1
  <2>4. RowDone(r)
    <3>1. CASE stopping
      BY <1>3, <1>6, <1>7, <2>0, <2>1, <3>1
    <3>2. CASE ~stopping
      BY <1>3, <1>6, <1>7, <2>0, <2>1, <2>2, <3>2
    <3>. QED  BY <3>1, <3>2
  <2>. QED  BY <1>4, <1>7, <2>0, <2>1, <2>3, <2>4
\* The wait of the walk's child is armed.
<1>8. ASSUME ~Lost(r), UNCHANGED <<row, issueOf, nrows>>, NEW c, ScheduleWait(i, c)
      PROVE  \A s \in Runs : RowDone(s)
  <2>1. Rows' = Rows /\ \A s \in Runs : ArmsNone(s)
    BY <1>0, <1>8, ScheduleWaitArms DEF Rows
  <2>2. RowDone(r)
    BY <1>3, <1>6, <1>8, <2>1
  <2>. QED  BY <1>4, <1>8, <2>1, <2>2
\* The cap of continuations is reached: a row is created that says so.
<1>9. ASSUME ~Lost(r), ~StoreFull, nrows' = nrows + 1, sched' = sched,
             issueOf' = [issueOf EXCEPT ![nrows + 1] = i], NEW q,
             q.state = "failed", q.reason = "none",
             row' = [row EXCEPT ![nrows + 1] = q]
      PROVE  \A s \in Runs : RowDone(s)
  <2>. PICK new \in Runs : new = nrows + 1
    BY <1>0, <1>9, BoundsAssumption DEF StoreFull, Runs
  <2>1. new \notin Rows /\ Rows \subseteq Rows' /\ new \in Rows' /\ r # new
    BY <1>0, <1>3, <1>9 DEF Rows
  <2>2. /\ \A s \in Runs : s # new => row'[s] = row[s] /\ issueOf'[s] = issueOf[s]
        /\ row'[new] = q /\ \A s \in Runs : ArmsNone(s)
    BY <1>0, <1>9, <2>1, ArmsStay
  <2>3. RowDone(r)
    BY <1>3, <1>6, <1>9, <2>1, <2>2
  <2>4. RowDone(new)
    BY <1>0, <1>1, <1>2, <1>9, <2>1, <2>2, NewRowDone
  <2>. QED  BY <1>4, <2>1, <2>2, <2>3, <2>4
<1>. DEFINE o == local[r].outcome
            d == local[r].next
<1>10. Lost(r) => d = "none" /\ o \in {"failed", "cancelled"}
  BY DEF Lost
<1>11. CASE \/ NothingMore
            \/ UNCHANGED <<storeVars, sched>>
  BY <1>5, <1>11 DEF NothingMore
<1>12. CASE o # "cancelled" /\ d = "advance" /\ NextAdvance(r)
  <2>. DEFINE w == [kind |-> "advance", issue |-> i, run |-> r]
  <2>1. CASE ScheduleRunWork(row, row, labels, w) /\ UNCHANGED <<issueOf, nrows>>
    <3>1. w.kind = "advance" /\ w.issue = i /\ w.run = r
      OBVIOUS
    <3>. HIDE DEF w
    <3>. QED  BY <1>0, <1>7, <1>10, <1>12, <2>1, <3>1
  <2>. QED  BY <1>11, <1>12, <2>1 DEF NextAdvance
<1>13. CASE /\ o # "cancelled" /\ d = "park" /\ ScheduleWait(i, local[r].child)
            /\ UNCHANGED storeVars
  BY <1>8, <1>10, <1>13
<1>14. CASE d \notin {"advance", "park"} /\ WillRetry(o, row[r]) /\ NextRetry(r)
  <2>. DEFINE w == [kind |-> "retry", issue |-> i, run |-> r]
              n == row[r].retries + 1
              accepted == [row EXCEPT ![r].retries = n]
  <2>1. w.kind = "retry" /\ w.issue = i /\ w.run = r /\ o = "transient"
    BY <1>14 DEF WillRetry
  <2>2. n \in 0 .. RetryCap
    BY <1>0, <1>14, BoundsAssumption DEF WillRetry, Row
  <2>3. ScheduleRunWork(row, accepted, labels, w) /\ UNCHANGED <<issueOf, nrows>>
    BY <1>14 DEF NextRetry
  <2>. HIDE DEF w, n
  <2>4. /\ accepted \in [Runs -> Row] /\ \A s \in Runs : s # r => accepted[s] = row[s]
        /\ accepted[r].state = row[r].state /\ accepted[r].reason = row[r].reason
    BY <1>0, <2>2 DEF Row
  <2>. HIDE DEF accepted
  <2>. QED  BY <1>3, <1>7, <1>10, <2>1, <2>3, <2>4
<1>15. CASE d \notin {"advance", "park"} /\ o = "success" /\ NextContinuation(r)
  <2>. DEFINE w == [kind |-> "continuation", issue |-> i, run |-> r]
              q == [NoRow EXCEPT !.state = "failed", !.cont = TRUE, !.why = "failed"]
  <2>1. CASE ScheduleRunWork(row, row, labels, w) /\ UNCHANGED <<issueOf, nrows>>
    <3>1. w.kind = "continuation" /\ w.issue = i /\ w.run = r
      OBVIOUS
    <3>. HIDE DEF w
    <3>. QED  BY <1>0, <1>7, <1>10, <1>15, <2>1, <3>1
  <2>2. CASE /\ ~StoreFull /\ nrows' = nrows + 1 /\ sched' = sched
             /\ issueOf' = [issueOf EXCEPT ![nrows + 1] = i]
             /\ row' = [row EXCEPT ![nrows + 1] = q]
    <3>1. q.state = "failed" /\ q.reason = "none"
      BY DEF NoRow
    <3>. HIDE DEF q
    <3>. QED  BY <1>9, <1>10, <1>15, <2>2, <3>1
  <2>. QED  BY <1>11, <1>15, <2>1, <2>2 DEF NextContinuation
<1>. QED  BY <1>11, <1>12, <1>13, <1>14, <1>15 DEF RunNext

LEMMA AttemptStepDone ==
  ASSUME TypeInv, RowsInv, \A s \in Runs : RowFits(s), NEW r \in Runs, AttemptStep(r)
  PROVE  \A s \in Runs : RowDone(s)
BY AttemptRunsDone, RunParksDone, RunSettleDone, RunClassifyDone, RunTerminalLabelsDone,
   RunNextDone DEF AttemptStep

LEMMA TimerStepDone ==
  ASSUME TypeInv, RowsInv, \A s \in Runs : RowFits(s), NEW r \in Runs, TimerStep(r)
  PROVE  \A s \in Runs : RowDone(s)
BY TimerDropsDone, TimerAdmittedDone, RetryGateDone, RetryCheckDone, RetryLabelDone,
   WaitStepDone DEF TimerStep

LEMMA ClaimStepDone ==
  ASSUME TypeInv, RowsInv, \A s \in Runs : RowFits(s), NEW t \in Claimants, ClaimStep(t)
  PROVE  \A s \in Runs : RowDone(s)
BY ClaimGateCheckDone, ClaimPersistDone, ClaimFailsDone DEF ClaimStep

-----------------------------------------------------------------------------
(* Rows that others write: a cancel that is requested, a deadline, a stop. *)

\* No thread of a row moves; the tick may, and nothing is armed.
RowAside(s) ==
  /\ SameThreads(s) /\ ArmsNone(s) /\ TickTurns(s)
  /\ UNCHANGED <<local, inflight, resuming, stopping, issueOf, nrows>>

\* What stays true of a row that nothing but its reason changes.
ReasonGiven(s) ==
  /\ row'[s].state = row[s].state /\ row'[s].why = row[s].why
  /\ \/ row'[s].reason = row[s].reason /\ latch'[s] = latch[s]
     \/ /\ row'[s].reason # "none"
        /\ row'[s].reason = "daemon_shutdown" <=> row[s].reason = "daemon_shutdown"

\* A row whose reason alone is written, before or after its attempt ended.
LEMMA ReasonDone ==
  ASSUME NEW s \in Runs, RowFits(s), RowAside(s), ReasonGiven(s)
  PROVE  RowDone(s)
<1>. USE DEF RowAside, SameThreads, ReasonGiven
<1>0. TimerFits(s) /\ AttemptFits(s) /\ SlotFits(s) /\ WaitFits(s) /\ KilledRests(s)
      /\ Rows' = Rows
  BY DEF RowFits, Rows
<1>1. /\ Fired(s)' <=> Fired(s)
      /\ WorkAhead(s)' => WorkAhead(s)
      /\ Lost(s)' <=> Lost(s)
      /\ FailedPark(s)' <=> FailedPark(s)
      /\ Evaluating(s)' => Evaluating(s)
      /\ \A i \in Issues : ArmedFor(i, s)' => ArmedFor(i, s) /\ sched'[i] = sched[i]
  BY DEF Fired, WorkAhead, Lost, FailedPark, IsRaw, Evaluating, ArmsNone, TickTurns
<1>2. TimerFits(s)'
  <2>1. Fired(s)' => \A i \in Issues : ~ArmedFor(i, s)'
    BY <1>0, <1>1 DEF TimerFits
  <2>2. ASSUME NEW i \in Issues, ArmedFor(i, s)'
        PROVE  /\ \A j \in Issues : ArmedFor(j, s)' => j = i
               /\ sched'[i].kind = "retry" => row'[s].state \in {"failed", "stale"}
               /\ sched'[i].kind = "resume" => s \in resuming
    BY <1>0, <1>1, <2>2 DEF TimerFits
  <2>. QED  BY <1>0, <1>1, <2>1, <2>2 DEF TimerFits
<1>3. AttemptFits(s)'
  <2>1. pc[Attempt(s)] # "idle" => \A i \in Issues :
          ArmedFor(i, s)' => Lost(s) /\ sched'[i].kind = "advance"
    BY <1>0, <1>1 DEF AttemptFits
  <2>. QED  BY <1>0, <1>1, <2>1 DEF AttemptFits
<1>4. SlotFits(s)'
  BY <1>0, <1>1 DEF SlotFits
<1>5. WaitFits(s)'
  BY <1>0, <1>1 DEF WaitFits
<1>6. KilledRests(s)'
  <2>1. ToResume(s)' => s \in Rows /\ row'[s].reason = "daemon_shutdown"
                        /\ (~stopping => row'[s].state = "cancelled")
    BY <1>0 DEF KilledRests, TickTurns, Resumable
  <2>2. \A i \in Issues : ArmedFor(i, s)' /\ ~stopping /\ row'[s].reason = "daemon_shutdown"
          => sched'[i].kind = "resume"
    BY <1>0, <1>1 DEF KilledRests
  <2>. QED  BY <1>0, <1>1, <2>1, <2>2 DEF KilledRests
<1>. QED  BY <1>2, <1>3, <1>4, <1>5, <1>6 DEF RowDone, RowFits, RowSticks

\* A row whose deadline strikes, or which the watchdog finds silent.
LEMMA VerdictDone ==
  ASSUME NEW s \in Runs, RowFits(s), RowAside(s), TickPasses(s),
         s \in Rows, row[s].reason = "none", row'[s].reason = "none",
         row'[s].state = "stale", row'[s].why = "watchdog",
         pc[Attempt(s)] \notin {"labels", "next"},
         row[s].state \in ActiveStates \cup {"failed", "stale"} \/ FailedPark(s)
  PROVE  RowDone(s)
<1>. USE DEF RowAside, SameThreads
<1>0. TimerFits(s) /\ AttemptFits(s) /\ SlotFits(s) /\ WaitFits(s) /\ KilledRests(s)
      /\ Rows' = Rows
  BY DEF RowFits, Rows
<1>1. /\ Fired(s)' <=> Fired(s)
      /\ WorkAhead(s)' => WorkAhead(s)
      /\ Lost(s)' <=> Lost(s)
      /\ Evaluating(s)' => Evaluating(s)
      /\ \A i \in Issues : ArmedFor(i, s)' => ArmedFor(i, s) /\ sched'[i] = sched[i]
  BY DEF Fired, WorkAhead, Lost, IsRaw, Evaluating, ArmsNone, TickTurns
<1>2. TimerFits(s)'
  <2>1. Fired(s)' => \A i \in Issues : ~ArmedFor(i, s)'
    BY <1>0, <1>1 DEF TimerFits
  <2>2. ASSUME NEW i \in Issues, ArmedFor(i, s)'
        PROVE  /\ \A j \in Issues : ArmedFor(j, s)' => j = i
               /\ sched'[i].kind = "resume" => s \in resuming
    BY <1>0, <1>1, <2>2 DEF TimerFits
  <2>. QED  BY <1>0, <1>1, <2>1, <2>2 DEF TimerFits
<1>3. AttemptFits(s)'
  <2>1. pc[Attempt(s)] # "idle" => \A i \in Issues :
          ArmedFor(i, s)' => Lost(s) /\ sched'[i].kind = "advance"
    BY <1>0, <1>1 DEF AttemptFits
  <2>. QED  BY <1>0, <1>1, <2>1 DEF AttemptFits
<1>4. SlotFits(s)'
  BY <1>0 DEF SlotFits
<1>5. WaitFits(s)'
  BY <1>0, <1>1 DEF WaitFits
<1>6. KilledRests(s)'
  BY <1>0 DEF KilledRests, TickPasses
<1>. QED  BY <1>0, <1>2, <1>3, <1>4, <1>5, <1>6
     DEF RowDone, RowFits, RowSticks, ActiveStates

\* A deadline, the watchdog, the operator, the tracker.
LEMMA EnvironmentDone ==
  ASSUME TypeInv, RowsInv, \A s \in Runs : RowFits(s), Environment
  PROVE  \A s \in Runs : RowDone(s)
<1>0. /\ row \in [Runs -> Row] /\ latch \in [Runs -> Reasons] /\ inflight \in SUBSET Runs
      /\ UNCHANGED <<controlVars, sched, inflight, resuming, stopping, issueOf, nrows,
                     todo>>
  BY SameTable DEF Environment, RunTimeout, WatchdogStale, OperatorCancel, TrackerEdit,
                   TypeInv, TypeOK, RegistryOK
<1>1. \A s \in Runs : TickPasses(s) /\ RowAside(s)
  <2>1. \A s \in Runs : SameThreads(s) /\ ArmsNone(s) /\ TickPasses(s)
    BY <1>0, ArmsStay, TickElsewhere DEF SameThreads
  <2>. QED  BY <1>0, <2>1 DEF RowAside, TickPasses, TickTurns
<1>2. CASE \E i \in Issues : TrackerEdit(i)
  BY <1>1, <1>2, ReasonDone DEF TrackerEdit, ReasonGiven
<1>3. ASSUME NEW r \in Runs, RunTimeout(r) \/ WatchdogStale(r)
      PROVE  \A s \in Runs : RowDone(s)
  <2>1. /\ row' = [row EXCEPT ![r].state = "stale", ![r].why = "watchdog"]
        /\ \A s \in Runs : s # r => latch'[s] = latch[s]
        /\ row[r].reason = "none"
    BY <1>0, <1>3 DEF RunTimeout, WatchdogStale, Stalable, LatchAfter
  <2>2. /\ \A s \in Runs : s # r => row'[s] = row[s]
        /\ row'[r].state = "stale" /\ row'[r].why = "watchdog" /\ row'[r].reason = "none"
    BY <1>0, <2>1 DEF Row
  <2>3. ASSUME NEW s \in Runs, s # r PROVE RowDone(s)
    BY <1>1, <2>1, <2>2, <2>3, ReasonDone DEF ReasonGiven
  <2>4. /\ r \in Rows /\ pc[Attempt(r)] \notin {"labels", "next"}
        /\ row[r].state \in ActiveStates \cup {"failed", "stale"} \/ FailedPark(r)
    <3>1. CASE RunTimeout(r)
      <4>1. r \in inflight /\ r \in Rows
        BY <3>1 DEF RunTimeout, RowsInv
      <4>2. CASE pc[Attempt(r)] = "idle" /\ pc[Timer(r)] = "retrylabel"
        BY <4>1, <4>2, RetryStands DEF RetryPCs
      <4>3. CASE pc[Attempt(r)] \in Starting \cup {"settle"}
        BY <4>1, <4>3 DEF RowFits, AttemptFits, Starting, Lost, FailedPark
      <4>. QED  BY <4>1, <4>2, <4>3 DEF RowFits, SlotFits
    <3>2. CASE WatchdogStale(r)
      <4>1. row[r].state = "running"
        BY <3>2 DEF WatchdogStale, Stalable
      <4>. QED  BY <4>1 DEF RowFits, TimerFits, AttemptFits, ActiveStates
    <3>. QED  BY <1>3, <3>1, <3>2
  <2>5. RowDone(r)
    BY <1>1, <2>1, <2>2, <2>4, VerdictDone
  <2>. QED  BY <2>3, <2>5
<1>4. ASSUME NEW r \in Runs, OperatorCancel(r)
      PROVE  \A s \in Runs : RowDone(s)
  <2>1. /\ row' = [row EXCEPT ![r] = MarkCancelRequested(@, "operator")]
        /\ \A s \in Runs : s # r => latch'[s] = latch[s]
    BY <1>0, <1>4 DEF OperatorCancel, LatchAfter
  <2>2. /\ \A s \in Runs : s # r => row'[s] = row[s]
        /\ row'[r] = MarkCancelRequested(row[r], "operator")
    BY <1>0, <2>1
  <2>3. ReasonGiven(r)
    BY <1>0, <2>2, WrittenRows DEF ReasonGiven, Reasons
  <2>. QED  BY <1>1, <2>1, <2>2, <2>3, ReasonDone DEF ReasonGiven
<1>. QED  BY <1>2, <1>3, <1>4 DEF Environment

LEMMA RoutineDone ==
  ASSUME TypeInv, \A s \in Runs : RowFits(s), RoutineStep
  PROVE  \A s \in Runs : RowDone(s)
<1>1. /\ UNCHANGED <<controlVars, sched, inflight, resuming, stopping, issueOf, nrows,
                     todo, row, latch>>
  BY DEF RoutineStep, FireRoutine, EndRoutine
<1>2. Elsewhere
  BY <1>1 DEF Elsewhere, SameThreads
<1>. QED  BY <1>2, ElsewhereDone

-----------------------------------------------------------------------------
(* The other passes of the tick.                                           *)

LEMMA TickPassesDone ==
  ASSUME TypeInv, \A s \in Runs : RowFits(s), TickPoll \/ TickWaits \/ TickMark
  PROVE  \A s \in Runs : RowDone(s)
<1>0. UNCHANGED <<work, local, inflight, latch, resuming, stopping, issueOf, nrows, sched,
                  row>>
  BY DEF TickPoll, TickWaits, TickMark
<1>1. CASE \/ \E m, p : EnterResume(m, p)
           \/ \E p : EnterLaunch(p)
  BY <1>0, <1>1, EntersTurn, TickTurnsDone
<1>2. CASE \E where \in {"reconcile", "wait"} : pc' = [pc EXCEPT ![Tick] = where]
  <2>1. PICK where \in {"reconcile", "wait"} : pc' = [pc EXCEPT ![Tick] = where]
    BY <1>2
  <2>2. pc'[Tick] = where
    BY <2>1, ThreadNames DEF TypeInv, TypeOK, ControlOK
  <2>. QED  BY <1>0, <2>1, <2>2, TickTurnsDone DEF TickTurns, ToResume
<1>3. CASE pc' = pc /\ pc[Tick] = "mark"
  BY <1>0, <1>3, TickTurnsDone DEF TickTurns, ToResume
<1>. QED  BY <1>1, <1>2, <1>3 DEF TickPoll, TickWaits, TickMark, Goto

LEMMA TickLaunchDone ==
  ASSUME TypeInv, \A s \in Runs : RowFits(s), TickLaunch
  PROVE  \A s \in Runs : RowDone(s)
<1>0. /\ UNCHANGED <<work, local, inflight, latch, resuming, stopping, issueOf, nrows,
                     sched, row>>
      /\ Tick \in Threads /\ pc \in [Threads -> PCs]
  BY ThreadNames DEF TickLaunch, TypeInv, TypeOK, ControlOK
<1>1. CASE pc' = [pc EXCEPT ![Tick] = "idle"]
  <2>1. pc'[Tick] = "idle"
    BY <1>0, <1>1
  <2>. QED  BY <1>0, <1>1, <2>1, TickTurnsDone DEF TickTurns, ToResume
<1>2. ASSUME NEW b \in Batches, pc' = [pc EXCEPT ![Batch(b)] = "pick", ![Tick] = "idle"]
      PROVE  \A s \in Runs : RowDone(s)
  <2>1. \A u \in Threads : u # Batch(b) /\ u # Tick => pc'[u] = pc[u]
    BY <1>0, <1>2
  <2>2. \A s \in Runs : SameThreads(s)
    BY <1>0, <2>1, ThreadNames, ThreadsDiffer DEF SameThreads
  <2>3. pc'[Tick] = "idle"
    BY <1>0, <1>2
  <2>4. \A s \in Runs : TickTurns(s) /\ ArmsNone(s)
    BY <1>0, <2>3, ArmsStay DEF TickTurns, ToResume
  <2>. QED  BY <1>0, <2>2, <2>4, AloneFits DEF LeftAlone, SameThreads, Rows
<1>. QED  BY <1>1, <1>2 DEF TickLaunch, Goto

\* A reconcile asks every Run in flight that lost its eligibility to end.
LEMMA TickReconcileDone ==
  ASSUME TypeInv, \A s \in Runs : RowFits(s), TickReconcile
  PROVE  \A s \in Runs : RowDone(s)
<1>0. /\ UNCHANGED <<work, local, inflight, resuming, stopping, issueOf, nrows, sched>>
      /\ Tick \in Threads /\ pc \in [Threads -> PCs] /\ row \in [Runs -> Row]
      /\ pc' = [pc EXCEPT ![Tick] = "waits"]
  BY ThreadNames, SameTable DEF TickReconcile, TypeInv, TypeOK, ControlOK, Goto
<1>1. pc'[Tick] = "waits"
  BY <1>0
<1>2. \A s \in Runs : RowAside(s)
  <2>1. \A s \in Runs : TickTurns(s) /\ ArmsNone(s) /\ SameThreads(s)
    BY <1>0, <1>1, ArmsStay, TickMoves DEF TickTurns, ToResume
  <2>. QED  BY <1>0, <2>1 DEF RowAside
<1>3. \E hit \in SUBSET Runs, why \in [Runs -> {"eligibility_loss", "closed_issue"}] :
        /\ row' = [r \in Runs |-> IF r \in hit THEN MarkCancelRequested(row[r], why[r])
                                  ELSE row[r]]
        /\ latch' = LatchAfter(hit, why)
  <2>. DEFINE lost(r) == LET s == seen[issueOf[r]]
                         IN IF s.open THEN ~Eligible(TRUE, s.ready, s.labels, r \in immune)
                            ELSE ~open[issueOf[r]]
              hit == {r \in inflight : latch[r] = "none" /\ lost(r)}
              why == [r \in Runs |-> IF seen[issueOf[r]].open THEN "eligibility_loss"
                                     ELSE "closed_issue"]
  <2>1. /\ row' = [r \in Runs |-> IF r \in hit THEN MarkCancelRequested(row[r], why[r])
                                  ELSE row[r]]
        /\ latch' = LatchAfter(hit, why)
    BY DEF TickReconcile
  <2>2. hit \in SUBSET Runs /\ why \in [Runs -> {"eligibility_loss", "closed_issue"}]
    BY DEF TypeInv, TypeOK, RegistryOK
  <2>. HIDE DEF hit, why
  <2>. QED  BY <2>1, <2>2
<1>4. \A s \in Runs : ReasonGiven(s)
  <2>1. PICK hit \in SUBSET Runs, why \in [Runs -> {"eligibility_loss", "closed_issue"}] :
        /\ row' = [r \in Runs |-> IF r \in hit THEN MarkCancelRequested(row[r], why[r])
                                  ELSE row[r]]
        /\ latch' = LatchAfter(hit, why)
    BY <1>3
  <2>2. ASSUME NEW s \in Runs PROVE ReasonGiven(s)
    <3>1. CASE s \in hit
      <4>1. row'[s] = MarkCancelRequested(row[s], why[s])
            /\ why[s] \in {"eligibility_loss", "closed_issue"} /\ row[s] \in Row
        BY <1>0, <2>1, <3>1
      <4>. QED  BY <4>1, WrittenRows DEF ReasonGiven, Reasons
    <3>2. CASE s \notin hit
      BY <2>1, <3>2 DEF ReasonGiven, LatchAfter
    <3>. QED  BY <3>1, <3>2
  <2>. QED  BY <2>2
<1>. QED  BY <1>2, <1>4, ReasonDone

\* The tick takes up a row a shutdown killed, and arms its resumption.
LEMMA TickResumeOneDone ==
  ASSUME TypeInv, \A s \in Runs : RowFits(s), TickResumeOne
  PROVE  \A s \in Runs : RowDone(s)
<1>0. /\ UNCHANGED <<work, local, inflight, latch, stopping, issueOf, nrows>>
      /\ Tick \in Threads /\ pc \in [Threads -> PCs] /\ row \in [Runs -> Row]
      /\ pc[Tick] = "resume" /\ todo \in SUBSET Runs /\ issueOf \in [Runs -> Issues]
      /\ sched \in [Issues -> Work \cup {NoWork}]
  BY ThreadNames, SameTable
  DEF TickResumeOne, TypeInv, TypeOK, ControlOK, StoreOK, TimerOK, TodoInv
<1>1. CASE EnterDetect(mutex, seen) /\ UNCHANGED <<row, sched, resuming>>
  BY <1>0, <1>1, EntersTurn, TickTurnsDone
<1>2. ASSUME NEW r \in todo, todo' = todo \ {r}, pc' = pc,
             \/ UNCHANGED <<row, sched, resuming>>
             \/ /\ row' = [row EXCEPT ![r].declined = TRUE]
                /\ UNCHANGED <<sched, resuming>>
      PROVE  \A s \in Runs : RowDone(s)
  <2>1. \A s \in Runs : RowAside(s)
    <3>1. \A s \in Runs : ArmsNone(s) /\ SameThreads(s) /\ TickTurns(s)
      BY <1>0, <1>2, ArmsStay DEF SameThreads, TickTurns, ToResume
    <3>2. resuming' = resuming
      BY <1>2
    <3>. QED  BY <1>0, <3>1, <3>2 DEF RowAside
  <2>2. \A s \in Runs : ReasonGiven(s)
    BY <1>0, <1>2 DEF ReasonGiven, Row
  <2>. QED  BY <2>1, <2>2, ReasonDone
<1>3. ASSUME NEW r \in todo, todo' = todo \ {r}, pc' = pc, Resumes(r), row' = row,
             ~stopping, resuming' = resuming \cup {r},
             sched' = [sched EXCEPT ![issueOf[r]] =
                         [kind |-> "resume", issue |-> issueOf[r], run |-> r]]
      PROVE  \A s \in Runs : RowDone(s)
  <2>. DEFINE w == [kind |-> "resume", issue |-> issueOf[r], run |-> r]
  <2>0. /\ w.kind = "resume" /\ w.run = r /\ sched' = [sched EXCEPT ![issueOf[r]] = w]
        /\ r \in Runs /\ issueOf[r] \in Issues
    BY <1>0, <1>3
  <2>. HIDE DEF w
  <2>1. \A l \in Issues : sched'[l] = IF l = issueOf[r] THEN w ELSE sched[l]
    BY <1>0, <2>0
  <2>2. /\ \A s \in Runs : SameThreads(s) /\ TickPasses(s)
        /\ \A s \in Runs : s # r => ArmsNone(s)
        /\ Rows' = Rows /\ ~ToResume(r)'
    BY <1>0, <1>3, <2>0, <2>1 DEF SameThreads, TickPasses, ToResume, ArmsNone, ArmedFor, Rows
  <2>3. /\ r \in Rows /\ row[r].reason = "daemon_shutdown" /\ row[r].state = "cancelled"
        /\ pc[Attempt(r)] = "idle" /\ r \notin resuming
        /\ ~Fired(r) /\ \A l \in Issues : ~ArmedFor(l, r)
    <3>1. /\ r \in Rows /\ row[r].reason = "daemon_shutdown" /\ row[r].state = "cancelled"
          /\ pc[Attempt(r)] = "idle" /\ r \notin resuming
          /\ Fired(r) => work[Timer(r)].kind = "resume"
          /\ \A i \in Issues : ArmedFor(i, r) => sched[i].kind = "resume"
      BY <1>0, <1>3, <2>0 DEF RowFits, KilledRests, ToResume, Resumes
    <3>. QED  BY <2>0, <3>1 DEF RowFits, TimerFits
  <2>4. RowDone(r)
    <3>1. /\ ~Fired(r)' /\ ~Evaluating(r)' /\ pc'[Attempt(r)] = "idle"
          /\ \A l \in Issues : ArmedFor(l, r)' => l = issueOf[r] /\ sched'[l].kind = "resume"
      <4>1. ~Evaluating(r)
        BY <1>3, <2>0, <2>3 DEF RowFits, WaitFits
      <4>. QED  BY <1>0, <1>3, <2>0, <2>1, <2>2, <2>3, <4>1
           DEF Fired, Evaluating, SameThreads, ArmedFor
    <3>2. TimerFits(r)'
      BY <1>3, <2>2, <2>3, <3>1 DEF TimerFits, WorkAhead
    <3>3. AttemptFits(r)' /\ WaitFits(r)' /\ KilledRests(r)'
      BY <2>2, <3>1 DEF AttemptFits, AttemptPCs, Starting, WaitFits, KilledRests
    <3>4. SlotFits(r)'
      BY <1>0, <1>3, <2>0, <2>3 DEF RowFits, SlotFits, Fired, Starting
    <3>. QED  BY <1>0, <1>3, <3>2, <3>3, <3>4 DEF RowDone, RowFits, RowSticks
  <2>5. ASSUME NEW s \in Runs, s # r PROVE RowDone(s)
    BY <1>0, <1>3, <2>2, <2>5, OthersAlone
  <2>. QED  BY <2>4, <2>5
<1>. QED  BY <1>1, <1>2, <1>3 DEF TickResumeOne

LEMMA TickStepDone ==
  ASSUME TypeInv, RowsInv, \A s \in Runs : RowFits(s), TickStep
  PROVE  \A s \in Runs : RowDone(s)
BY TickPassesDone, TickLaunchDone, TickReconcileDone, TickResumeOneDone,
   TickWaitReadDone, TickWaitEvaluateDone DEF TickStep

-----------------------------------------------------------------------------
(* A stop, a crash, a restart.                                             *)

\* A stop clears every timer, cancels the owners of what was armed, and asks every
\* Run in flight to end: their reasons change, their states do not.
LEMMA StopBeginDone ==
  ASSUME TypeInv, RowsInv, \A s \in Runs : RowFits(s), StopBegin
  PROVE  \A s \in Runs : RowDone(s)
<1>. SUFFICES ASSUME NEW s \in Runs PROVE RowDone(s)
  OBVIOUS
<1>0. /\ TimerFits(s) /\ AttemptFits(s) /\ SlotFits(s) /\ WaitFits(s) /\ KilledRests(s)
      /\ row[s] \in Row
  BY SameTable DEF RowFits, TypeInv, TypeOK, StoreOK
<1>1. /\ UNCHANGED <<pc, work, local, inflight, resuming, issueOf, nrows, todo>>
      /\ Rows' = Rows /\ stopping'
  BY DEF StopBegin, Rows
<1>2. \A i \in Issues : ~ArmedFor(i, s)'
  BY DEF StopBegin, ArmedFor, NoWork, Owed
<1>3. s \in ScheduledOwners => s \in Rows /\ \E i \in Issues : ArmedFor(i, s)
  BY DEF ScheduledOwners, OwnedKinds, ArmedFor, Owed
<1>4. s \in inflight => s \in Rows
  BY DEF RowsInv
<1>5. /\ s \in inflight => row'[s] = MarkCancelRequested(row[s], "daemon_shutdown")
                           /\ latch'[s] = "daemon_shutdown"
      /\ s \notin inflight /\ s \in ScheduledOwners
           => row'[s] = CancelledRow(row[s], "daemon_shutdown")
      /\ s \notin inflight /\ s \notin ScheduledOwners => row'[s] = row[s]
  BY DEF StopBegin
<1>6. /\ row[s].reason = "daemon_shutdown" => row'[s].reason = "daemon_shutdown"
      /\ \/ row'[s].state = row[s].state
         \/ /\ row'[s].state = "cancelled" /\ row'[s].reason = "daemon_shutdown"
            /\ s \in ScheduledOwners
  <2>1. "daemon_shutdown" \in Reasons \ {"none"}
    BY DEF Reasons
  <2>. QED  BY <1>0, <1>5, <2>1, WrittenRows
<1>7. /\ Fired(s)' <=> Fired(s)
      /\ WorkAhead(s)' => Fired(s)
      /\ Lost(s)' <=> Lost(s)
      /\ Evaluating(s)' <=> Evaluating(s)
      /\ ToResume(s)' <=> ToResume(s)
  BY <1>1, <1>2 DEF Fired, WorkAhead, Lost, IsRaw, Evaluating, Lowest, ToResume
<1>8. TimerFits(s)'
  <2>1. Fired(s) => s \notin ScheduledOwners
    BY <1>0, <1>3 DEF TimerFits
  <2>2. s \notin Rows => s \notin ScheduledOwners
    BY <1>3
  <2>3. Fired(s) => row'[s].state = row[s].state
    BY <1>6, <2>1
  <2>4. Fired(s) => s \in Rows /\ row[s].state # "waiting"
    BY <1>0 DEF TimerFits, WorkAhead
  <2>5. s \in Rows \/ row'[s].state = "none"
    BY <1>0, <1>6, <2>2 DEF TimerFits
  <2>. QED  BY <1>0, <1>1, <1>2, <1>7, <2>3, <2>4, <2>5 DEF TimerFits
<1>9. AttemptFits(s)'
  <2>1. pc[Attempt(s)] # "idle" /\ s \in ScheduledOwners => Lost(s)
    BY <1>0, <1>3 DEF AttemptFits
  <2>2. pc[Attempt(s)] = "entry" => s \notin ScheduledOwners
    BY <2>1 DEF Lost
  <2>3. pc[Attempt(s)] \in {"labels", "next"} /\ s \in ScheduledOwners
          => local[s].outcome # "transient"
    BY <2>1 DEF Lost
  <2>4. pc[Attempt(s)] = "idle" \/ row'[s].state = row[s].state
        \/ (Lost(s) /\ row'[s].state = "cancelled")
    BY <1>6, <2>1
  <2>. QED  BY <1>0, <1>1, <1>2, <1>6, <1>7, <2>1, <2>2, <2>3, <2>4
       DEF AttemptFits, AttemptPCs, Starting, ActiveStates
<1>10. SlotFits(s)'
  BY <1>0, <1>1, <1>5 DEF SlotFits
<1>11. WaitFits(s)'
  <2>1. Evaluating(s) => s \notin ScheduledOwners
    BY <1>0, <1>3 DEF WaitFits, WorkAhead
  <2>2. Evaluating(s) => ~Fired(s) /\ row'[s].state = row[s].state
    BY <1>0, <1>6, <2>1 DEF WaitFits, WorkAhead
  <2>. QED  BY <1>0, <1>1, <1>7, <2>2 DEF WaitFits
<1>12. KilledRests(s)'
  BY <1>0, <1>1, <1>6, <1>7 DEF KilledRests
<1>13. RowSticks(s)
  BY <1>1, <1>6 DEF RowSticks
<1>. QED  BY <1>8, <1>9, <1>10, <1>11, <1>12, <1>13 DEF RowDone, RowFits

\* A stop is done when every thread is idle: then no slot is held.
LEMMA StopDoneDone ==
  ASSUME TypeInv, \A s \in Runs : RowFits(s), StopDone
  PROVE  (\A s \in Runs : RowDone(s)) /\ inflight' = {}
<1>1. Elsewhere
  BY DEF StopDone, Elsewhere, SameThreads
<1>2. ASSUME NEW s \in Runs, s \in inflight PROVE FALSE
  <2>1. pc[Attempt(s)] = "idle" /\ pc[Timer(s)] = "idle"
    BY ThreadNames DEF StopDone, Quiet
  <2>. QED  BY <1>2, <2>1 DEF RowFits, SlotFits, Starting
<1>3. inflight' = {}
  BY <1>2 DEF StopDone, TypeInv, TypeOK, RegistryOK
<1>. QED  BY <1>1, <1>3, ElsewhereDone

\* A process that has just ended, or just begun.
LEMMA FreshFits ==
  ASSUME TypeInv, NEW s \in Runs, Fresh, s \in Rows' \/ row'[s].state = "none"
  PROVE  RowFits(s)'
<1>1. /\ Attempt(s) \in Threads /\ Timer(s) \in Threads /\ Wait(s) \in Threads
      /\ Tick \in Threads
  BY ThreadNames
<1>2. /\ pc'[Attempt(s)] = "idle" /\ pc'[Timer(s)] = "idle" /\ pc'[Wait(s)] = "idle"
      /\ pc'[Tick] = "idle" /\ s \notin inflight'
  BY <1>1 DEF Fresh
<1>3. \A i \in Issues : ~ArmedFor(i, s)'
  BY DEF Fresh, ArmedFor, NoWork, Owed
<1>4. ~Fired(s)' /\ ~WorkAhead(s)' /\ ~Evaluating(s)' /\ ~ToResume(s)'
  BY <1>2, <1>3 DEF Fired, WorkAhead, Evaluating, ToResume
<1>5. TimerFits(s)'
  BY <1>3, <1>4 DEF TimerFits
<1>6. AttemptFits(s)' /\ SlotFits(s)' /\ WaitFits(s)' /\ KilledRests(s)'
  BY <1>2, <1>3, <1>4 DEF AttemptFits, AttemptPCs, Starting, SlotFits, WaitFits, KilledRests
<1>. QED  BY <1>5, <1>6 DEF RowFits

\* A crash writes no row.
LEMMA CrashDone ==
  ASSUME TypeInv, \A s \in Runs : RowFits(s), Crash
  PROVE  (\A s \in Runs : RowDone(s)) /\ inflight' = {}
<1>1. row' = row /\ Rows' = Rows /\ inflight' = {} /\ up' = FALSE /\ Fresh
  BY DEF Crash, Fresh, Rows
<1>2. \A s \in Runs : RowFits(s)'
  BY <1>1, FreshFits DEF RowFits, TimerFits
<1>3. \A s \in Runs : RowSticks(s)
  BY <1>1 DEF RowSticks
<1>. QED  BY <1>1, <1>2, <1>3 DEF RowDone

\* A restart writes the rows that were active, or half parked: none is terminal.
LEMMA RestartDone ==
  ASSUME TypeInv, VerdictInv, Restart
  PROVE  (\A s \in Runs : RowDone(s)) /\ inflight' = {}
<1>1. /\ Rows' = Rows /\ inflight' = {} /\ inflight = {} /\ Fresh
      /\ row \in [Runs -> Row] /\ \A s \in Runs : RowFits(s)
  BY SameTable DEF Restart, Fresh, Rows, VerdictInv, TypeInv, TypeOK, StoreOK
<1>2. ASSUME NEW s \in Runs
      PROVE  /\ row'[s].reason = row[s].reason
             /\ \/ row'[s].state = row[s].state
                \/ Leaked(row[s]) /\ row'[s].state = "stale"
  BY <1>1 DEF Restart, Row
<1>3. ASSUME NEW s \in Runs, Leaked(row[s])
      PROVE  row[s].state \in ActiveStates \cup {"waiting"}
  BY <1>3 DEF Leaked
<1>4. \A s \in Runs : RowFits(s)'
  BY <1>1, <1>2, <1>3, FreshFits DEF RowFits, TimerFits, ActiveStates
<1>5. \A s \in Runs : RowSticks(s)
  BY <1>1, <1>2, <1>3 DEF RowSticks, ActiveStates
<1>. QED  BY <1>1, <1>4, <1>5 DEF RowDone

-----------------------------------------------------------------------------
(* The theorem.                                                            *)

LEMMA RowsAreRuns == TypeInv => Rows \subseteq Runs
<1>. SUFFICES ASSUME TypeInv PROVE Rows \subseteq Runs
  OBVIOUS
<1>1. nrows \in 0 .. MaxRuns /\ MaxRuns \in Nat
  BY BoundsAssumption DEF TypeInv, TypeOK, StoreOK
<1>. QED  BY <1>1 DEF Rows, Runs

\* A step of the daemon, or of its environment, is about one row.
LEMMA RunStepDone ==
  ASSUME TypeInv, RowsInv, \A s \in Runs : RowFits(s), DaemonStep \/ Environment
  PROVE  (\A s \in Runs : RowDone(s)) /\ up' = up
<1>1. \A s \in Runs : RowDone(s)
  BY BatchPickDone, ClaimStepDone, TimerFireDone, TimerStepDone, AttemptStepDone,
     TickStepDone, RoutineDone, EnvironmentDone DEF DaemonStep
<1>2. up' = up
  <2>1. CASE Environment \/ RoutineStep \/ TickStep
    BY <2>1 DEF Environment, RunTimeout, WatchdogStale, OperatorCancel, TrackerEdit,
         RoutineStep, FireRoutine, EndRoutine, TickStep, TickPoll, TickReconcile,
         TickWaits, TickWaitRead, TickWaitEvaluate, TickResumeOne, TickMark, TickLaunch
  <2>2. CASE \E t \in Claimants : ClaimStep(t)
    BY <2>2 DEF ClaimStep, ClaimGate, ClaimCheck, ClaimPersist, ClaimRollback,
                ClaimLabelFails
  <2>3. CASE \E r \in Runs : TimerStep(r)
    BY <2>3 DEF TimerStep, TimerDropped, TimerUnavailable, TimerAdmitted, RetryGate,
                RetryCheck, RetryLabel, WaitRead, WaitEvaluate
  <2>4. CASE \E r \in Runs : AttemptStep(r)
    BY <2>4 DEF AttemptStep, RunEntry, RunPreparationFails, RunLoad, RunParks, RunSetup,
                RunStart, ProviderExit, RunSettle, RunClassify, RunTerminal, RunLabels,
                RunNext
  <2>5. CASE (\E b \in Batches : BatchPick(b)) \/ (\E i \in Issues : TimerFire(i))
    BY <2>5 DEF BatchPick, TimerFire
  <2>. QED  BY <2>1, <2>2, <2>3, <2>4, <2>5 DEF DaemonStep
<1>. QED  BY <1>1, <1>2

\* Every step keeps the invariant, and lets what rows say stick.
LEMMA NextVerdict ==
  TypeInv /\ RowsInv /\ VerdictInv /\ [Next]_vars
    => VerdictInv' /\ \A s \in Runs : RowSticks(s)
<1>. SUFFICES ASSUME TypeInv, RowsInv, VerdictInv, [Next]_vars
              PROVE  VerdictInv' /\ \A s \in Runs : RowSticks(s)
  OBVIOUS
<1>0. \A s \in Runs : RowFits(s)
  BY DEF VerdictInv
<1>1. CASE UNCHANGED vars
  <2>1. Elsewhere /\ up' = up /\ inflight' = inflight
    BY <1>1 DEF vars, Elsewhere, SameThreads
  <2>. QED  BY <1>0, <2>1, ElsewhereDone DEF VerdictInv, RowDone
<1>2. CASE up /\ (DaemonStep \/ Environment)
  BY <1>0, <1>2, RunStepDone DEF VerdictInv, RowDone
<1>3. CASE up /\ StopBegin
  <2>1. up'
    BY <1>3 DEF StopBegin
  <2>. QED  BY <1>0, <1>3, <2>1, StopBeginDone DEF VerdictInv, RowDone
<1>4. CASE up /\ (StopDone \/ Crash)
  BY <1>0, <1>4, StopDoneDone, CrashDone DEF VerdictInv, RowDone
<1>5. CASE Restart
  BY <1>5, RestartDone DEF VerdictInv, RowDone
<1>. QED  BY <1>1, <1>2, <1>3, <1>4, <1>5 DEF Next

LEMMA InitVerdict == Init => VerdictInv
<1>. SUFFICES ASSUME Init PROVE VerdictInv
  OBVIOUS
<1>1. ASSUME NEW s \in Runs PROVE RowFits(s)
  <2>1. /\ Attempt(s) \in Threads /\ Timer(s) \in Threads /\ Wait(s) \in Threads
        /\ Tick \in Threads
    BY ThreadNames
  <2>2. /\ pc[Attempt(s)] = "idle" /\ pc[Timer(s)] = "idle" /\ pc[Wait(s)] = "idle"
        /\ pc[Tick] = "idle" /\ s \notin inflight /\ row[s].state = "none"
        /\ row[s].reason = "none"
    BY <2>1 DEF Init, NoRow
  <2>3. \A i \in Issues : ~ArmedFor(i, s)
    BY DEF Init, ArmedFor, NoWork, Owed
  <2>. QED  BY <2>2, <2>3 DEF RowFits, TimerFits, Fired, WorkAhead, AttemptFits, AttemptPCs,
            Starting, SlotFits, WaitFits, Evaluating, KilledRests, ToResume
<1>. QED  BY <1>1 DEF Init, VerdictInv

\* What the delayed work, the attempt and the wait step of a row may find when they
\* write it: what makes the verdicts stick holds of every state.
THEOREM VerdictInvariance == Spec => []VerdictInv
<1>1. TypeInv /\ SlotInv /\ VerdictInv /\ [Next]_vars => VerdictInv'
  BY NextVerdict DEF SlotInv
<1>. QED  BY <1>1, InitVerdict, TypeInvariance, SlotInvariance, PTL DEF Spec

\* A cancelled, blocked or succeeded Run, a watchdog verdict and a shutdown's reason
\* stay what they are, whoever writes the row next: the attempt, its delayed work, a
\* wait step, a deadline, a stop, a restart.
THEOREM VerdictsKept == Spec => VerdictsStick
<1>. DEFINE A1 == \A r \in Rows : ~FailedPark(r) =>
                    /\ row[r].state = "cancelled" => row'[r].state = "cancelled"
                    /\ row[r].state \in {"succeeded", "blocked"} =>
                         \/ row'[r].state = row[r].state
                         \/ row'[r].state = "cancelled"
                            /\ row'[r].reason = "daemon_shutdown"
            A2 == \A r \in inflight :
                    r \notin inflight' /\ up' /\ ~FailedPark(r) /\ latch[r] = "watchdog"
                      /\ row[r].reason = "none" => row'[r].state = "stale"
            A3 == \A r \in Rows : row[r].reason = "daemon_shutdown"
                                    => row'[r].reason = "daemon_shutdown"
<1>1. TypeInv /\ SlotInv /\ VerdictInv /\ [Next]_vars => [A1]_vars /\ [A2]_vars /\ [A3]_vars
  <2>. SUFFICES ASSUME TypeInv, SlotInv, VerdictInv, [Next]_vars
                PROVE  A1 /\ A2 /\ A3
    OBVIOUS
  <2>1. \A s \in Runs : RowSticks(s)
    BY NextVerdict DEF SlotInv
  <2>2. Rows \subseteq Runs /\ inflight \subseteq Runs
    BY RowsAreRuns DEF TypeInv, TypeOK, RegistryOK
  <2>. QED  BY <2>1, <2>2 DEF RowSticks
<1>2. VerdictsStick <=> [][A1]_vars /\ [][A2]_vars /\ [][A3]_vars
  BY PTL DEF VerdictsStick, TerminalRowsStay, WatchdogVerdictSurvives, ShutdownReasonSticks
<1>. HIDE DEF A1, A2, A3
<1>. QED  BY <1>1, <1>2, TypeInvariance, SlotInvariance, VerdictInvariance, PTL DEF Spec

-----------------------------------------------------------------------------
(* The chain of an issue: continuations stay within the cap.               *)

\* The rows that count towards the cap of an issue.
CountedRows(i) == {r \in Rows : issueOf[r] = i /\ row[r].cont /\ row[r].state = "succeeded"}

LEMMA CountBound ==
  ASSUME nrows \in Nat, nrows' \in Nat, NEW i
  PROVE  /\ SucceededContinuations(i) \in Nat /\ SucceededContinuations(i)' \in Nat
         /\ CountedRows(i)' \subseteq CountedRows(i)
              => SucceededContinuations(i)' <= SucceededContinuations(i)
         /\ \A r : CountedRows(i)' \subseteq CountedRows(i) \cup {r}
              => SucceededContinuations(i)' <= SucceededContinuations(i) + 1
<1>1. IsFiniteSet(Rows) /\ IsFiniteSet(Rows')
  BY FS_Interval DEF Rows
<1>2. /\ IsFiniteSet(CountedRows(i)) /\ IsFiniteSet(CountedRows(i)')
      /\ CountedRows(i) \subseteq Rows /\ CountedRows(i)' \subseteq Rows'
  BY <1>1, FS_Subset DEF CountedRows
<1>3. /\ SucceededContinuations(i) = Cardinality(CountedRows(i))
      /\ SucceededContinuations(i)' = Cardinality(CountedRows(i)')
  BY DEF SucceededContinuations, CountedRows
<1>4. SucceededContinuations(i) \in Nat /\ SucceededContinuations(i)' \in Nat
  BY <1>2, <1>3, FS_CardinalityType
<1>5. ASSUME NEW r, CountedRows(i)' \subseteq CountedRows(i) \cup {r}
      PROVE  SucceededContinuations(i)' <= SucceededContinuations(i) + 1
  <2>1. /\ IsFiniteSet(CountedRows(i) \cup {r})
        /\ Cardinality(CountedRows(i) \cup {r}) \in Nat
        /\ Cardinality(CountedRows(i) \cup {r}) <= Cardinality(CountedRows(i)) + 1
    BY <1>2, <1>3, <1>4, FS_AddElement
  <2>2. Cardinality(CountedRows(i)') <= Cardinality(CountedRows(i) \cup {r})
    BY <1>5, <2>1, FS_Subset
  <2>. QED  BY <1>3, <1>4, <2>1, <2>2
<1>6. CountedRows(i)' \subseteq CountedRows(i)
        => SucceededContinuations(i)' <= SucceededContinuations(i)
  BY <1>2, <1>3, FS_Subset
<1>. QED  BY <1>4, <1>5, <1>6

-----------------------------------------------------------------------------
(* Rows and issues that a step leaves as they are.                         *)

\* A row whose attempt does not move, and that nothing new is armed for.
RowRests(s) ==
  /\ pc'[Attempt(s)] = pc[Attempt(s)] /\ local'[s] = local[s]
  /\ s \in inflight' <=> s \in inflight
  /\ Fired(s)' => Fired(s) /\ work'[Timer(s)] = work[Timer(s)]
  /\ ArmsNone(s) /\ (Evaluating(s)' => Evaluating(s))
  /\ issueOf'[s] = issueOf[s] /\ (s \in Rows' <=> s \in Rows)
  /\ row'[s].cont = row[s].cont /\ row'[s].retries = row[s].retries
  /\ row'[s].state = "succeeded" <=> row[s].state = "succeeded"
  /\ row'[s].state = "waiting" => row[s].state = "waiting"
  /\ row'[s].reason = "daemon_shutdown" => row[s].reason = "daemon_shutdown"

\* A row that a step creates, with nothing about it.
Newborn(s) ==
  /\ s \notin Rows /\ s \in Rows' /\ FiledFits(s)'
  /\ ~IsRaw(issueOf'[s]) => /\ PlainFits(s)' /\ ~Engaged(s)'
                            /\ row'[s].state # "succeeded"

\* A row that a step leaves with no more than it had.
RowCalm(s) ==
  /\ PlainFits(s)'
  /\ row'[s].cont /\ row'[s].state = "succeeded" => row[s].cont /\ row[s].state = "succeeded"
  /\ Engaged(s)' => /\ Engaged(s) /\ (s \in inflight => s \in inflight')
                    /\ Continues(s)' => Continues(s)

\* The claim of what stays engaged stays, and is not offered anew.
IssueRests(i) ==
  \A s \in Rows : issueOf[s] = i /\ Engaged(s) /\ Engaged(s)' =>
    "claimed" \in labels'[i] /\ (Offered(i)' => Offered(i))

LEMMA RestsCalm ==
  ASSUME NEW s \in Runs, RowRests(s), FiledFits(s)
  PROVE  /\ FiledFits(s)'
         /\ PlainFits(s) => RowCalm(s)
<1>. USE DEF RowRests
<1>1. /\ WorkAhead(s)' => WorkAhead(s)
      /\ \A i \in Issues : ArmedFor(i, s)' => ArmedFor(i, s) /\ sched'[i] = sched[i]
  BY DEF WorkAhead, ArmsNone
<1>2. FiledFits(s)'
  BY <1>1 DEF FiledFits
<1>3. PlainFits(s) => PlainFits(s)'
  BY <1>1 DEF PlainFits
<1>4. Engaged(s)' => Engaged(s)
  BY <1>1 DEF Engaged, WillRetry
<1>5. Continues(s)' => Continues(s)
  BY <1>1 DEF Continues
<1>. QED  BY <1>2, <1>3, <1>4, <1>5 DEF RowCalm

LEMMA IssueChained ==
  ASSUME nrows \in Nat, nrows' \in Nat, ContinuationCap \in Nat, NEW i, ChainFits(i),
         Rows \subseteq Rows',
         \A s \in Rows : issueOf'[s] = issueOf[s],
         NEW r,
         \A s \in Rows : s # r /\ issueOf[s] = i => RowCalm(s),
         \A s \in Rows' : s \notin Rows /\ issueOf'[s] = i
            => PlainFits(s)' /\ ~Engaged(s)' /\ row'[s].state # "succeeded",
         \/ /\ IssueRests(i) /\ (r \in Rows /\ issueOf[r] = i => RowCalm(r))
         \/ /\ r \in Rows /\ issueOf[r] = i /\ Engaged(r) /\ PlainFits(r)'
            /\ Engaged(r)' => KeepsIssue(r)'
            /\ SucceededContinuations(i)' <= ContinuationCap
  PROVE  ChainFits(i)'
<1>1. \A s \in Rows' : s \notin Rows \/ issueOf'[s] = issueOf[s]
  OBVIOUS
<1>2. \A s \in Rows' : issueOf'[s] = i => PlainFits(s)'
  BY <1>1 DEF RowCalm
<1>3. CASE IssueRests(i) /\ (r \in Rows /\ issueOf[r] = i => RowCalm(r))
  <2>0. \A s \in Rows : issueOf[s] = i => RowCalm(s)
    BY <1>3
  <2>1. CountedRows(i)' \subseteq CountedRows(i)
    BY <1>1, <2>0 DEF CountedRows, RowCalm
  <2>2. /\ SucceededContinuations(i)' <= SucceededContinuations(i)
        /\ SucceededContinuations(i) \in Nat /\ SucceededContinuations(i)' \in Nat
    BY <2>1, CountBound
  <2>3. ASSUME NEW s \in Rows', issueOf'[s] = i, Engaged(s)'
        PROVE  /\ s \in Rows /\ issueOf[s] = i /\ Engaged(s) /\ KeepsIssue(s)
               /\ s \in inflight => s \in inflight'
               /\ Continues(s)' => Continues(s)
    BY <1>1, <2>0, <2>3 DEF RowCalm, ChainFits
  <2>4. ASSUME NEW s \in Rows', issueOf'[s] = i, Engaged(s)'
        PROVE  KeepsIssue(s)'
    <3>1. /\ KeepsIssue(s) /\ issueOf[s] = i /\ (s \in inflight => s \in inflight')
          /\ Continues(s)' => Continues(s)
      BY <2>3, <2>4
    <3>2. "claimed" \in labels'[i] /\ (Offered(i)' => Offered(i))
      BY <1>3, <2>3, <2>4 DEF IssueRests
    <3>. QED  BY <2>2, <2>4, <3>1, <3>2 DEF KeepsIssue
  <2>5. \A s, q \in Rows' : issueOf'[s] = i /\ issueOf'[q] = i /\ Engaged(s)' /\ Engaged(q)'
          => s = q
    BY <2>3 DEF ChainFits
  <2>. QED  BY <1>2, <2>2, <2>4, <2>5 DEF ChainFits
<1>4. CASE /\ r \in Rows /\ issueOf[r] = i /\ Engaged(r) /\ PlainFits(r)'
           /\ Engaged(r)' => KeepsIssue(r)'
           /\ SucceededContinuations(i)' <= ContinuationCap
  <2>1. \A s \in Rows' : issueOf'[s] = i /\ Engaged(s)' => s = r
    BY <1>1, <1>4 DEF ChainFits, RowCalm
  <2>. QED  BY <1>2, <1>4, <2>1 DEF ChainFits
<1>. QED  BY <1>3, <1>4

\* A step that is about one row, or about none, and may create rows.
LEMMA StepChained ==
  ASSUME TypeInv, TypeInv', Chained, ~stopping', Rows \subseteq Rows', NEW r,
         \A s \in Runs : s # r => RowRests(s) \/ Newborn(s),
         r \in Runs => /\ FiledFits(r)' /\ issueOf'[r] = issueOf[r]
                       /\ r \in Rows' => r \in Rows,
         \A i \in Issues : IsRaw(i) \/ IssueRests(i) \/ (r \in Rows /\ i = issueOf[r]),
         r \in Rows /\ ~IsRaw(issueOf[r]) =>
            \/ IssueRests(issueOf[r]) /\ RowCalm(r)
            \/ /\ Engaged(r) /\ PlainFits(r)'
               /\ Engaged(r)' => KeepsIssue(r)'
               /\ SucceededContinuations(issueOf[r])' <= ContinuationCap
  PROVE  Chained'
<1>0. /\ nrows \in Nat /\ nrows' \in Nat /\ ContinuationCap \in Nat
      /\ Rows \subseteq Runs /\ Rows' \subseteq Runs
  BY BoundsAssumption DEF TypeInv, TypeOK, StoreOK, Rows, Runs
<1>1. \A s \in Runs : FiledFits(s)'
  BY RestsCalm DEF Chained, Newborn
<1>2. ASSUME NEW i \in Issues, ~IsRaw(i)
      PROVE  ChainFits(i)'
  <2>1. ChainFits(i)
    BY <1>2 DEF Chained
  <2>2. \A s \in Rows : issueOf'[s] = issueOf[s]
    BY <1>0 DEF RowRests, Newborn
  <2>3. \A s \in Rows : s # r /\ issueOf[s] = i => RowCalm(s)
    BY <1>0, <2>1, RestsCalm DEF ChainFits, Newborn, Chained
  <2>4. \A s \in Rows' : s \notin Rows /\ issueOf'[s] = i
            => PlainFits(s)' /\ ~Engaged(s)' /\ row'[s].state # "succeeded"
    BY <1>0, <1>2 DEF RowRests, Newborn
  <2>5. \/ /\ IssueRests(i) /\ (r \in Rows /\ issueOf[r] = i => RowCalm(r))
        \/ /\ r \in Rows /\ issueOf[r] = i /\ Engaged(r) /\ PlainFits(r)'
           /\ Engaged(r)' => KeepsIssue(r)'
           /\ SucceededContinuations(i)' <= ContinuationCap
    BY <1>0, <1>2
  <2>. QED  BY <1>0, <2>1, <2>2, <2>3, <2>4, <2>5, IssueChained
<1>. QED  BY <1>1, <1>2 DEF Chained

-----------------------------------------------------------------------------
(* What every step starts from.                                            *)

Known == /\ TypeInv /\ TypeInv' /\ RowsInv /\ GrantInv
         /\ (\A s \in Runs : RowFits(s)) /\ Chained

LEMMA NoneToResume ==
  ASSUME Known
  PROVE  pc[Tick] = "resume" => todo = {}
<1>1. pc[Tick] = "resume" => todo \subseteq Runs
  BY DEF Known, TypeInv, TodoInv
<1>2. \A s \in Runs : ~ToResume(s)
  BY DEF Known, RowFits, KilledRests, Chained, FiledFits
<1>. QED  BY <1>1, <1>2 DEF ToResume

\* The tick, the poll and the candidate lists stay, or get shorter.
OffersStay ==
  /\ seen' = seen /\ todo' = todo /\ pc'[Tick] = pc[Tick]
  /\ \A b \in Batches : cand'[b] \subseteq cand[b]
                        /\ work'[Batch(b)] \in {work[Batch(b)], NoWork}

LEMMA OfferFrame ==
  ASSUME Known, OffersStay, NEW i
  PROVE  Offered(i)' => Offered(i)
<1>1. ~(pc'[Tick] = "resume" /\ \E r \in todo' : issueOf'[r] = i)
  BY NoneToResume DEF OffersStay
<1>. HIDE DEF Tick, Batch, NoWork
<1>. QED  BY <1>1 DEF OffersStay, Offered

\* The claims and the offers of an issue stay.
LEMMA IssueStays ==
  ASSUME Known, OffersStay, NEW i \in Issues, ~IsRaw(i),
         "claimed" \in labels[i] => "claimed" \in labels'[i]
  PROVE  IssueRests(i)
<1>1. Offered(i)' => Offered(i)
  BY OfferFrame
<1>2. \A s \in Rows : issueOf[s] = i /\ Engaged(s) => "claimed" \in labels[i]
  BY DEF Known, Chained, ChainFits, KeepsIssue
<1>. QED  BY <1>1, <1>2 DEF IssueRests

\* A Run that is engaged no longer leaves its issue to whom it may concern.
LEMMA IssueLeft ==
  ASSUME Known, NEW r \in Rows, ~IsRaw(issueOf[r]), Engaged(r), ~Engaged(r)'
  PROVE  IssueRests(issueOf[r])
<1>1. issueOf[r] \in Issues
  BY BoundsAssumption DEF Known, TypeInv, TypeOK, StoreOK, Rows, Runs
<1>. QED  BY <1>1 DEF Known, Chained, ChainFits, IssueRests

LEMMA AllRest ==
  ASSUME Known, ~stopping', \A s \in Runs : RowRests(s), nrows' = nrows,
         \A i \in Issues : ~IsRaw(i) => IssueRests(i)
  PROVE  Chained'
<1>1. 0 \notin Runs /\ Rows' = Rows
  BY DEF Runs, Rows
<1>2. 0 \notin Rows
  BY DEF Rows
<1>. QED  BY <1>1, <1>2, StepChained DEF Known

LEMMA ThreadsRest ==
  ASSUME NEW s \in Runs, SameThreads(s), ArmsNone(s), TickPasses(s),
         row'[s] = row[s], issueOf'[s] = issueOf[s], local'[s] = local[s],
         s \in inflight' <=> s \in inflight, s \in Rows' <=> s \in Rows
  PROVE  RowRests(s)
BY DEF RowRests, SameThreads, TickPasses, Fired, Evaluating

\* A timer goes on with its work, or drops it.
LEMMA TimerRests ==
  ASSUME NEW s \in Runs, NEW where, TimerMoves(s, where), Fired(s), ArmsNone(s),
         TickPasses(s), where = "idle" \/ work'[Timer(s)] = work[Timer(s)],
         row'[s] = row[s], issueOf'[s] = issueOf[s], local'[s] = local[s],
         s \in inflight' <=> s \in inflight, s \in Rows' <=> s \in Rows
  PROVE  RowRests(s)
BY DEF RowRests, TimerMoves, TickPasses, Fired, Evaluating

\* A timer ends, and its work is armed again.
LEMMA TimerReturns ==
  ASSUME Known, NEW r \in Runs, Fired(r), TimerMoves(r, "idle"), TickPasses(r),
         \A l \in Issues : ArmedFor(l, r)' =>
            l = work[Timer(r)].issue /\ sched'[l].kind = work[Timer(r)].kind,
         row'[r] = row[r], issueOf'[r] = issueOf[r], local'[r] = local[r],
         r \in inflight' <=> r \in inflight
  PROVE  FiledFits(r)' /\ (PlainFits(r) => RowCalm(r))
<1>. USE DEF TimerMoves
<1>0. FiledFits(r) /\ ~Fired(r)'
  BY DEF Known, Chained, Fired
<1>1. FiledFits(r)'
  BY <1>0 DEF FiledFits
<1>2. PlainFits(r) => PlainFits(r)'
  BY <1>0 DEF PlainFits, Evaluating, TickPasses
<1>3. Engaged(r)
  BY DEF Engaged, WorkAhead
<1>4. Continues(r)' => Continues(r)
  BY <1>0 DEF Continues
<1>. QED  BY <1>1, <1>2, <1>3, <1>4 DEF RowCalm

-----------------------------------------------------------------------------
(* Fresh dispatch and the claim section.                                   *)

\* A step that moves no thread of a row.
LEMMA ElsewhereRests ==
  ASSUME Known, Elsewhere
  PROVE  \A s \in Runs : RowRests(s)
BY ThreadsRest, TickElsewhere, ArmsStay DEF Elsewhere, Rows

\* What a batch picks was in its list already.
LEMMA BatchPickChained ==
  ASSUME Known, NEW b \in Batches, BatchPick(b)
  PROVE  Chained'
<1>1. Batch(b) \in Threads /\ Batch(b) # Tick
      /\ \A s \in Runs : Batch(b) \notin {Attempt(s), Timer(s), Wait(s)}
  BY ThreadNames, ThreadsDiffer
<1>2. /\ \E where : pc' = [pc EXCEPT ![Batch(b)] = where]
      /\ work' = work \/ \E w : work' = [work EXCEPT ![Batch(b)] = w]
  BY DEF BatchPick, Goto
<1>3. (\A s \in Runs : SameThreads(s)) /\ pc'[Tick] = pc[Tick]
  BY <1>1, <1>2, OneMoves DEF Known
<1>4. Elsewhere
  BY <1>3 DEF Elsewhere, BatchPick
<1>5. ASSUME NEW i \in Issues PROVE Offered(i)' => Offered(i)
  <2>1. ~(pc'[Tick] = "resume" /\ \E r \in todo' : issueOf'[r] = i)
    BY <1>4, NoneToResume DEF Elsewhere
  <2>2. \A c \in Batches : cand'[c] \subseteq cand[c]
    BY DEF BatchPick, Known, TypeInv, TypeOK, ControlOK
  <2>3. \A c \in Batches : \/ work'[Batch(c)] = work[Batch(c)]
                           \/ c = b /\ work'[Batch(b)].issue \in cand[b]
    <3>1. CASE work' = work
      BY <3>1
    <3>2. CASE \E j \in cand[b] : work' = [work EXCEPT ![Batch(b)] =
                                      [kind |-> "fresh", issue |-> j, run |-> 0]]
      <4>1. PICK j \in cand[b] : work' = [work EXCEPT ![Batch(b)] =
                                      [kind |-> "fresh", issue |-> j, run |-> 0]]
        BY <3>2
      <4>2. work \in [Threads -> Work \cup {NoWork}]
        BY DEF Known, TypeInv, TypeOK, ControlOK
      <4>3. \A c \in Batches : Batch(c) \in Threads /\ (c # b => Batch(c) # Batch(b))
        BY ThreadsDiffer, ThreadNames
      <4>4. work'[Batch(b)].issue = j
        BY <1>1, <4>1, <4>2
      <4>. HIDE DEF Batch
      <4>. QED  BY <4>1, <4>2, <4>3, <4>4
    <3>. QED  BY <3>1, <3>2 DEF BatchPick, Pickable
  <2>. HIDE DEF Batch, NoWork, Tick
  <2>. QED  BY <1>4, <2>1, <2>2, <2>3 DEF Offered, Elsewhere, BatchPick
<1>6. ASSUME NEW i \in Issues, ~IsRaw(i) PROVE IssueRests(i)
  <2>1. labels' = labels
    BY DEF BatchPick, githubVars
  <2>2. \A s \in Rows : issueOf[s] = i /\ Engaged(s) => "claimed" \in labels[i]
    BY <1>6 DEF Known, Chained, ChainFits, KeepsIssue
  <2>. QED  BY <1>5, <2>1, <2>2 DEF IssueRests
<1>7. ~stopping' /\ nrows' = nrows
  BY <1>4 DEF Elsewhere, Known, Chained
<1>. QED  BY <1>4, <1>6, <1>7, ElsewhereRests, AllRest

\* The claim, or a timer, goes on.
LEMMA ClaimGoesOnChained ==
  ASSUME Known, NEW t \in Claimants, pc[t] # "idle", OffersStay,
         \E where : Goto(t, where),
         UNCHANGED <<work, sched, row, labels, local, inflight, stopping, todo,
                     issueOf, nrows>>
  PROVE  Chained'
<1>1. PICK where : pc' = [pc EXCEPT ![t] = where]
  BY DEF Goto
<1>2. /\ \A s \in Runs : /\ t # Timer(s) => SameThreads(s)
                         /\ t = Timer(s) => TimerMoves(s, where)
      /\ \A s \in Runs : TickPasses(s) /\ ArmsNone(s)
  BY <1>1, ClaimantMoves, TickElsewhere, ArmsStay DEF Known
<1>3. ASSUME NEW s \in Runs PROVE RowRests(s)
  <2>1. Rows' = Rows
    BY DEF Rows
  <2>2. CASE t # Timer(s)
    BY <1>2, <2>1, <2>2, ThreadsRest
  <2>3. CASE t = Timer(s)
    <3>1. Fired(s)
      BY <2>3 DEF Fired
    <3>. QED  BY <1>2, <2>1, <2>3, <3>1, TimerRests
  <2>. QED  BY <2>2, <2>3
<1>4. \A i \in Issues : ~IsRaw(i) => IssueRests(i)
  BY IssueStays
<1>. QED  BY <1>3, <1>4, AllRest DEF Known, Chained

\* Work that is in a timer's hands is of its own row.
LEMMA TimerWork ==
  ASSUME Known, NEW r \in Runs, Fired(r)
  PROVE  /\ work[Timer(r)] \in Work /\ work[Timer(r)].kind \in Owed
         /\ work[Timer(r)].run = r /\ work[Timer(r)].issue = issueOf[r]
         /\ \A i \in Issues : ~ArmedFor(i, r)
         /\ r \in Rows /\ Engaged(r)
<1>1. work[Timer(r)] \in Work \cup {NoWork} /\ Timer(r) \in Threads
  BY ThreadNames DEF Known, TypeInv, TypeOK, ControlOK
<1>2. /\ work[Timer(r)].kind \in Owed /\ work[Timer(r)].issue = issueOf[r]
      /\ \A i \in Issues : ~ArmedFor(i, r)
      /\ r \in Rows /\ Engaged(r)
  BY DEF Known, RowFits, TimerFits, Chained, FiledFits, Engaged, WorkAhead
<1>3. work[Timer(r)] # NoWork
  BY <1>2 DEF NoWork, Owed
<1>. QED  BY <1>1, <1>2, <1>3 DEF Known, TypeInv, WorkInv

\* A timer ends, and its work is armed again, or is not.
LEMMA TimerRearmed ==
  ASSUME Known, NEW r \in Runs, Fired(r), OffersStay,
         pc' = [pc EXCEPT ![Timer(r)] = "idle"],
         work' = [work EXCEPT ![Timer(r)] = NoWork],
         sched' = sched \/ sched' = [sched EXCEPT ![work[Timer(r)].issue] = work[Timer(r)]],
         UNCHANGED <<row, labels, local, inflight, stopping, todo, issueOf, nrows>>
  PROVE  Chained'
<1>. DEFINE w == work[Timer(r)]
<1>0. /\ Rows' = Rows /\ ~stopping' /\ Timer(r) \in Claimants
      /\ sched \in [Issues -> Work \cup {NoWork}] /\ issueOf[r] \in Issues
  BY ThreadNames DEF Rows, Known, Chained, TypeInv, TypeOK, TimerOK, StoreOK
<1>1. /\ \A s \in Runs : s # r => SameThreads(s)
      /\ TimerMoves(r, "idle") /\ \A s \in Runs : TickPasses(s)
  BY <1>0, ClaimantMoves, TickElsewhere, ThreadsDiffer DEF Known
<1>2. /\ w.run = r /\ w.issue = issueOf[r] /\ r \in Rows
      /\ \A i \in Issues : ~ArmedFor(i, r)
  BY TimerWork
<1>3. \A l \in Issues : sched'[l] = IF sched' # sched /\ l = w.issue THEN w ELSE sched[l]
  BY <1>0, <1>2
<1>. HIDE DEF w
<1>4. /\ \A s \in Runs : s # r => ArmsNone(s)
      /\ \A l \in Issues : ArmedFor(l, r)' => l = w.issue /\ sched'[l].kind = w.kind
  BY <1>2, <1>3 DEF ArmsNone, ArmedFor
<1>5. \A s \in Runs : s # r => RowRests(s)
  BY <1>0, <1>1, <1>4, ThreadsRest
<1>6. FiledFits(r)' /\ (PlainFits(r) => RowCalm(r))
  BY <1>1, <1>4, TimerReturns DEF w
<1>7. \A i \in Issues : ~IsRaw(i) => IssueRests(i)
  BY IssueStays
<1>8. ~IsRaw(issueOf[r]) => IssueRests(issueOf[r]) /\ RowCalm(r)
  BY <1>0, <1>2, <1>6, <1>7 DEF Known, Chained, ChainFits
<1>. QED  BY <1>0, <1>2, <1>5, <1>6, <1>7, <1>8, StepChained DEF Known

\* A claim is refused: the batch goes on, or the work is armed again.
LEMMA ClaimRefusedChained ==
  ASSUME Known, NEW t \in Claimants, pc[t] \in {"claimq", "check"}, OffersStay,
         ClaimRefused(t), UNCHANGED <<local, inflight, stopping, todo, issueOf, nrows>>
  PROVE  Chained'
<1>. DEFINE w == work[t]
<1>0. /\ Rows' = Rows /\ ~stopping /\ w \in Work /\ w.issue \in Issues
      /\ row \in [Runs -> Row] /\ sched \in [Issues -> Work \cup {NoWork}]
  BY ClaimWork, SameTable DEF Rows, Known, Chained, TypeInv, TypeOK, TimerOK
<1>1. PICK where : pc' = [pc EXCEPT ![t] = where] /\ where \in {"idle", "pick"}
                   /\ (w.kind # "fresh" => where = "idle")
  BY DEF ClaimRefused, Goto
<1>2. /\ \A s \in Runs : /\ t # Timer(s) => SameThreads(s)
                         /\ t = Timer(s) => TimerMoves(s, where)
      /\ \A s \in Runs : TickPasses(s)
  BY <1>1, ClaimantMoves, TickElsewhere DEF Known, ClaimRefused
<1>3. CASE w.kind = "fresh"
  <2>1. UNCHANGED <<sched, row, labels>>
    BY <1>3 DEF ClaimRefused
  <2>2. \A s \in Runs : t # Timer(s)
    BY <1>0, <1>3 DEF Known, TypeInv, WorkInv, NoWork
  <2>3. \A s \in Runs : RowRests(s)
    BY <1>0, <1>2, <2>1, <2>2, ArmsStay, ThreadsRest
  <2>. QED  BY <1>0, <2>1, <2>3, IssueStays, AllRest
<1>4. CASE w.kind # "fresh"
  <2>1. PICK r \in Runs : t = Timer(r)
    BY <1>0, <1>4 DEF Known, TypeInv, WorkInv, NoWork, Claimants
  <2>2. Fired(r) /\ pc' = [pc EXCEPT ![Timer(r)] = "idle"]
    BY <1>1, <1>4, <2>1 DEF Fired
  <2>3. /\ row' = row /\ labels' = labels
        /\ sched' = sched \/ sched' = [sched EXCEPT ![w.issue] = w]
    BY <1>0, <1>4 DEF ClaimRefused, ScheduleRunWork
  <2>4. work' = [work EXCEPT ![Timer(r)] = NoWork]
    BY <2>1 DEF ClaimRefused
  <2>. QED  BY <1>0, <2>1, <2>2, <2>3, <2>4, TimerRearmed
<1>. QED  BY <1>3, <1>4

LEMMA ClaimantOffers ==
  ASSUME Known, NEW t \in Claimants, UNCHANGED <<seen, todo, cand>>,
         pc'[Tick] = pc[Tick],
         work' = work \/ work' = [work EXCEPT ![t] = NoWork]
  PROVE  OffersStay
<1>1. \A b \in Batches : Batch(b) \in Threads
  BY ThreadNames
<1>. HIDE DEF Batch, NoWork
<1>. QED  BY <1>1 DEF OffersStay, Known, TypeInv, TypeOK, ControlOK

LEMMA ClaimGateCheckChained ==
  ASSUME Known, NEW t \in Claimants, ClaimGate(t) \/ ClaimCheck(t)
  PROVE  Chained'
<1>1. /\ pc[t] \in {"claimq", "check"} /\ ~stopping
      /\ UNCHANGED <<local, inflight, stopping, todo, issueOf, nrows, seen, cand>>
  BY DEF ClaimGate, ClaimCheck, Known, Chained
<1>2. CASE ClaimRefused(t)
  <2>1. OffersStay
    <3>1. \E where : pc' = [pc EXCEPT ![t] = where]
      BY <1>2 DEF ClaimRefused, Goto
    <3>2. work' = [work EXCEPT ![t] = NoWork]
      BY <1>2 DEF ClaimRefused
    <3>3. pc'[Tick] = pc[Tick]
      BY <3>1, <3>2, ClaimantMoves DEF Known
    <3>. QED  BY <1>1, <3>2, <3>3, ClaimantOffers
  <2>. QED  BY <1>1, <1>2, <2>1, ClaimRefusedChained
<1>3. CASE /\ \E where \in {"check", "label"} : Goto(t, where)
           /\ UNCHANGED <<mutex, work, sched, resuming, row, labels>>
  <2>1. OffersStay
    <3>1. \E where : pc' = [pc EXCEPT ![t] = where]
      BY <1>3 DEF Goto
    <3>2. pc'[Tick] = pc[Tick]
      BY <1>3, <3>1, ClaimantMoves DEF Known
    <3>. QED  BY <1>1, <1>3, <3>2, ClaimantOffers
  <2>. QED  BY <1>1, <1>3, <2>1, ClaimGoesOnChained
<1>. QED  BY <1>1, <1>2, <1>3 DEF ClaimGate, ClaimCheck

\* A timer that drops its work leaves its row with nothing under way.
LEMMA TimerLeaves ==
  ASSUME Known, NEW r \in Runs, Fired(r), ~IsRaw(issueOf[r]), pc[Timer(r)] # "retrylabel",
         TimerMoves(r, "idle"), ArmsNone(r), r \in inflight' <=> r \in inflight
  PROVE  ~Engaged(r)' /\ pc[Attempt(r)] = "idle" /\ r \notin inflight
<1>1. pc[Attempt(r)] = "idle"
  BY DEF Known, RowFits, AttemptFits, Lost
<1>2. r \notin inflight
  BY <1>1 DEF Known, RowFits, SlotFits, Starting
<1>3. \A i \in Issues : ~ArmedFor(i, r)'
  BY TimerWork DEF ArmsNone
<1>. QED  BY <1>1, <1>2, <1>3 DEF Engaged, WorkAhead, Fired, TimerMoves

\* While a batch claims an issue, no Run of it is engaged: it would be in flight,
\* for its issue is offered, and is not, for the claim has checked.
LEMMA FreshAlone ==
  ASSUME Known, NEW b \in Batches, pc[Batch(b)] = "label", ~IsRaw(work[Batch(b)].issue)
  PROVE  \A s \in Rows : issueOf[s] = work[Batch(b)].issue => ~Engaged(s)
<1>. DEFINE i == work[Batch(b)].issue
<1>1. Batch(b) \in Claimants
  BY ThreadNames
<1>2. i \in Issues /\ work[Batch(b)] # NoWork /\ ~InFlightIssue(i)
  BY <1>1, ClaimWork DEF Known, TypeInv, TypeOK, WorkInv, GrantInv, Grantable
<1>3. Offered(i)
  BY <1>2 DEF Offered
<1>. QED  BY <1>2, <1>3 DEF Known, Chained, ChainFits, KeepsIssue, InFlightIssue

\* The request to claim failed, and so does the claim.
LEMMA ClaimLabelFailsChained ==
  ASSUME Known, NEW t \in Claimants, ClaimLabelFails(t)
  PROVE  Chained'
<1>. DEFINE i == work[t].issue
<1>0. /\ Rows' = Rows /\ ~stopping' /\ i \in Issues /\ pc[t] = "label"
      /\ labels \in [Issues -> SUBSET Labels]
  BY ClaimWork DEF ClaimLabelFails, Rows, Known, Chained, TypeInv, TypeOK, GithubOK
<1>1. /\ pc' = [pc EXCEPT ![t] = "idle"] /\ work' = [work EXCEPT ![t] = NoWork]
      /\ UNCHANGED <<sched, local, inflight, todo, seen, cand, row, issueOf, nrows>>
  BY DEF ClaimLabelFails, Goto
<1>2. /\ \A s \in Runs : /\ t # Timer(s) => SameThreads(s)
                         /\ t = Timer(s) => TimerMoves(s, "idle")
      /\ \A s \in Runs : TickPasses(s) /\ ArmsNone(s)
      /\ pc'[Tick] = pc[Tick]
  BY <1>1, ClaimantMoves, TickElsewhere, ArmsStay DEF Known
<1>3. OffersStay
  BY <1>1, <1>2, ClaimantOffers
<1>4. ASSUME NEW s \in Runs PROVE RowRests(s)
  <2>1. CASE t # Timer(s)
    BY <1>0, <1>1, <1>2, <2>1, ThreadsRest
  <2>2. CASE t = Timer(s)
    <3>1. Fired(s)
      BY <1>0, <2>2 DEF Fired
    <3>. QED  BY <1>0, <1>1, <1>2, <2>2, <3>1, TimerRests
  <2>. QED  BY <2>1, <2>2
<1>5. ASSUME NEW j \in Issues, ~IsRaw(j) PROVE IssueRests(j)
  <2>1. CASE j # i
    <3>1. labels'[j] = labels[j]
      BY <1>0, <2>1 DEF ClaimLabelFails
    <3>. QED  BY <1>3, <1>5, <3>1, IssueStays
  <2>2. CASE j = i /\ \E b \in Batches : t = Batch(b)
    BY <1>0, <1>5, <2>2, FreshAlone DEF IssueRests
  <2>3. CASE j = i /\ \E r \in Runs : t = Timer(r)
    <3>1. PICK r \in Runs : t = Timer(r)
      BY <2>3
    <3>2. Fired(r) /\ TimerMoves(r, "idle") /\ pc[Timer(r)] # "retrylabel"
      BY <1>0, <1>2, <3>1 DEF Fired
    <3>3. j = issueOf[r] /\ r \in Rows /\ Engaged(r)
      BY <2>3, <3>1, <3>2, TimerWork
    <3>4. ~Engaged(r)'
      BY <1>1, <1>2, <1>5, <3>2, <3>3, TimerLeaves
    <3>. QED  BY <1>5, <3>3, <3>4, IssueLeft
  <2>. QED  BY <2>1, <2>2, <2>3 DEF Claimants
<1>. QED  BY <1>0, <1>1, <1>4, <1>5, AllRest

\* The claimed Run is the one that is engaged now; the claimant no longer is.
LEMMA ClaimPersistChained ==
  ASSUME Known, NEW t \in Claimants, ClaimPersist(t)
  PROVE  Chained'
<1>. DEFINE w == work[t]
<1>. PICK i \in Issues : i = w.issue
  BY ClaimWork DEF ClaimPersist, Known, TypeInv, TypeOK
<1>. PICK new \in Runs : new = nrows + 1
  BY RoomHere DEF ClaimPersist, Known
<1>0. /\ w \in Work /\ row \in [Runs -> Row] /\ pc[t] = "label"
      /\ nrows \in Nat /\ issueOf \in [Runs -> Issues] /\ Rows \subseteq Runs
      /\ new \notin Rows /\ inflight \subseteq Rows /\ ContinuationCap \in Nat
      /\ labels \in [Issues -> SUBSET Labels]
  BY ClaimWork, SameTable, BoundsAssumption
  DEF Known, TypeInv, TypeOK, ClaimPersist, RoomInv, StoreOK, RowsInv, Runs, Rows, GithubOK
<1>1. /\ UNCHANGED <<sched, local, stopping, todo, seen, cand>> /\ ~stopping
      /\ inflight' = inflight \cup {new} /\ work' = [work EXCEPT ![t] = NoWork]
      /\ row' = [row EXCEPT ![new] = NewRow(w)] /\ nrows' = new
      /\ issueOf' = [issueOf EXCEPT ![new] = i]
      /\ labels' = [labels EXCEPT ![i] = Claimed(@)]
  BY DEF ClaimPersist
<1>2. PICK where :
        /\ pc' = [pc EXCEPT ![Attempt(new)] = "entry", ![t] = where]
        /\ w.kind # "fresh" => where = "idle"
  BY DEF ClaimPersist
<1>. HIDE DEF w
<1>3. /\ \A u \in Threads : pc'[u] = IF u = t THEN where
                                     ELSE IF u = Attempt(new) THEN "entry" ELSE pc[u]
      /\ \A u \in Threads : u # t => work'[u] = work[u]
  BY <1>1, <1>2 DEF Known, TypeInv, TypeOK, ControlOK
<1>4. /\ \A s \in Runs : /\ t # Attempt(s) /\ t # Wait(s)
                         /\ Attempt(s) \in Threads /\ Timer(s) \in Threads
                         /\ Wait(s) \in Threads
      /\ t # Tick /\ Tick \in Threads /\ \A s \in Runs : Attempt(s) # Tick
  BY ThreadNames, ThreadsDiffer
<1>5. /\ t # Timer(new) /\ ~Fired(new) /\ \A l \in Issues : ~ArmedFor(l, new)
      /\ ~Evaluating(new)
  BY <1>0 DEF Known, RowFits, TimerFits, WorkAhead, Fired, WaitFits
<1>6. pc'[Tick] = pc[Tick] /\ \A s \in Runs : TickPasses(s) /\ ArmsNone(s)
  <2>1. pc'[Tick] = pc[Tick]
    BY <1>0, <1>3, <1>4
  <2>. QED  BY <1>1, <2>1, TickElsewhere, ArmsStay
<1>7. /\ \A s \in Runs : s # new =>
           /\ row'[s] = row[s] /\ issueOf'[s] = issueOf[s]
           /\ s \in inflight' <=> s \in inflight
           /\ s \in Rows' <=> s \in Rows
      /\ Rows' = Rows \cup {new} /\ issueOf'[new] = i /\ row'[new] = NewRow(w)
  BY <1>0, <1>1 DEF Rows, Runs
<1>8. ASSUME NEW s \in Runs, s # new
      PROVE  /\ RowRests(s)
             /\ t = Timer(s) => TimerMoves(s, "idle") /\ Fired(s) /\ w.kind # "fresh"
  <2>1. pc'[Attempt(s)] = pc[Attempt(s)] /\ pc'[Wait(s)] = pc[Wait(s)]
    BY <1>0, <1>3, <1>4, <1>8, ThreadsDiffer
  <2>2. CASE t = Timer(s)
    <3>1. TimerMoves(s, "idle") /\ Fired(s) /\ w.kind # "fresh"
      <4>1. where = "idle" /\ w.kind # "fresh"
        BY <1>0, <1>2, <2>2 DEF w, Known, TypeInv, WorkInv, NoWork
      <4>. QED  BY <1>0, <1>3, <1>4, <2>1, <2>2, <4>1 DEF TimerMoves, Fired
    <3>. QED  BY <1>1, <1>6, <1>7, <1>8, <3>1, TimerRests
  <2>3. CASE t # Timer(s)
    <3>1. SameThreads(s)
      BY <1>0, <1>3, <1>4, <1>8, <2>1, <2>3, ThreadsDiffer DEF SameThreads
    <3>. QED  BY <1>1, <1>6, <1>7, <1>8, <2>3, <3>1, ThreadsRest
  <2>. QED  BY <2>2, <2>3
<1>9. /\ pc'[Attempt(new)] = "entry" /\ pc'[Timer(new)] = pc[Timer(new)]
      /\ pc'[Wait(new)] = pc[Wait(new)]
  BY <1>0, <1>3, <1>4, <1>5, ThreadsDiffer
<1>10. /\ ~Fired(new)' /\ ~Evaluating(new)' /\ \A l \in Issues : ~ArmedFor(l, new)'
       /\ row'[new].state = "queued" /\ row'[new].reason = "none"
       /\ row'[new].cont = (w.kind # "fresh")
  BY <1>0, <1>5, <1>6, <1>7, <1>9 DEF Fired, Evaluating, TickPasses, ArmsNone, NewRow, NoRow
<1>11. \A s \in Runs : FiledFits(s)'
  <2>1. FiledFits(new)'
    BY <1>10 DEF FiledFits
  <2>. QED  BY <1>8, <2>1, RestsCalm DEF Known, Chained
<1>12. OffersStay
  BY <1>1, <1>6, ClaimantOffers DEF Known
<1>13. ASSUME NEW j \in Issues, ~IsRaw(j), j # i PROVE ChainFits(j)'
  <2>1. ChainFits(j)
    BY <1>13 DEF Known, Chained
  <2>2. labels'[j] = labels[j]
    BY <1>0, <1>1, <1>13
  <2>3. IssueRests(j)
    BY <1>12, <1>13, <2>2, IssueStays
  <2>4. \A s \in Rows : issueOf[s] = j => RowCalm(s)
    BY <1>0, <1>8, <2>1, RestsCalm DEF Known, Chained, ChainFits
  <2>5. \A s \in Rows' : s \notin Rows => issueOf'[s] # j
    BY <1>7, <1>13
  <2>6. \A s \in Rows : issueOf'[s] = issueOf[s]
    BY <1>0, <1>7
  <2>7. nrows' \in Nat /\ Rows \subseteq Rows'
    BY <1>0, <1>1, <1>7
  <2>. QED  BY <1>0, <2>1, <2>3, <2>4, <2>5, <2>6, <2>7, IssueChained
<1>14. ASSUME ~IsRaw(i) PROVE ChainFits(i)'
  <2>1. ChainFits(i)
    BY <1>0, <1>14 DEF Known, Chained
  <2>2. \A s \in Rows : issueOf[s] = i => RowCalm(s) /\ s # new /\ s \in Runs
    BY <1>0, <1>8, <2>1, RestsCalm DEF Known, Chained, ChainFits
  <2>3. /\ \A s \in Rows : issueOf[s] = i => ~Engaged(s)'
        /\ w.kind # "fresh" => SucceededContinuations(i) < ContinuationCap
    <3>1. CASE \E b \in Batches : t = Batch(b)
      <4>1. w.kind = "fresh"
        BY <1>0, <3>1 DEF w, Known, TypeInv, WorkInv, NoWork
      <4>. QED  BY <1>0, <1>14, <2>2, <3>1, <4>1, FreshAlone DEF RowCalm, w
    <3>2. CASE \E r \in Runs : t = Timer(r)
      <4>1. PICK r \in Runs : t = Timer(r)
        BY <3>2
      <4>2. r # new /\ Fired(r) /\ TimerMoves(r, "idle") /\ w.kind # "fresh"
        BY <1>5, <1>8, <4>1
      <4>3. /\ i = issueOf[r] /\ r \in Rows /\ Engaged(r) /\ w.kind \in Owed
            /\ w = work[Timer(r)]
        BY <4>1, <4>2, TimerWork DEF w
      <4>4. w.kind = "continuation" /\ Continues(r)
        <5>1. w.kind # "retry"
          BY <1>0, <4>1, <4>2, <4>3 DEF Known, RowFits, TimerFits
        <5>2. PlainFits(r)
          BY <2>1, <4>3 DEF ChainFits
        <5>3. w.kind = "continuation"
          BY <4>2, <4>3, <5>1, <5>2 DEF PlainFits
        <5>. QED  BY <4>2, <4>3, <5>3 DEF Continues
      <4>5. ~Engaged(r)'
        <5>1. pc[Timer(r)] # "retrylabel" /\ (r \in inflight' <=> r \in inflight)
          BY <1>0, <1>7, <4>1, <4>2
        <5>. QED  BY <1>6, <1>14, <4>2, <4>3, <5>1, TimerLeaves
      <4>6. \A s \in Rows : issueOf[s] = i /\ Engaged(s) => s = r
        BY <2>1, <4>3 DEF ChainFits
      <4>7. SucceededContinuations(i) < ContinuationCap
        BY <2>1, <4>3, <4>4 DEF ChainFits, KeepsIssue
      <4>. QED  BY <2>2, <4>5, <4>6, <4>7 DEF RowCalm
    <3>. QED  BY <3>1, <3>2 DEF Claimants
  <2>4. /\ SucceededContinuations(i)' <= SucceededContinuations(i)
        /\ SucceededContinuations(i) \in Nat /\ SucceededContinuations(i)' \in Nat
    <3>1. CountedRows(i)' \subseteq CountedRows(i)
      BY <1>0, <1>7, <1>10, <2>2 DEF CountedRows, RowCalm
    <3>2. nrows' \in Nat
      BY <1>0, <1>1
    <3>. QED  BY <1>0, <3>1, <3>2, CountBound
  <2>5. PlainFits(new)'
    BY <1>9, <1>10 DEF PlainFits
  <2>6. KeepsIssue(new)'
    <3>1. "claimed" \in labels'[i] /\ new \in inflight'
      BY <1>0, <1>1 DEF Claimed
    <3>2. Continues(new)' => w.kind # "fresh"
      BY <1>10 DEF Continues
    <3>. QED  BY <1>0, <1>7, <2>3, <2>4, <3>1, <3>2 DEF KeepsIssue
  <2>7. \A s \in Rows' : issueOf'[s] = i => /\ PlainFits(s)'
                                            /\ Engaged(s)' => s = new
    BY <1>0, <1>7, <2>2, <2>3, <2>5 DEF RowCalm
  <2>8. SucceededContinuations(i)' <= ContinuationCap
    <3>1. SucceededContinuations(i) <= ContinuationCap
      BY <2>1 DEF ChainFits
    <3>. QED  BY <1>0, <2>4, <3>1
  <2>. QED  BY <2>6, <2>7, <2>8 DEF ChainFits
<1>. QED  BY <1>1, <1>11, <1>13, <1>14 DEF Chained, IsRaw

LEMMA ClaimStepChained ==
  ASSUME Known, NEW t \in Claimants, ClaimStep(t)
  PROVE  Chained'
BY ClaimGateCheckChained, ClaimPersistChained, ClaimLabelFailsChained
DEF ClaimStep, ClaimRollback, Known, Chained

-----------------------------------------------------------------------------
(* Delayed work.                                                           *)

\* What was armed passes to the hands of its timer.
LEMMA TimerFireChained ==
  ASSUME Known, NEW i \in Issues, TimerFire(i)
  PROVE  Chained'
<1>. PICK w \in Work : w = sched[i]
  BY DEF TimerFire, Known, TypeInv, TypeOK, TimerOK
<1>. PICK r \in Runs : r = w.run
  BY DEF TimerFire, Known, TypeInv, SchedInv
<1>1. /\ sched' = [sched EXCEPT ![i] = NoWork] /\ sched \in [Issues -> Work \cup {NoWork}]
      /\ w.kind # "fresh" /\ w.issue = i /\ Rows' = Rows /\ ~stopping'
      /\ UNCHANGED <<row, issueOf, nrows, local, inflight, labels, todo, seen, cand>>
  BY DEF TimerFire, Known, Chained, TypeInv, TypeOK, TimerOK, SchedInv, Rows
<1>2. /\ \A s \in Runs : ArmsNone(s)
      /\ \A j \in Issues, s \in Runs : ArmedFor(j, s)' => j # i
  BY <1>1 DEF ArmsNone, ArmedFor, NoWork, Owed
<1>3. /\ Timer(r) \in Threads /\ Wait(r) \in Threads /\ Timer(r) # Tick /\ Wait(r) # Tick
      /\ Timer(r) \in Claimants
  BY ThreadNames, ThreadsDiffer
<1>4. CASE w.kind = "wait"
  <2>1. pc' = [pc EXCEPT ![Wait(r)] = "waitq"] /\ work' = work
    BY <1>4 DEF TimerFire, Goto
  <2>2. /\ \A s \in Runs : s # r => SameThreads(s)
        /\ WaitMoves(r, "waitq") /\ pc'[Tick] = pc[Tick]
    BY <2>1, <1>3, OneMoves, ThreadsDiffer DEF Known
  <2>3. \A s \in Runs : TickPasses(s)
    BY <1>1, <2>2, TickElsewhere
  <2>4. RowRests(r)
    BY <1>1, <1>2, <2>1, <2>2, <2>3 DEF RowRests, WaitMoves, TickPasses, Fired, Evaluating
  <2>5. \A s \in Runs : RowRests(s)
    BY <1>1, <1>2, <2>2, <2>3, <2>4, ThreadsRest
  <2>6. OffersStay
    BY <1>1, <2>1, <2>2 DEF OffersStay
  <2>. QED  BY <1>1, <2>5, <2>6, IssueStays, AllRest
<1>5. CASE w.kind # "wait"
  <2>1. /\ pc' = [pc EXCEPT ![Timer(r)] = "fired"] /\ pc[Timer(r)] = "idle"
        /\ work' = [work EXCEPT ![Timer(r)] = w]
    BY <1>5 DEF TimerFire, Goto
  <2>2. /\ \A s \in Runs : s # r => SameThreads(s)
        /\ TimerMoves(r, "fired") /\ pc'[Tick] = pc[Tick]
    BY <2>1, <1>3, OneMoves, ThreadsDiffer DEF Known
  <2>3. \A s \in Runs : TickPasses(s)
    BY <1>1, <2>2, TickElsewhere
  <2>4. work'[Timer(r)] = w /\ \A b \in Batches : work'[Batch(b)] = work[Batch(b)]
    BY <2>1, <1>3, ThreadNames, ThreadsDiffer DEF Known, TypeInv, TypeOK, ControlOK
  <2>5. ArmedFor(i, r) /\ w.kind \in Owed
    BY <1>1, <1>5 DEF ArmedFor, Owed, Work, Kinds
  <2>6. issueOf[r] = i /\ r \in Rows /\ Engaged(r) /\ \A j \in Issues : ~ArmedFor(j, r)'
    BY <1>2, <2>5
    DEF Known, Chained, FiledFits, RowFits, TimerFits, WorkAhead, Engaged, ArmsNone
  <2>7. OffersStay
    BY <1>1, <2>2, <2>4 DEF OffersStay
  <2>8. \A s \in Runs : s # r => RowRests(s)
    BY <1>1, <1>2, <2>2, <2>3, ThreadsRest
  <2>9. FiledFits(r)'
    BY <1>1, <2>4, <2>6 DEF FiledFits, Known, Chained
  <2>10. ASSUME ~IsRaw(i) PROVE RowCalm(r)
    <3>1. PlainFits(r)
      BY <2>6, <2>10 DEF Known, Chained, ChainFits
    <3>2. Evaluating(r)' => Evaluating(r)
      BY <2>2, <2>3 DEF Evaluating, TimerMoves, TickPasses
    <3>3. PlainFits(r)'
      BY <1>1, <2>2, <2>4, <2>5, <2>6, <3>1, <3>2 DEF PlainFits, TimerMoves
    <3>4. Continues(r)' => Continues(r)
      BY <1>1, <2>4, <2>5, <2>6 DEF Continues
    <3>. QED  BY <1>1, <2>6, <3>3, <3>4 DEF RowCalm
  <2>. QED  BY <1>1, <2>6, <2>7, <2>8, <2>9, <2>10, IssueStays, StepChained DEF Known
<1>. QED  BY <1>4, <1>5

\* The refreshed issue no longer admits the work, or the refresh failed.
LEMMA TimerDropsChained ==
  ASSUME Known, NEW r \in Runs, TimerDropped(r) \/ TimerUnavailable(r)
  PROVE  Chained'
<1>0. row \in [Runs -> Row] /\ Timer(r) \in Claimants /\ pc[Timer(r)] = "fired"
      /\ labels \in [Issues -> SUBSET Labels] /\ issueOf[r] \in Issues
  BY SameTable, ThreadNames
  DEF TimerDropped, TimerUnavailable, Known, TypeInv, TypeOK, GithubOK, StoreOK
<1>1. /\ pc' = [pc EXCEPT ![Timer(r)] = "idle"] /\ Rows' = Rows /\ ~stopping'
      /\ UNCHANGED <<sched, local, inflight, todo, issueOf, nrows, seen, cand>>
      /\ work' = [work EXCEPT ![Timer(r)] = NoWork]
  BY DEF TimerDropped, TimerUnavailable, Goto, Rows, Known, Chained
<1>2. /\ \A s \in Runs : s # r => SameThreads(s)
      /\ TimerMoves(r, "idle") /\ pc'[Tick] = pc[Tick]
      /\ \A s \in Runs : TickPasses(s) /\ ArmsNone(s)
  BY <1>0, <1>1, ClaimantMoves, TickElsewhere, ArmsStay, ThreadsDiffer DEF Known
<1>3. /\ Fired(r) /\ r \in Rows /\ Engaged(r) /\ work[Timer(r)].issue = issueOf[r]
      /\ \A i \in Issues : ~ArmedFor(i, r)
  BY <1>0, TimerWork DEF Fired
<1>4. /\ \A s \in Runs : s # r => row'[s] = row[s]
      /\ \/ row'[r] = row[r]
         \/ row'[r].state = "cancelled" /\ row'[r].reason # "daemon_shutdown"
  <2>1. CASE row' = row
    BY <2>1
  <2>2. CASE \E why \in {"eligibility_loss", "closed_issue"} :
                row' = [row EXCEPT ![r] = CancelledRow(@, why)]
    <3>1. PICK why \in {"eligibility_loss", "closed_issue"} :
            row' = [row EXCEPT ![r] = CancelledRow(@, why)]
      BY <2>2
    <3>2. row[r] \in Row /\ row[r].reason # "daemon_shutdown"
      BY <1>0 DEF Known, Chained, FiledFits
    <3>3. /\ CancelledRow(row[r], why).state = "cancelled"
          /\ CancelledRow(row[r], why).reason = why
      BY <3>2, WrittenRows DEF Reasons
    <3>. QED  BY <1>0, <3>1, <3>3
  <2>. QED  BY <2>1, <2>2 DEF TimerDropped, TimerUnavailable
<1>5. \A s \in Runs : s # r => RowRests(s)
  BY <1>1, <1>2, <1>4, ThreadsRest
<1>6. FiledFits(r)'
  BY <1>1, <1>2, <1>3, <1>4 DEF FiledFits, Fired, TimerMoves, ArmsNone, Known, Chained
<1>7. ASSUME ~IsRaw(issueOf[r]) PROVE RowCalm(r) /\ IssueRests(issueOf[r])
  <2>1. ~Engaged(r)' /\ pc[Attempt(r)] = "idle"
    BY <1>0, <1>1, <1>2, <1>3, <1>7, TimerLeaves
  <2>2. PlainFits(r)
    BY <1>0, <1>3, <1>7 DEF Known, Chained, ChainFits
  <2>3. PlainFits(r)'
    BY <1>2, <1>3, <1>4, <2>1, <2>2
    DEF PlainFits, Fired, Evaluating, TimerMoves, TickPasses, ArmsNone
  <2>. QED  BY <1>3, <1>4, <1>7, <2>1, <2>3, IssueLeft DEF RowCalm
<1>8. ASSUME NEW j \in Issues, ~IsRaw(j), j # issueOf[r] PROVE IssueRests(j)
  <2>1. labels'[j] = labels[j]
    BY <1>0, <1>3, <1>8 DEF TimerDropped, TimerUnavailable
  <2>2. OffersStay
    BY <1>0, <1>1, <1>2, ClaimantOffers
  <2>. QED  BY <1>8, <2>1, <2>2, IssueStays
<1>. QED  BY <1>1, <1>3, <1>5, <1>6, <1>7, <1>8, StepChained DEF Known

LEMMA TimerGoesOnChained ==
  ASSUME Known, NEW r \in Runs, TimerAdmitted(r) \/ RetryGate(r)
  PROVE  Chained'
<1>0. Timer(r) \in Claimants /\ pc[Timer(r)] # "idle" /\ ~stopping
  BY ThreadNames DEF TimerAdmitted, RetryGate, Known, Chained
<1>1. /\ \E where : Goto(Timer(r), where)
      /\ UNCHANGED <<work, sched, row, labels, local, inflight, stopping, todo,
                     issueOf, nrows, seen, cand>>
  BY <1>0 DEF TimerAdmitted, RetryGate
<1>2. OffersStay
  <2>1. pc'[Tick] = pc[Tick]
    BY <1>0, <1>1, ClaimantMoves DEF Goto, Known
  <2>. QED  BY <1>0, <1>1, <2>1, ClaimantOffers
<1>. QED  BY <1>0, <1>1, <1>2, ClaimGoesOnChained

\* A retry is put off, or takes its slot.
LEMMA RetryCheckChained ==
  ASSUME Known, NEW r \in Runs, RetryCheck(r)
  PROVE  Chained'
<1>0. /\ Timer(r) \in Claimants /\ pc[Timer(r)] = "retrycheck" /\ ~stopping /\ Rows' = Rows
      /\ UNCHANGED <<local, stopping, todo, seen, cand, issueOf, nrows>>
      /\ inflight \in SUBSET Runs
  BY ThreadNames DEF RetryCheck, Known, Chained, Rows, TypeInv, TypeOK, RegistryOK
<1>1. /\ Fired(r) /\ work[Timer(r)] \in Work /\ work[Timer(r)].kind = "retry"
      /\ work[Timer(r)].run = r /\ work[Timer(r)].issue = issueOf[r]
      /\ r \in Rows /\ Engaged(r)
  BY <1>0, RetryStands, TimerWork DEF Fired, RetryPCs, Known
<1>2. CASE /\ RetryEnds(r) /\ inflight' = inflight
           /\ ScheduleRunWork(row, row, labels,
                              [kind |-> "retry", issue |-> issueOf[r], run |-> r])
  <2>1. [kind |-> "retry", issue |-> issueOf[r], run |-> r] = work[Timer(r)]
    BY <1>1 DEF Work
  <2>2. /\ row' = row /\ labels' = labels
        /\ \/ sched' = sched
           \/ sched' = [sched EXCEPT ![work[Timer(r)].issue] = work[Timer(r)]]
    BY <1>0, <1>2, <2>1 DEF ScheduleRunWork
  <2>3. /\ pc' = [pc EXCEPT ![Timer(r)] = "idle"]
        /\ work' = [work EXCEPT ![Timer(r)] = NoWork]
    BY <1>2 DEF RetryEnds, Goto
  <2>4. OffersStay
    <3>1. pc'[Tick] = pc[Tick]
      BY <1>0, <2>3, ClaimantMoves DEF Known
    <3>. QED  BY <1>0, <2>3, <3>1, ClaimantOffers
  <2>. QED  BY <1>0, <1>1, <1>2, <2>2, <2>3, <2>4, TimerRearmed
<1>3. CASE /\ inflight' = inflight \cup {r} /\ Goto(Timer(r), "retrylabel")
           /\ UNCHANGED <<work, sched, row, labels>>
  <2>1. pc' = [pc EXCEPT ![Timer(r)] = "retrylabel"]
    BY <1>3 DEF Goto
  <2>2. /\ \A s \in Runs : s # r => SameThreads(s)
        /\ TimerMoves(r, "retrylabel") /\ pc'[Tick] = pc[Tick]
        /\ \A s \in Runs : TickPasses(s) /\ ArmsNone(s)
    BY <1>0, <1>3, <2>1, ClaimantMoves, TickElsewhere, ArmsStay, ThreadsDiffer DEF Known
  <2>3. ASSUME NEW s \in Runs, s # r PROVE RowRests(s)
    <3>1. s \in inflight' <=> s \in inflight
      BY <1>0, <1>3, <2>3
    <3>. QED  BY <1>0, <1>3, <2>2, <2>3, <3>1, ThreadsRest
  <2>4. FiledFits(r)'
    BY <1>0, <1>1, <1>3, <2>2 DEF FiledFits, ArmsNone, Known, Chained
  <2>5. ASSUME ~IsRaw(issueOf[r]) PROVE RowCalm(r)
    <3>1. PlainFits(r)
      BY <1>1, <2>5 DEF Known, Chained, ChainFits, TypeInv, TypeOK, StoreOK
    <3>2. PlainFits(r)'
      BY <1>0, <1>1, <1>3, <2>2, <3>1
      DEF PlainFits, Evaluating, TimerMoves, TickPasses, ArmsNone
    <3>3. Continues(r)' => Continues(r)
      BY <1>1, <1>3, <2>2 DEF Continues, ArmsNone
    <3>. QED  BY <1>1, <1>3, <3>2, <3>3 DEF RowCalm
  <2>6. OffersStay
    BY <1>0, <1>3, <2>2, ClaimantOffers
  <2>7. \A i \in Issues : ~IsRaw(i) => IssueRests(i)
    BY <1>3, <2>6, IssueStays
  <2>8. issueOf[r] \in Issues
    BY DEF Known, TypeInv, TypeOK, StoreOK
  <2>. QED  BY <1>0, <1>1, <2>3, <2>4, <2>5, <2>7, <2>8, StepChained DEF Known
<1>. QED  BY <1>0, <1>2, <1>3 DEF RetryCheck

\* The retry's attempt begins.
LEMMA RetryLabelChained ==
  ASSUME Known, NEW r \in Runs, RetryLabel(r)
  PROVE  Chained'
<1>0. /\ pc[Timer(r)] = "retrylabel" /\ Rows' = Rows /\ ~stopping'
      /\ UNCHANGED <<local, inflight, todo, seen, cand, issueOf, nrows, row, sched>>
      /\ pc' = [pc EXCEPT ![Timer(r)] = "idle", ![Attempt(r)] = "entry"]
      /\ work' = [work EXCEPT ![Timer(r)] = NoWork]
      /\ labels \in [Issues -> SUBSET Labels] /\ issueOf[r] \in Issues
  BY DEF RetryLabel, Rows, Known, Chained, TypeInv, TypeOK, GithubOK, StoreOK
<1>1. /\ \A u \in Threads : pc'[u] = IF u = Attempt(r) THEN "entry"
                                     ELSE IF u = Timer(r) THEN "idle" ELSE pc[u]
      /\ \A u \in Threads : u # Timer(r) => work'[u] = work[u]
  BY <1>0 DEF Known, TypeInv, TypeOK, ControlOK
<1>2. /\ Tick \in Threads /\ Timer(r) \in Claimants
      /\ \A s \in Runs : /\ Attempt(s) \in Threads /\ Timer(s) \in Threads
                         /\ Wait(s) \in Threads /\ Attempt(s) # Tick /\ Timer(s) # Tick
  BY ThreadNames, ThreadsDiffer
<1>3. pc'[Tick] = pc[Tick] /\ \A s \in Runs : TickPasses(s) /\ ArmsNone(s)
  <2>1. pc'[Tick] = pc[Tick]
    BY <1>1, <1>2
  <2>. QED  BY <1>0, <2>1, TickElsewhere, ArmsStay
<1>4. ASSUME NEW s \in Runs, s # r PROVE RowRests(s)
  <2>1. SameThreads(s)
    BY <1>1, <1>2, <1>4, ThreadsDiffer DEF SameThreads
  <2>. QED  BY <1>0, <1>3, <2>1, ThreadsRest
<1>5. /\ pc'[Timer(r)] = "idle" /\ pc'[Attempt(r)] = "entry" /\ pc'[Wait(r)] = pc[Wait(r)]
  BY <1>1, <1>2, ThreadsDiffer
<1>6. Fired(r) /\ r \in Rows /\ Engaged(r) /\ \A i \in Issues : ~ArmedFor(i, r)
  BY <1>0, TimerWork DEF Fired
<1>7. ~Fired(r)' /\ (\A i \in Issues : ~ArmedFor(i, r)') /\ (Evaluating(r)' => Evaluating(r))
  BY <1>3, <1>5, <1>6 DEF Fired, Evaluating, ArmsNone, TickPasses
<1>8. FiledFits(r)'
  BY <1>0, <1>7 DEF FiledFits, Known, Chained
<1>9. ASSUME ~IsRaw(issueOf[r]) PROVE RowCalm(r)
  <2>1. PlainFits(r)
    BY <1>0, <1>6, <1>9 DEF Known, Chained, ChainFits
  <2>2. PlainFits(r)'
    BY <1>0, <1>5, <1>7, <2>1 DEF PlainFits
  <2>3. Continues(r)' => Continues(r)
    BY <1>0, <1>7 DEF Continues
  <2>. QED  BY <1>0, <1>6, <2>2, <2>3 DEF RowCalm
<1>10. OffersStay
  BY <1>0, <1>2, <1>3, ClaimantOffers
<1>11. \A i \in Issues : labels[i] \subseteq labels'[i]
  BY <1>0 DEF RetryLabel
<1>12. \A i \in Issues : ~IsRaw(i) => IssueRests(i)
  BY <1>10, <1>11, IssueStays
<1>. QED  BY <1>0, <1>4, <1>6, <1>8, <1>9, <1>12, StepChained DEF Known

-----------------------------------------------------------------------------
(* Wait steps: only the rows of a walk wait.                               *)

LEMMA IssueKept ==
  ASSUME Known, NEW i \in Issues, ~IsRaw(i), Offered(i)' => Offered(i),
         "claimed" \in labels[i] => "claimed" \in labels'[i]
  PROVE  IssueRests(i)
<1>1. \A s \in Rows : issueOf[s] = i /\ Engaged(s) => "claimed" \in labels[i]
  BY DEF Known, Chained, ChainFits, KeepsIssue
<1>. QED  BY <1>1 DEF IssueRests

\* The tick is in a pass that offers nothing.
LEMMA OffersPass ==
  ASSUME seen' = seen, cand' = cand, work' = work, pc'[Tick] \notin {"launch", "resume"},
         NEW i
  PROVE  Offered(i)' => Offered(i)
<1>. HIDE DEF Tick, Batch, NoWork
<1>. QED  BY DEF Offered

\* A row that a step creates and that nothing is armed for.
LEMMA NewbornFits ==
  ASSUME Known, NEW s \in Runs, s \notin Rows, s \in Rows', SameThreads(s), ArmsNone(s),
         TickPasses(s), s \in inflight' => s \in inflight,
         row'[s].state \in {"waiting", "failed"}, row'[s].reason # "daemon_shutdown",
         IsRaw(issueOf'[s]) \/ row'[s].state = "failed"
  PROVE  Newborn(s)
<1>. USE DEF SameThreads
<1>1. ~WorkAhead(s) /\ ~Evaluating(s) /\ s \notin inflight /\ pc[Attempt(s)] = "idle"
  BY DEF Known, RowFits, TimerFits, WaitFits, RowsInv
<1>2. ~WorkAhead(s)' /\ ~Evaluating(s)'
  BY <1>1 DEF WorkAhead, Fired, ArmsNone, Evaluating, TickPasses
<1>3. FiledFits(s)'
  BY <1>2 DEF FiledFits, WorkAhead
<1>4. ~Engaged(s)'
  BY <1>1, <1>2 DEF Engaged
<1>5. row'[s].state = "failed" => PlainFits(s)'
  BY <1>1, <1>2 DEF PlainFits, WorkAhead
<1>. QED  BY <1>3, <1>4, <1>5 DEF Newborn, IsRaw

\* A step about a row of a walk.
LEMMA WalkChained ==
  ASSUME Known, ~stopping', Rows \subseteq Rows', NEW r \in Rows, IsRaw(issueOf[r]),
         \A s \in Runs : s # r => RowRests(s) \/ Newborn(s),
         FiledFits(r)', issueOf'[r] = issueOf[r],
         \A i \in Issues : IsRaw(i) \/ IssueRests(i)
  PROVE  Chained'
BY StepChained DEF Known

LEMMA WaitsAreWalks ==
  ASSUME Known, NEW r \in Rows, Evaluating(r) \/ row[r].state = "waiting"
  PROVE  IsRaw(issueOf[r])
<1>1. issueOf[r] \in Issues
  BY BoundsAssumption DEF Known, TypeInv, TypeOK, StoreOK, Rows, Runs
<1>. QED  BY <1>1 DEF Known, Chained, ChainFits, PlainFits

\* What is decided is written, and armed or parked.
LEMMA DecidedChained ==
  ASSUME Known, NEW r \in Runs, Evaluating(r), WaitDecided(r), WaitFrame(r),
         \A i \in Issues : Offered(i)' => Offered(i)
  PROVE  Chained'
<1>. DEFINE i == issueOf[r]
            w == [kind |-> "advance", issue |-> i, run |-> r]
            advanced == [row EXCEPT ![r].state = "succeeded", ![r].stamp = "forward"]
<1>0. row \in [Runs -> Row] /\ row[r] \in Row /\ i \in Issues /\ labels \in [Issues -> SUBSET Labels]
      /\ issueOf \in [Runs -> Issues] /\ nrows \in Nat
  BY SameTable DEF Known, TypeInv, TypeOK, StoreOK, GithubOK
<1>1. /\ r \in Rows /\ ~WorkAhead(r) /\ row[r].reason # "daemon_shutdown" /\ IsRaw(i)
      /\ ~stopping /\ ~stopping'
  <2>1. r \in Rows /\ ~WorkAhead(r) /\ row[r].reason # "daemon_shutdown" /\ ~stopping
    BY DEF Known, RowFits, WaitFits, Chained, FiledFits
  <2>. QED  BY <2>1, WaitsAreWalks DEF WaitFrame
<1>2. ~Fired(r)' /\ \A l \in Issues : ~ArmedFor(l, r)
  BY <1>1 DEF WorkAhead, Fired, WaitFrame
<1>3. ASSUME \A l \in Issues : l # i => labels'[l] = labels[l]
      PROVE  \A l \in Issues : IsRaw(l) \/ IssueRests(l)
  BY <1>1, <1>3, IssueKept
<1>4. ASSUME \A s \in Runs : s # r => row'[s] = row[s] /\ ArmsNone(s),
             UNCHANGED <<issueOf, nrows>>, row'[r].reason # "daemon_shutdown",
             \A l \in Issues : ArmedFor(l, r)' => l = i,
             \A l \in Issues : l # i => labels'[l] = labels[l]
      PROVE  Chained'
  <2>1. Rows' = Rows
    BY <1>4 DEF Rows
  <2>2. \A s \in Runs : s # r => RowRests(s)
    BY <1>4, <2>1, ThreadsRest DEF WaitFrame
  <2>3. FiledFits(r)'
    BY <1>2, <1>4 DEF FiledFits
  <2>. QED  BY <1>1, <1>3, <1>4, <2>1, <2>2, <2>3, WalkChained
<1>5. CASE /\ sched' = sched /\ UNCHANGED <<issueOf, nrows>>
           /\ \/ row' = row /\ labels' = labels
              \/ row' = [row EXCEPT ![r].state = "succeeded", ![r].stamp = "none"]
                 /\ labels' = [labels EXCEPT ![i] = Released(@)]
              \/ row' = [row EXCEPT ![r].state = "blocked", ![r].stamp = "none",
                                    ![r].why = "blocked"]
                 /\ labels' = [labels EXCEPT ![i] = Released(@) \cup {"blocked"}]
  <2>1. /\ \A s \in Runs : s # r => row'[s] = row[s]
        /\ row'[r].reason = row[r].reason
    BY <1>0, <1>5 DEF Row
  <2>2. \A l \in Issues : l # i => labels'[l] = labels[l]
    BY <1>0, <1>5
  <2>3. \A s \in Runs : ArmsNone(s)
    BY <1>5, ArmsStay
  <2>. QED  BY <1>1, <1>2, <1>4, <1>5, <2>1, <2>2, <2>3 DEF ArmsNone
<1>6. CASE /\ UNCHANGED <<issueOf, nrows, labels, sched>>
           /\ row' = [row EXCEPT ![r] = [MarkCancelRequested(@, "closed_issue")
                                          EXCEPT !.state = "cancelled"]]
  <2>. DEFINE m == MarkCancelRequested(row[r], "closed_issue")
  <2>1. m \in Row /\ m.reason = "closed_issue"
    BY <1>0, <1>1, CancelReasonType, WrittenRows DEF Reasons
  <2>2. row'[r] = [m EXCEPT !.state = "cancelled"]
        /\ \A s \in Runs : s # r => row'[s] = row[s]
    BY <1>0, <1>6
  <2>. HIDE DEF m
  <2>3. row'[r].reason = "closed_issue"
    BY <2>1, <2>2 DEF Row
  <2>4. \A s \in Runs : ArmsNone(s)
    BY <1>6, ArmsStay
  <2>. QED  BY <1>1, <1>2, <1>4, <1>6, <2>2, <2>3, <2>4 DEF ArmsNone
<1>7. CASE /\ ScheduleRunWork(advanced, advanced, labels, w)
           /\ UNCHANGED <<issueOf, nrows>>
  <2>1. advanced \in [Runs -> Row] /\ w.run = r /\ w.issue = i /\ w.kind = "advance"
    BY <1>0 DEF Row, RowStates
  <2>2. /\ \A s \in Runs : s # r => advanced[s] = row[s]
        /\ advanced[r].reason = row[r].reason
    BY <1>0 DEF Row
  <2>3. labels' = labels
    BY <1>1, <1>7 DEF ScheduleRunWork
  <2>. HIDE DEF w, advanced
  <2>4. /\ \A s \in Runs : s # r => ArmsNone(s)
        /\ row' = advanced
        /\ \/ ArmsNone(r)
           \/ \A l \in Issues : ArmedFor(l, r)' =>
                \/ ArmedFor(l, r) /\ l # w.issue
                \/ l = w.issue /\ sched'[l].kind = w.kind
    BY <1>0, <1>1, <1>7, <2>1, ScheduleWrites DEF Known
  <2>5. \A l \in Issues : ArmedFor(l, r)' => l = i
    BY <1>2, <2>1, <2>4 DEF ArmsNone
  <2>. QED  BY <1>1, <1>4, <1>7, <2>2, <2>3, <2>4, <2>5
<1>8. CASE /\ ~StoreFull /\ nrows' = nrows + 1 /\ labels' = labels
           /\ issueOf' = [issueOf EXCEPT ![nrows + 1] = i]
           /\ row' = [row EXCEPT ![r].state = "succeeded", ![r].stamp = "forward",
                                 ![nrows + 1] = WaitingRow]
           /\ ScheduleWait(i, nrows + 1)
  <2>. PICK new \in Runs : new = nrows + 1
    BY <1>0, <1>8, BoundsAssumption DEF StoreFull, Runs
  <2>1. /\ new \notin Rows /\ Rows \subseteq Rows' /\ new \in Rows' /\ r # new
        /\ \A s \in Runs : s # new => (s \in Rows' <=> s \in Rows)
    BY <1>0, <1>1, <1>8 DEF Rows, Runs
  <2>2. \A s \in Runs : ArmsNone(s)
    BY <1>0, <1>8, ScheduleWaitArms DEF Known
  <2>3. /\ \A s \in Runs : s # r /\ s # new => row'[s] = row[s]
        /\ \A s \in Runs : s # new => issueOf'[s] = issueOf[s]
        /\ row'[new] = WaitingRow /\ issueOf'[new] = i
        /\ row'[r].reason = row[r].reason
    BY <1>0, <1>8, <2>1 DEF Row
  <2>4. FiledFits(r)' /\ issueOf'[r] = issueOf[r]
    BY <1>1, <1>2, <2>1, <2>2, <2>3 DEF FiledFits, ArmsNone
  <2>5. Newborn(new)
    <3>1. row'[new].state = "waiting" /\ row'[new].reason = "none"
      BY <2>3 DEF WaitingRow, NoRow
    <3>. QED  BY <1>1, <2>1, <2>2, <2>3, <3>1, NewbornFits DEF WaitFrame
  <2>6. ASSUME NEW s \in Runs, s # r, s # new PROVE RowRests(s)
    BY <2>1, <2>2, <2>3, <2>6, ThreadsRest DEF WaitFrame
  <2>7. \A l \in Issues : IsRaw(l) \/ IssueRests(l)
    BY <1>3, <1>8
  <2>. QED  BY <1>1, <2>1, <2>4, <2>5, <2>6, <2>7, WalkChained
<1>. QED  BY <1>1, <1>5, <1>6, <1>7, <1>8 DEF WaitDecided

\* A row that waits no more, or whose cancel was requested, is not evaluated.
LEMMA DroppedChained ==
  ASSUME Known, NEW r \in Runs, WaitDropped(r), WaitFrame(r),
         Evaluating(r)' => Evaluating(r),
         UNCHANGED <<issueOf, nrows, sched, labels>>,
         \A i \in Issues : Offered(i)' => Offered(i)
  PROVE  Chained'
<1>0. row \in [Runs -> Row] /\ Rows' = Rows /\ ~stopping'
  BY SameTable DEF Rows, Known, Chained, WaitFrame
<1>1. /\ \A s \in Runs : ArmsNone(s)
      /\ \A s \in Runs : s # r => row'[s] = row[s]
  BY <1>0, ArmsStay DEF WaitDropped
<1>2. \A s \in Runs : s # r => RowRests(s)
  BY <1>0, <1>1, ThreadsRest DEF WaitFrame
<1>3. RowRests(r)
  <2>1. /\ row'[r].state # "succeeded" \/ row'[r] = row[r]
        /\ row'[r].cont = row[r].cont /\ row'[r].retries = row[r].retries
        /\ row'[r].reason = row[r].reason /\ (row[r].state = "succeeded" => row'[r] = row[r])
        /\ row'[r].state = "waiting" => row[r].state = "waiting"
    BY <1>0 DEF WaitDropped, Row
  <2>. QED  BY <1>0, <1>1, <2>1 DEF RowRests, WaitFrame, Fired
<1>4. \A i \in Issues : ~IsRaw(i) => IssueRests(i)
  BY IssueKept
<1>. QED  BY <1>0, <1>2, <1>3, <1>4, AllRest

\* A row is read, and found waiting: it is of a walk.
LEMMA ReadChained ==
  ASSUME Known, NEW r \in Runs, Proceeds(r),
         \A s \in Runs : s # r => SameThreads(s) /\ TickPasses(s),
         pc'[Attempt(r)] = pc[Attempt(r)], pc'[Timer(r)] = pc[Timer(r)],
         work'[Timer(r)] = work[Timer(r)],
         UNCHANGED <<local, inflight, stopping, issueOf, nrows, sched, row, labels>>,
         \A i \in Issues : Offered(i)' => Offered(i)
  PROVE  Chained'
<1>0. /\ Rows' = Rows /\ ~stopping' /\ \A s \in Runs : ArmsNone(s)
      /\ r \in Rows /\ IsRaw(issueOf[r])
  <2>1. r \in Rows
    BY WaitingStands DEF Known, Proceeds, WaitStands
  <2>. QED  BY <2>1, WaitsAreWalks, ArmsStay DEF Rows, Proceeds, Known, Chained
<1>1. \A s \in Runs : s # r => RowRests(s)
  BY <1>0, ThreadsRest
<1>2. FiledFits(r)'
  BY <1>0 DEF FiledFits, Fired, ArmsNone, Known, Chained
<1>3. \A i \in Issues : IsRaw(i) \/ IssueRests(i)
  BY IssueKept
<1>. QED  BY <1>0, <1>1, <1>2, <1>3, WalkChained

LEMMA WaitStepChained ==
  ASSUME Known, NEW r \in Runs, WaitRead(r) \/ WaitEvaluate(r)
  PROVE  Chained'
<1>0. /\ Wait(r) \in Threads /\ Wait(r) # Tick /\ Attempt(r) # Wait(r)
      /\ UNCHANGED <<work, local, inflight, latch, resuming, stopping, todo, seen, cand>>
  BY ThreadNames, ThreadsDiffer DEF WaitRead, WaitEvaluate
<1>1. ASSUME NEW where, pc' = [pc EXCEPT ![Wait(r)] = where]
      PROVE  /\ WaitFrame(r) /\ WaitMoves(r, where)
             /\ \A i \in Issues : Offered(i)' => Offered(i)
  <2>1. /\ \A s \in Runs : s # r => SameThreads(s)
        /\ WaitMoves(r, where) /\ pc'[Tick] = pc[Tick]
    BY <1>0, <1>1, OneMoves, ThreadsDiffer DEF Known
  <2>2. \A s \in Runs : TickPasses(s)
    BY <1>0, <2>1, TickElsewhere
  <2>3. OffersStay
    BY <1>0, <2>1 DEF OffersStay
  <2>4. \A i \in Issues : Offered(i)' => Offered(i)
    BY <2>3, OfferFrame
  <2>. QED  BY <1>0, <2>1, <2>2, <2>4 DEF WaitFrame, WaitMoves
<1>2. CASE WaitRead(r)
  <2>1. UNCHANGED <<issueOf, nrows, sched, labels>>
    BY <1>2 DEF WaitRead
  <2>2. CASE WaitDropped(r) /\ pc' = [pc EXCEPT ![Wait(r)] = "idle"]
    <3>1. /\ WaitFrame(r) /\ WaitMoves(r, "idle")
          /\ \A i \in Issues : Offered(i)' => Offered(i)
      BY <1>1, <2>2
    <3>2. Evaluating(r)' => Evaluating(r)
      BY <3>1 DEF WaitFrame, WaitMoves, Evaluating, TickPasses
    <3>. QED  BY <2>1, <2>2, <3>1, <3>2, DroppedChained
  <2>3. CASE Proceeds(r) /\ pc' = [pc EXCEPT ![Wait(r)] = "waiteval"] /\ row' = row
    <3>1. WaitFrame(r) /\ \A i \in Issues : Offered(i)' => Offered(i)
      BY <1>1, <2>3
    <3>. QED  BY <1>0, <2>1, <2>3, <3>1, ReadChained DEF WaitFrame
  <2>. QED  BY <1>2, <2>2, <2>3 DEF WaitRead, Goto
<1>3. CASE WaitEvaluate(r)
  <2>1. Evaluating(r) /\ WaitDecided(r) /\ pc' = [pc EXCEPT ![Wait(r)] = "idle"]
    BY <1>3 DEF WaitEvaluate, Evaluating, Goto
  <2>. QED  BY <1>1, <2>1, DecidedChained
<1>. QED  BY <1>2, <1>3

-----------------------------------------------------------------------------
(* The tick.                                                               *)

\* A row that the tick passes by.
LEMMA TickRests ==
  ASSUME NEW s \in Runs, SameThreads(s), pc'[Tick] # "waiteval",
         UNCHANGED <<local, inflight, sched, row, issueOf, nrows>>
  PROVE  RowRests(s)
BY ArmsStay DEF RowRests, SameThreads, Fired, Evaluating, Rows

\* A step of the tick that writes no row and arms nothing.
LEMMA TickTurnsChained ==
  ASSUME Known, pc' = pc \/ \E where : pc' = [pc EXCEPT ![Tick] = where],
         pc'[Tick] # "waiteval",
         UNCHANGED <<work, local, inflight, stopping, sched, row, issueOf, nrows>>,
         \A i \in Issues : ~IsRaw(i) => IssueRests(i)
  PROVE  Chained'
<1>1. \A s \in Runs : SameThreads(s)
  BY TickMoves DEF Known
<1>2. \A s \in Runs : RowRests(s)
  BY <1>1, TickRests
<1>. QED  BY <1>2, AllRest DEF Known, Chained

\* The passes that follow one another in a step: what they list was offered.
LEMMA EntersChained ==
  ASSUME Known, NEW m, EnterResume(m, seen) \/ EnterDetect(m, seen) \/ EnterLaunch(seen),
         UNCHANGED <<work, cand, local, inflight, stopping, sched, row, issueOf, nrows, labels>>
  PROVE  Chained'
<1>1. Resumable = {}
  <2>1. \A s \in Rows : s \in Runs
    BY BoundsAssumption DEF Known, TypeInv, TypeOK, StoreOK, Rows, Runs
  <2>. QED  BY <2>1 DEF Resumable, Known, Chained, FiledFits
<1>2. PICK where \in {"mark", "launch"} :
         /\ pc' = [pc EXCEPT ![Tick] = where]
         /\ where = "mark" => seen' = seen
         /\ where = "launch" =>
              /\ seen' = Unseen
              /\ todo' = {i \in Issues : seen[i].open /\ seen[i].ready /\ seen[i].labels = {}}
  BY <1>1 DEF EnterResume, EnterDetect, EnterLaunch, Goto
<1>3. pc'[Tick] = where
  BY <1>2, ThreadNames DEF Known, TypeInv, TypeOK, ControlOK
<1>4. ASSUME NEW i \in Issues PROVE Offered(i)' => Offered(i)
  <2>. HIDE DEF Tick, Batch, NoWork
  <2>1. CASE where = "mark"
    BY <1>2, <1>3, <2>1 DEF Offered
  <2>2. CASE where = "launch"
    <3>1. ~seen'[i].open
      BY <1>2, <2>2 DEF Unseen
    <3>2. i \in todo' => seen[i].open /\ seen[i].ready /\ seen[i].labels = {}
      BY <1>2, <2>2
    <3>. QED  BY <1>3, <2>2, <3>1, <3>2 DEF Offered
  <2>. QED  BY <2>1, <2>2
<1>. QED  BY <1>2, <1>3, <1>4, IssueKept, TickTurnsChained

\* What the poll saw of the issue of an engaged Run is its claim.
LEMMA TickPollChained ==
  ASSUME Known, TickPoll
  PROVE  Chained'
<1>1. /\ pc' = [pc EXCEPT ![Tick] = "reconcile"]
      /\ UNCHANGED <<work, cand, local, inflight, stopping, sched, row, issueOf, nrows, labels>>
  BY DEF TickPoll, Goto
<1>2. pc'[Tick] = "reconcile"
  BY <1>1, ThreadNames DEF Known, TypeInv, TypeOK, ControlOK
<1>3. ASSUME NEW i \in Issues, ~IsRaw(i) PROVE IssueRests(i)
  <2>1. CASE "claimed" \in labels[i]
    <3>1. seen'[i].labels = labels[i]
      BY DEF TickPoll
    <3>. HIDE DEF Tick, Batch, NoWork
    <3>2. Offered(i)' => Offered(i)
      BY <1>1, <1>2, <2>1, <3>1 DEF Offered
    <3>. QED  BY <1>1, <1>3, <3>2, IssueKept
  <2>2. CASE "claimed" \notin labels[i]
    BY <1>3, <2>2 DEF IssueRests, Known, Chained, ChainFits, KeepsIssue
  <2>. QED  BY <2>1, <2>2
<1>. QED  BY <1>1, <1>2, <1>3, TickTurnsChained

\* Reasons are given to rows in flight, and never that of a shutdown.
LEMMA TickReconcileChained ==
  ASSUME Known, TickReconcile
  PROVE  Chained'
<1>0. /\ UNCHANGED <<work, cand, seen, local, inflight, stopping, issueOf, nrows, sched, labels>>
      /\ Tick \in Threads /\ pc \in [Threads -> PCs] /\ row \in [Runs -> Row]
      /\ pc' = [pc EXCEPT ![Tick] = "waits"]
  BY ThreadNames, SameTable DEF TickReconcile, Known, TypeInv, TypeOK, ControlOK, Goto
<1>1. pc'[Tick] = "waits" /\ Rows' = Rows /\ ~stopping'
  BY <1>0 DEF Rows, Known, Chained
<1>2. \A s \in Runs : \/ row'[s] = row[s]
                      \/ \E why \in {"eligibility_loss", "closed_issue"} :
                           row'[s] = MarkCancelRequested(row[s], why)
  BY DEF TickReconcile
<1>3. ASSUME NEW s \in Runs PROVE RowRests(s)
  <2>1. SameThreads(s)
    BY <1>0, TickMoves DEF Known
  <2>2. /\ row'[s].state = row[s].state /\ row'[s].cont = row[s].cont
        /\ row'[s].retries = row[s].retries
        /\ row'[s].reason = "daemon_shutdown" => row[s].reason = "daemon_shutdown"
    <3>1. CASE row'[s] = row[s]
      BY <3>1
    <3>2. ASSUME NEW why \in {"eligibility_loss", "closed_issue"},
                 row'[s] = MarkCancelRequested(row[s], why)
          PROVE  /\ row'[s].state = row[s].state /\ row'[s].cont = row[s].cont
                 /\ row'[s].retries = row[s].retries
                 /\ row'[s].reason = "daemon_shutdown" => row[s].reason = "daemon_shutdown"
      BY <1>0, <3>2 DEF MarkCancelRequested, Row
    <3>. QED  BY <1>2, <3>1, <3>2
  <2>. QED  BY <1>0, <1>1, <2>1, <2>2, ArmsStay
       DEF RowRests, SameThreads, Fired, Evaluating
<1>4. \A i \in Issues : Offered(i)' => Offered(i)
  BY <1>0, <1>1, OffersPass
<1>. QED  BY <1>0, <1>1, <1>3, <1>4, IssueKept, AllRest

LEMMA TickWaitsChained ==
  ASSUME Known, TickWaits
  PROVE  Chained'
<1>1. UNCHANGED <<work, cand, local, inflight, stopping, sched, row, issueOf, nrows, labels>>
  BY DEF TickWaits
<1>2. CASE EnterResume(mutex, seen)
  BY <1>1, <1>2, EntersChained
<1>3. CASE seen' = seen /\ pc' = [pc EXCEPT ![Tick] = "wait"]
  <2>1. pc'[Tick] = "wait"
    BY <1>3, ThreadNames DEF Known, TypeInv, TypeOK, ControlOK
  <2>2. \A i \in Issues : Offered(i)' => Offered(i)
    BY <1>1, <1>3, <2>1, OffersPass
  <2>. QED  BY <1>1, <1>3, <2>1, <2>2, IssueKept, TickTurnsChained
<1>. QED  BY <1>2, <1>3 DEF TickWaits, Goto

LEMMA TickMarkChained ==
  ASSUME Known, TickMark
  PROVE  Chained'
<1>1. /\ UNCHANGED <<work, cand, local, inflight, stopping, sched, row, issueOf, nrows>>
      /\ pc[Tick] = "mark" /\ labels \in [Issues -> SUBSET Labels]
      /\ seen \in [Issues -> [open : BOOLEAN, ready : BOOLEAN, labels : SUBSET Labels]]
  BY DEF TickMark, Known, TypeInv, TypeOK, GithubOK, TickOK
<1>2. CASE EnterLaunch(seen) /\ labels' = labels
  BY <1>1, <1>2, EntersChained
<1>3. ASSUME NEW j \in todo, pc' = pc,
             \/ UNCHANGED <<labels, seen>>
             \/ /\ labels' = [labels EXCEPT ![j] = @ \cup {"stale"}]
                /\ seen' = [seen EXCEPT ![j].labels = @ \cup {"stale"}]
      PROVE  Chained'
  <2>1. ASSUME NEW i \in Issues PROVE Offered(i)' => Offered(i)
    <3>1. seen'[i] = seen[i] \/ seen'[i].labels # {}
      <4>1. CASE seen' = seen
        BY <4>1
      <4>2. CASE seen' = [seen EXCEPT ![j].labels = @ \cup {"stale"}]
        <5>1. i = j => seen'[i].labels = seen[j].labels \cup {"stale"}
          BY <1>1, <4>2
        <5>. QED  BY <1>1, <4>2, <5>1
      <4>. QED  BY <1>3, <4>1, <4>2
    <3>. HIDE DEF Tick, Batch, NoWork
    <3>. QED  BY <1>1, <1>3, <3>1 DEF Offered
  <2>2. \A i \in Issues : labels[i] \subseteq labels'[i]
    BY <1>1, <1>3
  <2>. QED  BY <1>1, <1>3, <2>1, <2>2, IssueKept, TickTurnsChained
<1>. QED  BY <1>2, <1>3 DEF TickMark

\* No row was killed by a shutdown: there is nothing to resume.
LEMMA TickResumeOneChained ==
  ASSUME Known, TickResumeOne
  PROVE  Chained'
<1>1. todo = {}
  BY NoneToResume DEF TickResumeOne
<1>2. /\ UNCHANGED <<work, cand, local, inflight, stopping, sched, row, issueOf, nrows, labels>>
      /\ EnterDetect(mutex, seen)
  BY <1>1 DEF TickResumeOne
<1>. QED  BY <1>2, EntersChained

LEMMA TickLaunchChained ==
  ASSUME Known, TickLaunch
  PROVE  Chained'
<1>0. /\ UNCHANGED <<work, local, inflight, stopping, sched, row, issueOf, nrows, labels, seen>>
      /\ Tick \in Threads /\ pc \in [Threads -> PCs] /\ pc[Tick] = "launch"
      /\ cand \in [Batches -> SUBSET Issues] /\ ~stopping'
  BY ThreadNames DEF TickLaunch, Known, Chained, TypeInv, TypeOK, ControlOK
<1>1. pc'[Tick] = "idle" /\ \A s \in Runs : SameThreads(s)
  <2>1. CASE pc' = [pc EXCEPT ![Tick] = "idle"]
    BY <1>0, <2>1, TickMoves DEF Known
  <2>2. ASSUME NEW b \in Batches, pc' = [pc EXCEPT ![Batch(b)] = "pick", ![Tick] = "idle"]
        PROVE  pc'[Tick] = "idle" /\ \A s \in Runs : SameThreads(s)
    <3>1. \A u \in Threads : u # Batch(b) /\ u # Tick => pc'[u] = pc[u]
      BY <1>0, <2>2
    <3>2. pc'[Tick] = "idle"
      BY <1>0, <2>2
    <3>. QED  BY <1>0, <3>1, <3>2, ThreadNames, ThreadsDiffer DEF SameThreads
  <2>. QED  BY <2>1, <2>2 DEF TickLaunch, Goto
<1>2. \A s \in Runs : RowRests(s)
  BY <1>0, <1>1, TickRests
<1>3. ASSUME NEW i \in Issues PROVE Offered(i)' => Offered(i)
  <2>1. (\E b \in Batches : i \in cand'[b]) => i \in todo \/ \E b \in Batches : i \in cand[b]
    BY <1>0 DEF TickLaunch
  <2>. HIDE DEF Tick, Batch, NoWork
  <2>. QED  BY <1>0, <1>1, <2>1 DEF Offered
<1>. QED  BY <1>0, <1>2, <1>3, IssueKept, AllRest

LEMMA TickWaitReadChained ==
  ASSUME Known, TickWaitRead
  PROVE  Chained'
<1>0. /\ pc[Tick] = "wait" /\ Tick \in Threads /\ todo \in SUBSET Runs
      /\ UNCHANGED <<work, cand, local, inflight, latch, resuming, stopping, issueOf, nrows,
                     sched, labels>>
  BY ThreadNames DEF TickWaitRead, Known, TypeInv, TodoInv
<1>1. CASE EnterResume(Tail(mutex), seen) /\ row' = row
  BY <1>0, <1>1, EntersChained
<1>2. ASSUME NEW r \in todo, WaitDropped(r), pc' = pc, seen' = seen, todo' = todo \ {r}
      PROVE  Chained'
  <2>1. \A s \in Runs : /\ SameThreads(s) /\ TickPasses(s)
                        /\ Evaluating(s)' => Evaluating(s)
    BY <1>0, <1>2 DEF SameThreads, TickPasses, ToResume, Evaluating
  <2>2. WaitFrame(r)
    BY <1>0, <2>1 DEF WaitFrame, SameThreads
  <2>3. \A i \in Issues : Offered(i)' => Offered(i)
    BY <1>0, <1>2, OffersPass
  <2>. QED  BY <1>0, <1>2, <2>1, <2>2, <2>3, DroppedChained
<1>3. ASSUME NEW r \in todo, Lowest(r), Proceeds(r), UNCHANGED <<todo, row, seen>>,
             pc' = [pc EXCEPT ![Tick] = "waiteval"]
      PROVE  Chained'
  <2>1. \A s \in Runs : SameThreads(s)
    BY <1>0, <1>3, TickMoves DEF Known
  <2>2. pc'[Tick] = "waiteval"
    BY <1>0, <1>3 DEF Known, TypeInv, TypeOK, ControlOK
  <2>3. \A s \in Runs : s # r => ~Lowest(s)'
    <3>1. ASSUME NEW s \in Runs, Lowest(s)' PROVE s = r
      <4>1. s \in todo /\ s <= r /\ r <= s /\ r \in Runs
        BY <1>0, <1>3, <3>1 DEF Lowest
      <4>. QED  BY <4>1 DEF Runs
    <3>. QED  BY <3>1
  <2>4. \A s \in Runs : s # r => TickPasses(s)
    BY <2>2, <2>3 DEF TickPasses, ToResume
  <2>5. \A i \in Issues : Offered(i)' => Offered(i)
    BY <1>0, <1>3, <2>2, OffersPass
  <2>. QED  BY <1>0, <1>3, <2>1, <2>4, <2>5, ReadChained DEF SameThreads
<1>. QED  BY <1>1, <1>2, <1>3 DEF TickWaitRead, Goto

LEMMA TickWaitEvaluateChained ==
  ASSUME Known, TickWaitEvaluate
  PROVE  Chained'
<1>0. /\ pc[Tick] = "waiteval" /\ Tick \in Threads /\ todo \in SUBSET Runs
      /\ UNCHANGED <<work, cand, seen, local, inflight, latch, resuming, stopping>>
      /\ pc' = [pc EXCEPT ![Tick] = "wait"]
  BY ThreadNames DEF TickWaitEvaluate, Known, TypeInv, TodoInv, Goto
<1>1. pc'[Tick] = "wait" /\ \A s \in Runs : SameThreads(s)
  BY <1>0, TickMoves DEF Known, TypeInv, TypeOK, ControlOK
<1>2. \A s \in Runs : TickPasses(s)
  BY <1>1 DEF TickPasses, ToResume
<1>3. PICK r \in todo : Lowest(r) /\ WaitDecided(r)
  BY DEF TickWaitEvaluate
<1>4. Evaluating(r) /\ WaitFrame(r)
  BY <1>0, <1>1, <1>2, <1>3 DEF Evaluating, WaitFrame, SameThreads
<1>5. \A i \in Issues : Offered(i)' => Offered(i)
  BY <1>0, <1>1, OffersPass
<1>. QED  BY <1>0, <1>3, <1>4, <1>5, DecidedChained

LEMMA TickStepChained ==
  ASSUME Known, TickStep
  PROVE  Chained'
BY TickPollChained, TickReconcileChained, TickWaitsChained, TickMarkChained,
   TickResumeOneChained, TickLaunchChained, TickWaitReadChained, TickWaitEvaluateChained
DEF TickStep

-----------------------------------------------------------------------------
(* The attempt.                                                            *)

\* An attempt's step, before it schedules what comes next, for all but its label
\* and its slot.
AttemptWrites(r, where) ==
  /\ AttemptFrame(r, where)
  /\ UNCHANGED <<seen, cand, issueOf, nrows>>
  /\ \A s \in Runs : s # r => /\ row'[s] = row[s] /\ local'[s] = local[s]
                              /\ s \in inflight' <=> s \in inflight
  /\ row'[r].reason = row[r].reason /\ row'[r].cont = row[r].cont
  /\ \A j \in Issues : j # issueOf[r] => labels'[j] = labels[j]

LEMMA AttemptOthersRest ==
  ASSUME Known, NEW r \in Runs, NEW where, AttemptWrites(r, where)
  PROVE  /\ \A s \in Runs : s # r => RowRests(s)
         /\ AttemptMoves(r, where) /\ Rows' = Rows /\ ~stopping' /\ OffersStay
         /\ \A s \in Runs : ArmsNone(s) /\ TickPasses(s)
<1>. USE DEF AttemptWrites, AttemptFrame
<1>0. /\ Attempt(r) \in Threads /\ Attempt(r) # Tick /\ Rows' = Rows /\ ~stopping'
  BY ThreadNames, ThreadsDiffer DEF Rows, Known, Chained
<1>1. /\ \A s \in Runs : s # r => SameThreads(s)
      /\ AttemptMoves(r, where) /\ pc'[Tick] = pc[Tick]
  BY <1>0, OneMoves, ThreadsDiffer DEF Known
<1>2. \A s \in Runs : TickPasses(s) /\ ArmsNone(s)
  BY <1>1, TickElsewhere, ArmsStay
<1>3. \A s \in Runs : s # r => RowRests(s)
  BY <1>0, <1>1, <1>2, ThreadsRest
<1>4. OffersStay
  BY <1>1 DEF OffersStay
<1>. QED  BY <1>0, <1>1, <1>2, <1>3, <1>4

LEMMA AttemptWalks ==
  ASSUME Known, NEW r \in Runs, pc[Attempt(r)] # "idle", NEW where,
         AttemptWrites(r, where), IsRaw(issueOf[r])
  PROVE  Chained'
<1>1. /\ \A s \in Runs : s # r => RowRests(s)
      /\ AttemptMoves(r, where) /\ Rows' = Rows /\ ~stopping' /\ OffersStay
      /\ \A s \in Runs : ArmsNone(s) /\ TickPasses(s)
  BY AttemptOthersRest
<1>2. r \in Rows /\ issueOf'[r] = issueOf[r]
  BY DEF Known, RowsInv, AttemptWrites
<1>3. FiledFits(r)'
  BY <1>1 DEF FiledFits, AttemptWrites, AttemptMoves, ArmsNone, Fired, Known, Chained
<1>4. \A i \in Issues : IsRaw(i) \/ IssueRests(i)
  BY <1>1, IssueStays DEF AttemptWrites
<1>. QED  BY <1>1, <1>2, <1>3, <1>4, WalkChained

LEMMA AttemptChained ==
  ASSUME Known, NEW r \in Runs, pc[Attempt(r)] \notin {"idle", "next"}, NEW where,
         AttemptWrites(r, where),
         IsRaw(issueOf[r]) \/
           /\ row'[r].state # "waiting"
           /\ row[r].state = "succeeded" => row'[r].state = "succeeded"
           /\ where \in {"termq", "labels", "next"} => local'[r].next = "none"
           /\ r \in inflight => r \in inflight' \/ ~Offered(issueOf[r])
           /\ Engaged(r)' /\ "claimed" \in labels[issueOf[r]]
                => "claimed" \in labels'[issueOf[r]]
  PROVE  Chained'
<1>. PICK i : i = issueOf[r]
  OBVIOUS
<1>1. /\ \A s \in Runs : s # r => RowRests(s)
      /\ AttemptMoves(r, where) /\ Rows' = Rows /\ ~stopping' /\ OffersStay
      /\ \A s \in Runs : ArmsNone(s) /\ TickPasses(s)
  BY AttemptOthersRest
<1>2. CASE IsRaw(i)
  BY <1>2, AttemptWalks
<1>3. CASE ~IsRaw(i)
  <2>1. r \in Rows /\ ~WorkAhead(r) /\ ~Evaluating(r)
    BY <1>3, AttemptStands DEF Known, Lost
  <2>2. i \in Issues /\ issueOf' = issueOf /\ nrows \in Nat /\ nrows' \in Nat
        /\ ContinuationCap \in Nat
    BY BoundsAssumption DEF Known, TypeInv, TypeOK, StoreOK, AttemptWrites
  <2>3. Engaged(r) /\ KeepsIssue(r) /\ SucceededContinuations(i) <= ContinuationCap
        /\ FiledFits(r)
    BY <1>3, <2>1, <2>2 DEF Engaged, Known, Chained, ChainFits
  <2>4. ~WorkAhead(r)' /\ ~Evaluating(r)'
    BY <1>1, <2>1 DEF WorkAhead, Evaluating, ArmsNone, TickPasses, AttemptMoves, Fired
  <2>5. FiledFits(r)'
    BY <2>3, <2>4 DEF FiledFits, WorkAhead, AttemptWrites
  <2>6. PlainFits(r)'
    <3>1. pc'[Attempt(r)] = where
      BY <1>1 DEF AttemptMoves
    <3>. QED  BY <1>3, <2>4, <3>1 DEF PlainFits, WorkAhead
  <2>7. Continues(r)' => /\ Continues(r) /\ row'[r].state # "succeeded"
    <3>1. Continues(r)' => row'[r].cont /\ row'[r].state # "succeeded"
      BY <2>4 DEF Continues, WorkAhead
    <3>2. row'[r].cont /\ row'[r].state # "succeeded" => Continues(r)
      BY <1>3 DEF Continues, AttemptWrites
    <3>. QED  BY <3>1, <3>2
  <2>8. /\ CountedRows(i)' \subseteq CountedRows(i) \cup {r}
        /\ row'[r].state # "succeeded" \/ row[r].state = "succeeded"
             => CountedRows(i)' \subseteq CountedRows(i)
    <3>1. \A s \in Rows : s # r => row'[s] = row[s]
      BY BoundsAssumption DEF AttemptWrites, Known, TypeInv, TypeOK, StoreOK, Rows, Runs
    <3>. QED  BY <1>1, <2>2, <3>1 DEF CountedRows, AttemptWrites
  <2>9. /\ SucceededContinuations(i)' <= ContinuationCap
        /\ Continues(r)' => SucceededContinuations(i)' < ContinuationCap
    <3>1. /\ SucceededContinuations(i) \in Nat /\ SucceededContinuations(i)' \in Nat
          /\ CountedRows(i)' \subseteq CountedRows(i)
              => SucceededContinuations(i)' <= SucceededContinuations(i)
          /\ SucceededContinuations(i)' <= SucceededContinuations(i) + 1
      BY <2>2, <2>8, CountBound
    <3>2. Continues(r) => SucceededContinuations(i) < ContinuationCap
      BY <2>3 DEF KeepsIssue
    <3>3. CASE row'[r].cont /\ row'[r].state = "succeeded" /\ row[r].state # "succeeded"
      <4>1. Continues(r)
        BY <3>3 DEF Continues, AttemptWrites
      <4>. QED  BY <2>2, <2>7, <3>1, <3>2, <3>3, <4>1
    <3>4. CASE row'[r].state # "succeeded" \/ row[r].state = "succeeded"
      BY <2>2, <2>3, <2>7, <2>8, <3>1, <3>2, <3>4
    <3>5. CASE ~row'[r].cont
      <4>1. CountedRows(i)' \subseteq CountedRows(i)
        BY <2>8, <3>5 DEF CountedRows
      <4>. QED  BY <2>2, <2>3, <2>7, <3>1, <3>2, <4>1
    <3>. QED  BY <3>3, <3>4, <3>5
  <2>10. Engaged(r)' => KeepsIssue(r)'
    <3>1. "claimed" \in labels[i] /\ (r \in inflight \/ ~Offered(i))
      BY <2>3 DEF KeepsIssue
    <3>2. Offered(i)' => Offered(i)
      BY <1>1, OfferFrame
    <3>3. r \in inflight' \/ ~Offered(i)'
      BY <1>3, <3>1, <3>2
    <3>. QED  BY <1>3, <2>2, <2>9, <3>1, <3>3 DEF KeepsIssue
  <2>11. \A l \in Issues : IsRaw(l) \/ IssueRests(l) \/ (r \in Rows /\ l = issueOf[r])
    BY <1>1, <2>1, IssueStays DEF AttemptWrites
  <2>. QED  BY <1>1, <2>1, <2>2, <2>3, <2>5, <2>6, <2>9, <2>10, <2>11, StepChained DEF Known
<1>. QED  BY <1>2, <1>3

\* The attempt up to its settling.
LEMMA AttemptRunsChained ==
  ASSUME Known, NEW r \in Runs,
         \/ RunEntry(r) \/ RunPreparationFails(r) \/ RunLoad(r) \/ RunSetup(r)
         \/ RunStart(r) \/ ProviderExit(r)
         \/ RunParks(r) /\ pc' = [pc EXCEPT ![Attempt(r)] = "settle"]
  PROVE  Chained'
<1>. DEFINE at == pc[Attempt(r)]
<1>0. /\ row \in [Runs -> Row] /\ row[r] \in Row /\ local \in [Runs -> Local]
      /\ labels \in [Issues -> SUBSET Labels]
      /\ pc \in [Threads -> PCs] /\ Attempt(r) \in Threads
      /\ TypeInv /\ at \in Starting /\ at # "idle" /\ at # "next"
  <2>1. at \in Starting
    BY DEF RunEntry, RunPreparationFails, RunLoad, RunSetup, RunStart, ProviderExit,
           RunParks, Starting
  <2>. QED  BY <2>1, SameTable, ThreadNames
       DEF Starting, Known, TypeInv, TypeOK, ControlOK, GithubOK
<1>1. row[r].state = "succeeded" => IsRaw(issueOf[r])
  BY <1>0 DEF Known, RowFits, AttemptFits, Starting, ActiveStates, Lost
<1>2. PICK where \in {"settle", "load", "setup", "ready", "running"} :
        pc' = [pc EXCEPT ![Attempt(r)] = where]
  BY DEF RunEntry, RunPreparationFails, RunLoad, RunSetup, RunStart, ProviderExit, Goto
<1>3. ~Goto(Attempt(r), "idle")
  <2>1. pc'[Attempt(r)] = where
    BY <1>0, <1>2
  <2>. QED  BY <1>0, <2>1 DEF Goto
<1>4. UNCHANGED <<issueOf, nrows, inflight, work, todo, stopping, resuming, sched, seen, cand>>
  <2>1. CASE RunParks(r)
    BY <1>3, <2>1 DEF RunParks
  <2>. QED  BY <2>1 DEF RunEntry, RunPreparationFails, RunLoad, RunSetup, RunStart,
                        ProviderExit
<1>5. ASSUME \/ UNCHANGED <<row, local>>
             \/ \E q, l : /\ row' = [row EXCEPT ![r] = q] /\ local' = [local EXCEPT ![r] = l]
                          /\ q.reason = row[r].reason /\ q.cont = row[r].cont
                          /\ q.state \in {row[r].state, "preparing", "running"}
                               \/ IsRaw(issueOf[r]),
             labels' = labels \/ labels' = [labels EXCEPT ![issueOf[r]] = @ \cup {"running"}]
      PROVE  Chained'
  <2>1. /\ \A s \in Runs : s # r => row'[s] = row[s] /\ local'[s] = local[s]
        /\ row'[r].reason = row[r].reason /\ row'[r].cont = row[r].cont
        /\ \/ row'[r].state \in {row[r].state, "preparing", "running"}
           \/ IsRaw(issueOf[r])
    BY <1>0, <1>5
  <2>2. /\ \A j \in Issues : j # issueOf[r] => labels'[j] = labels[j]
        /\ "claimed" \in labels[issueOf[r]] => "claimed" \in labels'[issueOf[r]]
    BY <1>0, <1>5
  <2>3. AttemptWrites(r, where)
    BY <1>2, <1>4, <2>1, <2>2 DEF AttemptWrites, AttemptFrame
  <2>4. row'[r].state # "waiting" \/ IsRaw(issueOf[r])
    BY <1>0, <2>1 DEF Known, RowFits, AttemptFits, Starting, ActiveStates, Lost
  <2>. QED  BY <1>0, <1>1, <1>2, <1>4, <2>1, <2>2, <2>3, <2>4, AttemptChained
<1>. HIDE DEF at
<1>6. CASE RunEntry(r)
  <2>1. PICK q, l : /\ q = [row[r] EXCEPT !.state = "preparing"]
                    /\ row' = [row EXCEPT ![r] = q] /\ local' = [local EXCEPT ![r] = l]
    BY <1>0, <1>6 DEF RunEntry
  <2>2. q.reason = row[r].reason /\ q.cont = row[r].cont /\ q.state = "preparing"
    BY <1>0, <2>1 DEF Row
  <2>3. labels' = labels
    BY <1>6 DEF RunEntry
  <2>. QED  BY <1>5, <2>1, <2>2, <2>3
<1>7. CASE RunPreparationFails(r) \/ RunStart(r) \/ ProviderExit(r)
  <2>1. \E l : local' = [local EXCEPT ![r] = l]
    <3>1. CASE RunStart(r)
      <4>1. local' = [local EXCEPT ![r] = local[r]]
        BY <1>0, <3>1 DEF RunStart
      <4>. QED  BY <4>1
    <3>2. CASE \E o : local' = [local EXCEPT ![r].outcome = o]
      BY <1>0, <3>2
    <3>. QED  BY <1>7, <3>1, <3>2 DEF RunPreparationFails, ProviderExit
  <2>2. row' = [row EXCEPT ![r] = row[r]] /\ labels' = labels
    BY <1>0, <1>7 DEF RunPreparationFails, RunStart, ProviderExit
  <2>. QED  BY <1>5, <2>1, <2>2
<1>8. CASE RunLoad(r)
  <2>1. PICK q, l : /\ q = [row[r] EXCEPT !.stamp = "entered"]
                    /\ row' = [row EXCEPT ![r] = q] /\ local' = [local EXCEPT ![r] = l]
    BY <1>0, <1>8 DEF RunLoad
  <2>2. q.reason = row[r].reason /\ q.cont = row[r].cont /\ q.state = row[r].state
    BY <1>0, <2>1 DEF Row
  <2>3. labels' = labels
    BY <1>8 DEF RunLoad
  <2>. QED  BY <1>5, <2>1, <2>2, <2>3
<1>9. CASE RunSetup(r)
  <2>1. PICK q, l : /\ q = [row[r] EXCEPT !.state = "running"]
                    /\ row' = [row EXCEPT ![r] = q] /\ local' = [local EXCEPT ![r] = l]
    BY <1>0, <1>9 DEF RunSetup
  <2>2. q.reason = row[r].reason /\ q.cont = row[r].cont /\ q.state = "running"
    BY <1>0, <2>1 DEF Row
  <2>3. labels' = [labels EXCEPT ![issueOf[r]] = @ \cup {"running"}]
    BY <1>9 DEF RunSetup
  <2>. QED  BY <1>5, <2>1, <2>2, <2>3
<1>10. CASE RunParks(r)
  <2>1. PICK e, p, l : /\ e = [row[r] EXCEPT !.stamp = "entered"]
                       /\ p = [e EXCEPT !.state = "waiting"]
                       /\ l = [local[r] EXCEPT !.outcome = "failed"]
    OBVIOUS
  <2>2. e \in Row /\ e.reason = row[r].reason /\ e.cont = row[r].cont
    BY <1>0, <2>1 DEF Row
  <2>3. p.reason = row[r].reason /\ p.cont = row[r].cont
    BY <2>1, <2>2 DEF Row
  <2>4. /\ labels' = labels /\ IsRaw(issueOf[r])
        /\ \/ row' = [row EXCEPT ![r] = e] /\ local' = [local EXCEPT ![r] = local[r]]
           \/ row' = [row EXCEPT ![r] = p] /\ local' = [local EXCEPT ![r] = l]
    BY <1>0, <1>3, <1>10, <2>1 DEF RunParks
  <2>. QED  BY <1>5, <2>2, <2>3, <2>4
<1>. QED  BY <1>6, <1>7, <1>8, <1>9, <1>10

LEMMA RunSettleChained ==
  ASSUME Known, ShortPolls, NEW r \in Runs, RunSettle(r)
  PROVE  Chained'
<1>0. /\ row \in [Runs -> Row] /\ row[r] \in Row /\ pc[Attempt(r)] = "settle"
      /\ UNCHANGED <<issueOf, nrows, work, todo, stopping, resuming, sched, seen, cand>>
      /\ local \in [Runs -> Local] /\ local[r] \in Local /\ inflight \in SUBSET Runs
      /\ labels \in [Issues -> SUBSET Labels] /\ issueOf[r] \in Issues
      /\ row' = [row EXCEPT ![r] = Settled(@)] /\ LeaveRegistry(r)
  BY SameTable DEF RunSettle, Known, TypeInv, TypeOK, ControlOK, RegistryOK, StoreOK, GithubOK
<1>1. PICK where \in {"idle", "classify"} :
        /\ pc' = [pc EXCEPT ![Attempt(r)] = where]
        /\ \/ /\ labels' = [labels EXCEPT ![issueOf[r]] = CancelLabels(@, "watchdog")]
              /\ local' = [local EXCEPT ![r] = NoLocal]
           \/ labels' = labels /\ local' = [local EXCEPT ![r].cancel = latch[r]]
  BY DEF RunSettle, Goto
<1>2. /\ \A s \in Runs : s # r => /\ row'[s] = row[s] /\ local'[s] = local[s]
                                  /\ s \in inflight' <=> s \in inflight
      /\ r \notin inflight' /\ row'[r] = Settled(row[r]) /\ ~Offered(issueOf[r])
  BY <1>0, <1>1 DEF LeaveRegistry
<1>3. /\ row'[r].reason = row[r].reason /\ row'[r].cont = row[r].cont
      /\ row'[r].state \in {"stale", row[r].state}
  BY <1>0, <1>2 DEF Settled, Row
<1>4. /\ \A j \in Issues : j # issueOf[r] => labels'[j] = labels[j]
      /\ "claimed" \in labels[issueOf[r]] => "claimed" \in labels'[issueOf[r]]
  BY <1>0, <1>1 DEF CancelLabels
<1>5. AttemptWrites(r, where)
  BY <1>0, <1>1, <1>2, <1>3, <1>4 DEF AttemptWrites, AttemptFrame
<1>6. row[r].state \in ActiveStates \cup {"stale"} \/ IsRaw(issueOf[r])
  BY <1>0 DEF Known, RowFits, AttemptFits, Lost
<1>. QED  BY <1>0, <1>1, <1>2, <1>3, <1>4, <1>5, <1>6, AttemptChained DEF ActiveStates

LEMMA RunTerminalLabelsChained ==
  ASSUME Known, NEW r \in Runs, RunTerminal(r) \/ RunLabels(r)
  PROVE  Chained'
<1>. DEFINE at == pc[Attempt(r)]
            o == local[r].outcome
<1>0. /\ row \in [Runs -> Row] /\ row[r] \in Row /\ local[r] \in Local
      /\ UNCHANGED <<issueOf, nrows, inflight, work, todo, stopping, resuming, sched,
                     local, seen, cand>>
      /\ labels \in [Issues -> SUBSET Labels] /\ issueOf[r] \in Issues
      /\ at \in {"termq", "labels"} /\ Attempt(r) \in Threads /\ pc \in [Threads -> PCs]
  BY SameTable, ThreadNames
  DEF RunTerminal, RunLabels, Known, TypeInv, TypeOK, ControlOK, StoreOK, GithubOK
<1>1. ~IsRaw(issueOf[r]) => local[r].next = "none" /\ r \in Rows
  BY <1>0 DEF Known, Chained, ChainFits, PlainFits, RowsInv
<1>2. CASE RunTerminal(r)
  <2>1. /\ row' = [row EXCEPT ![r].state = RunState(o)] /\ labels' = labels
        /\ pc' = [pc EXCEPT ![Attempt(r)] = "labels"] /\ at = "termq"
    BY <1>2 DEF RunTerminal, Goto
  <2>2. /\ \A s \in Runs : s # r => row'[s] = row[s]
        /\ row'[r].reason = row[r].reason /\ row'[r].cont = row[r].cont
        /\ row'[r].state = RunState(o)
    BY <1>0, <2>1 DEF Row
  <2>3. RunState(o) # "waiting"
    BY DEF RunState
  <2>4. row[r].state \in ActiveStates \cup {"stale"} \/ IsRaw(issueOf[r])
    BY <2>1 DEF Known, RowFits, AttemptFits, Lost
  <2>5. AttemptWrites(r, "labels")
    BY <1>0, <2>1, <2>2 DEF AttemptWrites, AttemptFrame
  <2>. HIDE DEF o
  <2>. QED  BY <1>0, <1>1, <2>1, <2>2, <2>3, <2>4, <2>5, AttemptChained DEF ActiveStates
<1>3. CASE RunLabels(r)
  <2>1. /\ row' = row /\ pc' = [pc EXCEPT ![Attempt(r)] = "next"] /\ at = "labels"
        /\ \/ labels' = labels
           \/ labels' = [labels EXCEPT ![issueOf[r]] =
                TerminalLabels(@, o, local[r].cancel, FsmContinuing(r), WillRetry(o, row[r]))]
    BY <1>3 DEF RunLabels, Goto
  <2>2. row[r].state # "waiting"
    BY <2>1 DEF Known, RowFits, AttemptFits
  <2>3. \A j \in Issues : j # issueOf[r] => labels'[j] = labels[j]
    BY <1>0, <2>1
  <2>4. ASSUME ~IsRaw(issueOf[r]), Engaged(r)', "claimed" \in labels[issueOf[r]]
        PROVE  "claimed" \in labels'[issueOf[r]]
    <3>1. ~WorkAhead(r) /\ ~Evaluating(r) /\ r \notin inflight
      BY <1>0, <2>1, <2>4, AttemptStands DEF Known, Lost, RowFits, SlotFits, Starting
    <3>2. AttemptFrame(r, "next")
      BY <1>0, <2>1 DEF AttemptFrame
    <3>3. AttemptMoves(r, "next")
      BY <1>0, <3>2, OneMoves, ThreadsDiffer DEF AttemptFrame, Known
    <3>4. ~WorkAhead(r)' /\ pc'[Attempt(r)] = "next"
      BY <1>0, <3>1, <3>3 DEF WorkAhead, AttemptMoves, Fired, ArmedFor
    <3>5. o = "success" \/ WillRetry(o, row[r])
      BY <1>0, <2>1, <2>4, <3>1, <3>4 DEF Engaged
    <3>6. o # "cancelled"
      BY <3>5 DEF WillRetry
    <3>. HIDE DEF o
    <3>. QED  BY <1>0, <2>1, <2>4, <3>5, <3>6 DEF TerminalLabels
  <2>5. AttemptWrites(r, "next")
    BY <1>0, <2>1, <2>3 DEF AttemptWrites, AttemptFrame
  <2>. QED  BY <1>0, <1>1, <2>1, <2>2, <2>4, <2>5, AttemptChained
<1>. QED  BY <1>2, <1>3

LEMMA RunClassifyChained ==
  ASSUME Known, NEW r \in Runs, RunClassify(r)
  PROVE  Chained'
<1>. PICK i : i = issueOf[r]
  OBVIOUS
<1>. DEFINE o == Classified(r)
<1>0. /\ row \in [Runs -> Row] /\ row[r] \in Row /\ local[r] \in Local /\ nrows \in Nat
      /\ local \in [Runs -> Local] /\ issueOf \in [Runs -> Issues] /\ i \in Issues
      /\ UNCHANGED <<inflight, work, todo, stopping, resuming, sched, seen, cand, labels>>
      /\ pc[Attempt(r)] = "classify" /\ pc' = [pc EXCEPT ![Attempt(r)] = "termq"]
      /\ Attempt(r) \in Threads /\ Attempt(r) # Tick /\ r \in Rows
  BY SameTable, ThreadNames, ThreadsDiffer
  DEF RunClassify, Goto, Known, TypeInv, TypeOK, ControlOK, StoreOK, RowsInv
<1>1. PICK d \in WorkflowDecisions(r, o) : \E e : \E stamp :
       LET q == [row[r] EXCEPT !.stamp = stamp, !.why = e]
       IN
       \/ /\ d # "park"
          /\ row' = [row EXCEPT ![r] = q]
          /\ local' = [local EXCEPT ![r].outcome = e, ![r].next = d]
          /\ UNCHANGED <<issueOf, nrows>>
       \/ /\ d = "park" /\ ~StoreFull
          /\ nrows' = nrows + 1
          /\ issueOf' = [issueOf EXCEPT ![nrows + 1] = i]
          /\ row' = [row EXCEPT ![r] = q, ![nrows + 1] = WaitingRow]
          /\ local' = [local EXCEPT ![r].outcome = e, ![r].next = d,
                                    ![r].child = nrows + 1]
  BY DEF RunClassify
<1>. PICK e, stamp :
       LET q == [row[r] EXCEPT !.stamp = stamp, !.why = e]
       IN
       \/ /\ d # "park"
          /\ row' = [row EXCEPT ![r] = q]
          /\ local' = [local EXCEPT ![r].outcome = e, ![r].next = d]
          /\ UNCHANGED <<issueOf, nrows>>
       \/ /\ d = "park" /\ ~StoreFull
          /\ nrows' = nrows + 1
          /\ issueOf' = [issueOf EXCEPT ![nrows + 1] = i]
          /\ row' = [row EXCEPT ![r] = q, ![nrows + 1] = WaitingRow]
          /\ local' = [local EXCEPT ![r].outcome = e, ![r].next = d,
                                    ![r].child = nrows + 1]
  BY <1>1
<1>. PICK q : q = [row[r] EXCEPT !.stamp = stamp, !.why = e]
  OBVIOUS
<1>2. q.state = row[r].state /\ q.reason = row[r].reason /\ q.cont = row[r].cont
  BY <1>0 DEF Row
<1>3. d # "none" => IsRaw(i)
  BY DEF WorkflowDecisions
<1>4. \A s \in Runs : s # r => local'[s] = local[s]
  BY <1>0, <1>1
<1>. HIDE DEF o
<1>5. CASE /\ row' = [row EXCEPT ![r] = q] /\ UNCHANGED <<issueOf, nrows>>
           /\ local' = [local EXCEPT ![r].outcome = e, ![r].next = d]
  <2>1. row'[r] = q /\ (\A s \in Runs : s # r => row'[s] = row[s])
        /\ local'[r].next = d
    BY <1>0, <1>5 DEF Local
  <2>2. AttemptWrites(r, "termq")
    BY <1>0, <1>2, <1>4, <1>5, <2>1 DEF AttemptWrites, AttemptFrame
  <2>3. IsRaw(i) \/ row[r].state # "waiting"
    BY <1>0 DEF Known, RowFits, AttemptFits, Lost, ActiveStates
  <2>. QED  BY <1>0, <1>2, <1>3, <2>1, <2>2, <2>3, AttemptChained
<1>6. CASE /\ d = "park" /\ ~StoreFull /\ nrows' = nrows + 1
           /\ issueOf' = [issueOf EXCEPT ![nrows + 1] = i]
           /\ row' = [row EXCEPT ![r] = q, ![nrows + 1] = WaitingRow]
  <2>. PICK new \in Runs : new = nrows + 1
    BY <1>0, <1>6, BoundsAssumption DEF StoreFull, Runs
  <2>1. /\ new \notin Rows /\ Rows \subseteq Rows' /\ new \in Rows' /\ r # new
        /\ \A s \in Runs : s # new => (s \in Rows' <=> s \in Rows)
    BY <1>0, <1>6 DEF Rows, Runs
  <2>2. /\ \A s \in Runs : s # r /\ s # new => row'[s] = row[s]
        /\ \A s \in Runs : s # new => issueOf'[s] = issueOf[s]
        /\ row'[new] = WaitingRow /\ row'[r] = q /\ issueOf'[new] = i
    BY <1>0, <1>6, <2>1
  <2>3. /\ \A s \in Runs : s # r => SameThreads(s)
        /\ AttemptMoves(r, "termq") /\ pc'[Tick] = pc[Tick]
        /\ \A s \in Runs : TickPasses(s) /\ ArmsNone(s)
    <3>1. /\ \A s \in Runs : s # r => SameThreads(s)
          /\ AttemptMoves(r, "termq") /\ pc'[Tick] = pc[Tick]
      BY <1>0, OneMoves, ThreadsDiffer DEF Known
    <3>. QED  BY <1>0, <3>1, TickElsewhere, ArmsStay
  <2>4. Newborn(new)
    <3>1. row'[new].state = "waiting" /\ row'[new].reason = "none"
      BY <2>2 DEF WaitingRow, NoRow
    <3>. QED  BY <1>0, <1>3, <1>6, <2>1, <2>2, <2>3, <3>1, NewbornFits
  <2>5. ASSUME NEW s \in Runs, s # r, s # new PROVE RowRests(s)
    BY <1>0, <1>4, <2>1, <2>2, <2>3, <2>5, ThreadsRest
  <2>6. FiledFits(r)'
    BY <1>0, <1>2, <2>1, <2>2, <2>3
    DEF FiledFits, AttemptMoves, ArmsNone, Fired, Known, Chained
  <2>7. \A l \in Issues : IsRaw(l) \/ IssueRests(l)
    BY <1>0, <2>3, IssueStays DEF OffersStay
  <2>8. ~stopping'
    BY <1>0 DEF Known, Chained
  <2>. QED  BY <1>0, <1>3, <1>6, <2>1, <2>2, <2>4, <2>5, <2>6, <2>7, <2>8, WalkChained
<1>. QED  BY <1>1, <1>5, <1>6

\* The attempt of a walk ends as it parks, or goes on to settle.
LEMMA RunParksChained ==
  ASSUME Known, NEW r \in Runs, RunParks(r)
  PROVE  Chained'
<1>. PICK i : i = issueOf[r]
  OBVIOUS
<1>0. /\ row \in [Runs -> Row] /\ row[r] \in Row /\ pc[Attempt(r)] = "load" /\ IsRaw(i)
      /\ local \in [Runs -> Local] /\ inflight \in SUBSET Runs /\ i \in Issues
      /\ labels \in [Issues -> SUBSET Labels]
      /\ UNCHANGED <<issueOf, nrows, work, todo, stopping, seen, cand>>
      /\ Attempt(r) \in Threads /\ Attempt(r) # Tick /\ r \in Rows
  BY SameTable, ThreadNames, ThreadsDiffer
  DEF RunParks, Known, TypeInv, TypeOK, ControlOK, RegistryOK, StoreOK, GithubOK, RowsInv
<1>1. CASE pc' = [pc EXCEPT ![Attempt(r)] = "settle"]
  BY <1>1, AttemptRunsChained
<1>2. CASE /\ \E q : /\ row' = [row EXCEPT ![r] = q] /\ q.reason = row[r].reason
           /\ labels' = labels \/ \E ls : labels' = [labels EXCEPT ![i] = ls]
           /\ ScheduleWait(i, r) /\ LeaveRegistry(r)
           /\ local' = [local EXCEPT ![r] = NoLocal]
           /\ pc' = [pc EXCEPT ![Attempt(r)] = "idle"]
  <2>1. /\ \A s \in Runs : s # r => SameThreads(s)
        /\ AttemptMoves(r, "idle") /\ pc'[Tick] = pc[Tick]
        /\ \A s \in Runs : ArmsNone(s)
    BY <1>0, <1>2, OneMoves, ThreadsDiffer, ScheduleWaitArms DEF Known
  <2>2. (\A s \in Runs : TickPasses(s)) /\ Rows' = Rows /\ ~stopping' /\ OffersStay
    BY <1>0, <2>1, TickElsewhere DEF Rows, Known, Chained, OffersStay
  <2>3. /\ \A s \in Runs : s # r => /\ row'[s] = row[s] /\ local'[s] = local[s]
                                    /\ s \in inflight' <=> s \in inflight
        /\ row'[r].reason = row[r].reason
        /\ \A l \in Issues : l # i => labels'[l] = labels[l]
    BY <1>0, <1>2 DEF LeaveRegistry
  <2>4. \A s \in Runs : s # r => RowRests(s)
    BY <1>0, <2>1, <2>2, <2>3, ThreadsRest
  <2>5. FiledFits(r)'
    BY <1>0, <2>1, <2>3 DEF FiledFits, AttemptMoves, ArmsNone, Fired, Known, Chained
  <2>6. \A l \in Issues : IsRaw(l) \/ IssueRests(l)
    BY <1>0, <2>2, <2>3, IssueStays
  <2>. QED  BY <1>0, <2>2, <2>4, <2>5, <2>6, WalkChained
<1>3. CASE /\ latch[r] = "none" /\ sched[i] = NoWork
           /\ ScheduleWait(i, r) /\ LeaveRegistry(r)
           /\ local' = [local EXCEPT ![r] = NoLocal]
           /\ Goto(Attempt(r), "idle")
           /\ \E e, p : /\ e = [row[r] EXCEPT !.stamp = "entered"]
                        /\ p = [e EXCEPT !.state = "waiting"]
                        /\ row' = [row EXCEPT ![r] = Settled(p)]
                        /\ labels' = [labels EXCEPT ![i] =
                             IF Preserved(p) THEN CancelLabels(@, "watchdog") ELSE @]
  <2>1. PICK e, p : /\ e = [row[r] EXCEPT !.stamp = "entered"]
                    /\ p = [e EXCEPT !.state = "waiting"]
                    /\ row' = [row EXCEPT ![r] = Settled(p)]
                    /\ labels' = [labels EXCEPT ![i] =
                         IF Preserved(p) THEN CancelLabels(@, "watchdog") ELSE @]
    BY <1>3
  <2>2. e \in Row /\ e.reason = row[r].reason
    BY <1>0, <2>1 DEF Row
  <2>3. p \in Row /\ p.reason = row[r].reason
    BY <2>1, <2>2 DEF Row, RowStates
  <2>4. Settled(p).reason = row[r].reason
    BY <2>3 DEF Settled, Row
  <2>. QED  BY <1>2, <1>3, <2>1, <2>4 DEF Goto
<1>. QED  BY <1>1, <1>3 DEF RunParks, Goto

-----------------------------------------------------------------------------
(* scheduleNext.                                                           *)

\* A step of scheduleNext, for the rows it is not about.
NextFrame(r) ==
  /\ pc[Attempt(r)] = "next" /\ pc' = [pc EXCEPT ![Attempt(r)] = "idle"]
  /\ UNCHANGED <<inflight, work, todo, stopping, seen, cand>>
  /\ \A s \in Runs : s # r => local'[s] = local[s] /\ (RowRests(s) \/ Newborn(s))
  /\ Rows \subseteq Rows' /\ (r \in Rows' => r \in Rows)
  /\ issueOf'[r] = issueOf[r] /\ row'[r].reason = row[r].reason
  /\ row'[r].state = row[r].state /\ row'[r].cont = row[r].cont
  /\ \A l \in Issues : l # issueOf[r] => labels'[l] = labels[l]

LEMMA NextMoves ==
  ASSUME Known, NEW r \in Runs, pc[Attempt(r)] = "next",
         pc' = [pc EXCEPT ![Attempt(r)] = "idle"],
         UNCHANGED <<inflight, work, todo, stopping, seen, cand>>
  PROVE  /\ \A s \in Runs : s # r => SameThreads(s)
         /\ AttemptMoves(r, "idle") /\ ~stopping' /\ OffersStay
         /\ \A s \in Runs : TickPasses(s)
         /\ r \in Rows /\ r \notin inflight /\ ~Evaluating(r) /\ ~Evaluating(r)'
         /\ row[r].state \notin ActiveStates \cup {"waiting"}
         /\ local[r].outcome = "transient" => row[r].state = "failed"
         /\ WorkAhead(r) => Lost(r)
<1>0. Attempt(r) \in Threads /\ Attempt(r) # Tick
  BY ThreadNames, ThreadsDiffer
<1>1. /\ \A s \in Runs : s # r => SameThreads(s)
      /\ AttemptMoves(r, "idle") /\ pc'[Tick] = pc[Tick]
  BY <1>0, OneMoves, ThreadsDiffer DEF Known
<1>2. \A s \in Runs : TickPasses(s)
  BY <1>1, TickElsewhere
<1>3. Holds(Attempt(r))
  BY <1>0 DEF Known, TypeInv, CriticalSections, Inside
<1>4. ~Evaluating(r) /\ ~Evaluating(r)'
  <2>1. ~Evaluating(r)
    BY <1>0, <1>3, OnlyHolder, ThreadNames, ThreadsDiffer DEF Evaluating, Inside, Known
  <2>. QED  BY <1>1, <1>2, <2>1 DEF Evaluating, TickPasses, AttemptMoves
<1>5. r \notin inflight
  BY DEF Known, RowFits, SlotFits, Starting
<1>6. /\ r \in Rows /\ (WorkAhead(r) => Lost(r))
      /\ row[r].state \notin ActiveStates \cup {"waiting"}
      /\ local[r].outcome = "transient" => row[r].state = "failed"
  BY AttemptStands DEF Known, RowFits, AttemptFits
<1>7. ~stopping' /\ OffersStay
  BY <1>1 DEF Known, Chained, OffersStay
<1>. QED  BY <1>1, <1>2, <1>4, <1>5, <1>6, <1>7

\* Nothing is armed, or an advance, for a walk.
LEMMA NextWalks ==
  ASSUME Known, NEW r \in Runs, NextFrame(r), IsRaw(issueOf[r]),
         \A l \in Issues : ArmedFor(l, r)' => l = issueOf[r] \/ ArmedFor(l, r)
  PROVE  Chained'
<1>. USE DEF NextFrame
<1>1. AttemptMoves(r, "idle") /\ ~stopping' /\ OffersStay /\ r \in Rows
  BY NextMoves
<1>2. FiledFits(r)'
  BY <1>1 DEF FiledFits, AttemptMoves, Fired, Known, Chained
<1>3. \A l \in Issues : IsRaw(l) \/ IssueRests(l)
  BY <1>1, IssueStays
<1>. QED  BY <1>1, <1>2, <1>3, WalkChained

\* Of a markdown workflow: nothing is armed, and then its label may go; or a retry
\* is, or a continuation that is still within the cap.
LEMMA NextPlain ==
  ASSUME Known, NEW r \in Runs, NextFrame(r), ~IsRaw(issueOf[r]),
         \/ ArmsNone(r) /\ (Engaged(r) \/ labels' = labels)
         \/ /\ Engaged(r) /\ labels' = labels
            /\ \A l \in Issues : ArmedFor(l, r)' =>
                 /\ l = issueOf[r] /\ sched'[l].kind \in {"retry", "continuation"}
                 /\ sched'[l].kind = "continuation"
                      => SucceededContinuations(issueOf[r]) < ContinuationCap
  PROVE  Chained'
<1>. PICK i : i = issueOf[r]
  OBVIOUS
<1>1. /\ AttemptMoves(r, "idle") /\ ~stopping' /\ OffersStay /\ r \in Rows
      /\ r \notin inflight /\ ~Evaluating(r)' /\ row[r].state # "waiting"
      /\ ~WorkAhead(r)
  BY NextMoves DEF Lost, NextFrame
<1>2. i \in Issues /\ nrows \in Nat /\ nrows' \in Nat /\ ContinuationCap \in Nat
      /\ Rows \subseteq Runs /\ Rows' \subseteq Runs /\ issueOf'[r] = i
  BY BoundsAssumption DEF Known, TypeInv, TypeOK, StoreOK, NextFrame, Rows, Runs
<1>3. /\ ChainFits(i) /\ FiledFits(r) /\ (Engaged(r) => KeepsIssue(r))
      /\ SucceededContinuations(i) <= ContinuationCap
  BY <1>1, <1>2 DEF Known, Chained, ChainFits
<1>4. ~Fired(r)' /\ pc'[Attempt(r)] = "idle"
      /\ \A l \in Issues : ArmedFor(l, r)' => ~ArmsNone(r)
  BY <1>1 DEF WorkAhead, Fired, AttemptMoves, ArmsNone
<1>5. \A l \in Issues : ArmedFor(l, r)' => l = i /\ sched'[l].kind \in {"retry", "continuation"}
  BY <1>4
<1>6. FiledFits(r)'
  BY <1>2, <1>3, <1>4, <1>5 DEF FiledFits, NextFrame
<1>7. PlainFits(r)'
  BY <1>1, <1>4, <1>5 DEF PlainFits, NextFrame
<1>8. SucceededContinuations(i)' <= SucceededContinuations(i)
      /\ SucceededContinuations(i)' \in Nat /\ SucceededContinuations(i) \in Nat
  <2>1. ASSUME NEW s \in Rows', issueOf'[s] = i, row'[s].cont, row'[s].state = "succeeded"
        PROVE  s \in Rows /\ issueOf[s] = i /\ row[s].cont /\ row[s].state = "succeeded"
    <3>1. CASE s = r
      BY <1>1, <2>1, <3>1 DEF NextFrame
    <3>2. CASE s # r /\ RowRests(s)
      BY <1>2, <2>1, <3>2 DEF RowRests
    <3>3. CASE s # r /\ Newborn(s)
      BY <2>1, <3>3 DEF Newborn
    <3>. QED  BY <1>2, <3>1, <3>2, <3>3 DEF NextFrame
  <2>2. CountedRows(i)' \subseteq CountedRows(i)
    BY <2>1 DEF CountedRows
  <2>. QED  BY <1>2, <2>2, CountBound
<1>9. ArmsNone(r) => ~Engaged(r)'
  BY <1>1, <1>4 DEF Engaged, WorkAhead, NextFrame
<1>10. CASE ArmsNone(r) /\ Engaged(r)
  <2>1. \A l \in Issues : IsRaw(l) \/ IssueRests(l) \/ (r \in Rows /\ l = issueOf[r])
    BY <1>1, IssueStays DEF NextFrame
  <2>2. SucceededContinuations(i)' <= ContinuationCap
    BY <1>2, <1>3, <1>8
  <2>. QED  BY <1>1, <1>2, <1>6, <1>7, <1>9, <1>10, <2>1, <2>2, StepChained
       DEF Known, NextFrame
<1>11. CASE ArmsNone(r) /\ labels' = labels
  <2>1. \A l \in Issues : IsRaw(l) \/ IssueRests(l)
    BY <1>1, <1>11, IssueStays
  <2>2. RowCalm(r)
    BY <1>7, <1>9, <1>11 DEF RowCalm, NextFrame
  <2>. QED  BY <1>1, <1>2, <1>6, <2>1, <2>2, StepChained DEF Known, NextFrame
<1>12. CASE /\ Engaged(r) /\ labels' = labels
            /\ \A l \in Issues : ArmedFor(l, r)' =>
                 /\ l = issueOf[r] /\ sched'[l].kind \in {"retry", "continuation"}
                 /\ sched'[l].kind = "continuation"
                      => SucceededContinuations(issueOf[r]) < ContinuationCap
  <2>1. \A l \in Issues : IsRaw(l) \/ IssueRests(l)
    BY <1>1, <1>12, IssueStays
  <2>2. SucceededContinuations(i)' <= ContinuationCap
    BY <1>2, <1>3, <1>8
  <2>3. Continues(r)' => SucceededContinuations(i) < ContinuationCap
    <3>1. CASE row'[r].cont /\ row'[r].state # "succeeded"
      BY <1>3, <1>12, <3>1 DEF Continues, KeepsIssue, NextFrame
    <3>. QED  BY <1>4, <1>12, <3>1 DEF Continues
  <2>4. ~Offered(i)'
    <3>1. ~Offered(i)
      BY <1>1, <1>3, <1>12 DEF KeepsIssue
    <3>. QED  BY <1>1, <3>1, OfferFrame
  <2>5. KeepsIssue(r)'
    <3>1. "claimed" \in labels[i]
      BY <1>3, <1>12 DEF KeepsIssue
    <3>2. Continues(r)' => SucceededContinuations(i)' < ContinuationCap
      BY <1>2, <1>8, <2>3
    <3>. QED  BY <1>2, <1>12, <2>4, <3>1, <3>2 DEF KeepsIssue
  <2>. QED  BY <1>1, <1>2, <1>6, <1>7, <1>12, <2>1, <2>2, <2>5, StepChained
       DEF Known, NextFrame
<1>. QED  BY <1>10, <1>11, <1>12

LEMMA RunNextChained ==
  ASSUME Known, NEW r \in Runs, RunNext(r)
  PROVE  Chained'
<1>. PICK i : i = issueOf[r]
  OBVIOUS
<1>. PICK o, d : o = local[r].outcome /\ d = local[r].next
  OBVIOUS
<1>0. /\ row \in [Runs -> Row] /\ row[r] \in Row /\ nrows \in Nat
      /\ local \in [Runs -> Local] /\ issueOf \in [Runs -> Issues] /\ i \in Issues
      /\ labels \in [Issues -> SUBSET Labels]
      /\ UNCHANGED <<inflight, work, todo, stopping, seen, cand>>
      /\ pc[Attempt(r)] = "next" /\ pc' = [pc EXCEPT ![Attempt(r)] = "idle"]
      /\ \A s \in Runs : s # r => local'[s] = local[s]
      /\ ~stopping
  BY SameTable
  DEF RunNext, Goto, Known, Chained, TypeInv, TypeOK, ControlOK, StoreOK, GithubOK
<1>1. /\ \A s \in Runs : s # r => SameThreads(s)
      /\ AttemptMoves(r, "idle") /\ \A s \in Runs : TickPasses(s)
      /\ r \in Rows /\ (WorkAhead(r) => Lost(r))
      /\ row[r].state \notin ActiveStates \cup {"waiting"}
      /\ local[r].outcome = "transient" => row[r].state = "failed"
  BY <1>0, NextMoves
<1>2. /\ ~IsRaw(i) => d = "none"
      /\ Lost(r) => o \in {"failed", "cancelled"} /\ d = "none"
      /\ o = "success" \/ WillRetry(o, row[r]) => Engaged(r)
  BY <1>0, <1>1 DEF Known, Chained, ChainFits, PlainFits, Lost, Engaged
\* The frame, when no row is created.
<1>3. ASSUME UNCHANGED <<issueOf, nrows>>, \A s \in Runs : s # r => row'[s] = row[s] /\ ArmsNone(s),
             row'[r].reason = row[r].reason, row'[r].state = row[r].state,
             row'[r].cont = row[r].cont, \A l \in Issues : l # i => labels'[l] = labels[l]
      PROVE  NextFrame(r)
  <2>1. Rows' = Rows
    BY <1>3 DEF Rows
  <2>2. \A s \in Runs : s # r => RowRests(s)
    BY <1>0, <1>1, <1>3, <2>1, ThreadsRest
  <2>. QED  BY <1>0, <1>3, <2>1, <2>2 DEF NextFrame
\* Nothing is armed for the row.
<1>4. ASSUME NextFrame(r), ArmsNone(r), Engaged(r) \/ labels' = labels
      PROVE  Chained'
  <2>1. CASE IsRaw(i)
    BY <1>4, <2>1, NextWalks DEF ArmsNone
  <2>2. CASE ~IsRaw(i)
    BY <1>4, <2>2, NextPlain
  <2>. QED  BY <2>1, <2>2
<1>5. ASSUME UNCHANGED <<storeVars, sched>>, Engaged(r) \/ IsRaw(i) \/ labels' = labels,
             \A l \in Issues : l # i => labels'[l] = labels[l]
      PROVE  Chained'
  <2>1. \A s \in Runs : ArmsNone(s)
    BY <1>5, ArmsStay
  <2>2. NextFrame(r)
    BY <1>3, <1>5, <2>1
  <2>3. CASE IsRaw(i)
    BY <2>1, <2>2, <2>3, NextWalks DEF ArmsNone
  <2>. QED  BY <1>4, <1>5, <2>1, <2>2, <2>3
\* Delayed work of the row is armed, or was in the way.
<1>6. ASSUME UNCHANGED <<issueOf, nrows>>, NEW accepted \in [Runs -> Row], NEW w,
             w.run = r, w.issue = i, ~Lost(r),
             \A s \in Runs : s # r => accepted[s] = row[s],
             accepted[r].state = row[r].state, accepted[r].reason = row[r].reason,
             accepted[r].cont = row[r].cont,
             ScheduleRunWork(row, accepted, labels, w),
             \/ IsRaw(i)
             \/ /\ Engaged(r) /\ w.kind \in {"retry", "continuation"}
                /\ w.kind = "continuation" => SucceededContinuations(i) < ContinuationCap
      PROVE  Chained'
  <2>1. /\ \A s \in Runs : s # r => ArmsNone(s)
        /\ \/ ArmsNone(r) /\ row' = row
           \/ /\ row' = accepted
              /\ \A l \in Issues : ArmedFor(l, r)' =>
                   \/ ArmedFor(l, r) /\ l # w.issue
                   \/ l = w.issue /\ sched'[l].kind = w.kind
        /\ labels' = labels
    <3>1. labels' = labels
      BY <1>0, <1>6 DEF ScheduleRunWork
    <3>. QED  BY <1>0, <1>6, <3>1, ScheduleWrites DEF Known
  <2>2. \A l \in Issues : ~ArmedFor(l, r)
    BY <1>1, <1>6 DEF WorkAhead
  <2>3. NextFrame(r)
    BY <1>3, <1>6, <2>1
  <2>4. CASE ArmsNone(r)
    BY <1>4, <2>1, <2>3, <2>4
  <2>5. CASE \A l \in Issues : ArmedFor(l, r)' => l = i /\ sched'[l].kind = w.kind
    <3>1. CASE IsRaw(i)
      BY <2>3, <2>5, <3>1, NextWalks
    <3>2. CASE ~IsRaw(i)
      BY <1>6, <2>1, <2>3, <2>5, <3>2, NextPlain
    <3>. QED  BY <3>1, <3>2
  <2>. QED  BY <1>6, <2>1, <2>2, <2>4, <2>5
<1>7. CASE NothingMore
  BY <1>5, <1>7 DEF NothingMore
<1>8. CASE o # "cancelled" /\ d = "advance" /\ NextAdvance(r)
  <2>0. IsRaw(i) /\ ~Lost(r)
    BY <1>2, <1>8
  <2>1. CASE \/ UNCHANGED <<storeVars, sched>> /\ labels' = labels
             \/ UNCHANGED <<storeVars, sched>> /\ labels' = [labels EXCEPT ![i] = @ \cup {RunState(o)}]
    BY <1>0, <1>5, <2>0, <2>1
  <2>2. CASE \E w : /\ w = [kind |-> "advance", issue |-> i, run |-> r]
                    /\ ScheduleRunWork(row, row, labels, w) /\ UNCHANGED <<issueOf, nrows>>
    BY <1>0, <1>6, <2>0, <2>2
  <2>. QED  BY <1>8, <2>1, <2>2 DEF NextAdvance
<1>9. CASE /\ o # "cancelled" /\ d = "park" /\ ScheduleWait(i, local[r].child)
           /\ UNCHANGED <<storeVars, labels>>
  <2>1. \A s \in Runs : ArmsNone(s)
    BY <1>0, <1>9, ScheduleWaitArms DEF Known
  <2>2. NextFrame(r)
    BY <1>3, <1>9, <2>1
  <2>. QED  BY <1>4, <1>9, <2>1, <2>2
<1>10. CASE d \notin {"advance", "park"} /\ WillRetry(o, row[r]) /\ NextRetry(r)
  <2>. PICK w, accepted : /\ w = [kind |-> "retry", issue |-> i, run |-> r]
                          /\ accepted = [row EXCEPT ![r].retries = @ + 1]
    OBVIOUS
  <2>1. ScheduleRunWork(row, accepted, labels, w) /\ UNCHANGED <<issueOf, nrows>>
    BY <1>10 DEF NextRetry
  <2>2. row[r].retries + 1 \in 0 .. RetryCap /\ o = "transient"
    BY <1>0, <1>10, BoundsAssumption DEF WillRetry, Row
  <2>3. /\ accepted \in [Runs -> Row] /\ \A s \in Runs : s # r => accepted[s] = row[s]
        /\ accepted[r].state = row[r].state /\ accepted[r].reason = row[r].reason
        /\ accepted[r].cont = row[r].cont
    BY <1>0, <2>2 DEF Row
  <2>4. ~Lost(r) /\ Engaged(r)
    BY <1>2, <1>10, <2>2
  <2>. QED  BY <1>6, <2>1, <2>3, <2>4
<1>11. CASE d \notin {"advance", "park"} /\ o = "success" /\ NextContinuation(r)
  <2>0. ~Lost(r) /\ Engaged(r)
    BY <1>2, <1>11
  <2>1. CASE /\ UNCHANGED <<storeVars, sched>>
             /\ \/ labels' = labels
                \/ labels' = [labels EXCEPT ![i] = Released(@)]
    BY <1>0, <1>5, <2>0, <2>1
  <2>2. CASE \E w : /\ w = [kind |-> "continuation", issue |-> i, run |-> r]
                    /\ ScheduleRunWork(row, row, labels, w) /\ UNCHANGED <<issueOf, nrows>>
                    /\ ~ContinuationCapReached(i)
    <3>1. SucceededContinuations(i) \in Nat /\ ContinuationCap \in Nat
      BY CountBound, <1>0, BoundsAssumption DEF Known, TypeInv, TypeOK, StoreOK
    <3>2. SucceededContinuations(i) < ContinuationCap
      BY <2>2, <3>1 DEF ContinuationCapReached
    <3>. QED  BY <1>0, <1>6, <2>0, <2>2, <3>2
  <2>3. CASE /\ ~StoreFull /\ nrows' = nrows + 1 /\ sched' = sched
             /\ issueOf' = [issueOf EXCEPT ![nrows + 1] = i]
             /\ row' = [row EXCEPT ![nrows + 1] =
                          [NoRow EXCEPT !.state = "failed", !.cont = TRUE,
                                        !.why = "failed"]]
             /\ labels' = [labels EXCEPT ![i] = Released(@) \cup {"failed"}]
    <3>. PICK new \in Runs : new = nrows + 1
      BY <1>0, <2>3, BoundsAssumption DEF StoreFull, Runs
    <3>1. /\ new \notin Rows /\ Rows \subseteq Rows' /\ new \in Rows' /\ r # new
          /\ \A s \in Runs : s # new => (s \in Rows' <=> s \in Rows)
      BY <1>0, <1>1, <2>3 DEF Rows, Runs
    <3>2. /\ \A s \in Runs : s # new => row'[s] = row[s] /\ issueOf'[s] = issueOf[s]
          /\ row'[new].state = "failed" /\ row'[new].reason = "none" /\ issueOf'[new] = i
          /\ \A s \in Runs : ArmsNone(s)
          /\ \A l \in Issues : l # i => labels'[l] = labels[l]
      BY <1>0, <2>3, <3>1, ArmsStay DEF NoRow
    <3>3. Newborn(new)
      BY <1>0, <1>1, <3>1, <3>2, NewbornFits
    <3>4. \A s \in Runs : s # r /\ s # new => RowRests(s)
      BY <1>0, <1>1, <3>1, <3>2, ThreadsRest
    <3>5. NextFrame(r)
      BY <1>0, <3>1, <3>2, <3>3, <3>4 DEF NextFrame
    <3>. QED  BY <1>4, <2>0, <3>2, <3>5
  <2>. QED  BY <1>7, <1>11, <2>1, <2>2, <2>3 DEF NextContinuation
<1>. QED  BY <1>7, <1>8, <1>9, <1>10, <1>11 DEF RunNext

LEMMA AttemptStepChained ==
  ASSUME Known, ShortPolls, NEW r \in Runs, AttemptStep(r)
  PROVE  Chained'
BY AttemptRunsChained, RunParksChained, RunSettleChained, RunClassifyChained,
   RunTerminalLabelsChained, RunNextChained DEF AttemptStep

-----------------------------------------------------------------------------
(* What is about no thread: Firings, deadlines, the operator, the tracker. *)

LEMMA EnvironmentChained ==
  ASSUME Known, Environment \/ RoutineStep
  PROVE  Chained'
<1>0. /\ row \in [Runs -> Row] /\ inflight \in SUBSET Runs
      /\ UNCHANGED <<controlVars, sched, inflight, stopping, issueOf, nrows, todo, seen, labels>>
  BY SameTable DEF Environment, RunTimeout, WatchdogStale, OperatorCancel, TrackerEdit,
                   RoutineStep, FireRoutine, EndRoutine, Known, TypeInv, TypeOK, RegistryOK
<1>1. /\ \A s \in Runs : SameThreads(s) /\ ArmsNone(s) /\ TickPasses(s)
      /\ Rows' = Rows /\ ~stopping' /\ OffersStay
  <2>1. \A s \in Runs : SameThreads(s) /\ ArmsNone(s) /\ TickPasses(s)
    BY <1>0, ArmsStay, TickElsewhere DEF SameThreads
  <2>. QED  BY <1>0, <2>1 DEF Rows, Known, Chained, OffersStay
<1>2. \A i \in Issues : ~IsRaw(i) => IssueRests(i)
  BY <1>0, <1>1, IssueStays
<1>3. ASSUME NEW s \in Runs, row'[s] = row[s] PROVE RowRests(s)
  BY <1>0, <1>1, <1>3, ThreadsRest
<1>4. ASSUME NEW s \in Runs, row'[s].cont = row[s].cont, row'[s].retries = row[s].retries,
             row'[s].state = "succeeded" <=> row[s].state = "succeeded",
             row'[s].state = "waiting" => row[s].state = "waiting",
             row'[s].reason = "daemon_shutdown" => row[s].reason = "daemon_shutdown"
      PROVE  RowRests(s)
  BY <1>0, <1>1, <1>4 DEF RowRests, SameThreads, TickPasses, Fired, Evaluating
<1>5. CASE RoutineStep \/ \E i \in Issues : TrackerEdit(i)
  <2>1. row' = row
    BY <1>5 DEF RoutineStep, FireRoutine, EndRoutine, TrackerEdit
  <2>. QED  BY <1>0, <1>1, <1>2, <1>3, <2>1, AllRest
<1>6. ASSUME NEW r \in Runs, RunTimeout(r) \/ WatchdogStale(r)
      PROVE  Chained'
  <2>1. row' = [row EXCEPT ![r].state = "stale", ![r].why = "watchdog"]
    BY <1>6 DEF RunTimeout, WatchdogStale
  <2>2. /\ \A s \in Runs : s # r => row'[s] = row[s]
        /\ row'[r].state = "stale" /\ row'[r].reason = row[r].reason
        /\ row'[r].cont = row[r].cont /\ row'[r].retries = row[r].retries
    BY <1>0, <2>1 DEF Row
  <2>3. /\ r \in Rows
        /\ row[r].state \in ActiveStates \cup {"failed", "stale"} \/ IsRaw(issueOf[r])
    <3>1. CASE RunTimeout(r)
      <4>1. r \in inflight /\ r \in Rows
        BY <3>1 DEF RunTimeout, RowsInv, Known
      <4>2. CASE pc[Attempt(r)] = "idle" /\ pc[Timer(r)] = "retrylabel"
        BY <4>1, <4>2, RetryStands DEF RetryPCs, Known
      <4>3. CASE pc[Attempt(r)] \in Starting \cup {"settle"}
        BY <4>1, <4>3 DEF Known, RowFits, AttemptFits, Starting, Lost
      <4>. QED  BY <4>1, <4>2, <4>3 DEF Known, RowFits, SlotFits
    <3>2. CASE WatchdogStale(r)
      <4>1. row[r].state = "running"
        BY <3>2 DEF WatchdogStale, Stalable
      <4>. QED  BY <4>1 DEF Known, RowFits, TimerFits, ActiveStates
    <3>. QED  BY <1>6, <3>1, <3>2
  <2>4. \A s \in Runs : s # r => RowRests(s)
    BY <1>3, <2>2
  <2>5. CASE IsRaw(issueOf[r])
    <3>1. FiledFits(r)'
      BY <1>0, <1>1, <2>2 DEF FiledFits, SameThreads, ArmsNone, Fired, Known, Chained
    <3>. QED  BY <1>0, <1>1, <1>2, <2>3, <2>4, <2>5, <3>1, WalkChained
  <2>6. CASE row[r].state \in ActiveStates \cup {"failed", "stale"}
    <3>1. RowRests(r)
      BY <1>4, <2>2, <2>6 DEF ActiveStates
    <3>. QED  BY <1>0, <1>1, <1>2, <2>4, <3>1, AllRest
  <2>. QED  BY <2>3, <2>5, <2>6
<1>7. ASSUME NEW r \in Runs, OperatorCancel(r)
      PROVE  Chained'
  <2>1. row' = [row EXCEPT ![r] = MarkCancelRequested(@, "operator")]
    BY <1>7 DEF OperatorCancel
  <2>2. /\ \A s \in Runs : s # r => row'[s] = row[s]
        /\ row'[r].state = row[r].state
        /\ row'[r].cont = row[r].cont /\ row'[r].retries = row[r].retries
        /\ row'[r].reason = "daemon_shutdown" => row[r].reason = "daemon_shutdown"
    BY <1>0, <2>1 DEF MarkCancelRequested, Row
  <2>3. \A s \in Runs : RowRests(s)
    BY <1>3, <1>4, <2>2
  <2>. QED  BY <1>0, <1>1, <1>2, <2>3, AllRest
<1>. QED  BY <1>5, <1>6, <1>7 DEF Environment

-----------------------------------------------------------------------------
(* A crash, a restart.                                                     *)

\* Nothing is under way; rows keep what they are, or become stale.
LEMMA FreshChained ==
  ASSUME Known, Fresh, ~stopping', UNCHANGED <<issueOf, nrows>>,
         \A s \in Runs : /\ row'[s].reason = row[s].reason
                         /\ row'[s].state \in {row[s].state, "stale"}
                         /\ row'[s].cont = row[s].cont
  PROVE  Chained'
<1>0. /\ Rows' = Rows /\ Rows \subseteq Runs /\ nrows \in Nat /\ nrows' \in Nat
      /\ ContinuationCap \in Nat
  BY BoundsAssumption DEF Rows, Runs, Known, TypeInv, TypeOK, StoreOK
<1>1. ASSUME NEW s \in Runs
      PROVE  /\ ~Fired(s)' /\ ~Evaluating(s)' /\ pc'[Attempt(s)] = "idle" /\ s \notin inflight'
             /\ \A i \in Issues : ~ArmedFor(i, s)'
  BY ThreadNames DEF Fresh, Fired, Evaluating, ArmedFor, NoWork, Owed
<1>2. \A s \in Runs : FiledFits(s)'
  BY <1>1 DEF FiledFits, Known, Chained
<1>3. ASSUME NEW i \in Issues, ~IsRaw(i)
      PROVE  ChainFits(i)'
  <2>1. ChainFits(i)
    BY <1>3 DEF Known, Chained
  <2>2. ASSUME NEW s \in Rows, issueOf[s] = i
        PROVE  PlainFits(s)' /\ ~Engaged(s)'
    BY <1>0, <1>1, <2>1, <2>2 DEF ChainFits, PlainFits, Engaged, WorkAhead
  <2>3. CountedRows(i)' \subseteq CountedRows(i)
    BY <1>0 DEF CountedRows
  <2>4. SucceededContinuations(i)' <= ContinuationCap
    <3>1. /\ SucceededContinuations(i)' <= SucceededContinuations(i)
          /\ SucceededContinuations(i) \in Nat /\ SucceededContinuations(i)' \in Nat
      BY <1>0, <2>3, CountBound
    <3>. QED  BY <1>0, <2>1, <3>1 DEF ChainFits
  <2>. QED  BY <1>0, <2>2, <2>4 DEF ChainFits
<1>. QED  BY <1>2, <1>3 DEF Chained

LEMMA CrashRestartChained ==
  ASSUME Known, Crash \/ Restart
  PROVE  Chained'
<1>1. row \in [Runs -> Row]
  BY SameTable DEF Known, TypeInv, TypeOK
<1>2. CASE Crash
  BY <1>2, FreshChained DEF Crash
<1>3. CASE Restart
  <2>1. ASSUME NEW s \in Runs
        PROVE  /\ row'[s].reason = row[s].reason
               /\ row'[s].state \in {row[s].state, "stale"}
               /\ row'[s].cont = row[s].cont
    BY <1>1, <1>3 DEF Restart, Row
  <2>. QED  BY <1>3, <2>1, FreshChained DEF Restart
<1>. QED  BY <1>2, <1>3

-----------------------------------------------------------------------------
(* The theorem.                                                            *)

LEMMA TimerStepChained ==
  ASSUME Known, NEW r \in Runs, TimerStep(r)
  PROVE  Chained'
BY TimerDropsChained, TimerGoesOnChained, RetryCheckChained, RetryLabelChained,
   WaitStepChained DEF TimerStep

LEMMA NextChained ==
  TypeInv /\ TypeInv' /\ SlotInv /\ VerdictInv /\ ChainInv /\ [Next]_vars => ChainInv'
<1>. SUFFICES ASSUME TypeInv, TypeInv', SlotInv, VerdictInv, ChainInv, [Next]_vars,
                     Undisturbed
              PROVE  Chained'
  BY DEF ChainInv, Undisturbed
<1>0. Known /\ ShortPolls /\ "stop" \notin Disturbances /\ ~stopping
  BY DEF Known, SlotInv, VerdictInv, ChainInv, Undisturbed, Chained
<1>1. CASE UNCHANGED vars
  <2>1. Elsewhere /\ OffersStay /\ labels' = labels
    BY <1>1 DEF vars, Elsewhere, SameThreads, OffersStay
  <2>2. \A i \in Issues : ~IsRaw(i) => IssueRests(i)
    BY <1>0, <2>1, IssueStays
  <2>3. \A s \in Runs : RowRests(s)
    BY <1>0, <2>1, ElsewhereRests
  <2>4. ~stopping' /\ nrows' = nrows
    BY <1>0, <2>1 DEF Elsewhere
  <2>. QED  BY <1>0, <2>2, <2>3, <2>4, AllRest
<1>2. CASE DaemonStep
  BY <1>0, <1>2, BatchPickChained, ClaimStepChained, TimerFireChained, TimerStepChained,
     AttemptStepChained, TickStepChained, EnvironmentChained DEF DaemonStep
<1>3. CASE Environment
  BY <1>0, <1>3, EnvironmentChained
<1>4. ~StopBegin /\ ~StopDone
  BY <1>0 DEF StopBegin, StopDone, Disturb
<1>5. CASE Crash \/ Restart
  BY <1>0, <1>5, CrashRestartChained
<1>. QED  BY <1>1, <1>2, <1>3, <1>4, <1>5 DEF Next

LEMMA InitChained == Init => ChainInv
<1>. SUFFICES ASSUME Init PROVE Chained
  BY DEF ChainInv
<1>1. Rows = {} /\ ~stopping
  BY DEF Init, Rows
<1>2. \A s \in Runs : FiledFits(s)
  BY ThreadNames DEF Init, FiledFits, Fired, ArmedFor, NoWork, Owed, NoRow
<1>3. ASSUME NEW i \in Issues PROVE ChainFits(i)
  <2>1. SucceededContinuations(i) = 0
    <3>1. {r \in Rows : issueOf[r] = i /\ row[r].cont /\ row[r].state = "succeeded"} = {}
      BY <1>1
    <3>. QED  BY <3>1, FS_EmptySet DEF SucceededContinuations
  <2>. QED  BY <1>1, <2>1, BoundsAssumption DEF ChainFits
<1>. QED  BY <1>1, <1>2, <1>3 DEF Chained

\* Of an issue whose workflow is markdown, one Run at a time can still lead to another:
\* it, its delayed work or its attempt keeps the claim that hides the issue from fresh
\* dispatch, and may add to the continuations only while the cap is not reached.
THEOREM ChainInvariance == Spec => []ChainInv
<1>1. TypeInv /\ TypeInv' /\ SlotInv /\ VerdictInv /\ ChainInv /\ [Next]_vars => ChainInv'
  BY NextChained
<1>. QED  BY <1>1, InitChained, TypeInvariance, SlotInvariance, VerdictInvariance, PTL
     DEF Spec

\* An issue never has more successful continuations than the cap, however many timers,
\* batches, retries, crashes and restarts are about it.
THEOREM ContinuationsCapped == Spec => []ContinuationsWithinCap
<1>1. ChainInv => ContinuationsWithinCap
  BY DEF ChainInv, Chained, ChainFits, ContinuationsWithinCap
<1>. QED  BY <1>1, ChainInvariance, PTL

-----------------------------------------------------------------------------
(* The labels of an issue and the attempt they are about.                  *)

\* The table of rows only grows, and rows keep their issue.
LEMMA RowsGrow ==
  ASSUME TypeInv, SlotInv, Next
  PROVE  RowsAdded
<1>1. ASSUME NEW t \in Claimants, ClaimStep(t) PROVE RowsAdded
  <2>1. CASE ClaimGate(t) \/ ClaimRollback(t) \/ ClaimLabelFails(t)
    BY <2>1, ClaimGateCalm, ClaimRollbackCalm, ClaimLabelFailsCalm DEF Calm
  <2>2. CASE ClaimCheck(t)
    BY <2>2 DEF ClaimCheck, RowsAdded
  <2>3. CASE ClaimPersist(t)
    <3>1. work[t].issue \in Issues
      BY <2>3, ClaimWork DEF ClaimPersist, TypeInv, TypeOK
    <3>. QED  BY <2>3, <3>1 DEF ClaimPersist, RowsAdded
  <2>. QED  BY <1>1, <2>1, <2>2, <2>3 DEF ClaimStep
<1>2. ASSUME NEW r \in Runs, TimerStep(r) \/ AttemptStep(r) PROVE RowsAdded
  <2>1. CASE RetryCheck(r)
    BY <2>1 DEF RetryCheck, RowsAdded
  <2>2. CASE TimerStep(r) /\ ~RetryCheck(r)
    BY <2>2, TimerStepCalm, RetryLabelCalm, WaitStepCalm DEF TimerStep, Calm
  <2>3. CASE AttemptStep(r)
    BY <2>3, AttemptKeepsCalm, AttemptReturnsCalm, RunNextCalm DEF AttemptStep, Calm
  <2>. QED  BY <1>2, <2>1, <2>2, <2>3
<1>3. CASE \/ \E b \in Batches : BatchPick(b)
           \/ \E i \in Issues : TimerFire(i)
           \/ TickStep \/ Environment \/ StopBegin \/ StopDone \/ Crash \/ Restart
  BY <1>3, BatchPickCalm, TimerFireCalm, TickCalm, EnvironmentCalm, StopBeginCalm,
     FreshCalm DEF Calm
<1>4. CASE RoutineStep
  BY <1>4 DEF RoutineStep, FireRoutine, EndRoutine, RowsAdded
<1>. QED  BY <1>1, <1>2, <1>3, <1>4 DEF Next, DaemonStep

\* Rows that exist stay, with their issue, whatever their slot.
LEMMA IssuesStay ==
  ASSUME TypeInv, RowsAdded
  PROVE  Rows \subseteq Rows' /\ \A r \in Rows : issueOf'[r] = issueOf[r]
<1>1. nrows \in Nat /\ MaxRuns \in Nat /\ nrows <= MaxRuns
  BY BoundsAssumption DEF TypeInv, TypeOK, StoreOK
<1>2. ASSUME NEW r \in Rows PROVE issueOf'[r] = issueOf[r]
  <2>1. r # nrows + 1 /\ r \in Runs
    BY <1>1 DEF Rows, Runs
  <2>. QED  BY <2>1 DEF RowsAdded, TypeInv, TypeOK, StoreOK
<1>. QED  BY <1>1, <1>2 DEF RowsAdded, Rows

\* No label write but an attempt's setup puts sym:running on an issue.
LabelsFall == \A i \in Issues : "running" \in labels'[i] => "running" \in labels[i]

LEMMA LabelsWritten ==
  ASSUME NEW ls, NEW why, NEW o, NEW fsm, NEW again
  PROVE  /\ "running" \notin CancelLabels(ls, why)
         /\ "running" \in Released(ls) => "running" \in ls
         /\ "running" \notin TerminalLabels(ls, o, why, fsm, again)
BY DEF CancelLabels, Released, TerminalLabels

LEMMA OneFalls ==
  ASSUME TypeInv, NEW i, NEW ls, labels' = [labels EXCEPT ![i] = ls],
         "running" \in ls => "running" \in labels[i]
  PROVE  LabelsFall
BY DEF LabelsFall, TypeInv, TypeOK, GithubOK

LEMMA ScheduleFalls ==
  ASSUME TypeInv, NEW rows, NEW accepted, NEW w, ScheduleRunWork(rows, accepted, labels, w)
  PROVE  LabelsFall
<1>1. CASE labels' = labels
  BY <1>1 DEF LabelsFall
<1>2. CASE labels' = [labels EXCEPT ![w.issue] = CancelLabels(@, "daemon_shutdown")]
  BY <1>2, LabelsWritten, OneFalls
<1>. QED  BY <1>1, <1>2 DEF ScheduleRunWork

\* An attempt that wears the label goes on, or takes it off.
LEMMA LabelKept ==
  ASSUME TypeInv, LabelInv, RowsAdded, up, up',
         \A s \in Rows : Wears(s) => Wears(s)' \/ "running" \notin labels'[issueOf[s]],
         \A i \in Issues : "running" \in labels'[i] =>
            "running" \in labels[i] \/ \E s \in Rows : issueOf[s] = i /\ Wears(s)'
  PROVE  LabelInv'
<1>1. Rows \subseteq Rows' /\ \A s \in Rows : issueOf'[s] = issueOf[s]
  BY IssuesStay
<1>2. ASSUME NEW i \in Issues, "running" \in labels'[i],
             Disturbances \cap {"fault", "crash"} = {}
      PROVE  \E s \in Rows' : issueOf'[s] = i /\ Wears(s)'
  <2>1. CASE \E s \in Rows : issueOf[s] = i /\ Wears(s)'
    BY <1>1, <2>1
  <2>2. CASE "running" \in labels[i]
    <3>1. PICK s \in Rows : issueOf[s] = i /\ Wears(s)
      BY <1>2, <2>2 DEF LabelInv
    <3>2. Wears(s)'
      BY <1>2, <3>1
    <3>. QED  BY <1>1, <3>1, <3>2
  <2>. QED  BY <1>2, <2>1, <2>2
<1>. QED  BY <1>2 DEF LabelInv

\* Steps of others than attempts.
LEMMA AsideKeepsLabel ==
  ASSUME TypeInv, LabelInv, RowsAdded, up, Aside, LabelsFall
  PROVE  LabelInv'
<1>1. \A s \in Rows : Wears(s) => Wears(s)'
  BY BoundsAssumption DEF Aside, AttemptsStay, Wears, Rows, Runs, TypeInv, TypeOK, StoreOK
<1>. QED  BY <1>1, LabelKept DEF Aside, LabelsFall

LEMMA ClaimLabel ==
  ASSUME TypeInv, NEW t \in Claimants, ClaimStep(t)
  PROVE  LabelsFall
<1>1. ASSUME ClaimRefused(t) \/ ClaimShutDown(t) PROVE LabelsFall
  <2>1. CASE labels' = labels
    BY <2>1 DEF LabelsFall
  <2>2. CASE ScheduleRunWork(row, row, labels, work[t])
    BY <2>2, ScheduleFalls
  <2>3. CASE labels' = [labels EXCEPT ![work[t].issue] = CancelLabels(@, "daemon_shutdown")]
    BY <2>3, LabelsWritten, OneFalls
  <2>. QED  BY <1>1, <2>1, <2>2, <2>3 DEF ClaimRefused, ClaimShutDown
<1>2. CASE ClaimGate(t) \/ ClaimCheck(t)
  BY <1>1, <1>2 DEF ClaimGate, ClaimCheck, LabelsFall
<1>3. CASE ClaimPersist(t)
  BY <1>3, OneFalls DEF ClaimPersist, Claimed
<1>4. CASE ClaimRollback(t) \/ ClaimLabelFails(t)
  BY <1>4, OneFalls DEF ClaimRollback, ClaimLabelFails
<1>. QED  BY <1>2, <1>3, <1>4 DEF ClaimStep

LEMMA WaitLabel ==
  ASSUME TypeInv, NEW r \in Runs, WaitDecided(r)
  PROVE  LabelsFall
<1>1. CASE labels' = labels
  BY <1>1 DEF LabelsFall
<1>2. CASE \E rows, w : ScheduleRunWork(rows, rows, labels, w)
  BY <1>2, ScheduleFalls
<1>3. CASE labels' = [labels EXCEPT ![issueOf[r]] = Released(@)]
  BY <1>3, LabelsWritten, OneFalls
<1>4. CASE labels' = [labels EXCEPT ![issueOf[r]] = Released(@) \cup {"blocked"}]
  BY <1>4, LabelsWritten, OneFalls
<1>. QED  BY <1>1, <1>2, <1>3, <1>4 DEF WaitDecided

LEMMA TimerLabel ==
  ASSUME TypeInv, NEW r \in Runs, TimerStep(r)
  PROVE  LabelsFall
<1>1. CASE TimerDropped(r)
  BY <1>1, LabelsWritten, OneFalls DEF TimerDropped, LabelsFall
<1>2. CASE TimerUnavailable(r) \/ TimerAdmitted(r) \/ WaitRead(r)
  BY <1>2 DEF TimerUnavailable, TimerAdmitted, WaitRead, LabelsFall
<1>3. CASE RetryGate(r)
  BY <1>3, LabelsWritten, OneFalls DEF RetryGate, LabelsFall
<1>4. CASE RetryCheck(r)
  BY <1>4, LabelsWritten, OneFalls, ScheduleFalls DEF RetryCheck, LabelsFall
<1>5. CASE RetryLabel(r)
  BY <1>5, OneFalls DEF RetryLabel, LabelsFall
<1>6. CASE WaitEvaluate(r)
  BY <1>6, WaitLabel DEF WaitEvaluate
<1>. QED  BY <1>1, <1>2, <1>3, <1>4, <1>5, <1>6 DEF TimerStep

LEMMA TickLabel ==
  ASSUME TypeInv, TickStep
  PROVE  LabelsFall
<1>1. CASE TickPoll \/ TickReconcile \/ TickWaits \/ TickWaitRead \/ TickLaunch
  BY <1>1 DEF TickPoll, TickReconcile, TickWaits, TickWaitRead, TickLaunch, LabelsFall
<1>2. CASE TickWaitEvaluate
  <2>1. PICK r \in todo : WaitDecided(r)
    BY <1>2 DEF TickWaitEvaluate
  <2>2. r \in Runs
    BY <1>2, <2>1 DEF TickWaitEvaluate, TypeInv, TodoInv
  <2>. QED  BY <2>1, <2>2, WaitLabel
<1>3. CASE TickResumeOne
  BY <1>3, LabelsWritten, OneFalls DEF TickResumeOne, LabelsFall
<1>4. CASE TickMark
  BY <1>4, OneFalls DEF TickMark, LabelsFall
<1>. QED  BY <1>1, <1>2, <1>3, <1>4 DEF TickStep

\* The attempt writes sym:running and does not end before it is off again.
LEMMA AttemptLabel ==
  ASSUME TypeInv, RowsInv, LabelInv, RowsAdded, up, NEW r \in Runs, AttemptStep(r)
  PROVE  LabelInv'
<1>. DEFINE at == pc'[Attempt(r)]
<1>1. /\ r \in Rows /\ up' /\ Attempt(r) \in Threads /\ issueOf[r] \in Issues
      /\ \A s \in Rows : s # r => pc'[Attempt(s)] = pc[Attempt(s)]
  <2>1. up' = up /\ pc[Attempt(r)] # "idle" /\ \E where : pc' = [pc EXCEPT ![Attempt(r)] = where]
    BY DEF AttemptStep, RunEntry, RunPreparationFails, RunLoad, RunParks, RunSetup,
           RunStart, ProviderExit, RunSettle, RunClassify, RunTerminal, RunLabels,
           RunNext, Goto
  <2>2. Rows \subseteq Runs
    BY BoundsAssumption DEF TypeInv, TypeOK, StoreOK, Rows, Runs
  <2>. QED  BY <2>1, <2>2, ThreadNames, ThreadsDiffer
            DEF RowsInv, TypeInv, TypeOK, ControlOK, StoreOK
<1>2. ASSUME LabelsFall, Wears(r) => Wears(r)' \/ "running" \notin labels'[issueOf[r]]
      PROVE  LabelInv'
  BY <1>1, <1>2, LabelKept DEF LabelsFall, Wears
<1>3. CASE RunEntry(r) \/ RunPreparationFails(r) \/ RunLoad(r)
  BY <1>2, <1>3 DEF RunEntry, RunPreparationFails, RunLoad, LabelsFall, Wears, Wearing
<1>4. CASE RunParks(r)
  <2>1. LabelsFall
    BY <1>4, LabelsWritten, OneFalls DEF RunParks, LabelsFall
  <2>. QED  BY <1>2, <1>4, <2>1 DEF RunParks, Wears, Wearing
<1>5. CASE RunSetup(r)
  <2>1. Wears(r)' /\ ~Wears(r)
    BY <1>1, <1>5 DEF RunSetup, Wears, Wearing, Goto, TypeInv, TypeOK, ControlOK
  <2>2. \A i \in Issues : i # issueOf[r] => labels'[i] = labels[i]
    BY <1>5 DEF RunSetup, TypeInv, TypeOK, GithubOK
  <2>. QED  BY <1>1, <2>1, <2>2, LabelKept DEF Wears
<1>6. CASE RunStart(r) \/ ProviderExit(r) \/ RunClassify(r) \/ RunTerminal(r)
  <2>1. Wears(r)'
    BY <1>1, <1>6 DEF RunStart, ProviderExit, RunClassify, RunTerminal, Wears, Wearing,
                      Goto, TypeInv, TypeOK, ControlOK
  <2>2. LabelsFall
    BY <1>6 DEF RunStart, ProviderExit, RunClassify, RunTerminal, LabelsFall
  <2>. QED  BY <1>2, <2>1, <2>2
<1>7. CASE RunSettle(r)
  <2>1. CASE labels' = labels /\ Goto(Attempt(r), "classify")
    BY <1>1, <1>2, <2>1 DEF LabelsFall, Goto, Wears, Wearing, TypeInv, TypeOK, ControlOK
  <2>2. CASE labels' = [labels EXCEPT ![issueOf[r]] = CancelLabels(@, "watchdog")]
    <3>1. "running" \notin labels'[issueOf[r]] /\ LabelsFall
      BY <1>1, <2>2, LabelsWritten, OneFalls DEF TypeInv, TypeOK, GithubOK
    <3>. QED  BY <1>2, <3>1
  <2>. QED  BY <1>7, <2>1, <2>2 DEF RunSettle
<1>8. CASE RunLabels(r)
  <2>1. CASE labels' = [labels EXCEPT ![issueOf[r]] =
                 TerminalLabels(@, local[r].outcome, local[r].cancel, FsmContinuing(r),
                                WillRetry(local[r].outcome, row[r]))]
    <3>1. "running" \notin labels'[issueOf[r]] /\ LabelsFall
      BY <1>1, <2>1, LabelsWritten, OneFalls DEF TypeInv, TypeOK, GithubOK
    <3>. QED  BY <1>2, <3>1
  <2>2. CASE Fault
    BY <2>2 DEF LabelInv, Fault, Disturb
  <2>. QED  BY <1>8, <2>1, <2>2 DEF RunLabels
<1>9. CASE RunNext(r)
  <2>1. LabelsFall
    <3>1. CASE labels' = labels
      BY <3>1 DEF LabelsFall
    <3>2. CASE \E rows, w : ScheduleRunWork(row, rows, labels, w)
      BY <3>2, ScheduleFalls
    <3>3. CASE \E m \in {"failed", "blocked"} :
                 labels' = [labels EXCEPT ![issueOf[r]] = @ \cup {m}]
      BY <3>3, OneFalls
    <3>4. CASE labels' = [labels EXCEPT ![issueOf[r]] = Released(@)]
      BY <3>4, LabelsWritten, OneFalls
    <3>5. CASE labels' = [labels EXCEPT ![issueOf[r]] = Released(@) \cup {"failed"}]
      BY <3>5, LabelsWritten, OneFalls
    <3>. QED  BY <1>9, <3>1, <3>2, <3>3, <3>4, <3>5
              DEF RunNext, NextAdvance, NextRetry, NextContinuation, NothingMore
  <2>. QED  BY <1>2, <1>9, <2>1 DEF RunNext, Wears, Wearing
<1>. QED  BY <1>3, <1>4, <1>5, <1>6, <1>7, <1>8, <1>9 DEF AttemptStep

\* A claim or a retry begins an attempt where there was none.
LEMMA BeginsLabel ==
  ASSUME TypeInv, TypeInv', RowsInv, RowsAdded, LabelInv, up,
         \A s \in Runs : RowFits(s), NEW r \in Runs,
         RetryLabel(r) \/ \E t \in Claimants : ClaimPersist(t) /\ r = nrows + 1
  PROVE  LabelInv'
<1>0. Rows \subseteq Runs
  BY BoundsAssumption DEF TypeInv, TypeOK, StoreOK, Rows, Runs
<1>1. up' /\ LabelsFall
  <2>1. CASE RetryLabel(r)
    BY <2>1, TimerLabel DEF TimerStep, RetryLabel
  <2>2. CASE \E t \in Claimants : ClaimPersist(t)
    BY <2>2, ClaimLabel DEF ClaimStep, ClaimPersist
  <2>. QED  BY <2>1, <2>2
<1>2. pc[Attempt(r)] = "idle"
  <2>1. CASE RetryLabel(r)
    BY <2>1, RetryStands DEF RetryLabel, RetryPCs
  <2>2. CASE r = nrows + 1
    <3>1. r \notin Rows
      BY <2>2 DEF TypeInv, TypeOK, StoreOK, Rows
    <3>. QED  BY <3>1 DEF RowsInv
  <2>. QED  BY <2>1, <2>2
<1>3. \A s \in Runs : s # r => pc'[Attempt(s)] = pc[Attempt(s)]
  <2>1. CASE RetryLabel(r)
    BY <2>1, ThreadNames, ThreadsDiffer DEF RetryLabel, TypeInv, TypeOK, ControlOK
  <2>2. ASSUME NEW t \in Claimants, ClaimPersist(t), r = nrows + 1
        PROVE  \A s \in Runs : s # r => pc'[Attempt(s)] = pc[Attempt(s)]
    <3>1. \E where : pc' = [pc EXCEPT ![Attempt(r)] = "entry", ![t] = where]
      BY <2>2 DEF ClaimPersist
    <3>. QED  BY <3>1, ThreadNames, ThreadsDiffer DEF TypeInv, TypeOK, ControlOK
  <2>. QED  BY <2>1, <2>2
<1>. QED  BY <1>0, <1>1, <1>2, <1>3, LabelKept DEF LabelsFall, Wears, Wearing

\* A stop takes labels off, a crash is excluded, a restart finds none.
LEMMA EdgesLabel ==
  ASSUME TypeInv, LabelInv, RowsAdded,
         (up /\ (StopBegin \/ StopDone \/ Crash)) \/ Restart
  PROVE  LabelInv'
<1>1. CASE up /\ StopBegin
  <2>1. LabelsFall
    BY <1>1, LabelsWritten DEF LabelsFall, StopBegin
  <2>2. up' /\ pc' = pc
    BY <1>1 DEF StopBegin
  <2>. QED  BY <1>1, <2>1, <2>2, LabelKept DEF LabelsFall, Wears
<1>2. CASE StopDone
  <2>1. \A r \in Rows : ~Wears(r)
    BY <1>2, ThreadNames, BoundsAssumption
    DEF StopDone, Quiet, Wears, Wearing, Rows, Runs, TypeInv, TypeOK, StoreOK
  <2>. QED  BY <1>2, <2>1 DEF StopDone, LabelInv
<1>3. CASE Crash
  BY <1>3 DEF Crash, Disturb, LabelInv
<1>4. CASE Restart
  BY <1>4 DEF Restart, LabelInv
<1>. QED  BY <1>1, <1>2, <1>3, <1>4

LEMMA NextLabel ==
  ASSUME TypeInv, TypeInv', SlotInv, VerdictInv, LabelInv, [Next]_vars
  PROVE  LabelInv'
<1>1. CASE UNCHANGED vars
  BY <1>1 DEF vars, LabelInv, Wears, Rows
<1>2. RowsInv /\ (Next => RowsAdded) /\ \A s \in Runs : RowFits(s)
  BY RowsGrow DEF SlotInv, VerdictInv
<1>3. ASSUME NEW t \in Claimants, up, ClaimStep(t), Next PROVE LabelInv'
  <2>1. CASE ClaimPersist(t)
    <3>1. PICK r \in Runs : r = nrows + 1
      BY <2>1, RoomHere DEF ClaimPersist
    <3>. QED  BY <1>2, <1>3, <2>1, <3>1, BeginsLabel
  <2>2. CASE ~ClaimPersist(t)
    BY <1>2, <1>3, <2>2, ClaimAside, ClaimLabel, AsideKeepsLabel DEF ClaimStep
  <2>. QED  BY <2>1, <2>2
<1>4. ASSUME NEW r \in Runs, up, TimerStep(r), Next PROVE LabelInv'
  <2>1. CASE RetryLabel(r)
    BY <1>2, <1>4, <2>1, BeginsLabel
  <2>2. CASE ~RetryLabel(r)
    BY <1>2, <1>4, <2>2, TimerAside, WaitAside, TimerLabel, AsideKeepsLabel DEF TimerStep
  <2>. QED  BY <2>1, <2>2
<1>5. ASSUME NEW r \in Runs, up, AttemptStep(r), Next PROVE LabelInv'
  BY <1>2, <1>5, AttemptLabel
<1>6. CASE /\ up /\ Next
           /\ \/ \E b \in Batches : BatchPick(b)
              \/ \E i \in Issues : TimerFire(i)
              \/ RoutineStep \/ Environment \/ TickStep
  <2>1. Aside
    BY <1>6, PickFireAside, TickAside, EnvironmentAside
  <2>2. LabelsFall
    BY <1>6, TickLabel
    DEF LabelsFall, BatchPick, TimerFire, RoutineStep, FireRoutine, EndRoutine, Environment,
        RunTimeout, WatchdogStale, OperatorCancel, TrackerEdit
  <2>. QED  BY <1>2, <1>6, <2>1, <2>2, AsideKeepsLabel
<1>7. CASE Next /\ ((up /\ (StopBegin \/ StopDone \/ Crash)) \/ Restart)
  BY <1>2, <1>7, EdgesLabel
<1>. QED  BY <1>1, <1>3, <1>4, <1>5, <1>6, <1>7 DEF Next, DaemonStep

LEMMA InitLabel == Init => LabelInv
BY DEF Init, LabelInv

THEOREM LabelInvariance == Spec => []LabelInv
<1>. QED  BY InitLabel, NextLabel, TypeInvariance, SlotInvariance, VerdictInvariance, PTL DEF Spec

\* sym:running is on an issue only while an attempt of it has still to take it off, as
\* long as no label write fails and the process lives.
THEOREM RunningMeansAttempt == Spec => []RunningLabelHasAttempt
<1>1. LabelInv => RunningLabelHasAttempt
  BY DEF LabelInv, RunningLabelHasAttempt, Wears, Wearing
<1>. QED  BY <1>1, LabelInvariance, PTL
=============================================================================
