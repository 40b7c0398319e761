------------------------- MODULE RunLifecycleProofs -------------------------
(***************************************************************************)
(* The invariant TypeInv holds of every behaviour of the Run lifecycle,    *)
(* for any issues, Projects, caps, workflows, bounds and disturbances.     *)
(*                                                                         *)
(* First, facts about the operators the lifecycle is built from (the       *)
(* threads, dispatchMutex, the values written to rows, labels and the      *)
(* registry of delayed work); then the operations of RunDispatch, of       *)
(* RunAttempt and of DaemonTick, one by one, and every step.               *)
(***************************************************************************)
EXTENDS RunLifecycle, TLAPS

\* Every constructor of a thread names a thread.
LEMMA ThreadNames ==
  /\ \A r \in Runs : /\ Attempt(r) \in Threads /\ Timer(r) \in Threads
                     /\ Wait(r) \in Threads /\ Timer(r) \in Claimants
  /\ \A b \in Batches : Batch(b) \in Threads /\ Batch(b) \in Claimants
  /\ Tick \in Threads /\ Claimants \subseteq Threads
BY DEF Threads, Claimants

\* Different constructors, and different arguments, name different threads.
LEMMA ThreadsDiffer ==
  /\ \A r, s \in Runs :
       /\ Attempt(r) # Timer(s) /\ Attempt(r) # Wait(s) /\ Timer(r) # Wait(s)
       /\ r # s => /\ Attempt(r) # Attempt(s) /\ Timer(r) # Timer(s)
                   /\ Wait(r) # Wait(s)
  /\ \A r \in Runs : /\ Attempt(r) # Tick /\ Timer(r) # Tick /\ Wait(r) # Tick
                     /\ Attempt(r) \notin Claimants /\ Wait(r) \notin Claimants
  /\ \A b \in Batches, r \in Runs :
       Batch(b) # Attempt(r) /\ Batch(b) # Timer(r) /\ Batch(b) # Wait(r)
  /\ \A b, c \in Batches : b # c => Batch(b) # Batch(c)
  /\ \A b \in Batches : Batch(b) # Tick
  /\ Tick \notin Claimants
BY DEF Attempt, Timer, Wait, Batch, Tick, Claimants

-----------------------------------------------------------------------------
(* dispatchMutex is FIFO: waiting for it never moves its holder.           *)

\* A thread that queues behind others, or that leaves the queue alone, takes
\* the critical section from nobody.
LEMMA OutsideStep ==
  ASSUME mutex \in Seq(Threads), CriticalSections,
         \A u \in Threads : pc'[u] \in Inside => pc[u] \in Inside,
         NEW t \in Threads, mutex' = mutex \/ mutex' = Append(mutex, t)
  PROVE  CriticalSections'
BY DEF CriticalSections, Holds

\* The holder lets go as it leaves its critical section.
LEMMA ReleaseStep ==
  ASSUME CriticalSections, NEW t \in Threads, Holds(t),
         \A u \in Threads : pc'[u] \in Inside => pc[u] \in Inside /\ u # t
  PROVE  CriticalSections'
BY DEF CriticalSections, Holds

\* The holder may enter its critical section.
LEMMA HolderStep ==
  ASSUME CriticalSections, NEW t \in Threads, Holds(t), mutex' = mutex,
         \A u \in Threads : pc'[u] \in Inside => pc[u] \in Inside \/ u = t
  PROVE  CriticalSections'
BY DEF CriticalSections, Holds

\* A held mutex is a non-empty queue, and what is left of it is a queue.
LEMMA TailType ==
  ASSUME mutex \in Seq(Threads), NEW t, Holds(t)
  PROVE  Tail(mutex) \in Seq(Threads)
BY DEF Holds

LEMMA AppendType ==
  ASSUME mutex \in Seq(Threads), NEW t \in Threads
  PROVE  Append(mutex, t) \in Seq(Threads)
OBVIOUS

\* A disturbance is counted up to its bound.
LEMMA FaultType ==
  ASSUME DaemonOK, NEW k, Disturb(k) \/ Fault \/ NoFault
  PROVE  spent' \in 0 .. MaxDisturbances
BY BoundsAssumption DEF DaemonOK, Fault, Disturb, NoFault

-----------------------------------------------------------------------------
(* Rows.                                                                   *)

LEMMA CancelReasonType ==
  ASSUME NEW q \in Row, NEW why \in Reasons
  PROVE  /\ MarkCancelRequested(q, why) \in Row
         /\ CancelledRow(q, why) \in Row
<1>1. MarkCancelRequested(q, why) \in Row
  BY DEF MarkCancelRequested, Row
<1>2. CancelledRow(q, why) \in Row
  <2>. DEFINE m == MarkCancelRequested(q, why)
  <2>1. [m EXCEPT !.state = "cancelled", !.why = "cancelled"] \in Row
    <3>. HIDE DEF m
    <3>. QED  BY <1>1 DEF m, Row, RowStates, Outcomes
  <2>. QED  BY <2>1 DEF CancelledRow
<1>. QED  BY <1>1, <1>2

LEMMA NewRowType ==
  ASSUME NEW w, RetryCap \in Nat
  PROVE  NoRow \in Row /\ WaitingRow \in Row /\ NewRow(w) \in Row
         /\ RolledBackRow(w) \in Row
<1>1. NoRow \in Row
  BY DEF NoRow, Row, RowStates, Reasons, Outcomes
<1>2. ASSUME NEW q \in Row, NEW s \in RowStates, NEW c \in BOOLEAN,
             NEW e \in {"none", "entered", "forward"}
      PROVE  [q EXCEPT !.state = s, !.cont = c, !.stamp = e] \in Row
  BY <1>2 DEF Row
<1>3. WaitingRow \in Row
  BY <1>1, <1>2 DEF WaitingRow, RowStates
<1>4. NewRow(w) \in Row
  <2>. DEFINE c == w.kind # "fresh"
              e == IF w.kind = "fresh" THEN "none"
                   ELSE IF row[w.run].stamp = "none" THEN "none" ELSE "entered"
  <2>1. c \in BOOLEAN /\ e \in {"none", "entered", "forward"}
    OBVIOUS
  <2>2. "queued" \in RowStates
    BY DEF RowStates, ActiveStates
  <2>. HIDE DEF c, e
  <2>3. [NoRow EXCEPT !.state = "queued", !.cont = c, !.stamp = e] \in Row
    BY <1>1, <1>2, <2>1, <2>2
  <2>. QED  BY <2>3, Zenon DEF NewRow, c, e
<1>5. RolledBackRow(w) \in Row
  BY <1>4 DEF RolledBackRow, Row, RowStates, Reasons
<1>. QED  BY <1>1, <1>3, <1>4, <1>5

LEMMA SettledType ==
  ASSUME NEW q \in Row
  PROVE  Settled(q) \in Row
BY DEF Settled, Row, RowStates

-----------------------------------------------------------------------------
(* Labels.                                                                 *)

LEMMA LabelsType ==
  ASSUME NEW ls \in SUBSET Labels, NEW o, NEW why, NEW c, NEW d
  PROVE  /\ Released(ls) \in SUBSET Labels
         /\ CancelLabels(ls, why) \in SUBSET Labels
         /\ Claimed(ls) \in SUBSET Labels
         /\ TerminalLabels(ls, o, why, c, d) \in SUBSET Labels
BY DEF Released, CancelLabels, Claimed, TerminalLabels, Labels

-----------------------------------------------------------------------------
(* Delayed work and claims.                                                *)

\* What a claimant carries while it claims.
LEMMA ClaimWork ==
  ASSUME ControlOK, WorkInv, NEW t \in Claimants,
         pc[t] \in {"fired", "claimq", "check", "label"}
  PROVE  /\ work[t] \in Work /\ work[t].issue \in Issues
         /\ work[t].kind # "fresh" => work[t].run \in Runs
         /\ work[t].kind # "wait"
<1>1. work[t] # NoWork /\ work[t] \in Work
  BY ThreadNames DEF ControlOK, WorkInv
<1>2. CASE \E b \in Batches : t = Batch(b)
  BY <1>1, <1>2 DEF WorkInv, Work
<1>3. CASE \E r \in Runs : t = Timer(r)
  BY <1>1, <1>3 DEF WorkInv, Work
<1>. QED  BY <1>2, <1>3 DEF Claimants

\* A row cancelled on behalf of delayed work keeps the tables typed.
LEMMA CancelOwnerType ==
  ASSUME NEW rows \in [Runs -> Row], NEW ls \in [Issues -> SUBSET Labels],
         NEW r \in Runs, NEW i \in Issues, NEW why \in Reasons
  PROVE  /\ [rows EXCEPT ![r] = CancelledRow(@, why)] \in [Runs -> Row]
         /\ [ls EXCEPT ![i] = CancelLabels(@, why)] \in [Issues -> SUBSET Labels]
<1>1. CancelledRow(rows[r], why) \in Row
  BY CancelReasonType
<1>2. CancelLabels(ls[i], why) \in SUBSET Labels
  BY LabelsType
<1>. QED  BY <1>1, <1>2

\* scheduleRunWork keeps the registry of delayed work and the tables typed.
LEMMA ScheduleType ==
  ASSUME TimerOK, SchedInv,
         NEW rows \in [Runs -> Row], NEW accepted \in [Runs -> Row],
         NEW ls \in [Issues -> SUBSET Labels],
         NEW w \in Work, w.kind # "fresh", w.run \in Runs,
         ScheduleRunWork(rows, accepted, ls, w)
  PROVE  /\ row' \in [Runs -> Row] /\ labels' \in [Issues -> SUBSET Labels]
         /\ sched' \in [Issues -> Work \cup {NoWork}] /\ SchedInv'
<1>0. w.issue \in Issues /\ "daemon_shutdown" \in Reasons
  BY DEF Work, Reasons
<1>1. row' \in [Runs -> Row] /\ labels' \in [Issues -> SUBSET Labels]
  BY <1>0, CancelOwnerType DEF ScheduleRunWork
<1>2. sched' \in [Issues -> Work \cup {NoWork}]
  BY <1>0 DEF ScheduleRunWork, TimerOK
<1>3. SchedInv'
  BY <1>0 DEF ScheduleRunWork, TimerOK, SchedInv
<1>. QED  BY <1>1, <1>2, <1>3

\* schedule() of a wait park likewise.
LEMMA ScheduleWaitType ==
  ASSUME TimerOK, SchedInv, NEW i \in Issues, NEW r \in Runs, ScheduleWait(i, r)
  PROVE  sched' \in [Issues -> Work \cup {NoWork}] /\ SchedInv'
<1>. DEFINE w == [kind |-> "wait", issue |-> i, run |-> r]
<1>1. /\ w \in Work /\ w.kind # "fresh" /\ w.issue = i /\ w.run = r
  BY DEF Work, Kinds
<1>2. sched' = sched \/ sched' = [sched EXCEPT ![i] = w]
  BY DEF ScheduleWait
<1>. HIDE DEF w
<1>. QED  BY <1>1, <1>2 DEF TimerOK, SchedInv

-----------------------------------------------------------------------------
(* Steps that leave a part of the invariant alone.                         *)

\* Nobody newly claims and nothing is handed out: the work at hand stays.
LEMMA WorkFrame ==
  ASSUME WorkInv, work' = work,
         \A t \in Claimants : pc'[t] \in {"fired", "claimq", "check", "label"}
                               => pc[t] \in {"fired", "claimq", "check", "label"}
  PROVE  WorkInv'
BY DEF WorkInv

\* A thread is done with its work.
LEMMA WorkDone ==
  ASSUME ControlOK, WorkInv, NEW t \in Claimants, work' = [work EXCEPT ![t] = NoWork],
         \A u \in Claimants :
           pc'[u] \in {"fired", "claimq", "check", "label"} =>
             u # t /\ pc[u] \in {"fired", "claimq", "check", "label"}
  PROVE  WorkInv'
<1>1. \A u \in Threads : work'[u] = IF u = t THEN NoWork ELSE work[u]
  BY DEF ControlOK
<1>. QED  BY <1>1, ThreadNames, ThreadsDiffer DEF WorkInv

\* No row is added and no label write begins.
LEMMA RoomFrame ==
  ASSUME RoomInv, nrows' = nrows,
         \A t \in Claimants : pc'[t] = "label" => pc[t] = "label"
  PROVE  RoomInv'
BY DEF RoomInv

ClaimPCs == {"fired", "claimq", "check", "label"}

\* One thread moves on and carries the same work: it leaves dispatchMutex alone,
\* queues for it, releases it, or enters its critical section holding it.
Queues == mutex' = mutex \/ \E u \in Threads : mutex' = Append(mutex, u)

LEMMA ControlStep ==
  ASSUME TypeInv, NEW t \in Threads, NEW where \in PCs,
         pc' = [pc EXCEPT ![t] = where],
         work' = work, cand' = cand, local' \in [Runs -> Local],
         t \in Claimants => where # "label" /\ (where \in ClaimPCs => pc[t] \in ClaimPCs),
         nrows' = nrows \/ nrows' < MaxRuns,
         \/ Queues /\ (where \in Inside => pc[t] \in Inside)
         \/ mutex' = mutex /\ Holds(t)
         \/ mutex' = Tail(mutex) /\ Holds(t) /\ where \notin Inside
  PROVE  /\ ControlOK' /\ WorkInv' /\ RoomInv' /\ CriticalSections'
         /\ t # Tick /\ todo' = todo => TodoInv'
<1>. USE DEF TypeInv, TypeOK
<1>0. \A u \in Threads : pc'[u] = IF u = t THEN where ELSE pc[u]
  BY DEF ControlOK
<1>1. ControlOK'
  <2>1. mutex' \in Seq(Threads)
    BY AppendType, TailType DEF ControlOK, Queues
  <2>. QED  BY <2>1 DEF ControlOK
<1>2. WorkInv'
  <2>1. \A u \in Claimants : pc'[u] \in ClaimPCs => pc[u] \in ClaimPCs
    BY <1>0, ThreadNames
  <2>. QED  BY <2>1, WorkFrame DEF ClaimPCs
<1>3. RoomInv'
  <2>1. \A u \in Claimants : pc'[u] = "label" => pc[u] = "label"
    BY <1>0, ThreadNames
  <2>. QED  BY <2>1 DEF RoomInv
<1>4. CriticalSections'
  <2>1. CASE Queues /\ (where \in Inside => pc[t] \in Inside)
    <3>1. \A u \in Threads : pc'[u] \in Inside => pc[u] \in Inside
      BY <1>0, <2>1
    <3>. QED  BY <2>1, <3>1, OutsideStep DEF Queues, ControlOK
  <2>2. CASE mutex' = mutex /\ Holds(t)
    <3>1. \A u \in Threads : pc'[u] \in Inside => pc[u] \in Inside \/ u = t
      BY <1>0
    <3>. QED  BY <2>2, <3>1, HolderStep
  <2>3. CASE mutex' = Tail(mutex) /\ Holds(t) /\ where \notin Inside
    <3>1. \A u \in Threads : pc'[u] \in Inside => pc[u] \in Inside /\ u # t
      BY <1>0, <2>3
    <3>. QED  BY <2>3, <3>1, ReleaseStep
  <2>. QED  BY <2>1, <2>2, <2>3
<1>5. ASSUME t # Tick, todo' = todo PROVE TodoInv'
  BY <1>0, <1>5, ThreadNames DEF TodoInv
<1>. QED  BY <1>1, <1>2, <1>3, <1>4, <1>5

-----------------------------------------------------------------------------
(* The operations of RunDispatch.                                           *)

USE DEF daemonVars, controlVars, registryVars, timerVars, storeVars, githubVars,
        tickVars, Goto, Acquire, Release, NoFault

LEMMA BatchPickType ==
  ASSUME TypeInv, NEW b \in Batches, BatchPick(b)
  PROVE  TypeInv'
<1>. USE DEF TypeInv, TypeOK
<1>0. /\ Batch(b) \in Threads /\ Batch(b) \in Claimants
      /\ "claimq" \in PCs /\ "idle" \in PCs
  BY ThreadNames DEF PCs
<1>1. ControlOK'
  <2>1. mutex' \in Seq(Threads)
    BY <1>0, AppendType DEF ControlOK, BatchPick
  <2>2. pc' \in [Threads -> PCs]
    BY <1>0 DEF ControlOK, BatchPick
  <2>3. work' \in [Threads -> Work \cup {NoWork}]
    BY <1>0 DEF ControlOK, BatchPick, Work, Kinds
  <2>4. cand' \in [Batches -> SUBSET Issues] /\ local' \in [Runs -> Local]
    BY DEF ControlOK, BatchPick
  <2>. QED  BY <2>1, <2>2, <2>3, <2>4 DEF ControlOK
<1>2. DaemonOK' /\ RegistryOK' /\ TimerOK' /\ StoreOK' /\ GithubOK' /\ TickOK'
  BY DEF BatchPick, DaemonOK, RegistryOK, TimerOK, StoreOK, GithubOK, TickOK
<1>3. WorkInv'
  <2>1. \A t \in Threads : t # Batch(b) => work'[t] = work[t] /\ pc'[t] = pc[t]
    BY DEF ControlOK, BatchPick
  <2>2. \/ /\ work'[Batch(b)].kind = "fresh" /\ work'[Batch(b)].run = 0
           /\ work'[Batch(b)] # NoWork
        \/ work' = work /\ pc'[Batch(b)] = "idle"
    BY <1>0 DEF ControlOK, BatchPick, NoWork
  <2>. QED  BY <2>1, <2>2, <1>0, ThreadNames, ThreadsDiffer DEF WorkInv
<1>4. CriticalSections'
  <2>1. \A u \in Threads : pc'[u] \in Inside => pc[u] \in Inside
    BY <1>0 DEF ControlOK, BatchPick, Inside
  <2>. QED  BY <2>1, <1>0, OutsideStep DEF ControlOK, BatchPick
<1>5. SchedInv' /\ ChildInv'
  BY DEF BatchPick, SchedInv, ChildInv
<1>6. TodoInv' /\ RoomInv'
  BY <1>0, ThreadNames, ThreadsDiffer
  DEF ControlOK, BatchPick, TodoInv, RoomInv
<1>. QED  BY <1>1, <1>2, <1>3, <1>4, <1>5, <1>6

-----------------------------------------------------------------------------
(* The claim section.                                                      *)

\* A claimant is done: it lets go of its work, and of dispatchMutex if it held
\* it, and may have started an attempt.
ClaimLeft(t) ==
  /\ (mutex' = Tail(mutex) /\ Holds(t)) \/ mutex' = mutex
  /\ work' = [work EXCEPT ![t] = NoWork]
  /\ pc' \in [Threads -> PCs]
  /\ \A u \in Threads :
       IF u = t THEN pc'[u] \in {"pick", "idle"}
       ELSE pc'[u] = pc[u] \/ (u \notin Claimants /\ u # Tick /\ pc'[u] = "entry")

LEMMA ClaimLeftSimply ==
  ASSUME TypeInv, NEW t \in Claimants, work' = [work EXCEPT ![t] = NoWork],
         (mutex' = Tail(mutex) /\ Holds(t)) \/ mutex' = mutex,
         NEW where \in {"pick", "idle"}, pc' = [pc EXCEPT ![t] = where]
  PROVE  ClaimLeft(t)
<1>1. where \in PCs /\ t \in Threads
  BY ThreadNames DEF PCs
<1>. QED  BY <1>1 DEF ClaimLeft, TypeInv, TypeOK, ControlOK

LEMMA ClaimLeftType ==
  ASSUME TypeInv, NEW t \in Claimants, ClaimLeft(t),
         cand' = cand, local' = local, todo' = todo, nrows' = nrows \/ Holds(t)
  PROVE  /\ ControlOK' /\ WorkInv' /\ TodoInv' /\ ChildInv' /\ RoomInv'
         /\ CriticalSections'
<1>. USE DEF TypeInv, TypeOK, ClaimLeft
<1>0. t \in Threads /\ t # Tick
  BY ThreadNames, ThreadsDiffer
<1>1. ControlOK'
  BY <1>0, TailType DEF ControlOK
<1>3. WorkInv'
  <2>1. \A u \in Claimants :
          pc'[u] \in {"fired", "claimq", "check", "label"} =>
            u # t /\ pc[u] \in {"fired", "claimq", "check", "label"}
    BY ThreadNames
  <2>. QED  BY <2>1, WorkDone
<1>4. TodoInv' /\ ChildInv'
  BY <1>0, ThreadNames DEF TodoInv, ChildInv
<1>2. \A u \in Threads : pc'[u] \in Inside => pc[u] \in Inside /\ u # t
  BY DEF Inside
<1>5. RoomInv'
  <2>1. \A u \in Claimants : pc'[u] = "label" =>
          pc[u] = "label" /\ u # t /\ pc'[u] \in Inside
    BY ThreadNames DEF Inside
  <2>2. CASE nrows' = nrows
    BY <2>1, <2>2, RoomFrame
  <2>3. CASE Holds(t)
    <3>1. \A u \in Claimants : pc'[u] # "label"
      BY <1>2, <2>1, <2>3, ThreadNames DEF CriticalSections, Holds
    <3>. QED  BY <3>1 DEF RoomInv
  <2>. QED  BY <2>2, <2>3
<1>6. CriticalSections'
  <2>1. CASE Holds(t)
    BY <1>0, <1>2, <2>1, ReleaseStep
  <2>2. CASE mutex' = mutex
    BY <1>0, <1>2, <2>2, OutsideStep DEF ControlOK
  <2>. QED  BY <2>1, <2>2
<1>. QED  BY <1>1, <1>3, <1>4, <1>5, <1>6

LEMMA ClaimRefusedType ==
  ASSUME TypeInv, NEW t \in Claimants, Holds(t), pc[t] \in ClaimPCs, ClaimRefused(t)
  PROVE  /\ ClaimLeft(t)
         /\ row' \in [Runs -> Row] /\ labels' \in [Issues -> SUBSET Labels]
         /\ TimerOK' /\ SchedInv'
<1>. DEFINE w == work[t]
<1>0. /\ w \in Work /\ w.issue \in Issues /\ w.kind # "wait"
      /\ w.kind # "fresh" => w.run \in Runs
  BY ClaimWork DEF TypeInv, TypeOK, ClaimPCs
<1>1. ClaimLeft(t)
  BY ClaimLeftSimply DEF ClaimRefused
<1>2. CASE w.kind \notin {"continuation", "advance"}
  <2>1. row' = row /\ labels' = labels
    BY <1>2 DEF ClaimRefused
  <2>2. resuming' \in SUBSET Runs
    BY <1>2 DEF ClaimRefused, TypeInv, TypeOK, TimerOK
  <2>3. \/ sched' = sched
        \/ w.kind = "resume" /\ sched' = [sched EXCEPT ![w.issue] = w]
    BY <1>2 DEF ClaimRefused
  <2>4. sched' \in [Issues -> Work \cup {NoWork}] /\ SchedInv'
    BY <1>0, <2>3 DEF TypeInv, TypeOK, TimerOK, SchedInv
  <2>. QED  BY <1>1, <2>1, <2>2, <2>4 DEF TypeInv, TypeOK, TimerOK, StoreOK, GithubOK
<1>3. CASE w.kind \in {"continuation", "advance"}
  <2>1. ScheduleRunWork(row, row, labels, w) /\ resuming' = resuming
    BY <1>3 DEF ClaimRefused
  <2>2. /\ row' \in [Runs -> Row] /\ labels' \in [Issues -> SUBSET Labels]
        /\ sched' \in [Issues -> Work \cup {NoWork}] /\ SchedInv'
    BY <1>0, <1>3, <2>1, ScheduleType DEF TypeInv, TypeOK, StoreOK, GithubOK
  <2>. QED  BY <1>1, <2>1, <2>2 DEF TypeInv, TypeOK, TimerOK
<1>. QED  BY <1>2, <1>3

LEMMA ClaimShutDownType ==
  ASSUME TypeInv, NEW t \in Claimants, Holds(t), pc[t] \in ClaimPCs, ClaimShutDown(t)
  PROVE  /\ ClaimLeft(t)
         /\ row' \in [Runs -> Row] /\ labels' \in [Issues -> SUBSET Labels]
         /\ TimerOK' /\ SchedInv'
<1>. DEFINE w == work[t]
<1>0. /\ w.issue \in Issues /\ w.kind # "fresh" => w.run \in Runs
      /\ "daemon_shutdown" \in Reasons
  BY ClaimWork DEF TypeInv, TypeOK, ClaimPCs, Reasons
<1>1. ClaimLeft(t) /\ sched' = sched
  BY ClaimLeftSimply DEF ClaimShutDown
<1>2. TimerOK' /\ SchedInv'
  BY <1>1 DEF ClaimShutDown, TypeInv, TypeOK, TimerOK, SchedInv
<1>3. row' \in [Runs -> Row] /\ labels' \in [Issues -> SUBSET Labels]
  BY <1>0, CancelOwnerType
  DEF ClaimShutDown, TypeInv, TypeOK, StoreOK, GithubOK
<1>. QED  BY <1>1, <1>2, <1>3

\* The claim goes on to its next await.
LEMMA ClaimGoesOnType ==
  ASSUME TypeInv, NEW t \in Claimants, Holds(t), mutex' = mutex, work' = work,
         pc[t] \in {"claimq", "check"},
         NEW where \in {"check", "label"}, pc' = [pc EXCEPT ![t] = where],
         where = "label" => nrows < MaxRuns,
         cand' = cand, local' = local, todo' = todo, nrows' = nrows
  PROVE  /\ ControlOK' /\ WorkInv' /\ TodoInv' /\ ChildInv' /\ RoomInv'
         /\ CriticalSections'
<1>. USE DEF TypeInv, TypeOK
<1>0. t \in Threads /\ t # Tick /\ where \in PCs
  BY ThreadNames, ThreadsDiffer DEF PCs
<1>1. \A u \in Threads : u # t => pc'[u] = pc[u]
  BY DEF ControlOK
<1>2. ControlOK'
  BY <1>0 DEF ControlOK
<1>3. WorkInv'
  BY <1>1, ThreadNames, WorkFrame
<1>4. TodoInv' /\ ChildInv'
  BY <1>0, <1>1, ThreadNames DEF TodoInv, ChildInv
<1>5. RoomInv'
  BY <1>0, <1>1, ThreadNames DEF RoomInv, ControlOK
<1>6. CriticalSections'
  BY <1>0, <1>1, HolderStep
<1>. QED  BY <1>2, <1>3, <1>4, <1>5, <1>6

LEMMA ClaimGateType ==
  ASSUME TypeInv, NEW t \in Claimants, ClaimGate(t)
  PROVE  TypeInv'
<1>1. pc[t] \in ClaimPCs /\ pc[t] = "claimq" /\ Holds(t)
  BY DEF ClaimGate, ClaimPCs
<1>2. /\ cand' = cand /\ local' = local /\ todo' = todo /\ nrows' = nrows
      /\ issueOf' = issueOf
      /\ DaemonOK' /\ RegistryOK' /\ TickOK'
      /\ open' = open /\ ready' = ready
  BY DEF ClaimGate, TypeInv, TypeOK, DaemonOK, RegistryOK, TickOK
<1>3. CASE ClaimRefused(t) \/ ClaimShutDown(t)
  <2>1. /\ ClaimLeft(t)
        /\ row' \in [Runs -> Row] /\ labels' \in [Issues -> SUBSET Labels]
        /\ TimerOK' /\ SchedInv'
    BY <1>1, <1>3, ClaimRefusedType, ClaimShutDownType
  <2>2. StoreOK' /\ GithubOK'
    BY <1>2, <2>1 DEF TypeInv, TypeOK, StoreOK, GithubOK
  <2>. QED  BY <1>1, <1>2, <2>1, <2>2, ClaimLeftType DEF TypeInv, TypeOK
<1>4. CASE Goto(t, "check") /\ UNCHANGED <<mutex, work, sched, resuming, row, labels>>
  <2>1. TimerOK' /\ SchedInv' /\ StoreOK' /\ GithubOK'
    BY <1>2, <1>4 DEF TypeInv, TypeOK, TimerOK, SchedInv, StoreOK, GithubOK
  <2>. QED  BY <1>1, <1>2, <1>4, <2>1, ClaimGoesOnType DEF TypeInv, TypeOK
<1>. QED  BY <1>3, <1>4 DEF ClaimGate

LEMMA ClaimCheckType ==
  ASSUME TypeInv, NEW t \in Claimants, ClaimCheck(t)
  PROVE  TypeInv'
<1>1. pc[t] \in ClaimPCs /\ pc[t] = "check" /\ Holds(t)
  BY DEF ClaimCheck, ClaimPCs
<1>2. /\ cand' = cand /\ local' = local /\ todo' = todo /\ nrows' = nrows
      /\ issueOf' = issueOf /\ up' = up /\ stopping' = stopping
      /\ RegistryOK' /\ TickOK' /\ open' = open /\ ready' = ready
  BY DEF ClaimCheck, TypeInv, TypeOK, RegistryOK, TickOK
<1>3. DaemonOK'
  <2>1. Fault \/ NoFault
    BY DEF ClaimCheck
  <2>2. spent' \in 0 .. MaxDisturbances
    BY <2>1, FaultType DEF TypeInv, TypeOK
  <2>. QED  BY <1>2, <2>2 DEF TypeInv, TypeOK, DaemonOK
<1>4. CASE ClaimRefused(t)
  <2>1. /\ ClaimLeft(t)
        /\ row' \in [Runs -> Row] /\ labels' \in [Issues -> SUBSET Labels]
        /\ TimerOK' /\ SchedInv'
    BY <1>1, <1>4, ClaimRefusedType
  <2>2. StoreOK' /\ GithubOK'
    BY <1>2, <2>1 DEF TypeInv, TypeOK, StoreOK, GithubOK
  <2>. QED  BY <1>1, <1>2, <1>3, <2>1, <2>2, ClaimLeftType DEF TypeInv, TypeOK
<1>5. CASE /\ ~Contended(work[t]) /\ Goto(t, "label")
           /\ UNCHANGED <<mutex, work, sched, resuming, row, labels>>
  <2>1. TimerOK' /\ SchedInv' /\ StoreOK' /\ GithubOK'
    BY <1>2, <1>5 DEF TypeInv, TypeOK, TimerOK, SchedInv, StoreOK, GithubOK
  <2>2. nrows < MaxRuns
    BY <1>5, BoundsAssumption
    DEF Contended, StoreFull, TypeInv, TypeOK, StoreOK
  <2>. QED  BY <1>1, <1>2, <1>3, <1>5, <2>1, <2>2, ClaimGoesOnType
            DEF TypeInv, TypeOK
<1>. QED  BY <1>4, <1>5 DEF ClaimCheck

LEMMA ClaimPersistType ==
  ASSUME TypeInv, NEW t \in Claimants, ClaimPersist(t)
  PROVE  TypeInv'
<1>. DEFINE w == work[t]
            new == nrows + 1
<1>. USE DEF TypeInv, TypeOK
<1>0. /\ pc[t] = "label" /\ pc[t] \in ClaimPCs /\ Holds(t)
      /\ cand' = cand /\ local' = local /\ todo' = todo /\ sched' = sched
      /\ DaemonOK' /\ TickOK' /\ open' = open /\ ready' = ready
  BY DEF ClaimPersist, ClaimPCs, DaemonOK, TickOK
<1>1. w.issue \in Issues /\ new \in Runs /\ new \in 0 .. MaxRuns
  BY <1>0, ClaimWork, BoundsAssumption DEF RoomInv, StoreOK, Runs, ClaimPCs
<1>2. ClaimLeft(t)
  <2>1. "pick" \in PCs /\ "idle" \in PCs /\ "entry" \in PCs
        /\ t \in Threads /\ Attempt(new) \in Threads /\ t # Attempt(new)
        /\ Attempt(new) \notin Claimants /\ Attempt(new) # Tick
    BY <1>1, ThreadNames, ThreadsDiffer DEF PCs
  <2>. QED  BY <1>0, <2>1 DEF ClaimLeft, ClaimPersist, ControlOK
<1>3. RegistryOK'
  <2>1. "none" \in Reasons
    BY DEF Reasons
  <2>. QED  BY <1>1, <2>1 DEF ClaimPersist, RegistryOK
<1>4. TimerOK' /\ SchedInv'
  BY <1>0 DEF ClaimPersist, TimerOK, SchedInv
<1>5. StoreOK'
  BY <1>1, NewRowType, BoundsAssumption DEF ClaimPersist, StoreOK
<1>6. GithubOK'
  BY <1>0, <1>1, LabelsType DEF ClaimPersist, GithubOK
<1>. QED  BY <1>0, <1>2, <1>3, <1>4, <1>5, <1>6, ClaimLeftType

LEMMA ClaimRollbackType ==
  ASSUME TypeInv, NEW t \in Claimants, ClaimRollback(t)
  PROVE  TypeInv'
<1>. DEFINE w == work[t]
            new == nrows + 1
<1>. USE DEF TypeInv, TypeOK
<1>0. /\ pc[t] = "label" /\ pc[t] \in ClaimPCs /\ Holds(t)
      /\ cand' = cand /\ local' = local /\ todo' = todo /\ sched' = sched
      /\ RegistryOK' /\ TickOK' /\ open' = open /\ ready' = ready
      /\ up' = up /\ stopping' = stopping
  BY DEF ClaimRollback, ClaimPCs, RegistryOK, TickOK
<1>1. w.issue \in Issues /\ new \in Runs /\ new \in 0 .. MaxRuns
  BY <1>0, ClaimWork, BoundsAssumption DEF RoomInv, StoreOK, Runs, ClaimPCs
<1>2. ClaimLeft(t)
  BY <1>0, ClaimLeftSimply DEF ClaimRollback
<1>3. DaemonOK'
  <2>1. spent' \in 0 .. MaxDisturbances
    BY FaultType DEF ClaimRollback
  <2>. QED  BY <1>0, <2>1 DEF DaemonOK
<1>4. TimerOK' /\ SchedInv'
  BY <1>0 DEF ClaimRollback, TimerOK, SchedInv
<1>5. StoreOK'
  BY <1>1, NewRowType, BoundsAssumption DEF ClaimRollback, StoreOK
<1>6. GithubOK'
  BY <1>0, <1>1 DEF ClaimRollback, GithubOK, Labels
<1>. QED  BY <1>0, <1>2, <1>3, <1>4, <1>5, <1>6, ClaimLeftType

LEMMA ClaimLabelFailsType ==
  ASSUME TypeInv, NEW t \in Claimants, ClaimLabelFails(t)
  PROVE  TypeInv'
<1>. USE DEF TypeInv, TypeOK
<1>0. /\ pc[t] \in ClaimPCs /\ Holds(t) /\ nrows' = nrows
      /\ cand' = cand /\ local' = local /\ todo' = todo /\ sched' = sched
      /\ RegistryOK' /\ TickOK' /\ open' = open /\ ready' = ready
      /\ StoreOK' /\ up' = up /\ stopping' = stopping
  BY DEF ClaimLabelFails, ClaimPCs, RegistryOK, TickOK, StoreOK
<1>1. work[t].issue \in Issues
  BY <1>0, ClaimWork DEF ClaimPCs
<1>2. ClaimLeft(t)
  BY <1>0, ClaimLeftSimply DEF ClaimLabelFails
<1>3. DaemonOK'
  <2>1. spent' \in 0 .. MaxDisturbances
    BY FaultType DEF ClaimLabelFails
  <2>. QED  BY <1>0, <2>1 DEF DaemonOK
<1>4. TimerOK' /\ SchedInv'
  BY <1>0 DEF ClaimLabelFails, TimerOK, SchedInv
<1>5. GithubOK'
  BY <1>0, <1>1 DEF ClaimLabelFails, GithubOK, Labels
<1>. QED  BY <1>0, <1>2, <1>3, <1>4, <1>5, ClaimLeftType

\* Whatever a claimant does in its claim section.
LEMMA ClaimStepType ==
  ASSUME TypeInv, NEW t \in Claimants, ClaimStep(t)
  PROVE  TypeInv'
BY ClaimGateType, ClaimCheckType, ClaimPersistType, ClaimRollbackType,
   ClaimLabelFailsType DEF ClaimStep

-----------------------------------------------------------------------------
(* Delayed work.                                                           *)

LEMMA TimerFireType ==
  ASSUME TypeInv, NEW i \in Issues, TimerFire(i)
  PROVE  TypeInv'
<1>. DEFINE w == sched[i]
            t == Timer(w.run)
<1>. USE DEF TypeInv, TypeOK
<1>0. /\ cand' = cand /\ local' = local /\ todo' = todo /\ nrows' = nrows
      /\ DaemonOK' /\ RegistryOK' /\ StoreOK' /\ GithubOK' /\ TickOK' /\ ChildInv'
  BY DEF TimerFire, DaemonOK, RegistryOK, StoreOK, GithubOK, TickOK, ChildInv
<1>1. /\ w \in Work /\ w # NoWork /\ w.run \in Runs /\ w.kind # "fresh"
  BY DEF TimerFire, TimerOK, SchedInv
<1>2. TimerOK' /\ SchedInv'
  BY DEF TimerFire, TimerOK, SchedInv
<1>3. CASE w.kind = "wait"
  <2>1. /\ work' = work /\ mutex' = Append(mutex, Wait(w.run))
        /\ pc' = [pc EXCEPT ![Wait(w.run)] = "waitq"]
    BY <1>3 DEF TimerFire
  <2>2. /\ Wait(w.run) \in Threads /\ Wait(w.run) \notin Claimants
        /\ Wait(w.run) # Tick /\ "waitq" \in PCs /\ "waitq" \notin Inside
    BY <1>1, ThreadNames, ThreadsDiffer DEF PCs, Inside
  <2>3. ControlOK' /\ WorkInv' /\ RoomInv' /\ CriticalSections' /\ TodoInv'
    BY <1>0, <2>1, <2>2, ControlStep DEF ControlOK, Queues
  <2>. QED  BY <1>0, <1>2, <2>3
<1>4. CASE w.kind # "wait"
  <2>1. /\ work' = [work EXCEPT ![t] = w] /\ mutex' = mutex
        /\ pc' = [pc EXCEPT ![t] = "fired"]
    BY <1>4 DEF TimerFire
  <2>2. t \in Threads /\ t \in Claimants /\ t # Tick /\ "fired" \in PCs
    BY <1>1, ThreadNames, ThreadsDiffer DEF PCs
  <2>3. ControlOK'
    BY <1>0, <1>1, <2>1, <2>2 DEF ControlOK
  <2>4. \A u \in Threads : /\ pc'[u] = IF u = t THEN "fired" ELSE pc[u]
                           /\ work'[u] = IF u = t THEN w ELSE work[u]
    BY <2>1, <2>2 DEF ControlOK
  <2>5. WorkInv'
    <3>1. w.kind \in {"retry", "continuation", "advance", "resume"}
      BY <1>1, <1>4 DEF Work, Kinds
    <3>2. \A b \in Batches : work'[Batch(b)] = work[Batch(b)]
      BY <1>1, <2>4, ThreadNames, ThreadsDiffer
    <3>3. \A r \in Runs : r # w.run => work'[Timer(r)] = work[Timer(r)]
      BY <1>1, <2>4, ThreadNames, ThreadsDiffer
    <3>4. work'[t] = w
      BY <2>2, <2>4
    <3>5. \A u \in Claimants : u # t => work'[u] = work[u] /\ pc'[u] = pc[u]
      BY <2>4, ThreadNames
    <3>. QED  BY <1>1, <3>1, <3>2, <3>3, <3>4, <3>5 DEF WorkInv
  <2>6. RoomInv' /\ TodoInv'
    BY <1>0, <2>2, <2>4, ThreadNames DEF RoomInv, TodoInv
  <2>7. CriticalSections'
    <3>1. \A u \in Threads : pc'[u] \in Inside => pc[u] \in Inside
      BY <2>4 DEF Inside
    <3>. QED  BY <2>1, <2>2, <3>1, OutsideStep DEF ControlOK
  <2>. QED  BY <1>0, <1>2, <2>3, <2>5, <2>6, <2>7
<1>. QED  BY <1>3, <1>4

LEMMA TimerDroppedType ==
  ASSUME TypeInv, NEW r \in Runs, TimerDropped(r)
  PROVE  TypeInv'
<1>. DEFINE t == Timer(r)
            i == work[t].issue
            why == IF open[i] THEN "eligibility_loss" ELSE "closed_issue"
<1>. USE DEF TypeInv, TypeOK
<1>0. /\ t \in Claimants /\ pc[t] \in ClaimPCs /\ nrows' = nrows
      /\ cand' = cand /\ local' = local /\ todo' = todo /\ sched' = sched
      /\ DaemonOK' /\ RegistryOK' /\ TickOK' /\ open' = open /\ ready' = ready
      /\ issueOf' = issueOf
  BY ThreadNames DEF TimerDropped, ClaimPCs, DaemonOK, RegistryOK, TickOK
<1>1. i \in Issues /\ why \in Reasons
  BY <1>0, ClaimWork DEF ClaimPCs, Reasons
<1>2. ClaimLeft(t)
  BY <1>0, ClaimLeftSimply DEF TimerDropped
<1>3. TimerOK' /\ SchedInv'
  BY <1>0 DEF TimerDropped, TimerOK, SchedInv
<1>4. row' \in [Runs -> Row] /\ labels' \in [Issues -> SUBSET Labels]
  <2>1. /\ [row EXCEPT ![r] = CancelledRow(@, why)] \in [Runs -> Row]
        /\ [labels EXCEPT ![i] = CancelLabels(@, why)] \in [Issues -> SUBSET Labels]
    BY <1>1, CancelOwnerType DEF StoreOK, GithubOK
  <2>2. [labels EXCEPT ![i] = Released(@)] \in [Issues -> SUBSET Labels]
    BY <1>1, LabelsType DEF GithubOK
  <2>. QED  BY <2>1, <2>2 DEF TimerDropped, StoreOK, GithubOK
<1>5. StoreOK' /\ GithubOK'
  BY <1>0, <1>4 DEF StoreOK, GithubOK
<1>. QED  BY <1>0, <1>2, <1>3, <1>5, ClaimLeftType

LEMMA TimerUnavailableType ==
  ASSUME TypeInv, NEW r \in Runs, TimerUnavailable(r)
  PROVE  TypeInv'
<1>. USE DEF TypeInv, TypeOK
<1>0. /\ Timer(r) \in Claimants /\ nrows' = nrows
      /\ cand' = cand /\ local' = local /\ todo' = todo /\ sched' = sched
      /\ RegistryOK' /\ StoreOK' /\ GithubOK' /\ TickOK'
      /\ up' = up /\ stopping' = stopping
  BY ThreadNames
  DEF TimerUnavailable, RegistryOK, StoreOK, GithubOK, TickOK
<1>1. ClaimLeft(Timer(r))
  BY <1>0, ClaimLeftSimply DEF TimerUnavailable
<1>2. DaemonOK'
  <2>1. spent' \in 0 .. MaxDisturbances
    BY FaultType DEF TimerUnavailable
  <2>. QED  BY <1>0, <2>1 DEF DaemonOK
<1>3. TimerOK' /\ SchedInv'
  BY <1>0 DEF TimerUnavailable, TimerOK, SchedInv
<1>. QED  BY <1>0, <1>1, <1>2, <1>3, ClaimLeftType

LEMMA TimerAdmittedType ==
  ASSUME TypeInv, NEW r \in Runs, TimerAdmitted(r)
  PROVE  TypeInv'
<1>. DEFINE t == Timer(r)
<1>. USE DEF TypeInv, TypeOK
<1>0. /\ t \in Threads /\ t # Tick /\ "retryq" \in PCs /\ "claimq" \in PCs
      /\ "retryq" \notin Inside /\ "claimq" \notin Inside
  BY ThreadNames, ThreadsDiffer DEF PCs, Inside
<1>1. /\ pc[t] \in ClaimPCs /\ nrows' = nrows /\ work' = work
      /\ cand' = cand /\ local' = local /\ todo' = todo
      /\ mutex' = Append(mutex, t)
      /\ \E where \in {"retryq", "claimq"} : pc' = [pc EXCEPT ![t] = where]
  BY DEF TimerAdmitted, ClaimPCs
<1>2. ControlOK' /\ WorkInv' /\ RoomInv' /\ CriticalSections' /\ TodoInv'
  BY <1>0, <1>1, ControlStep DEF Queues, ControlOK
<1>3. /\ DaemonOK' /\ RegistryOK' /\ TimerOK' /\ StoreOK' /\ GithubOK' /\ TickOK'
      /\ ChildInv' /\ SchedInv'
  BY DEF TimerAdmitted, DaemonOK, RegistryOK, TimerOK, StoreOK, GithubOK, TickOK,
         ChildInv, SchedInv
<1>. QED  BY <1>2, <1>3

-----------------------------------------------------------------------------
(* executeRetry.                                                           *)

\* A timer's retry moves on inside the critical section it holds.
LEMMA RetryGoesOnType ==
  ASSUME TypeInv, NEW r \in Runs, Holds(Timer(r)), mutex' = mutex, work' = work,
         NEW where \in {"retrycheck", "retrylabel"},
         pc' = [pc EXCEPT ![Timer(r)] = where],
         cand' = cand, local' = local, todo' = todo, nrows' = nrows
  PROVE  ControlOK' /\ WorkInv' /\ RoomInv' /\ CriticalSections' /\ TodoInv'
<1>1. /\ Timer(r) \in Threads /\ Timer(r) # Tick /\ where \in PCs
      /\ where # "label" /\ where \notin ClaimPCs
  BY ThreadNames, ThreadsDiffer DEF PCs, ClaimPCs
<1>2. local' \in [Runs -> Local]
  BY DEF TypeInv, TypeOK, ControlOK
<1>. QED  BY <1>1, <1>2, ControlStep

LEMMA RetryGateType ==
  ASSUME TypeInv, NEW r \in Runs, RetryGate(r)
  PROVE  TypeInv'
<1>. USE DEF TypeInv, TypeOK
<1>0. /\ Timer(r) \in Claimants /\ Holds(Timer(r)) /\ nrows' = nrows
      /\ cand' = cand /\ local' = local /\ todo' = todo /\ issueOf' = issueOf
      /\ open' = open /\ ready' = ready /\ DaemonOK' /\ RegistryOK' /\ TimerOK'
      /\ TickOK' /\ SchedInv' /\ ChildInv'
  BY ThreadNames
  DEF RetryGate, DaemonOK, RegistryOK, TimerOK, TickOK, SchedInv, ChildInv
<1>1. row' \in [Runs -> Row] /\ labels' \in [Issues -> SUBSET Labels]
  <2>1. issueOf[r] \in Issues /\ "daemon_shutdown" \in Reasons
    BY DEF StoreOK, Reasons
  <2>. QED  BY <2>1, CancelOwnerType DEF RetryGate, StoreOK, GithubOK
<1>2. StoreOK' /\ GithubOK'
  BY <1>0, <1>1 DEF StoreOK, GithubOK
<1>3. CASE RetryEnds(r)
  <2>1. ClaimLeft(Timer(r))
    BY <1>0, <1>3, ClaimLeftSimply DEF RetryEnds
  <2>. QED  BY <1>0, <1>2, <2>1, ClaimLeftType
<1>4. CASE Goto(Timer(r), "retrycheck") /\ UNCHANGED <<mutex, work>>
  BY <1>0, <1>2, <1>4, RetryGoesOnType
<1>. QED  BY <1>3, <1>4 DEF RetryGate

LEMMA RetryCheckType ==
  ASSUME TypeInv, NEW r \in Runs, RetryCheck(r)
  PROVE  TypeInv'
<1>. DEFINE i == issueOf[r]
            w == [kind |-> "retry", issue |-> i, run |-> r]
<1>. USE DEF TypeInv, TypeOK
<1>0. /\ Timer(r) \in Claimants /\ Holds(Timer(r)) /\ nrows' = nrows
      /\ cand' = cand /\ local' = local /\ todo' = todo /\ issueOf' = issueOf
      /\ open' = open /\ ready' = ready /\ up' = up /\ stopping' = stopping
      /\ resuming' = resuming /\ provider' = provider /\ firings' = firings
      /\ TickOK' /\ ChildInv'
  BY ThreadNames DEF RetryCheck, TickOK, ChildInv
<1>1. /\ i \in Issues /\ "daemon_shutdown" \in Reasons /\ "none" \in Reasons
      /\ w \in Work /\ w.kind # "fresh" /\ w.run \in Runs
  BY DEF StoreOK, Reasons, Work, Kinds
<1>2. DaemonOK'
  <2>1. Fault \/ NoFault
    BY DEF RetryCheck
  <2>2. spent' \in 0 .. MaxDisturbances
    BY <2>1, FaultType
  <2>. QED  BY <1>0, <2>2 DEF DaemonOK
<1>3. CASE RetryEnds(r)
  <2>1. ClaimLeft(Timer(r))
    BY <1>0, <1>3, ClaimLeftSimply DEF RetryEnds
  <2>2. RegistryOK'
    <3>1. UNCHANGED <<inflight, latch, immune>>
      BY <1>3, <1>0, ThreadNames DEF RetryCheck, RetryEnds, ControlOK
    <3>. QED  BY <1>0, <3>1 DEF RegistryOK
  <2>3. /\ row' \in [Runs -> Row] /\ labels' \in [Issues -> SUBSET Labels]
        /\ sched' \in [Issues -> Work \cup {NoWork}] /\ SchedInv'
    <3>1. CASE ScheduleRunWork(row, row, labels, w)
      <4>. HIDE DEF w
      <4>. QED  BY <1>1, <3>1, ScheduleType DEF StoreOK, GithubOK
    <3>2. CASE sched' = sched
               /\ row' = [row EXCEPT ![r] = CancelledRow(@, "daemon_shutdown")]
               /\ labels' = [labels EXCEPT ![i] = CancelLabels(@, "daemon_shutdown")]
      BY <1>1, <3>2, CancelOwnerType DEF StoreOK, GithubOK, TimerOK, SchedInv
    <3>. QED  BY <1>3, <1>0, <3>1, <3>2, ThreadNames
              DEF RetryCheck, RetryEnds, ControlOK
  <2>4. StoreOK' /\ GithubOK' /\ TimerOK'
    BY <1>0, <2>3 DEF StoreOK, GithubOK, TimerOK
  <2>. QED  BY <1>0, <1>2, <2>1, <2>2, <2>3, <2>4, ClaimLeftType
<1>4. CASE /\ inflight' = inflight \cup {r}
           /\ latch' = [latch EXCEPT ![r] = "none"]
           /\ immune' = (IF local[r].fsm THEN immune \cup {r} ELSE immune \ {r})
           /\ Goto(Timer(r), "retrylabel")
           /\ UNCHANGED <<mutex, work, sched, row, labels>>
  <2>1. StoreOK' /\ GithubOK' /\ TimerOK' /\ SchedInv'
    BY <1>0, <1>4 DEF StoreOK, GithubOK, TimerOK, SchedInv
  <2>2. RegistryOK'
    BY <1>0, <1>1, <1>4 DEF RegistryOK
  <2>. QED  BY <1>0, <1>2, <1>4, <2>1, <2>2, RetryGoesOnType
<1>. QED  BY <1>3, <1>4 DEF RetryCheck

LEMMA RetryLabelType ==
  ASSUME TypeInv, NEW r \in Runs, RetryLabel(r)
  PROVE  TypeInv'
<1>. USE DEF TypeInv, TypeOK
<1>0. /\ Timer(r) \in Claimants /\ Holds(Timer(r)) /\ nrows' = nrows
      /\ cand' = cand /\ local' = local /\ todo' = todo
      /\ open' = open /\ ready' = ready /\ up' = up /\ stopping' = stopping
      /\ RegistryOK' /\ TimerOK' /\ StoreOK' /\ TickOK' /\ SchedInv' /\ ChildInv'
  BY ThreadNames
  DEF RetryLabel, RegistryOK, TimerOK, StoreOK, TickOK, SchedInv, ChildInv
<1>1. DaemonOK'
  <2>1. spent' \in 0 .. MaxDisturbances
    BY FaultType DEF RetryLabel
  <2>. QED  BY <1>0, <2>1 DEF DaemonOK
<1>2. GithubOK'
  <2>1. issueOf[r] \in Issues /\ "claimed" \in Labels
    BY DEF StoreOK, Labels
  <2>. QED  BY <1>0, <2>1 DEF RetryLabel, GithubOK
<1>3. ClaimLeft(Timer(r))
  <2>1. "idle" \in PCs /\ "entry" \in PCs
        /\ Timer(r) \in Threads /\ Attempt(r) \in Threads
        /\ Timer(r) # Attempt(r) /\ Attempt(r) \notin Claimants /\ Attempt(r) # Tick
    BY ThreadNames, ThreadsDiffer DEF PCs
  <2>. QED  BY <1>0, <2>1 DEF ClaimLeft, RetryLabel, ControlOK
<1>. QED  BY <1>0, <1>1, <1>2, <1>3, ClaimLeftType

-----------------------------------------------------------------------------
(* Wait parks.                                                             *)

\* What re-evaluating a waiting row leaves typed.
LEMMA WaitDecidedType ==
  ASSUME TypeInv, NEW r \in Runs, WaitDecided(r),
         UNCHANGED <<resuming, open, ready>>
  PROVE  /\ TimerOK' /\ StoreOK' /\ GithubOK' /\ SchedInv'
         /\ nrows' = nrows \/ nrows' < MaxRuns
<1>. DEFINE i == issueOf[r]
            w == [kind |-> "advance", issue |-> i, run |-> r]
<1>. USE DEF TypeInv, TypeOK
<1>0. i \in Issues /\ row[r] \in Row /\ "closed_issue" \in Reasons
  BY DEF StoreOK, Reasons
<1>1. CASE UNCHANGED <<nrows, issueOf, labels, sched>> /\ row' \in [Runs -> Row]
  BY <1>1 DEF TimerOK, StoreOK, GithubOK, SchedInv
<1>2. CASE /\ row' = [row EXCEPT ![r] = [MarkCancelRequested(@, "closed_issue")
                                          EXCEPT !.state = "cancelled"]]
           /\ UNCHANGED <<issueOf, nrows, labels, sched>>
  <2>. DEFINE q == MarkCancelRequested(row[r], "closed_issue")
  <2>1. q \in Row
    BY <1>0, CancelReasonType
  <2>2. [q EXCEPT !.state = "cancelled"] \in Row
    <3>. HIDE DEF q
    <3>. QED  BY <2>1 DEF Row, RowStates
  <2>3. row' \in [Runs -> Row]
    BY <1>2, <2>2 DEF StoreOK
  <2>. QED  BY <1>1, <1>2, <2>3
<1>3. CASE /\ \/ /\ row' = [row EXCEPT ![r].state = "succeeded", ![r].stamp = "none"]
                 /\ labels' = [labels EXCEPT ![i] = Released(@)]
              \/ /\ row' = [row EXCEPT ![r].state = "blocked", ![r].stamp = "none",
                                       ![r].why = "blocked"]
                 /\ labels' = [labels EXCEPT ![i] = Released(@) \cup {"blocked"}]
           /\ UNCHANGED <<issueOf, nrows, sched>>
  <2>1. row' \in [Runs -> Row]
    BY <1>0, <1>3 DEF StoreOK, Row, RowStates, Outcomes
  <2>2. labels' \in [Issues -> SUBSET Labels]
    <3>1. Released(labels[i]) \in SUBSET Labels /\ "blocked" \in Labels
      BY <1>0, LabelsType DEF GithubOK, Labels
    <3>. QED  BY <1>3, <3>1 DEF GithubOK
  <2>. QED  BY <1>3, <2>1, <2>2 DEF TimerOK, StoreOK, GithubOK, SchedInv
<1>4. CASE /\ LET advanced == [row EXCEPT ![r].state = "succeeded",
                                          ![r].stamp = "forward"]
              IN ScheduleRunWork(advanced, advanced, labels, w)
           /\ UNCHANGED <<issueOf, nrows>>
  <2>. DEFINE advanced == [row EXCEPT ![r].state = "succeeded",
                                      ![r].stamp = "forward"]
  <2>1. advanced \in [Runs -> Row]
    BY <1>0 DEF StoreOK, Row, RowStates
  <2>2. w \in Work /\ w.kind # "fresh" /\ w.run \in Runs
    BY <1>0 DEF Work, Kinds
  <2>3. ScheduleRunWork(advanced, advanced, labels, w)
    BY <1>4
  <2>4. /\ row' \in [Runs -> Row] /\ labels' \in [Issues -> SUBSET Labels]
        /\ sched' \in [Issues -> Work \cup {NoWork}] /\ SchedInv'
    <3>. HIDE DEF w, advanced
    <3>. QED  BY <2>1, <2>2, <2>3, ScheduleType DEF GithubOK
  <2>. QED  BY <1>4, <2>4 DEF TimerOK, StoreOK, GithubOK
<1>5. CASE /\ ~StoreFull /\ nrows' = nrows + 1
           /\ issueOf' = [issueOf EXCEPT ![nrows + 1] = i]
           /\ row' = [row EXCEPT ![r].state = "succeeded", ![r].stamp = "forward",
                                 ![nrows + 1] = WaitingRow]
           /\ ScheduleWait(i, nrows + 1)
           /\ UNCHANGED labels
  <2>1. nrows + 1 \in Runs /\ nrows + 1 \in 0 .. MaxRuns /\ nrows + 1 < MaxRuns
    BY <1>5, BoundsAssumption DEF StoreFull, StoreOK, Runs
  <2>2. sched' \in [Issues -> Work \cup {NoWork}] /\ SchedInv'
    BY <1>0, <1>5, <2>1, ScheduleWaitType
  <2>3. row' \in [Runs -> Row]
    <3>1. WaitingRow \in Row
      BY NewRowType, BoundsAssumption
    <3>. QED  BY <1>0, <1>5, <2>1, <3>1 DEF StoreOK, Row, RowStates
  <2>4. StoreOK' /\ TimerOK' /\ GithubOK'
    BY <1>0, <1>5, <2>1, <2>2, <2>3 DEF StoreOK, TimerOK, GithubOK
  <2>. QED  BY <1>5, <2>1, <2>2, <2>4
<1>6. CASE UNCHANGED <<storeVars, labels, sched>>
  BY <1>1, <1>6 DEF StoreOK
<1>. QED  BY <1>2, <1>3, <1>4, <1>5, <1>6 DEF WaitDecided

LEMMA WaitDroppedType ==
  ASSUME StoreOK, NEW r \in Runs, WaitDropped(r), issueOf' = issueOf, nrows' = nrows
  PROVE  StoreOK'
BY DEF WaitDropped, StoreOK, Row, RowStates

LEMMA WaitReadType ==
  ASSUME TypeInv, NEW r \in Runs, WaitRead(r)
  PROVE  TypeInv'
<1>. DEFINE t == Wait(r)
<1>. USE DEF TypeInv, TypeOK
<1>0. /\ t \in Threads /\ t # Tick /\ t \notin Claimants /\ "idle" \in PCs
      /\ "waiteval" \in PCs /\ "idle" \notin Inside
  BY ThreadNames, ThreadsDiffer DEF PCs, Inside
<1>1. /\ Holds(t) /\ nrows' = nrows /\ work' = work
      /\ cand' = cand /\ local' = local /\ todo' = todo
      /\ \/ mutex' = mutex /\ pc' = [pc EXCEPT ![t] = "waiteval"]
         \/ mutex' = Tail(mutex) /\ pc' = [pc EXCEPT ![t] = "idle"]
  BY DEF WaitRead
<1>2. ControlOK' /\ WorkInv' /\ RoomInv' /\ CriticalSections' /\ TodoInv'
  BY <1>0, <1>1, ControlStep DEF ControlOK
<1>3. /\ DaemonOK' /\ RegistryOK' /\ TimerOK' /\ GithubOK' /\ TickOK'
      /\ ChildInv' /\ SchedInv'
  BY DEF WaitRead, DaemonOK, RegistryOK, TimerOK, GithubOK, TickOK, ChildInv, SchedInv
<1>4. StoreOK'
  BY WaitDroppedType DEF WaitRead, StoreOK
<1>. QED  BY <1>2, <1>3, <1>4

LEMMA WaitEvaluateType ==
  ASSUME TypeInv, NEW r \in Runs, WaitEvaluate(r)
  PROVE  TypeInv'
<1>. DEFINE t == Wait(r)
<1>. USE DEF TypeInv, TypeOK
<1>0. /\ t \in Threads /\ t # Tick /\ t \notin Claimants /\ "idle" \in PCs
      /\ "idle" \notin Inside
  BY ThreadNames, ThreadsDiffer DEF PCs, Inside
<1>1. /\ TimerOK' /\ StoreOK' /\ GithubOK' /\ SchedInv'
      /\ nrows' = nrows \/ nrows' < MaxRuns
  BY WaitDecidedType DEF WaitEvaluate
<1>2. /\ Holds(t) /\ work' = work /\ cand' = cand /\ local' = local
      /\ todo' = todo /\ mutex' = Tail(mutex) /\ pc' = [pc EXCEPT ![t] = "idle"]
  BY DEF WaitEvaluate
<1>3. ControlOK' /\ WorkInv' /\ RoomInv' /\ CriticalSections' /\ TodoInv'
  BY <1>0, <1>1, <1>2, ControlStep DEF ControlOK
<1>4. DaemonOK' /\ RegistryOK' /\ TickOK' /\ ChildInv'
  BY DEF WaitEvaluate, DaemonOK, RegistryOK, TickOK, ChildInv
<1>. QED  BY <1>1, <1>3, <1>4

\* Whatever a timer or a fired wait does.
LEMMA TimerStepType ==
  ASSUME TypeInv, NEW r \in Runs, TimerStep(r)
  PROVE  TypeInv'
BY TimerDroppedType, TimerUnavailableType, TimerAdmittedType, RetryGateType,
   RetryCheckType, RetryLabelType, WaitReadType, WaitEvaluateType DEF TimerStep

-----------------------------------------------------------------------------
(* The operations of RunAttempt.                                            *)

HIDE DEF NoFault

\* An attempt moves on; it carries no work.
LEMMA AttemptControl ==
  ASSUME TypeInv, NEW r \in Runs, NEW where \in PCs,
         pc' = [pc EXCEPT ![Attempt(r)] = where],
         work' = work, cand' = cand, todo' = todo, local' \in [Runs -> Local],
         nrows' = nrows \/ nrows' < MaxRuns,
         \/ Queues /\ (where \in Inside => pc[Attempt(r)] \in Inside)
         \/ mutex' = mutex /\ Holds(Attempt(r))
         \/ mutex' = Tail(mutex) /\ Holds(Attempt(r)) /\ where \notin Inside
  PROVE  ControlOK' /\ WorkInv' /\ RoomInv' /\ CriticalSections' /\ TodoInv'
<1>1. /\ Attempt(r) \in Threads /\ Attempt(r) # Tick /\ Attempt(r) \notin Claimants
  BY ThreadNames, ThreadsDiffer
<1>. QED  BY <1>1, ControlStep

\* The locals of the attempt after an update.
LEMMA LocalType ==
  ASSUME TypeInv, NEW r \in Runs, NEW l \in Local, l.next = "park" => l.child \in Runs,
         local' = [local EXCEPT ![r] = l]
  PROVE  local' \in [Runs -> Local] /\ ChildInv'
BY DEF TypeInv, TypeOK, ControlOK, ChildInv

LEMMA NoLocalType == NoLocal \in Local /\ NoLocal.next # "park"
BY DEF NoLocal, Local, Outcomes, Decisions, Reasons

\* A flag of the locals, set to a truth value.
LEMMA FlagType ==
  ASSUME NEW l \in Local, NEW c \in BOOLEAN
  PROVE  /\ [l EXCEPT !.fsm = c] \in Local /\ [l EXCEPT !.ran = c] \in Local
         /\ [l EXCEPT !.fsm = c].next = l.next /\ [l EXCEPT !.ran = c].next = l.next
         /\ [l EXCEPT !.fsm = c].child = l.child /\ [l EXCEPT !.ran = c].child = l.child
BY DEF Local

LEMMA LocalOf ==
  ASSUME TypeInv, NEW r \in Runs
  PROVE  local[r] \in Local /\ (local[r].next = "park" => local[r].child \in Runs)
BY DEF TypeInv, TypeOK, ControlOK, ChildInv

LEMMA RunEntryType ==
  ASSUME TypeInv, NEW r \in Runs, RunEntry(r)
  PROVE  TypeInv'
<1>. USE DEF TypeInv, TypeOK
<1>1. local' \in [Runs -> Local] /\ ChildInv'
  <2>. DEFINE c == r \in immune
              l == [NoLocal EXCEPT !.fsm = c]
  <2>1. c \in BOOLEAN
    OBVIOUS
  <2>2. l \in Local /\ l.next # "park"
    <3>. HIDE DEF c
    <3>. QED  BY <2>1, NoLocalType, FlagType
  <2>3. local' = [local EXCEPT ![r] = l]
    BY DEF RunEntry
  <2>. HIDE DEF l
  <2>. QED  BY <2>2, <2>3, LocalType
<1>2. ControlOK' /\ WorkInv' /\ RoomInv' /\ CriticalSections' /\ TodoInv'
  <2>1. \E where \in {"load", "settle"} : pc' = [pc EXCEPT ![Attempt(r)] = where]
    BY DEF RunEntry
  <2>2. {"load", "settle"} \subseteq PCs /\ {"load", "settle"} \cap Inside = {}
    BY DEF PCs, Inside
  <2>. QED  BY <1>1, <2>1, <2>2, AttemptControl DEF RunEntry, Queues
<1>3. /\ DaemonOK' /\ RegistryOK' /\ TimerOK' /\ GithubOK' /\ TickOK' /\ SchedInv'
  BY DEF RunEntry, DaemonOK, RegistryOK, TimerOK, GithubOK, TickOK, SchedInv
<1>4. StoreOK'
  BY DEF RunEntry, StoreOK, Row, RowStates, ActiveStates
<1>. QED  BY <1>1, <1>2, <1>3, <1>4

LEMMA RunPreparationFailsType ==
  ASSUME TypeInv, NEW r \in Runs, RunPreparationFails(r)
  PROVE  TypeInv'
<1>. USE DEF TypeInv, TypeOK
<1>1. local' \in [Runs -> Local] /\ ChildInv'
  BY DEF RunPreparationFails, ControlOK, ChildInv, Local, Outcomes
<1>2. ControlOK' /\ WorkInv' /\ RoomInv' /\ CriticalSections' /\ TodoInv'
  <2>1. "settle" \in PCs /\ "settle" \notin Inside
    BY DEF PCs, Inside
  <2>. QED  BY <1>1, <2>1, AttemptControl DEF RunPreparationFails, Queues
<1>3. /\ RegistryOK' /\ TimerOK' /\ StoreOK' /\ GithubOK' /\ TickOK' /\ SchedInv'
  BY DEF RunPreparationFails, RegistryOK, TimerOK, StoreOK, GithubOK, TickOK, SchedInv
<1>4. DaemonOK'
  <2>1. spent' \in 0 .. MaxDisturbances
    BY FaultType DEF RunPreparationFails
  <2>. QED  BY <2>1 DEF RunPreparationFails, DaemonOK
<1>. QED  BY <1>1, <1>2, <1>3, <1>4

LEMMA RunLoadType ==
  ASSUME TypeInv, NEW r \in Runs, RunLoad(r)
  PROVE  TypeInv'
<1>. USE DEF TypeInv, TypeOK
<1>1. local' \in [Runs -> Local] /\ ChildInv'
  <2>. DEFINE c == local[r].fsm \/ IsRaw(issueOf[r])
              l == [local[r] EXCEPT !.fsm = c]
  <2>1. c \in BOOLEAN
    OBVIOUS
  <2>2. l \in Local /\ (l.next = "park" => l.child \in Runs)
    <3>. HIDE DEF c
    <3>. QED  BY <2>1, LocalOf, FlagType
  <2>3. local' = [local EXCEPT ![r] = l]
    BY DEF RunLoad
  <2>. HIDE DEF l
  <2>. QED  BY <2>2, <2>3, LocalType
<1>2. ControlOK' /\ WorkInv' /\ RoomInv' /\ CriticalSections' /\ TodoInv'
  <2>1. "setup" \in PCs /\ "setup" \notin Inside
    BY DEF PCs, Inside
  <2>. QED  BY <1>1, <2>1, AttemptControl DEF RunLoad, Queues
<1>3. /\ DaemonOK' /\ RegistryOK' /\ TimerOK' /\ GithubOK' /\ TickOK' /\ SchedInv'
  BY DEF RunLoad, DaemonOK, RegistryOK, TimerOK, GithubOK, TickOK, SchedInv
<1>4. StoreOK'
  BY DEF RunLoad, StoreOK, Row
<1>. QED  BY <1>1, <1>2, <1>3, <1>4

LEMMA RunParksType ==
  ASSUME TypeInv, NEW r \in Runs, RunParks(r)
  PROVE  TypeInv'
<1>. DEFINE i == issueOf[r]
            entered == [row[r] EXCEPT !.stamp = "entered"]
            parked == [entered EXCEPT !.state = "waiting"]
<1>. USE DEF TypeInv, TypeOK
<1>0. i \in Issues /\ entered \in Row /\ parked \in Row /\ "none" \in Reasons
  BY DEF StoreOK, Row, RowStates, Reasons
<1>1. local' \in [Runs -> Local] /\ ChildInv'
  <2>1. CASE local' = local
    BY <2>1 DEF ControlOK, ChildInv
  <2>2. CASE local' = [local EXCEPT ![r].outcome = "failed"]
    BY <2>2 DEF ControlOK, ChildInv, Local, Outcomes
  <2>3. CASE local' = [local EXCEPT ![r] = NoLocal]
    BY <2>3, NoLocalType, LocalType
  <2>. QED  BY <2>1, <2>2, <2>3 DEF RunParks
<1>2. ControlOK' /\ WorkInv' /\ RoomInv' /\ CriticalSections' /\ TodoInv'
  <2>1. \E where \in {"settle", "idle"} : pc' = [pc EXCEPT ![Attempt(r)] = where]
    BY DEF RunParks
  <2>2. {"settle", "idle"} \subseteq PCs /\ {"settle", "idle"} \cap Inside = {}
    BY DEF PCs, Inside
  <2>. QED  BY <1>1, <2>1, <2>2, AttemptControl DEF RunParks, Queues
<1>3. DaemonOK' /\ TickOK'
  BY DEF RunParks, DaemonOK, TickOK
<1>4. RegistryOK'
  BY <1>0 DEF RunParks, RegistryOK, LeaveRegistry
<1>5. StoreOK'
  <2>1. \E q \in {entered, parked, Settled(parked)} : row' = [row EXCEPT ![r] = q]
    BY DEF RunParks
  <2>2. Settled(parked) \in Row
    BY <1>0, SettledType
  <2>. HIDE DEF entered, parked
  <2>3. row' \in [Runs -> Row]
    <3>1. PICK q \in {entered, parked, Settled(parked)} : row' = [row EXCEPT ![r] = q]
      BY <2>1
    <3>2. q \in Row
      BY <1>0, <2>2
    <3>. QED  BY <3>1, <3>2 DEF StoreOK
  <2>. QED  BY <2>3 DEF RunParks, StoreOK
<1>6. GithubOK'
  <2>1. \/ labels' = labels
        \/ labels' = [labels EXCEPT ![i] = IF Preserved(parked)
                        THEN CancelLabels(@, "watchdog") ELSE @]
    BY DEF RunParks
  <2>2. labels' \in [Issues -> SUBSET Labels]
    <3>. HIDE DEF parked
    <3>1. CancelLabels(labels[i], "watchdog") \in SUBSET Labels
      BY <1>0, LabelsType DEF GithubOK
    <3>2. \/ labels' = labels
          \/ labels' = [labels EXCEPT ![i] = CancelLabels(@, "watchdog")]
      BY <1>0, <2>1 DEF GithubOK
    <3>. QED  BY <1>0, <3>1, <3>2 DEF GithubOK
  <2>. QED  BY <2>2 DEF RunParks, GithubOK
<1>7. TimerOK' /\ SchedInv'
  <2>1. CASE sched' = sched
    BY <2>1 DEF RunParks, TimerOK, SchedInv
  <2>2. CASE ScheduleWait(i, r)
    BY <1>0, <2>2, ScheduleWaitType DEF RunParks, TimerOK
  <2>. QED  BY <2>1, <2>2 DEF RunParks
<1>. QED  BY <1>1, <1>2, <1>3, <1>4, <1>5, <1>6, <1>7

LEMMA RunSetupType ==
  ASSUME TypeInv, NEW r \in Runs, RunSetup(r)
  PROVE  TypeInv'
<1>. USE DEF TypeInv, TypeOK
<1>1. local' \in [Runs -> Local] /\ ChildInv'
  BY DEF RunSetup, ControlOK, ChildInv, Local
<1>2. ControlOK' /\ WorkInv' /\ RoomInv' /\ CriticalSections' /\ TodoInv'
  <2>1. "ready" \in PCs /\ "ready" \notin Inside
    BY DEF PCs, Inside
  <2>. QED  BY <1>1, <2>1, AttemptControl DEF RunSetup, Queues
<1>3. DaemonOK' /\ TimerOK' /\ TickOK' /\ SchedInv'
  BY DEF RunSetup, DaemonOK, TimerOK, TickOK, SchedInv
<1>4. RegistryOK'
  BY DEF RunSetup, RegistryOK
<1>5. StoreOK'
  BY DEF RunSetup, StoreOK, Row, RowStates, ActiveStates
<1>6. GithubOK'
  BY DEF RunSetup, GithubOK, StoreOK, Labels
<1>. QED  BY <1>1, <1>2, <1>3, <1>4, <1>5, <1>6

LEMMA RunStartType ==
  ASSUME TypeInv, NEW r \in Runs, RunStart(r)
  PROVE  TypeInv'
<1>. USE DEF TypeInv, TypeOK
<1>1. local' \in [Runs -> Local] /\ ChildInv'
  BY DEF RunStart, ControlOK, ChildInv
<1>2. ControlOK' /\ WorkInv' /\ RoomInv' /\ CriticalSections' /\ TodoInv'
  <2>1. \E where \in {"settle", "running"} : pc' = [pc EXCEPT ![Attempt(r)] = where]
    BY DEF RunStart
  <2>2. {"settle", "running"} \subseteq PCs /\ {"settle", "running"} \cap Inside = {}
    BY DEF PCs, Inside
  <2>. QED  BY <1>1, <2>1, <2>2, AttemptControl DEF RunStart, Queues
<1>3. /\ DaemonOK' /\ TimerOK' /\ StoreOK' /\ GithubOK' /\ TickOK' /\ SchedInv'
      /\ RegistryOK'
  BY DEF RunStart, DaemonOK, TimerOK, StoreOK, GithubOK, TickOK, SchedInv, RegistryOK
<1>. QED  BY <1>1, <1>2, <1>3

LEMMA ProviderExitType ==
  ASSUME TypeInv, NEW r \in Runs, ProviderExit(r)
  PROVE  TypeInv'
<1>. USE DEF TypeInv, TypeOK
<1>1. local' \in [Runs -> Local] /\ ChildInv'
  <2>1. ProviderOutcomes \cup {"failed"} \subseteq Outcomes
    BY BoundsAssumption DEF Outcomes
  <2>2. PICK o \in Outcomes : local' = [local EXCEPT ![r].outcome = o]
    BY <2>1 DEF ProviderExit
  <2>. QED  BY <2>2 DEF ControlOK, ChildInv, Local
<1>2. ControlOK' /\ WorkInv' /\ RoomInv' /\ CriticalSections' /\ TodoInv'
  <2>1. "settle" \in PCs /\ "settle" \notin Inside
    BY DEF PCs, Inside
  <2>. QED  BY <1>1, <2>1, AttemptControl DEF ProviderExit, Queues
<1>3. /\ DaemonOK' /\ TimerOK' /\ StoreOK' /\ GithubOK' /\ TickOK' /\ SchedInv'
      /\ RegistryOK'
  BY DEF ProviderExit, DaemonOK, TimerOK, StoreOK, GithubOK, TickOK, SchedInv,
         RegistryOK
<1>. QED  BY <1>1, <1>2, <1>3

LEMMA RunSettleType ==
  ASSUME TypeInv, NEW r \in Runs, RunSettle(r)
  PROVE  TypeInv'
<1>. USE DEF TypeInv, TypeOK
<1>1. local' \in [Runs -> Local] /\ ChildInv'
  <2>1. CASE local' = [local EXCEPT ![r] = NoLocal]
    BY <2>1, NoLocalType, LocalType
  <2>2. CASE local' = [local EXCEPT ![r].cancel = latch[r]]
    BY <2>2 DEF ControlOK, ChildInv, Local, RegistryOK
  <2>. QED  BY <2>1, <2>2 DEF RunSettle
<1>2. ControlOK' /\ WorkInv' /\ RoomInv' /\ CriticalSections' /\ TodoInv'
  <2>1. \E where \in {"idle", "classify"} : pc' = [pc EXCEPT ![Attempt(r)] = where]
    BY DEF RunSettle
  <2>2. {"idle", "classify"} \subseteq PCs /\ {"idle", "classify"} \cap Inside = {}
    BY DEF PCs, Inside
  <2>. QED  BY <1>1, <2>1, <2>2, AttemptControl DEF RunSettle, Queues
<1>3. DaemonOK' /\ TimerOK' /\ TickOK' /\ SchedInv'
  BY DEF RunSettle, DaemonOK, TimerOK, TickOK, SchedInv
<1>4. RegistryOK'
  BY DEF RunSettle, LeaveRegistry, RegistryOK, Reasons
<1>5. StoreOK'
  <2>1. Settled(row[r]) \in Row
    BY SettledType DEF StoreOK
  <2>. QED  BY <2>1 DEF RunSettle, StoreOK
<1>6. GithubOK'
  <2>1. issueOf[r] \in Issues
        /\ CancelLabels(labels[issueOf[r]], "watchdog") \in SUBSET Labels
    BY LabelsType DEF StoreOK, GithubOK
  <2>. QED  BY <2>1 DEF RunSettle, GithubOK
<1>. QED  BY <1>1, <1>2, <1>3, <1>4, <1>5, <1>6

LEMMA RunTerminalType ==
  ASSUME TypeInv, NEW r \in Runs, RunTerminal(r)
  PROVE  TypeInv'
<1>. USE DEF TypeInv, TypeOK
<1>1. local' \in [Runs -> Local] /\ ChildInv'
  BY DEF RunTerminal, ControlOK, ChildInv
<1>2. ControlOK' /\ WorkInv' /\ RoomInv' /\ CriticalSections' /\ TodoInv'
  <2>1. "labels" \in PCs
    BY DEF PCs
  <2>. QED  BY <1>1, <2>1, AttemptControl DEF RunTerminal
<1>3. /\ DaemonOK' /\ RegistryOK' /\ TimerOK' /\ GithubOK' /\ TickOK' /\ SchedInv'
  BY DEF RunTerminal, DaemonOK, RegistryOK, TimerOK, GithubOK, TickOK, SchedInv
<1>4. StoreOK'
  <2>1. RunState(local[r].outcome) \in RowStates
    BY DEF RunState, RowStates
  <2>. QED  BY <2>1 DEF RunTerminal, StoreOK, Row
<1>. QED  BY <1>1, <1>2, <1>3, <1>4

LEMMA RunLabelsType ==
  ASSUME TypeInv, NEW r \in Runs, RunLabels(r)
  PROVE  TypeInv'
<1>. USE DEF TypeInv, TypeOK
<1>1. local' \in [Runs -> Local] /\ ChildInv'
  BY DEF RunLabels, ControlOK, ChildInv
<1>2. ControlOK' /\ WorkInv' /\ RoomInv' /\ CriticalSections' /\ TodoInv'
  <2>1. "next" \in PCs /\ "labels" \in Inside
    BY DEF PCs, Inside
  <2>. QED  BY <1>1, <2>1, AttemptControl DEF RunLabels, Queues
<1>3. /\ RegistryOK' /\ TimerOK' /\ StoreOK' /\ TickOK' /\ SchedInv'
  BY DEF RunLabels, RegistryOK, TimerOK, StoreOK, TickOK, SchedInv
<1>4. DaemonOK'
  <2>1. spent' \in 0 .. MaxDisturbances
    BY FaultType DEF RunLabels
  <2>. QED  BY <2>1 DEF RunLabels, DaemonOK
<1>5. GithubOK'
  <2>. DEFINE ls == TerminalLabels(labels[issueOf[r]], local[r].outcome,
                      local[r].cancel, FsmContinuing(r),
                      WillRetry(local[r].outcome, row[r]))
  <2>1. issueOf[r] \in Issues /\ labels[issueOf[r]] \in SUBSET Labels
    BY DEF StoreOK, GithubOK
  <2>2. ls \in SUBSET Labels
    BY <2>1, LabelsType
  <2>3. labels' = labels \/ labels' = [labels EXCEPT ![issueOf[r]] = ls]
    BY <2>1 DEF RunLabels, GithubOK
  <2>. HIDE DEF ls
  <2>. QED  BY <2>1, <2>2, <2>3 DEF RunLabels, GithubOK
<1>. QED  BY <1>1, <1>2, <1>3, <1>4, <1>5

LEMMA RunClassifyType ==
  ASSUME TypeInv, NEW r \in Runs, RunClassify(r)
  PROVE  TypeInv'
<1>. DEFINE o == Classified(r)
            i == issueOf[r]
            stampOf(d) == CASE d \in {"advance", "park"} -> "forward"
                            [] d = "terminal" -> "none"
                            [] ~IsRaw(i) /\ o = "success" -> "none"
                            [] OTHER -> row[r].stamp
            Ended(d, e) ==
              LET q == [row[r] EXCEPT !.stamp = stampOf(d), !.why = e] IN
              \/ /\ d # "park"
                 /\ row' = [row EXCEPT ![r] = q]
                 /\ local' = [local EXCEPT ![r].outcome = e, ![r].next = d]
                 /\ UNCHANGED <<issueOf, nrows>>
              \/ /\ d = "park" /\ ~StoreFull
                 /\ nrows' = nrows + 1
                 /\ issueOf' = [issueOf EXCEPT ![nrows + 1] = i]
                 /\ row' = [row EXCEPT ![r] = q, ![nrows + 1] = WaitingRow]
                 /\ local' = [local EXCEPT ![r].outcome = e, ![r].next = d,
                                           ![r].child = nrows + 1]
<1>. USE DEF TypeInv, TypeOK
<1>1. PICK d \in WorkflowDecisions(r, o) : \E e \in Fused(o, d) : Ended(d, e)
  BY DEF RunClassify
<1>9. PICK e \in Fused(o, d) : Ended(d, e)
  BY <1>1
<1>2. o \in Outcomes /\ d \in Decisions /\ e \in Outcomes
  <2>1. o \in Outcomes
    BY DEF Classified, ControlOK, Local, Outcomes
  <2>2. d \in Decisions
    BY BoundsAssumption DEF WorkflowDecisions, Decisions
  <2>. QED  BY <2>1, <2>2 DEF Fused, Outcomes
<1>3. stampOf(d) \in {"none", "entered", "forward"} /\ i \in Issues
  BY DEF StoreOK, Row
<1>4. ~StoreFull => nrows + 1 \in Runs /\ nrows + 1 < MaxRuns
  BY BoundsAssumption DEF StoreFull, StoreOK, Runs
<1>. HIDE DEF o, i, stampOf
<1>5. local' \in [Runs -> Local] /\ ChildInv'
  <2>1. CASE d # "park"
    <3>. DEFINE l == [local[r] EXCEPT !.outcome = e, !.next = d]
    <3>1. l \in Local /\ l.next # "park"
      BY <1>2, <2>1 DEF ControlOK, Local
    <3>2. local' = [local EXCEPT ![r] = l]
      BY <1>9, <2>1 DEF ControlOK
    <3>. HIDE DEF l
    <3>. QED  BY <3>1, <3>2, LocalType
  <2>2. CASE d = "park"
    <3>. DEFINE l == [local[r] EXCEPT !.outcome = e, !.next = d, !.child = nrows + 1]
    <3>0. nrows + 1 \in Runs /\ local[r] \in Local
      BY <1>9, <1>4, <2>2, LocalOf
    <3>1. l \in Local /\ l.child \in Runs
      <4>1. \A c \in Runs : LET k == [local[r] EXCEPT !.outcome = e, !.next = d,
                                                     !.child = c]
                            IN k \in Local /\ k.child = c
        BY <1>2, <3>0 DEF Local
      <4>. QED  BY <3>0, <4>1
    <3>2. local' = [local EXCEPT ![r] = l]
      BY <1>9, <2>2 DEF ControlOK
    <3>. HIDE DEF l
    <3>. QED  BY <3>1, <3>2, LocalType
  <2>. QED  BY <2>1, <2>2
<1>6. ControlOK' /\ WorkInv' /\ RoomInv' /\ CriticalSections' /\ TodoInv'
  <2>1. "termq" \in PCs /\ "termq" \notin Inside
    BY DEF PCs, Inside
  <2>2. nrows' = nrows \/ nrows' < MaxRuns
    BY <1>9, <1>4
  <2>3. Queues
    BY ThreadNames DEF RunClassify, Queues
  <2>. QED  BY <1>5, <2>1, <2>2, <2>3, AttemptControl DEF RunClassify
<1>7. /\ DaemonOK' /\ RegistryOK' /\ TimerOK' /\ GithubOK' /\ TickOK' /\ SchedInv'
  BY DEF RunClassify, DaemonOK, RegistryOK, TimerOK, GithubOK, TickOK, SchedInv
<1>8. StoreOK'
  <2>. DEFINE q == [row[r] EXCEPT !.stamp = stampOf(d), !.why = e]
  <2>1. q \in Row
    BY <1>2, <1>3 DEF StoreOK, Row
  <2>2. WaitingRow \in Row
    BY NewRowType, BoundsAssumption
  <2>. HIDE DEF q
  <2>3. \/ row' = [row EXCEPT ![r] = q] /\ UNCHANGED <<issueOf, nrows>>
        \/ /\ nrows + 1 \in Runs /\ nrows + 1 < MaxRuns
           /\ row' = [row EXCEPT ![r] = q, ![nrows + 1] = WaitingRow]
           /\ issueOf' = [issueOf EXCEPT ![nrows + 1] = i] /\ nrows' = nrows + 1
    BY <1>9, <1>4 DEF q
  <2>. QED  BY <1>3, <2>1, <2>2, <2>3, BoundsAssumption DEF StoreOK
<1>. QED  BY <1>5, <1>6, <1>7, <1>8

LEMMA NextAdvanceType ==
  ASSUME TypeInv, NEW r \in Runs, NextAdvance(r)
  PROVE  /\ StoreOK' /\ nrows' = nrows /\ SchedInv'
         /\ labels' \in [Issues -> SUBSET Labels]
         /\ sched' \in [Issues -> Work \cup {NoWork}]
<1>. DEFINE i == issueOf[r]
            w == [kind |-> "advance", issue |-> i, run |-> r]
            marked == [labels EXCEPT ![i] = @ \cup {RunState(local[r].outcome)}]
<1>. USE DEF TypeInv, TypeOK
<1>1. i \in Issues /\ w \in Work /\ w.kind # "fresh" /\ w.run \in Runs
  BY DEF StoreOK, Work, Kinds
<1>2. CASE ScheduleRunWork(row, row, labels, w) /\ UNCHANGED <<issueOf, nrows>>
  <2>. HIDE DEF w
  <2>. QED  BY <1>1, <1>2, ScheduleType DEF StoreOK, GithubOK
<1>3. CASE /\ labels' \in {labels, marked} /\ UNCHANGED <<storeVars, sched>>
           /\ labels' = marked => RunState(local[r].outcome) \in {"failed", "blocked"}
  <2>1. labels' \in [Issues -> SUBSET Labels]
    BY <1>1, <1>3 DEF GithubOK, Labels
  <2>. QED  BY <1>3, <2>1 DEF StoreOK, SchedInv, TimerOK
<1>4. CASE labels' = labels /\ UNCHANGED <<storeVars, sched>>
  BY <1>4 DEF StoreOK, SchedInv, TimerOK, GithubOK
<1>5. CASE /\ RunState(local[r].outcome) \in {"failed", "blocked"}
           /\ labels' = marked /\ UNCHANGED <<storeVars, sched>>
  BY <1>3, <1>5
<1>. QED  BY <1>2, <1>4, <1>5 DEF NextAdvance

LEMMA NextRetryType ==
  ASSUME TypeInv, NEW r \in Runs, NextRetry(r), WillRetry(local[r].outcome, row[r])
  PROVE  /\ StoreOK' /\ nrows' = nrows /\ SchedInv'
         /\ labels' \in [Issues -> SUBSET Labels]
         /\ sched' \in [Issues -> Work \cup {NoWork}]
<1>. DEFINE w == [kind |-> "retry", issue |-> issueOf[r], run |-> r]
            accepted == [row EXCEPT ![r].retries = @ + 1]
<1>. USE DEF TypeInv, TypeOK
<1>1. w \in Work /\ w.kind # "fresh" /\ w.run \in Runs
  BY DEF StoreOK, Work, Kinds
<1>2. accepted \in [Runs -> Row]
  BY BoundsAssumption DEF WillRetry, StoreOK, Row
<1>3. ScheduleRunWork(row, accepted, labels, w) /\ UNCHANGED <<issueOf, nrows>>
  BY DEF NextRetry
<1>. HIDE DEF w, accepted
<1>. QED  BY <1>1, <1>2, <1>3, ScheduleType DEF StoreOK, GithubOK

LEMMA NextContinuationType ==
  ASSUME TypeInv, NEW r \in Runs, NextContinuation(r)
  PROVE  /\ StoreOK' /\ (nrows' = nrows \/ nrows' < MaxRuns) /\ SchedInv'
         /\ labels' \in [Issues -> SUBSET Labels]
         /\ sched' \in [Issues -> Work \cup {NoWork}]
<1>. DEFINE i == issueOf[r]
            w == [kind |-> "continuation", issue |-> i, run |-> r]
            capped == [NoRow EXCEPT !.state = "failed", !.cont = TRUE, !.why = "failed"]
<1>. USE DEF TypeInv, TypeOK
<1>1. /\ i \in Issues /\ labels[i] \in SUBSET Labels
      /\ w \in Work /\ w.kind # "fresh" /\ w.run \in Runs
  BY DEF StoreOK, GithubOK, Work, Kinds
<1>2. capped \in Row
  BY NewRowType, BoundsAssumption DEF Row, RowStates, Outcomes
<1>3. Released(labels[i]) \in SUBSET Labels
      /\ Released(labels[i]) \cup {"failed"} \in SUBSET Labels
  BY <1>1, LabelsType DEF Labels
<1>4. CASE UNCHANGED <<storeVars, labels, sched>>
  BY <1>4 DEF StoreOK, GithubOK, TimerOK, SchedInv
<1>5. CASE /\ labels' \in {labels, [labels EXCEPT ![i] = Released(@)]}
           /\ UNCHANGED <<storeVars, sched>>
  <2>1. labels' \in [Issues -> SUBSET Labels]
    BY <1>1, <1>3, <1>5 DEF GithubOK
  <2>. QED  BY <1>5, <2>1 DEF StoreOK, TimerOK, SchedInv
<1>6. CASE /\ ~StoreFull /\ nrows' = nrows + 1
           /\ issueOf' = [issueOf EXCEPT ![nrows + 1] = i]
           /\ row' = [row EXCEPT ![nrows + 1] = capped]
           /\ labels' = [labels EXCEPT ![i] = Released(@) \cup {"failed"}]
           /\ UNCHANGED sched
  <2>. HIDE DEF capped
  <2>1. nrows + 1 \in Runs /\ nrows + 1 < MaxRuns
    BY <1>6, BoundsAssumption DEF StoreFull, StoreOK, Runs
  <2>2. StoreOK'
    <3>1. nrows + 1 \in 0 .. MaxRuns
      BY <2>1, BoundsAssumption DEF Runs
    <3>. QED  BY <1>1, <1>2, <1>6, <2>1, <3>1 DEF StoreOK
  <2>3. labels' \in [Issues -> SUBSET Labels]
    BY <1>1, <1>3, <1>6 DEF GithubOK
  <2>. QED  BY <1>6, <2>1, <2>2, <2>3 DEF TimerOK, SchedInv
<1>7. CASE ScheduleRunWork(row, row, labels, w) /\ UNCHANGED <<issueOf, nrows>>
  <2>. HIDE DEF w
  <2>. QED  BY <1>1, <1>7, ScheduleType DEF StoreOK, GithubOK
<1>. QED  BY <1>4, <1>5, <1>6, <1>7 DEF NextContinuation, NothingMore

LEMMA RunNextType ==
  ASSUME TypeInv, NEW r \in Runs, RunNext(r)
  PROVE  TypeInv'
<1>. USE DEF TypeInv, TypeOK
<1>1. local' \in [Runs -> Local] /\ ChildInv'
  <2>. DEFINE c == local[r].fsm
              l == [NoLocal EXCEPT !.fsm = c]
  <2>1. c \in BOOLEAN
    BY DEF ControlOK, Local
  <2>2. l \in Local /\ l.next # "park"
    <3>. HIDE DEF c
    <3>. QED  BY <2>1, NoLocalType, FlagType
  <2>3. local' = [local EXCEPT ![r] = l]
    BY DEF RunNext
  <2>. HIDE DEF l
  <2>. QED  BY <2>2, <2>3, LocalType
<1>2. /\ StoreOK' /\ (nrows' = nrows \/ nrows' < MaxRuns) /\ SchedInv'
      /\ labels' \in [Issues -> SUBSET Labels]
      /\ sched' \in [Issues -> Work \cup {NoWork}]
  <2>1. CASE UNCHANGED <<storeVars, labels, sched>>
    BY <2>1 DEF StoreOK, GithubOK, TimerOK, SchedInv
  <2>2. CASE NextAdvance(r)
    BY <2>2, NextAdvanceType
  <2>3. CASE /\ local[r].next = "park" /\ ScheduleWait(issueOf[r], local[r].child)
             /\ UNCHANGED <<storeVars, labels>>
    <3>1. issueOf[r] \in Issues /\ local[r].child \in Runs
      BY <2>3 DEF StoreOK, ChildInv
    <3>2. sched' \in [Issues -> Work \cup {NoWork}] /\ SchedInv'
      BY <2>3, <3>1, ScheduleWaitType
    <3>. QED  BY <2>3, <3>2 DEF StoreOK, GithubOK
  <2>4. CASE NextRetry(r) /\ WillRetry(local[r].outcome, row[r])
    BY <2>4, NextRetryType
  <2>5. CASE NextContinuation(r)
    BY <2>5, NextContinuationType
  <2>. QED  BY <2>1, <2>2, <2>3, <2>4, <2>5 DEF RunNext, NothingMore
<1>3. ControlOK' /\ WorkInv' /\ RoomInv' /\ CriticalSections' /\ TodoInv'
  <2>1. "idle" \in PCs /\ "idle" \notin Inside /\ "next" \in Inside
    BY DEF PCs, Inside
  <2>2. Holds(Attempt(r))
    BY <2>1, ThreadNames DEF RunNext, CriticalSections
  <2>. QED  BY <1>1, <1>2, <2>1, <2>2, AttemptControl DEF RunNext
<1>4. DaemonOK'
  <2>1. spent' \in 0 .. MaxDisturbances
    <3>1. Fault \/ NoFault
      BY DEF RunNext, NextAdvance, NextContinuation, NextRetry, NothingMore, NoFault
    <3>. QED  BY <3>1, FaultType
  <2>. QED  BY <2>1 DEF RunNext, DaemonOK
<1>5. RegistryOK' /\ TickOK' /\ GithubOK' /\ TimerOK'
  BY <1>2 DEF RunNext, RegistryOK, TickOK, GithubOK, TimerOK
<1>. QED  BY <1>1, <1>2, <1>3, <1>4, <1>5

\* Every step of an attempt preserves the invariant.
LEMMA AttemptStepType ==
  ASSUME TypeInv, NEW r \in Runs, AttemptStep(r)
  PROVE  TypeInv'
BY RunEntryType, RunPreparationFailsType, RunLoadType, RunParksType, RunSetupType,
   RunStartType, ProviderExitType, RunSettleType, RunClassifyType, RunTerminalType,
   RunLabelsType, RunNextType
   DEF AttemptStep




-----------------------------------------------------------------------------
(* The operations of DaemonTick.                                            *)

RunPasses == {"wait", "waiteval", "resume"}
SeenOK == seen \in [Issues -> [open : BOOLEAN, ready : BOOLEAN,
                               labels : SUBSET Labels]]

\* The tick moves on with a list of Runs or of issues, as its pass asks.
LEMMA TickControl ==
  ASSUME TypeInv, NEW where \in PCs, pc' = [pc EXCEPT ![Tick] = where],
         work' = work, cand' = cand, local' = local,
         nrows' = nrows \/ nrows' < MaxRuns,
         todo' \in SUBSET (IF where \in RunPasses THEN Runs ELSE Issues),
         SeenOK',
         \/ mutex' = mutex /\ (where \in Inside => pc[Tick] \in Inside)
         \/ mutex' = Tail(mutex) /\ Holds(Tick) /\ where \notin Inside
  PROVE  /\ ControlOK' /\ WorkInv' /\ RoomInv' /\ CriticalSections' /\ TodoInv'
         /\ ChildInv' /\ TickOK'
<1>. USE DEF TypeInv, TypeOK
<1>1. Tick \in Threads /\ Tick \notin Claimants
  BY ThreadNames, ThreadsDiffer
<1>2. local' \in [Runs -> Local] /\ ChildInv'
  BY DEF ControlOK, ChildInv
<1>3. ControlOK' /\ WorkInv' /\ RoomInv' /\ CriticalSections'
  BY <1>1, <1>2, ControlStep DEF Queues
<1>4. TodoInv'
  BY <1>1 DEF TodoInv, RunPasses, ControlOK
<1>5. TickOK'
  <2>1. todo' \in SUBSET Runs \/ todo' \in SUBSET Issues
    OBVIOUS
  <2>. QED  BY <2>1 DEF TickOK, SeenOK
<1>. QED  BY <1>2, <1>3, <1>4, <1>5

\* What a pass leaves for the next one.
EnteredNext == \E where \in {"resume", "mark", "launch"} :
  /\ pc' = [pc EXCEPT ![Tick] = where]
  /\ todo' \in SUBSET (IF where = "resume" THEN Runs ELSE Issues)
  /\ SeenOK'

LEMMA EnterType ==
  ASSUME TypeInv, NEW m
  PROVE  /\ EnterLaunch(seen) => EnteredNext
         /\ EnterDetect(m, seen) => EnteredNext
         /\ EnterResume(m, seen) => EnteredNext
<1>. USE DEF TypeInv, TypeOK
<1>1. Unseen \in [Issues -> [open : BOOLEAN, ready : BOOLEAN, labels : SUBSET Labels]]
  BY DEF Unseen
<1>2. EnterLaunch(seen) => EnteredNext
  <2>. SUFFICES ASSUME EnterLaunch(seen) PROVE EnteredNext
    OBVIOUS
  <2>1. SeenOK' /\ pc' = [pc EXCEPT ![Tick] = "launch"] /\ todo' \in SUBSET Issues
    BY <1>1 DEF EnterLaunch, SeenOK
  <2>. QED  BY <2>1 DEF EnteredNext
<1>3. EnterDetect(m, seen) => EnteredNext
  <2>. SUFFICES ASSUME EnterDetect(m, seen), ~EnterLaunch(seen) PROVE EnteredNext
    BY <1>2
  <2>1. SeenOK' /\ pc' = [pc EXCEPT ![Tick] = "mark"] /\ todo' \in SUBSET Issues
    BY DEF EnterDetect, SeenOK, TickOK
  <2>. QED  BY <2>1 DEF EnteredNext
<1>4. EnterResume(m, seen) => EnteredNext
  <2>. SUFFICES ASSUME EnterResume(m, seen), ~EnterDetect(m, seen) PROVE EnteredNext
    BY <1>3
  <2>1. Resumable \subseteq Runs
    BY BoundsAssumption DEF Resumable, Rows, Runs, StoreOK
  <2>2. SeenOK' /\ pc' = [pc EXCEPT ![Tick] = "resume"] /\ todo' \in SUBSET Runs
    BY <2>1 DEF EnterResume, SeenOK, TickOK
  <2>. QED  BY <2>2 DEF EnteredNext
<1>. QED  BY <1>2, <1>3, <1>4

\* A pass that is over, with dispatchMutex as it was or released.
LEMMA EnteredType ==
  ASSUME TypeInv, EnteredNext, work' = work, cand' = cand, local' = local,
         nrows' = nrows, mutex' = mutex \/ (mutex' = Tail(mutex) /\ Holds(Tick))
  PROVE  /\ ControlOK' /\ WorkInv' /\ RoomInv' /\ CriticalSections' /\ TodoInv'
         /\ ChildInv' /\ TickOK'
<1>1. PICK where \in {"resume", "mark", "launch"} :
        /\ pc' = [pc EXCEPT ![Tick] = where]
        /\ todo' \in SUBSET (IF where = "resume" THEN Runs ELSE Issues)
        /\ SeenOK'
  BY DEF EnteredNext
<1>2. /\ where \in PCs /\ where \notin Inside
      /\ where \in RunPasses <=> where = "resume"
  BY DEF PCs, Inside, RunPasses
<1>. QED  BY <1>1, <1>2, TickControl

LEMMA TickPollType ==
  ASSUME TypeInv, TickPoll
  PROVE  TypeInv'
<1>. USE DEF TypeInv, TypeOK
<1>1. SeenOK'
  BY DEF TickPoll, SeenOK, GithubOK
<1>2. /\ ControlOK' /\ WorkInv' /\ RoomInv' /\ CriticalSections' /\ TodoInv'
      /\ ChildInv' /\ TickOK'
  <2>1. /\ "reconcile" \in PCs /\ "reconcile" \notin Inside
        /\ "reconcile" \notin RunPasses /\ todo \in SUBSET Issues
    BY DEF PCs, Inside, RunPasses, TickPoll, TodoInv
  <2>. QED  BY <1>1, <2>1, TickControl DEF TickPoll
<1>3. /\ DaemonOK' /\ RegistryOK' /\ TimerOK' /\ StoreOK' /\ GithubOK' /\ SchedInv'
  BY DEF TickPoll, DaemonOK, RegistryOK, TimerOK, StoreOK, GithubOK, SchedInv
<1>. QED  BY <1>2, <1>3

\* requestCancel keeps the registry typed.
LEMMA CancelType ==
  ASSUME RegistryOK, NEW hit, NEW why, \A r \in Runs : why[r] \in Reasons
  PROVE  /\ LatchAfter(hit, why) \in [Runs -> Reasons]
         /\ ProviderAfter(hit) \in [Runs -> {"none", "running", "stopping"}]
BY DEF RegistryOK, LatchAfter, ProviderAfter

LEMMA TickReconcileType ==
  ASSUME TypeInv, TickReconcile
  PROVE  TypeInv'
<1>. DEFINE why == [r \in Runs |-> IF seen[issueOf[r]].open THEN "eligibility_loss"
                                  ELSE "closed_issue"]
<1>. USE DEF TypeInv, TypeOK
<1>1. \A r \in Runs : why[r] \in Reasons
  BY DEF Reasons
<1>2. PICK hit : /\ row' = [r \in Runs |-> IF r \in hit
                                     THEN MarkCancelRequested(row[r], why[r]) ELSE row[r]]
                /\ latch' = LatchAfter(hit, why) /\ provider' = ProviderAfter(hit)
  BY Zenon DEF TickReconcile
<1>. HIDE DEF why
<1>3. row' \in [Runs -> Row]
  <2>1. \A r \in Runs : MarkCancelRequested(row[r], why[r]) \in Row
    BY <1>1, CancelReasonType DEF StoreOK
  <2>. QED  BY <1>2, <2>1 DEF StoreOK
<1>4. RegistryOK'
  <2>1. /\ latch' \in [Runs -> Reasons]
        /\ provider' \in [Runs -> {"none", "running", "stopping"}]
    BY <1>1, <1>2, CancelType
  <2>2. UNCHANGED <<inflight, immune, firings>>
    BY DEF TickReconcile
  <2>. QED  BY <2>1, <2>2 DEF RegistryOK
<1>5. /\ ControlOK' /\ WorkInv' /\ RoomInv' /\ CriticalSections' /\ TodoInv'
      /\ ChildInv' /\ TickOK'
  <2>1. /\ "waits" \in PCs /\ "waits" \notin Inside
        /\ "waits" \notin RunPasses /\ todo \in SUBSET Issues
    BY DEF PCs, Inside, RunPasses, TickReconcile, TodoInv
  <2>2. SeenOK'
    BY DEF TickReconcile, SeenOK, TickOK
  <2>3. /\ pc' = [pc EXCEPT ![Tick] = "waits"] /\ work' = work /\ cand' = cand
        /\ local' = local /\ nrows' = nrows /\ todo' = todo /\ mutex' = mutex
    BY DEF TickReconcile
  <2>. QED  BY <2>1, <2>2, <2>3, TickControl
<1>6. /\ DaemonOK' /\ TimerOK' /\ StoreOK' /\ GithubOK' /\ SchedInv'
  BY <1>3 DEF TickReconcile, DaemonOK, TimerOK, StoreOK, GithubOK, SchedInv
<1>. QED  BY <1>4, <1>5, <1>6

LEMMA TickWaitsType ==
  ASSUME TypeInv, TickWaits
  PROVE  TypeInv'
<1>. USE DEF TypeInv, TypeOK
<1>1. /\ ControlOK' /\ WorkInv' /\ RoomInv' /\ CriticalSections' /\ TodoInv'
      /\ ChildInv' /\ TickOK'
  <2>1. CASE EnteredNext /\ mutex' = mutex
    BY <2>1, EnteredType DEF TickWaits
  <2>2. CASE /\ mutex = <<>> /\ Acquire(Tick) /\ seen' = seen
             /\ todo' = {r \in Rows : row[r].state = "waiting"} /\ Goto(Tick, "wait")
    <3>0. Tick \in Threads /\ Tick \notin Claimants /\ "wait" \in PCs
      BY ThreadNames, ThreadsDiffer DEF PCs
    <3>1. \A u \in Threads : pc'[u] = IF u = Tick THEN "wait" ELSE pc[u]
      BY <2>2 DEF ControlOK
    <3>2. ControlOK' /\ ChildInv'
      BY <2>2, <3>0, AppendType DEF TickWaits, ControlOK, ChildInv
    <3>3. WorkInv'
      <4>1. \A u \in Claimants : pc'[u] \in ClaimPCs => pc[u] \in ClaimPCs
        BY <3>0, <3>1, ThreadNames
      <4>. QED  BY <4>1, WorkFrame DEF ClaimPCs, TickWaits
    <3>4. RoomInv'
      <4>1. \A u \in Claimants : pc'[u] = "label" => pc[u] = "label"
        BY <3>0, <3>1, ThreadNames
      <4>. QED  BY <4>1, RoomFrame DEF TickWaits
    <3>5. CriticalSections'
      BY <2>2, <3>1 DEF CriticalSections, Holds
    <3>6. TodoInv' /\ TickOK'
      <4>1. Rows \subseteq Runs
        BY BoundsAssumption DEF Rows, Runs, StoreOK
      <4>2. todo' \in SUBSET Runs
        BY <2>2, <4>1
      <4>3. pc'[Tick] = "wait"
        BY <3>0, <3>1
      <4>. QED  BY <2>2, <4>2, <4>3 DEF TodoInv, TickOK
    <3>. QED  BY <3>2, <3>3, <3>4, <3>5, <3>6
  <2>. QED  BY <2>1, <2>2, EnterType DEF TickWaits
<1>2. /\ DaemonOK' /\ RegistryOK' /\ TimerOK' /\ StoreOK' /\ GithubOK' /\ SchedInv'
  BY DEF TickWaits, DaemonOK, RegistryOK, TimerOK, StoreOK, GithubOK, SchedInv
<1>. QED  BY <1>1, <1>2

LEMMA TickWaitReadType ==
  ASSUME TypeInv, TickWaitRead
  PROVE  TypeInv'
<1>. USE DEF TypeInv, TypeOK
<1>0. /\ Tick \in Threads /\ Holds(Tick) /\ todo \in SUBSET Runs
      /\ {"wait", "waiteval"} \subseteq PCs \cap Inside \cap RunPasses
  BY ThreadNames DEF CriticalSections, Inside, PCs, RunPasses, TickWaitRead, TodoInv
<1>1. /\ ControlOK' /\ WorkInv' /\ RoomInv' /\ CriticalSections' /\ TodoInv'
      /\ ChildInv' /\ TickOK'
  <2>1. CASE EnteredNext /\ mutex' = Tail(mutex)
    BY <1>0, <2>1, EnteredType DEF TickWaitRead
  <2>2. CASE \E where \in {"wait", "waiteval"} :
               /\ pc' = [pc EXCEPT ![Tick] = where] /\ todo' \in SUBSET Runs
               /\ UNCHANGED <<mutex, seen>>
    <3>1. PICK where \in {"wait", "waiteval"} : pc' = [pc EXCEPT ![Tick] = where]
      BY <2>2
    <3>2. SeenOK' /\ pc[Tick] \in Inside
      BY <1>0, <2>2 DEF SeenOK, TickOK, TickWaitRead
    <3>3. work' = work /\ cand' = cand /\ local' = local /\ nrows' = nrows
      BY DEF TickWaitRead
    <3>. QED  BY <1>0, <2>2, <3>1, <3>2, <3>3, TickControl
  <2>3. CASE /\ pc' = pc /\ UNCHANGED <<mutex, seen>>
             /\ \E r \in todo : todo' = todo \ {r}
    <3>1. pc' = [pc EXCEPT ![Tick] = "wait"]
      BY <1>0, <2>3 DEF TickWaitRead, ControlOK
    <3>. QED  BY <1>0, <2>2, <2>3, <3>1
  <2>. QED  BY <1>0, <2>1, <2>2, <2>3, EnterType DEF TickWaitRead
<1>2. StoreOK'
  <2>1. CASE row' = row
    BY <2>1 DEF TickWaitRead, StoreOK
  <2>2. CASE \E r \in todo : WaitDropped(r)
    BY <1>0, <2>2, WaitDroppedType DEF TickWaitRead
  <2>. QED  BY <2>1, <2>2 DEF TickWaitRead
<1>3. /\ DaemonOK' /\ RegistryOK' /\ TimerOK' /\ GithubOK' /\ SchedInv'
  BY DEF TickWaitRead, DaemonOK, RegistryOK, TimerOK, GithubOK, SchedInv
<1>. QED  BY <1>1, <1>2, <1>3

LEMMA TickWaitEvaluateType ==
  ASSUME TypeInv, TickWaitEvaluate
  PROVE  TypeInv'
<1>. USE DEF TypeInv, TypeOK
<1>0. /\ todo \in SUBSET Runs
      /\ {"wait", "waiteval"} \subseteq PCs \cap Inside \cap RunPasses
  BY ThreadNames DEF Inside, PCs, RunPasses, TickWaitEvaluate, TodoInv
<1>1. PICK r \in Runs : WaitDecided(r) /\ todo' = todo \ {r}
  BY <1>0 DEF TickWaitEvaluate
<1>2. /\ TimerOK' /\ StoreOK' /\ GithubOK' /\ SchedInv'
      /\ nrows' = nrows \/ nrows' < MaxRuns
  BY <1>1, WaitDecidedType DEF TickWaitEvaluate
<1>3. /\ ControlOK' /\ WorkInv' /\ RoomInv' /\ CriticalSections' /\ TodoInv'
      /\ ChildInv' /\ TickOK'
  <2>1. SeenOK' /\ pc[Tick] \in Inside
    BY <1>0 DEF SeenOK, TickOK, TickWaitEvaluate
  <2>2. /\ pc' = [pc EXCEPT ![Tick] = "wait"] /\ work' = work /\ cand' = cand
        /\ local' = local /\ mutex' = mutex
    BY DEF TickWaitEvaluate
  <2>. QED  BY <1>0, <1>1, <1>2, <2>1, <2>2, TickControl
<1>4. DaemonOK' /\ RegistryOK'
  BY DEF TickWaitEvaluate, DaemonOK, RegistryOK
<1>. QED  BY <1>2, <1>3, <1>4

LEMMA TickResumeOneType ==
  ASSUME TypeInv, TickResumeOne
  PROVE  TypeInv'
<1>. USE DEF TypeInv, TypeOK
<1>0. /\ todo \in SUBSET Runs /\ "resume" \in PCs /\ "resume" \notin Inside
      /\ "resume" \in RunPasses
  BY DEF PCs, Inside, RunPasses, TickResumeOne, TodoInv
<1>1. CASE todo = {} /\ EnterDetect(mutex, seen)
           /\ UNCHANGED <<row, labels, sched, resuming, spent>>
  <2>1. /\ ControlOK' /\ WorkInv' /\ RoomInv' /\ CriticalSections' /\ TodoInv'
        /\ ChildInv' /\ TickOK'
    BY <1>1, EnterType, EnteredType DEF TickResumeOne
  <2>2. DaemonOK' /\ RegistryOK' /\ TimerOK' /\ StoreOK' /\ GithubOK' /\ SchedInv'
    BY <1>1 DEF TickResumeOne, DaemonOK, RegistryOK, TimerOK, StoreOK, GithubOK, SchedInv
  <2>. QED  BY <2>1, <2>2
<1>2. ASSUME NEW r \in todo, todo' = todo \ {r}, pc' = pc, SeenOK',
             labels' \in [Issues -> SUBSET Labels], row' \in [Runs -> Row],
             TimerOK', SchedInv', Fault \/ NoFault
      PROVE  TypeInv'
  <2>1. /\ ControlOK' /\ WorkInv' /\ RoomInv' /\ CriticalSections' /\ TodoInv'
        /\ ChildInv' /\ TickOK'
    <3>1. /\ pc' = [pc EXCEPT ![Tick] = "resume"] /\ work' = work /\ cand' = cand
          /\ local' = local /\ mutex' = mutex /\ nrows' = nrows
      BY <1>2 DEF TickResumeOne, ControlOK
    <3>2. todo' \in SUBSET Runs
      BY <1>0, <1>2
    <3>. QED  BY <1>0, <1>2, <3>1, <3>2, TickControl
  <2>2. DaemonOK'
    <3>1. spent' \in 0 .. MaxDisturbances
      BY <1>2, FaultType
    <3>. QED  BY <3>1 DEF TickResumeOne, DaemonOK
  <2>3. RegistryOK' /\ StoreOK' /\ GithubOK'
    BY <1>2 DEF TickResumeOne, RegistryOK, StoreOK, GithubOK
  <2>. QED  BY <1>2, <2>1, <2>2, <2>3
<1>3. ASSUME NEW r \in todo, todo' = todo \ {r}, pc' = pc,
             UNCHANGED <<row, labels, seen, sched, resuming>>, Fault \/ NoFault
      PROVE  TypeInv'
  <2>1. SeenOK' /\ TimerOK' /\ SchedInv'
    BY <1>3 DEF SeenOK, TickOK, TimerOK, SchedInv
  <2>. QED  BY <1>2, <1>3, <2>1 DEF GithubOK, StoreOK
<1>4. ASSUME NEW r \in todo, todo' = todo \ {r}, pc' = pc, NoFault,
             labels' = [labels EXCEPT ![issueOf[r]] = Released(@)],
             seen' = [seen EXCEPT ![issueOf[r]].labels = Released(@)],
             row' = [row EXCEPT ![r].declined = TRUE],
             UNCHANGED <<sched, resuming>>
      PROVE  TypeInv'
  <2>1. issueOf[r] \in Issues /\ r \in Runs
    BY <1>0, <1>4 DEF StoreOK
  <2>2. TimerOK' /\ SchedInv' /\ row' \in [Runs -> Row]
    <3>1. [row[r] EXCEPT !.declined = TRUE] \in Row
      BY <2>1 DEF StoreOK, Row
    <3>2. row' \in [Runs -> Row]
      BY <1>4, <2>1, <3>1 DEF StoreOK
    <3>3. TimerOK' /\ SchedInv'
      BY <1>4 DEF TimerOK, SchedInv
    <3>. QED  BY <3>2, <3>3
  <2>3. \A ls \in SUBSET Labels : Released(ls) \in SUBSET Labels
    BY DEF Released
  <2>4. SeenOK' /\ labels' \in [Issues -> SUBSET Labels]
    BY <1>4, <2>1, <2>3 DEF SeenOK, TickOK, GithubOK
  <2>. QED  BY <1>2, <1>4, <2>2, <2>4
<1>5. ASSUME NEW r \in todo, todo' = todo \ {r}, pc' = pc, NoFault, row' = row,
             labels' = [labels EXCEPT ![issueOf[r]] =
               IF "stale" \in seen[issueOf[r]].labels THEN @ \ {"stale"} ELSE @],
             seen' = [seen EXCEPT ![issueOf[r]].labels = @ \ {"stale"}],
             sched' = IF stopping THEN sched ELSE [sched EXCEPT ![issueOf[r]] =
                        [kind |-> "resume", issue |-> issueOf[r], run |-> r]],
             resuming' = IF stopping THEN resuming ELSE resuming \cup {r}
      PROVE  TypeInv'
  <2>. DEFINE w == [kind |-> "resume", issue |-> issueOf[r], run |-> r]
  <2>1. issueOf[r] \in Issues /\ r \in Runs
    BY <1>0, <1>5 DEF StoreOK
  <2>2. w \in Work /\ w.kind # "fresh" /\ w.issue = issueOf[r] /\ w.run = r
    BY <2>1 DEF Work, Kinds
  <2>3. TimerOK' /\ SchedInv'
    <3>1. sched' = sched \/ sched' = [sched EXCEPT ![issueOf[r]] = w]
      BY <1>5
    <3>2. resuming' \in SUBSET Runs
      BY <1>5, <2>1 DEF TimerOK
    <3>. HIDE DEF w
    <3>. QED  BY <2>1, <2>2, <3>1, <3>2 DEF TimerOK, SchedInv
  <2>4. SeenOK' /\ labels' \in [Issues -> SUBSET Labels]
    BY <1>5, <2>1 DEF SeenOK, TickOK, GithubOK
  <2>5. row' \in [Runs -> Row]
    BY <1>5 DEF StoreOK
  <2>. QED  BY <1>2, <1>5, <2>3, <2>4, <2>5
<1>6. ASSUME NEW r \in todo, todo' = todo \ {r}, pc' = pc,
             \/ UNCHANGED <<row, labels, seen, sched, resuming>> /\ (Fault \/ NoFault)
             \/ /\ NoFault
                /\ labels' = [labels EXCEPT ![issueOf[r]] = Released(@)]
                /\ seen' = [seen EXCEPT ![issueOf[r]].labels = Released(@)]
                /\ row' = [row EXCEPT ![r].declined = TRUE]
                /\ UNCHANGED <<sched, resuming>>
             \/ /\ NoFault /\ row' = row
                /\ labels' = [labels EXCEPT ![issueOf[r]] =
                     IF "stale" \in seen[issueOf[r]].labels THEN @ \ {"stale"} ELSE @]
                /\ seen' = [seen EXCEPT ![issueOf[r]].labels = @ \ {"stale"}]
                /\ sched' = IF stopping THEN sched ELSE [sched EXCEPT ![issueOf[r]] =
                     [kind |-> "resume", issue |-> issueOf[r], run |-> r]]
                /\ resuming' = IF stopping THEN resuming ELSE resuming \cup {r}
      PROVE  TypeInv'
  BY <1>3, <1>4, <1>5, <1>6
<1>. QED  BY <1>1, <1>6, Zenon DEF TickResumeOne, NoFault

LEMMA TickMarkType ==
  ASSUME TypeInv, TickMark
  PROVE  TypeInv'
<1>. USE DEF TypeInv, TypeOK
<1>0. /\ todo \in SUBSET Issues /\ "mark" \in PCs /\ "mark" \notin Inside
      /\ "mark" \notin RunPasses
  BY DEF PCs, Inside, RunPasses, TickMark, TodoInv
<1>1. /\ ControlOK' /\ WorkInv' /\ RoomInv' /\ CriticalSections' /\ TodoInv'
      /\ ChildInv' /\ TickOK' /\ labels' \in [Issues -> SUBSET Labels]
      /\ Fault \/ NoFault
  <2>0. /\ work' = work /\ cand' = cand /\ local' = local /\ mutex' = mutex
        /\ nrows' = nrows
    BY DEF TickMark
  <2>1. CASE EnterLaunch(seen) /\ UNCHANGED <<labels, spent>>
    BY <2>0, <2>1, EnterType, EnteredType DEF GithubOK, NoFault
  <2>2. CASE \E i \in todo :
               /\ todo' = todo \ {i} /\ pc' = pc
               /\ \/ Fault /\ UNCHANGED <<labels, seen>>
                  \/ /\ NoFault
                     /\ labels' = [labels EXCEPT ![i] = @ \cup {"stale"}]
                     /\ seen' = [seen EXCEPT ![i].labels = @ \cup {"stale"}]
    <3>1. PICK i \in Issues :
               /\ todo' = todo \ {i} /\ pc' = pc
               /\ \/ Fault /\ UNCHANGED <<labels, seen>>
                  \/ /\ NoFault
                     /\ labels' = [labels EXCEPT ![i] = @ \cup {"stale"}]
                     /\ seen' = [seen EXCEPT ![i].labels = @ \cup {"stale"}]
      BY <1>0, <2>2
    <3>2. SeenOK' /\ labels' \in [Issues -> SUBSET Labels]
      BY <3>1 DEF SeenOK, TickOK, GithubOK, Labels
    <3>3. pc' = [pc EXCEPT ![Tick] = "mark"]
      BY <3>1, ThreadNames DEF TickMark, ControlOK
    <3>4. todo' \in SUBSET Issues
      BY <1>0, <3>1
    <3>. QED  BY <1>0, <2>0, <3>1, <3>2, <3>3, <3>4, TickControl
  <2>. QED  BY <2>1, <2>2 DEF TickMark
<1>2. DaemonOK'
  <2>1. spent' \in 0 .. MaxDisturbances
    BY <1>1, FaultType
  <2>. QED  BY <2>1 DEF TickMark, DaemonOK
<1>3. RegistryOK' /\ TimerOK' /\ StoreOK' /\ GithubOK' /\ SchedInv'
  BY <1>1 DEF TickMark, RegistryOK, TimerOK, StoreOK, GithubOK, SchedInv
<1>. QED  BY <1>1, <1>2, <1>3

LEMMA TickLaunchType ==
  ASSUME TypeInv, TickLaunch
  PROVE  TypeInv'
<1>. USE DEF TypeInv, TypeOK
<1>0. /\ Tick \in Threads /\ Tick \notin Claimants /\ {"idle", "pick"} \subseteq PCs
      /\ {"idle", "pick"} \cap (Inside \cup ClaimPCs \cup RunPasses) = {}
      /\ todo \in SUBSET Issues
  BY ThreadNames, ThreadsDiffer DEF PCs, Inside, ClaimPCs, RunPasses, TickLaunch, TodoInv
<1>1. /\ \A u \in Threads : pc'[u] = pc[u] \/ pc'[u] \in {"idle", "pick"}
      /\ pc'[Tick] = "idle" /\ pc' \in [Threads -> PCs]
      /\ cand' \in [Batches -> SUBSET Issues]
  <2>1. CASE \E b \in Batches : /\ cand' = [cand EXCEPT ![b] = todo]
                                /\ pc' = [pc EXCEPT ![Batch(b)] = "pick",
                                                    ![Tick] = "idle"]
    BY <1>0, <2>1 DEF ControlOK
  <2>2. CASE pc' = [pc EXCEPT ![Tick] = "idle"] /\ cand' = cand
    BY <1>0, <2>2 DEF ControlOK
  <2>. QED  BY <2>1, <2>2 DEF TickLaunch
<1>2. ControlOK' /\ ChildInv'
  BY <1>1 DEF TickLaunch, ControlOK, ChildInv
<1>3. WorkInv'
  <2>1. \A u \in Claimants : pc'[u] \in ClaimPCs => pc[u] \in ClaimPCs
    BY <1>0, <1>1, ThreadNames
  <2>. QED  BY <2>1, WorkFrame DEF ClaimPCs, TickLaunch
<1>4. RoomInv'
  <2>1. \A u \in Claimants : pc'[u] = "label" => pc[u] = "label"
    BY <1>1, ThreadNames
  <2>. QED  BY <2>1, RoomFrame DEF TickLaunch
<1>5. CriticalSections'
  <2>1. \A u \in Threads : pc'[u] \in Inside => pc[u] \in Inside
    BY <1>0, <1>1
  <2>2. mutex' = mutex
    BY DEF TickLaunch
  <2>. QED  BY <1>0, <2>1, <2>2, OutsideStep DEF ControlOK
<1>6. TodoInv' /\ TickOK'
  BY <1>0, <1>1 DEF TickLaunch, TodoInv, TickOK
<1>7. /\ DaemonOK' /\ RegistryOK' /\ TimerOK' /\ StoreOK' /\ GithubOK' /\ SchedInv'
  BY DEF TickLaunch, DaemonOK, RegistryOK, TimerOK, StoreOK, GithubOK, SchedInv
<1>. QED  BY <1>2, <1>3, <1>4, <1>5, <1>6, <1>7

\* Every step of the tick preserves the invariant.
LEMMA TickStepType ==
  ASSUME TypeInv, TickStep
  PROVE  TypeInv'
BY TickPollType, TickReconcileType, TickWaitsType, TickWaitReadType,
   TickWaitEvaluateType, TickResumeOneType, TickMarkType, TickLaunchType DEF TickStep

-----------------------------------------------------------------------------
(* Routine Firings, the environment, shutdown and restart.                 *)

\* What no thread takes part in leaves the threads alone.
LEMMA ControlFrame ==
  ASSUME TypeInv, UNCHANGED controlVars, todo' = todo, nrows' = nrows
  PROVE  /\ ControlOK' /\ WorkInv' /\ RoomInv' /\ CriticalSections' /\ TodoInv'
         /\ ChildInv'
BY DEF TypeInv, TypeOK, ControlOK, WorkInv, RoomInv, CriticalSections, TodoInv,
       ChildInv, Holds

LEMMA RoutineStepType ==
  ASSUME TypeInv, RoutineStep
  PROVE  TypeInv'
<1>. USE DEF TypeInv, TypeOK
<1>1. PICK f \in Firings : FireRoutine(f) \/ EndRoutine(f)
  BY DEF RoutineStep
<1>2. /\ ControlOK' /\ WorkInv' /\ RoomInv' /\ CriticalSections' /\ TodoInv'
      /\ ChildInv'
  BY <1>1, ControlFrame DEF FireRoutine, EndRoutine
<1>3. RegistryOK'
  BY <1>1 DEF FireRoutine, EndRoutine, RegistryOK
<1>4. DaemonOK' /\ TimerOK' /\ StoreOK' /\ GithubOK' /\ TickOK' /\ SchedInv'
  BY <1>1 DEF FireRoutine, EndRoutine, DaemonOK, TimerOK, StoreOK, GithubOK, TickOK,
              SchedInv
<1>. QED  BY <1>2, <1>3, <1>4

LEMMA EnvironmentType ==
  ASSUME TypeInv, Environment
  PROVE  TypeInv'
<1>. USE DEF TypeInv, TypeOK
<1>1. ASSUME NEW r \in Runs, RunTimeout(r) \/ WatchdogStale(r) \/ OperatorCancel(r)
      PROVE  TypeInv'
  <2>1. /\ ControlOK' /\ WorkInv' /\ RoomInv' /\ CriticalSections' /\ TodoInv'
        /\ ChildInv'
    BY <1>1, ControlFrame DEF RunTimeout, WatchdogStale, OperatorCancel
  <2>2. StoreOK'
    <3>1. MarkCancelRequested(row[r], "operator") \in Row
      BY CancelReasonType DEF StoreOK, Reasons
    <3>2. [row[r] EXCEPT !.state = "stale", !.why = "watchdog"] \in Row
      BY DEF StoreOK, Row, RowStates
    <3>3. row' \in [Runs -> Row]
      <4>1. CASE row' = [row EXCEPT ![r].state = "stale", ![r].why = "watchdog"]
        BY <3>2, <4>1 DEF StoreOK
      <4>2. CASE row' = [row EXCEPT ![r] = MarkCancelRequested(@, "operator")]
        BY <3>1, <4>2 DEF StoreOK
      <4>. QED  BY <1>1, <4>1, <4>2 DEF RunTimeout, WatchdogStale, OperatorCancel
    <3>. QED  BY <1>1, <3>3 DEF RunTimeout, WatchdogStale, OperatorCancel, StoreOK
  <2>3. RegistryOK'
    <3>1. \A w \in {"watchdog", "operator"} :
            \A s \in Runs : [t \in Runs |-> w][s] \in Reasons
      BY DEF Reasons
    <3>2. PICK w \in {"watchdog", "operator"}, hit \in {{r}, {r} \cap inflight} :
            latch' = LatchAfter(hit, [s \in Runs |-> w]) /\ provider' = ProviderAfter(hit)
      BY <1>1 DEF RunTimeout, WatchdogStale, OperatorCancel
    <3>3. latch' \in [Runs -> Reasons]
          /\ provider' \in [Runs -> {"none", "running", "stopping"}]
      BY <3>1, <3>2, CancelType
    <3>. QED  BY <1>1, <3>3 DEF RunTimeout, WatchdogStale, OperatorCancel, RegistryOK
  <2>4. DaemonOK'
    <3>1. spent' \in 0 .. MaxDisturbances
      BY <1>1, FaultType DEF RunTimeout, WatchdogStale, OperatorCancel
    <3>. QED  BY <1>1, <3>1 DEF RunTimeout, WatchdogStale, OperatorCancel, DaemonOK
  <2>5. TimerOK' /\ GithubOK' /\ TickOK' /\ SchedInv'
    BY <1>1 DEF RunTimeout, WatchdogStale, OperatorCancel, TimerOK, GithubOK, TickOK,
                SchedInv
  <2>. QED  BY <2>1, <2>2, <2>3, <2>4, <2>5
<1>2. ASSUME NEW i \in Issues, TrackerEdit(i)
      PROVE  TypeInv'
  <2>1. /\ ControlOK' /\ WorkInv' /\ RoomInv' /\ CriticalSections' /\ TodoInv'
        /\ ChildInv'
    BY <1>2, ControlFrame DEF TrackerEdit
  <2>2. DaemonOK'
    <3>1. spent' \in 0 .. MaxDisturbances
      BY <1>2, FaultType DEF TrackerEdit
    <3>. QED  BY <1>2, <3>1 DEF TrackerEdit, DaemonOK
  <2>3. GithubOK'
    BY <1>2 DEF TrackerEdit, GithubOK
  <2>4. RegistryOK' /\ TimerOK' /\ StoreOK' /\ TickOK' /\ SchedInv'
    BY <1>2 DEF TrackerEdit, RegistryOK, TimerOK, StoreOK, TickOK, SchedInv
  <2>. QED  BY <2>1, <2>2, <2>3, <2>4
<1>. QED  BY <1>1, <1>2 DEF Environment

LEMMA StopBeginType ==
  ASSUME TypeInv, StopBegin
  PROVE  TypeInv'
<1>. USE DEF TypeInv, TypeOK
<1>1. /\ ControlOK' /\ WorkInv' /\ RoomInv' /\ CriticalSections' /\ TodoInv'
      /\ ChildInv'
  BY ControlFrame DEF StopBegin
<1>2. DaemonOK'
  <2>1. spent' \in 0 .. MaxDisturbances
    BY FaultType DEF StopBegin
  <2>. QED  BY <2>1 DEF StopBegin, DaemonOK
<1>3. RegistryOK'
  <2>1. latch' \in [Runs -> Reasons]
    BY DEF StopBegin, RegistryOK, Reasons
  <2>2. provider' \in [Runs -> {"none", "running", "stopping"}]
    BY DEF StopBegin, RegistryOK, ProviderAfter
  <2>. QED  BY <2>1, <2>2 DEF StopBegin, RegistryOK
<1>4. StoreOK'
  <2>1. \A r \in Runs : /\ MarkCancelRequested(row[r], "daemon_shutdown") \in Row
                        /\ CancelledRow(row[r], "daemon_shutdown") \in Row
    BY CancelReasonType DEF StoreOK, Reasons
  <2>2. row' \in [Runs -> Row]
    BY <2>1 DEF StopBegin, StoreOK
  <2>. QED  BY <2>2 DEF StopBegin, StoreOK
<1>5. GithubOK'
  <2>1. \A i \in Issues : CancelLabels(labels[i], "daemon_shutdown") \in SUBSET Labels
    BY LabelsType DEF GithubOK
  <2>2. labels' \in [Issues -> SUBSET Labels]
    BY <2>1 DEF StopBegin, GithubOK
  <2>. QED  BY <2>2 DEF StopBegin, GithubOK
<1>6. TimerOK' /\ SchedInv' /\ TickOK'
  BY DEF StopBegin, TimerOK, SchedInv, TickOK
<1>. QED  BY <1>1, <1>2, <1>3, <1>4, <1>5, <1>6

LEMMA StopDoneType ==
  ASSUME TypeInv, StopDone
  PROVE  TypeInv'
<1>. USE DEF TypeInv, TypeOK
<1>1. /\ ControlOK' /\ WorkInv' /\ RoomInv' /\ CriticalSections' /\ TodoInv'
      /\ ChildInv'
  BY ControlFrame DEF StopDone
<1>2. /\ DaemonOK' /\ RegistryOK' /\ TimerOK' /\ StoreOK' /\ GithubOK' /\ TickOK'
      /\ SchedInv'
  BY DEF StopDone, DaemonOK, RegistryOK, TimerOK, StoreOK, GithubOK, TickOK, SchedInv
<1>. QED  BY <1>1, <1>2

\* A process starts with empty registries, whatever the store holds.
LEMMA FreshType ==
  ASSUME Fresh
  PROVE  /\ ControlOK' /\ WorkInv' /\ RoomInv' /\ CriticalSections' /\ TodoInv'
         /\ ChildInv' /\ RegistryOK' /\ TimerOK' /\ SchedInv' /\ TickOK'
<1>. USE DEF Fresh
<1>1. ControlOK' /\ ChildInv'
  <2>1. NoLocal \in Local /\ NoLocal.next # "park"
    BY DEF NoLocal, Local, Outcomes, Decisions, Reasons
  <2>2. "idle" \in PCs
    BY DEF PCs
  <2>. QED  BY <2>1, <2>2 DEF ControlOK, ChildInv
<1>2. \A t \in Threads : pc'[t] = "idle" /\ work'[t] = NoWork
  OBVIOUS
<1>3. WorkInv' /\ RoomInv' /\ CriticalSections' /\ TodoInv'
  BY <1>2, ThreadNames DEF WorkInv, RoomInv, CriticalSections, Inside, TodoInv
<1>4. RegistryOK' /\ TimerOK' /\ SchedInv'
  BY DEF RegistryOK, Reasons, TimerOK, SchedInv
<1>5. TickOK'
  BY DEF TickOK, Unseen
<1>. QED  BY <1>1, <1>3, <1>4, <1>5

LEMMA CrashType ==
  ASSUME TypeInv, Crash
  PROVE  TypeInv'
<1>. USE DEF TypeInv, TypeOK
<1>1. DaemonOK'
  <2>1. spent' \in 0 .. MaxDisturbances
    BY FaultType DEF Crash
  <2>. QED  BY <2>1 DEF Crash, DaemonOK
<1>2. StoreOK' /\ GithubOK'
  BY DEF Crash, StoreOK, GithubOK
<1>. QED  BY <1>1, <1>2, FreshType DEF Crash

LEMMA RestartType ==
  ASSUME TypeInv, Restart
  PROVE  TypeInv'
<1>. USE DEF TypeInv, TypeOK
<1>1. StoreOK'
  <2>1. \A r \in Runs : [row[r] EXCEPT !.state = "stale", !.why = "failed"] \in Row
    BY DEF StoreOK, Row, RowStates, Outcomes
  <2>2. row' \in [Runs -> Row]
    BY <2>1 DEF Restart, StoreOK
  <2>. QED  BY <2>2 DEF Restart, StoreOK
<1>2. DaemonOK' /\ GithubOK'
  BY DEF Restart, DaemonOK, GithubOK
<1>. QED  BY <1>1, <1>2, FreshType DEF Restart

-----------------------------------------------------------------------------
(* The induction.                                                          *)

HIDE DEF Goto, Acquire, Release

LEMMA InitType == Init => TypeInv
<1>. SUFFICES ASSUME Init PROVE TypeInv
  OBVIOUS
<1>. USE DEF Init
<1>1. DaemonOK
  <2>1. spent \in 0 .. MaxDisturbances
    BY BoundsAssumption
  <2>. QED  BY <2>1 DEF DaemonOK
<1>2. ControlOK /\ ChildInv
  <2>1. NoLocal \in Local /\ NoLocal.next # "park" /\ "idle" \in PCs
    BY NoLocalType DEF PCs
  <2>. QED  BY <2>1 DEF ControlOK, ChildInv
<1>3. RegistryOK /\ TimerOK /\ SchedInv /\ GithubOK
  BY DEF RegistryOK, Reasons, TimerOK, SchedInv, GithubOK
<1>4. StoreOK
  <2>1. NoRow \in Row /\ (CHOOSE i \in Issues : TRUE) \in Issues
    BY NewRowType, BoundsAssumption, SetsAssumption
  <2>. QED  BY <2>1, BoundsAssumption DEF StoreOK
<1>5. TickOK
  BY DEF TickOK, Unseen
<1>6. \A t \in Threads : pc[t] = "idle" /\ work[t] = NoWork
  OBVIOUS
<1>7. WorkInv /\ RoomInv /\ CriticalSections /\ TodoInv
  BY <1>6, ThreadNames DEF WorkInv, RoomInv, CriticalSections, Inside, TodoInv
<1>. QED  BY <1>1, <1>2, <1>3, <1>4, <1>5, <1>7 DEF TypeInv, TypeOK

LEMMA StutterType ==
  ASSUME TypeInv, UNCHANGED vars
  PROVE  TypeInv'
<1>. USE DEF TypeInv, TypeOK, vars
<1>1. /\ ControlOK' /\ WorkInv' /\ RoomInv' /\ CriticalSections' /\ TodoInv'
      /\ ChildInv'
  BY ControlFrame
<1>2. /\ DaemonOK' /\ RegistryOK' /\ TimerOK' /\ StoreOK' /\ GithubOK' /\ TickOK'
      /\ SchedInv'
  BY DEF DaemonOK, RegistryOK, TimerOK, StoreOK, GithubOK, TickOK, SchedInv
<1>. QED  BY <1>1, <1>2

LEMMA NextType == TypeInv /\ [Next]_vars => TypeInv'
<1>. SUFFICES ASSUME TypeInv, [Next]_vars PROVE TypeInv'
  OBVIOUS
<1>1. CASE UNCHANGED vars
  BY <1>1, StutterType
<1>2. CASE DaemonStep
  <2>1. CASE \E b \in Batches : BatchPick(b)
    BY <2>1, BatchPickType
  <2>2. CASE \E t \in Claimants : ClaimStep(t)
    BY <2>2, ClaimStepType
  <2>3. CASE \E i \in Issues : TimerFire(i)
    BY <2>3, TimerFireType
  <2>4. CASE \E r \in Runs : TimerStep(r) \/ AttemptStep(r)
    BY <2>4, TimerStepType, AttemptStepType
  <2>5. CASE TickStep
    BY <2>5, TickStepType
  <2>6. CASE RoutineStep
    BY <2>6, RoutineStepType
  <2>. QED  BY <1>2, <2>1, <2>2, <2>3, <2>4, <2>5, <2>6 DEF DaemonStep
<1>3. CASE Environment
  BY <1>3, EnvironmentType
<1>4. CASE StopBegin \/ StopDone
  BY <1>4, StopBeginType, StopDoneType
<1>5. CASE Crash \/ Restart
  BY <1>5, CrashType, RestartType
<1>. QED  BY <1>1, <1>2, <1>3, <1>4, <1>5 DEF Next

\* The inductive invariant: types, what a claim has at hand, where the store
\* has room, and who is inside dispatchMutex.
THEOREM TypeInvariance == Spec => []TypeInv
BY InitType, NextType, PTL DEF Spec

\* Every variable keeps its type, and a row's retries the retry budget.
THEOREM TypeCorrect == Spec => []TypeOK
<1>1. TypeInv => TypeOK
  BY DEF TypeInv
<1>. QED  BY <1>1, TypeInvariance, PTL

\* Whatever interleaves, only the holder of dispatchMutex is between the checks
\* of a claim and its reservation, between a Run's terminal write and
\* scheduleNext, or re-evaluating wait parks (AsyncMutex and its callers).
THEOREM MutualExclusion == Spec => []CriticalSections
<1>1. TypeInv => CriticalSections
  BY DEF TypeInv
<1>. QED  BY <1>1, TypeInvariance, PTL

=============================================================================
