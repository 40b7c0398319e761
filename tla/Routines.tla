------------------------------- MODULE Routines -------------------------------
(***************************************************************************)
(* Routine scheduling and firing (routines/dispatcher.ts and the routine   *)
(* half of run-store.ts): one Routine declared for several Projects, whose *)
(* shared clock events fan out to one firing per Project and end in one    *)
(* summary.                                                                *)
(*                                                                         *)
(* dispatchDueRoutines has no await before its firings are started, so a   *)
(* dispatch is one step; it is written as operators on the record s of the *)
(* tables it writes, in the order the code writes them.  Firings, the      *)
(* summary's delivery, the operator, reloads, stops and crashes interleave *)
(* with it.  A firing is live or over here: RoutineFiring opens it up.     *)
(***************************************************************************)
EXTENDS Integers, FiniteSets, SequencesExt

CONSTANTS
    Targets,      \* the Projects the Routine is declared for
    Policies,     \* pairs: catch_up is "skip", allow_overlap
    Schedules,    \* what `schedule` may say: 0 is the cron, n the one-shot at n
    Period,       \* time between two events of the cron
    Horizon,      \* ONE_SHOT_DEFERRAL_HORIZON_MS
    MaxNow,       \* bound: the clock
    MaxFirings,   \* bound: firings claimed in a behaviour
    Edited,       \* the Projects whose declaration may be edited
    MaxFaults     \* bound: edits, crashes and failed deliveries in a behaviour

ASSUME RoutineBounds ==
    /\ {Period, Horizon, MaxNow, MaxFirings} \subseteq Nat \ {0}
    /\ MaxFaults \in Nat /\ IsFiniteSet(Targets) /\ Edited \subseteq Targets
    /\ Policies \subseteq BOOLEAN \X BOOLEAN
    /\ Schedules \subseteq 0 .. MaxNow /\ Schedules # {}

VARIABLES
    now,
    up,              \* the daemon runs
    fresh,           \* recomputeRoutineSchedulesFromNow: no dispatch yet
    mode, at,        \* the declaration, per Project, and its schedule
    catchUpSkip, allowOverlap,
    rt, fan, firing, \* tables routines, routine_fanouts (+ targets), routine_firings
    batch,           \* the firings the running tick awaits
    thrown,          \* a dispatch ended in RoutineFanoutInvariantError
    faults

tableVars == <<rt, fan, firing>>
declVars == <<mode, at, catchUpSkip, allowOverlap>>
routineVars == <<now, up, fresh, declVars, tableVars, batch,
                 thrown, faults>>

Ids == 1 .. MaxFirings
NoProject == "none"
Events == 1 .. (MaxNow + Period + Horizon)
Unclaimed == {"pending", "held"}
Reported == {"firing", "skipped", "missed"}
Modes == {"on", "off", "gone", "projectOff"}

RoutineRow == [state : {"active", "operator", "removed", "inactive", "expired"},
               next : Events \cup {0}, at : Schedules, fired : BOOLEAN,
               counted : SUBSET Events]
FanoutRow == [note : {"none", "pending", "sending", "sent"},
              leg : [Targets -> {"none"} \cup Unclaimed \cup Reported],
              deferred : SUBSET Targets]
FiringRow == [p : Targets \cup {NoProject}, at : Events \cup {0},
              state : {"none", "active", "over"}]

RoutineTypeOK ==
    /\ now \in 0 .. MaxNow /\ up \in BOOLEAN
    /\ {fresh, catchUpSkip, allowOverlap, thrown} \subseteq BOOLEAN
    /\ mode \in [Targets -> Modes] /\ at \in Schedules
    /\ rt \in [Targets -> RoutineRow] /\ fan \in [Events -> FanoutRow]
    /\ firing \in [Ids -> FiringRow]
    /\ \A p \in Targets : rt[p].state = "active" => rt[p].next # 0
    /\ batch \subseteq Ids
    /\ faults \in 0 .. MaxFaults

NoFiring == [p |-> NoProject, at |-> 0, state |-> "none"]
NewFiring(p, e) == [p |-> p, at |-> e, state |-> "active"]

-----------------------------------------------------------------------------
(* Clocks *)

Cron(schedule) == schedule = 0

nextRecurringFireAt(after) == ((after \div Period) + 1) * Period

FirstFireAt(schedule) == IF Cron(schedule) THEN nextRecurringFireAt(now) ELSE schedule

(* evaluateRoutineSchedule says fire_now; a cron row's clock is never null. *)
Due(row) ==
    /\ row.state = "active"
    /\ IF Cron(row.at) THEN row.next <= now ELSE ~row.fired /\ row.at <= now

deferralDeadline(row, e) ==
    IF Cron(row.at) THEN nextRecurringFireAt(e) ELSE e + Horizon

(* A missed event hands the clock to its successor, which nothing has tried *)
(* yet, unless the backlog is older than a whole period.                    *)
missedClockAdvance(e) ==
    LET successor == nextRecurringFireAt(e)
    IN  IF now < nextRecurringFireAt(successor) THEN successor
        ELSE nextRecurringFireAt(now)

-----------------------------------------------------------------------------
(* The store's operations, on s = [rt, fan, firing, fired, thrown] *)

Parked(s, p, e) ==
    /\ e # 0 /\ p \in s.fan[e].deferred
    /\ s.fan[e].leg[p] \in Unclaimed

hasActiveRoutineFiring(s, p) ==
    \E i \in Ids : s.firing[i].p = p /\ s.firing[i].state = "active"

FreeIds(s) == {i \in Ids : s.firing[i].state = "none"}
NextId(s) == CHOOSE i \in FreeIds(s) : \A j \in FreeIds(s) : i <= j

(* Membership is the snapshot that creates the row; it is never extended. *)
ensureRoutineFanout(s, e, members) ==
    IF s.fan[e].note # "none" THEN s
    ELSE [s EXCEPT !.fan[e].note = "pending",
                   !.fan[e].leg = [p \in Targets |->
                                     IF p \in members THEN "pending" ELSE "none"]]

(* The row's clock after its event is consumed: a one-shot expires. *)
Advanced(row, next) ==
    IF Cron(row.at) THEN [row EXCEPT !.next = next]
    ELSE [row EXCEPT !.state = "expired", !.next = 0]

(* skipRoutineFiring and missRoutineFiring: one transaction moves the clock, *)
(* settles the leg and counts; a leg nobody can claim aborts the dispatch.   *)
settleDueRoutineEvent(s, p, settleLeg, disposition, next) ==
    LET e == s.rt[p].next
        counted == [Advanced(s.rt[p], next) EXCEPT !.counted = @ \cup {e}]
    IN  IF settleLeg /\ s.fan[e].leg[p] \notin Unclaimed
        THEN [s EXCEPT !.thrown = TRUE]
        ELSE [s EXCEPT !.rt[p] = counted,
                       !.fan[e].leg[p] = IF settleLeg THEN disposition ELSE @]

holdRoutineFanoutTarget(s, p, e) ==
    [s EXCEPT !.fan[e].leg[p] = IF @ \in Unclaimed THEN "held" ELSE @]

deferRoutineFanoutTarget(s, p, e) ==
    IF s.fan[e].leg[p] \notin Unclaimed THEN s
    ELSE [s EXCEPT !.fan[e].leg[p] = "pending", !.fan[e].deferred = @ \cup {p}]

(* Mutant: the firing is inserted, its clock and leg are left for later. *)
ClaimInsertsOnly(s, p, e) ==
    LET id == NextId(s)
    IN  [s EXCEPT !.firing[id] = NewFiring(p, e), !.fired = @ \cup {id}]

(* claimRoutineFiring rolls back when another claim took the leg. *)
claimRoutineFiring(s, p, e) ==
    LET id == NextId(s)
    IN  IF s.fan[e].leg[p] \notin Unclaimed THEN s
        ELSE [s EXCEPT !.rt[p] = [Advanced(@, nextRecurringFireAt(now)) EXCEPT !.fired = TRUE],
                       !.fan[e].leg[p] = "firing",
                       !.firing[id] = NewFiring(p, e),
                       !.fired = @ \cup {id}]

(* A leg whose Routine is no longer due at the event: a parked one is missed. *)
Unavailable(s, e, p) ==
    /\ s.fan[e].leg[p] \in Unclaimed
    /\ \/ s.fan[e].note = "pending"
       \/ p \in s.fan[e].deferred /\ s.fan[e].note = "sent"
    /\ ~(s.rt[p].state = "active" /\ s.rt[p].next = e)

settleUnavailableRoutineFanoutTargets(s) ==
    LET lost(p) == {e \in Events : Unavailable(s, e, p) /\ p \in s.fan[e].deferred}
    IN  [s EXCEPT
          !.rt = [p \in Targets |-> [s.rt[p] EXCEPT !.counted = @ \cup lost(p)]],
          !.fan = [e \in Events |-> [s.fan[e] EXCEPT !.leg = [p \in Targets |->
                     IF ~Unavailable(s, e, p) THEN s.fan[e].leg[p]
                     ELSE IF e \in lost(p) THEN "missed" ELSE "skipped"]]]]

(* The upsert of syncRoutines for a declaration the config still holds. *)
UpsertNext(s, p, recompute) ==
    LET row == s.rt[p]
        fromNow == recompute /\ Cron(at) /\ catchUpSkip /\ ~Parked(s, p, row.next)
        restored == row.state \in {"operator", "removed", "inactive"} /\ mode[p] = "on"
        empty == row.next = 0 /\ row.state # "expired"
    IN  IF fromNow \/ row.at # at \/ restored \/ empty THEN FirstFireAt(at) ELSE row.next

UpsertState(row, p) ==
    IF mode[p] = "off" THEN "operator"
    ELSE IF Cron(at) THEN "active"
    ELSE IF \/ row.state \in {"operator", "removed", "inactive"} /\ ~row.fired /\ at <= now
            \/ row.at = at /\ (row.state = "expired" \/ row.fired) THEN "expired"
    ELSE "active"

SyncedRow(s, p, recompute) ==
    LET row == s.rt[p]
    IN  CASE mode[p] = "gone" -> [row EXCEPT !.state = "removed"]
          [] mode[p] = "projectOff" -> [row EXCEPT !.state = "inactive"]
          [] OTHER -> [row EXCEPT !.next = UpsertNext(s, p, recompute), !.at = at,
                                  !.state = UpsertState(row, p),
                                  !.fired = @ /\ row.at = at]

synchronizeRoutineTargets(s, recompute) ==
    settleUnavailableRoutineFanoutTargets(
        [s EXCEPT !.rt = [p \in Targets |-> SyncedRow(s, p, recompute)]])

-----------------------------------------------------------------------------
(* dispatchDueRoutines *)

Order == SetToSeq(Targets)
InProjectOrder(Apply(_, _), s) ==
    LET after[n \in 0 .. Len(Order)] == IF n = 0 THEN s ELSE Apply(after[n - 1], Order[n])
    IN  after[Len(Order)]

(* Mutant: a restart recomputes the clocks without counting what it skips. *)
CatchUpNothing(s) == {}

(* Cron events the daemon slept through, grouped before any clock moves. *)
CatchUpTargets(s) ==
    {p \in Targets : /\ mode[p] = "on" /\ Cron(at) /\ catchUpSkip
                     /\ s.rt[p].state = "active" /\ s.rt[p].at = at
                     /\ s.rt[p].next \in 1 .. now
                     /\ ~Parked(s, p, s.rt[p].next)}

EnsureGroup(s, targets, t, p) ==
    IF p \notin targets THEN t
    ELSE ensureRoutineFanout(t, s.rt[p].next, {q \in targets : s.rt[q].next = s.rt[p].next})

EnsureGroups(s, targets) ==
    LET ensure(t, p) == EnsureGroup(s, targets, t, p)
    IN  InProjectOrder(ensure, s)

(* s: the tables once every group has its fan-out. *)
SkipSlept(s, targets, t, p) ==
    LET e == s.rt[p].next
        open == s.fan[e].note = "pending" /\ s.fan[e].leg[p] # "none"
    IN  IF p \notin targets \/ t.thrown THEN t
        ELSE settleDueRoutineEvent(t, p, open, "skipped", nextRecurringFireAt(now))

SkipSleptThrough(s, targets) ==
    LET settle(t, p) == SkipSlept(s, targets, t, p)
    IN  InProjectOrder(settle, s)

SkipCatchUp(s, targets) == SkipSleptThrough(EnsureGroups(s, targets), targets)

(* One due target: refused names the targets without capacity, missing those *)
(* whose provider is not registered or has no command.                       *)
DueTarget(s0, p, refused, missing) ==
    LET row == s0.rt[p]
        e == row.next
        s == ensureRoutineFanout(s0, e, {q \in Targets : s0.rt[q].state = "active"
                                                          /\ s0.rt[q].next = e})
        late == now >= deferralDeadline(row, e)
        skip(settleLeg) == settleDueRoutineEvent(s, p, settleLeg, "skipped",
                                                 nextRecurringFireAt(now))
        miss == settleDueRoutineEvent(s, p, TRUE, "missed", missedClockAdvance(e))
    IN  IF s0.thrown \/ mode[p] = "projectOff" \/ ~Due(row) THEN s0
        ELSE IF s.fan[e].leg[p] = "none" THEN skip(FALSE)
        ELSE IF Parked(s, p, e) /\ late THEN miss
        ELSE IF ~allowOverlap /\ hasActiveRoutineFiring(s, p) THEN skip(TRUE)
        ELSE IF p \in missing THEN holdRoutineFanoutTarget(s, p, e)
        ELSE IF p \in refused THEN IF late THEN miss ELSE deferRoutineFanoutTarget(s, p, e)
        ELSE claimRoutineFiring(s, p, e)

DueTargets(s, refused, missing) ==
    LET due(t, p) == DueTarget(t, p, refused, missing)
    IN  InProjectOrder(due, s)

(* counted: the events this pass counts a skip or a miss of. *)
Tables == [rt |-> [p \in Targets |-> [rt[p] EXCEPT !.counted = {}]],
           fan |-> fan, firing |-> firing, fired |-> {}, thrown |-> FALSE]

Dispatched(refused, missing) ==
    LET caughtUp == IF fresh THEN SkipCatchUp(Tables, CatchUpTargets(Tables)) ELSE Tables
        synced == synchronizeRoutineTargets(caughtUp, fresh)
    IN  DueTargets(IF caughtUp.thrown THEN caughtUp ELSE synced, refused, missing)

Write(s) == rt' = s.rt /\ fan' = s.fan /\ firing' = s.firing

dispatchDueRoutines(refused, missing) ==
    LET s == Dispatched(refused, missing)
    IN  /\ up /\ batch = {}
        /\ Cardinality(FreeIds(Tables)) >= Cardinality(Targets \ (refused \cup missing))
        /\ Write(s) /\ batch' = s.fired /\ thrown' = (thrown \/ s.thrown) /\ fresh' = FALSE
        /\ UNCHANGED <<now, up, declVars, faults>>

(* Promise.all(firingTasks) resolved: the tick gives its mutex back. *)
EndDispatch ==
    /\ up /\ batch # {} /\ \A i \in batch : firing[i].state = "over"
    /\ batch' = {}
    /\ UNCHANGED <<now, up, fresh, declVars, tableVars, thrown, faults>>

(* The daemon's fireRoutine reloads and synchronizes, then awaits the host's *)
(* pressure; the declaration may be edited before its claim.                 *)
SyncForManualFire ==
    /\ up
    /\ Write(synchronizeRoutineTargets(Tables, FALSE))
    /\ UNCHANGED <<now, up, fresh, declVars, batch, thrown, faults>>

(* A manual firing claims no clock event; force fires an operator-disabled row. *)
fireRoutineNow(p, force) ==
    /\ up /\ FreeIds(Tables) # {}
    /\ rt[p].state = "active" \/ (force /\ rt[p].state = "operator")
    /\ allowOverlap \/ ~hasActiveRoutineFiring(Tables, p)
    /\ firing' = [firing EXCEPT ![NextId(Tables)] = NewFiring(p, 0)]
    /\ UNCHANGED <<now, up, fresh, declVars, rt, fan, batch, thrown, faults>>

-----------------------------------------------------------------------------
(* runRoutineFiring ends: the row is settled and the slot given back. *)
CompleteFiring(i) ==
    /\ up /\ firing[i].state = "active"
    /\ firing' = [firing EXCEPT ![i].state = "over"]
    /\ UNCHANGED <<now, up, fresh, declVars, rt, fan, batch, thrown, faults>>

-----------------------------------------------------------------------------
Fault == faults < MaxFaults /\ faults' = faults + 1

(* The summary of a fan-out; "sent" also stands for skipped by policy. *)

Outstanding(e, p) ==
    \/ fan[e].leg[p] = "pending"
    \/ fan[e].leg[p] = "firing" /\ \E i \in Ids : /\ firing[i].p = p /\ firing[i].at = e
                                                  /\ firing[i].state = "active"

claimRoutineFanoutNotification(e) ==
    /\ up /\ fan[e].note = "pending"
    /\ \A p \in Targets : ~Outstanding(e, p)
    /\ fan' = [fan EXCEPT ![e].note = "sending"]
    /\ UNCHANGED <<now, up, fresh, declVars, rt, firing, batch, thrown, faults>>

completeRoutineFanoutNotification(e, delivered) ==
    /\ up /\ fan[e].note = "sending"
    /\ IF delivered THEN UNCHANGED faults ELSE Fault
    /\ fan' = [fan EXCEPT ![e].note = IF delivered THEN "sent" ELSE "pending"]
    /\ UNCHANGED <<now, up, fresh, declVars, rt, firing, batch, thrown>>

-----------------------------------------------------------------------------
(* Time, the config, stopping and starting *)

PassTime ==
    /\ now < MaxNow /\ now' = now + 1
    /\ UNCHANGED <<up, fresh, declVars, tableVars, batch, thrown, faults>>

EditMode(p, m) ==
    /\ Fault
    /\ m # mode[p] /\ mode' = [mode EXCEPT ![p] = m]
    /\ UNCHANGED <<now, up, fresh, at, catchUpSkip, allowOverlap, tableVars, batch, thrown>>

EditSchedule(schedule) ==
    /\ Fault
    /\ schedule # at /\ at' = schedule
    /\ UNCHANGED <<now, up, fresh, mode, catchUpSkip, allowOverlap, tableVars, batch, thrown>>

CrashDaemon ==
    /\ up /\ Fault
    /\ up' = FALSE /\ batch' = {}
    /\ UNCHANGED <<now, fresh, declVars, tableVars, thrown>>

(* createDaemon's sweeps: a claimed summary is released, and a firing whose *)
(* process died is failed.                                                  *)
StartDaemon ==
    /\ ~up /\ up' = TRUE /\ fresh' = TRUE
    /\ fan' = [e \in Events |-> [fan[e] EXCEPT !.note = IF @ = "sending" THEN "pending" ELSE @]]
    /\ firing' = [i \in Ids |-> [firing[i] EXCEPT !.state = IF @ = "active" THEN "over" ELSE @]]
    /\ UNCHANGED <<now, declVars, rt, batch, thrown, faults>>

-----------------------------------------------------------------------------
RoutineInit ==
    /\ now = 0 /\ up = TRUE /\ fresh = TRUE
    /\ mode = [p \in Targets |-> "on"] /\ at \in Schedules
    /\ \E policy \in Policies : catchUpSkip = policy[1] /\ allowOverlap = policy[2]
    /\ rt = [p \in Targets |-> [state |-> "active", next |-> FirstFireAt(at), at |-> at,
                                fired |-> FALSE, counted |-> {}]]
    /\ fan = [e \in Events |-> [note |-> "none", leg |-> [p \in Targets |-> "none"],
                                deferred |-> {}]]
    /\ firing = [i \in Ids |-> NoFiring]
    /\ batch = {} /\ thrown = FALSE
    /\ faults = 0

Dispatch == \E refused \in SUBSET Targets : \E missing \in SUBSET (Targets \ refused) :
                dispatchDueRoutines(refused, missing)
Deliver(e) == \/ claimRoutineFanoutNotification(e)
              \/ \E delivered \in BOOLEAN : completeRoutineFanoutNotification(e, delivered)

RoutineNext ==
    \/ Dispatch
    \/ EndDispatch
    \/ SyncForManualFire
    \/ \E p \in Targets, force \in BOOLEAN : fireRoutineNow(p, force)
    \/ \E i \in Ids : CompleteFiring(i)
    \/ \E e \in Events : Deliver(e)
    \/ PassTime
    \/ \E p \in Edited, m \in Modes : EditMode(p, m)
    \/ \E schedule \in Schedules : EditSchedule(schedule)
    \/ CrashDaemon
    \/ StartDaemon

RoutineSpec == RoutineInit /\ [][RoutineNext]_routineVars

-----------------------------------------------------------------------------
(* What makes RoutineInvariant inductive *)

\* A live schedule has a clock; only a one-shot expires.
RowsFit(rows) == \A p \in Targets :
    /\ rows[p].state = "active" => rows[p].next # 0
    /\ rows[p].state = "expired" => ~Cron(rows[p].at)

\* An event nobody has grouped yet has no legs.
FanoutsFit(fans) == \A e \in Events : fans[e].note = "none" =>
    fans[e].deferred = {} /\ \A p \in Targets : fans[e].leg[p] = "none"

SameEvent(f, g) == f.p = g.p /\ f.at = g.at
BothLive(f, g) == f.p = g.p /\ f.state = "active" /\ g.state = "active"

\* A firing of an event took its leg, and no other did; without allow_overlap a
\* Project has one live firing.
FiringsFit(fans, firings) ==
    /\ \A i \in Ids : firings[i].state = "none" => firings[i].at = 0
    /\ \A i \in Ids : firings[i].at # 0 =>
         firings[i].p \in Targets /\ fans[firings[i].at].leg[firings[i].p] = "firing"
    /\ \A i, j \in Ids : firings[i].at # 0 /\ SameEvent(firings[i], firings[j]) => i = j
    /\ allowOverlap \/ \A i, j \in Ids : BothLive(firings[i], firings[j]) => i = j

RoutineInv == RoutineTypeOK /\ RowsFit(rt) /\ FanoutsFit(fan) /\ FiringsFit(fan, firing)

-----------------------------------------------------------------------------
(* Properties *)

(* A clock event starts at most one firing per Project: not a second one by  *)
(* a later tick, after a restart, or after a held or deferred retry.         *)
ClockEventFiredOnce ==
    \A i, j \in Ids : i # j /\ firing[i].at # 0
                       => <<firing[i].p, firing[i].at>> # <<firing[j].p, firing[j].at>>

(* Without allow_overlap a scheduled and a manual firing of one Project are  *)
(* never live together, though each admits on its own path.                  *)
NoOverlappingFirings ==
    allowOverlap \/ \A p \in Targets :
        Cardinality({i \in Ids : firing[i].p = p /\ firing[i].state = "active"}) <= 1

(* What a summary on its way or delivered reported as settled stays so: no   *)
(* reload, dispatch or restart re-opens a leg that fired, was skipped or     *)
(* missed.                                                                   *)
SummaryIsFinal ==
    [][\A e \in Events, p \in Targets :
         /\ fan[e].note \in {"sending", "sent"}
         /\ fan[e].leg[p] \in Reported
         => fan'[e].leg[p] = fan[e].leg[p]]_routineVars

(* The clock of a live schedule never leaves a due event behind without a    *)
(* firing of that event or a counted skip or miss of it, restarts included.  *)
NoEventLostSilently ==
    [][\A p \in Targets :
         LET e == rt[p].next
         IN  /\ rt[p].state = "active" /\ e \in 1 .. now
             /\ rt'[p].state \in {"active", "expired"} /\ rt'[p].at = rt[p].at
             /\ rt'[p].next # e
             => \/ e \in rt'[p].counted
                \/ \E i \in Ids : firing'[i].p = p /\ firing'[i].at = e]_routineVars

(* An event parked for want of capacity, held since for its provider or not, *)
(* never fires once the deadline of the schedule it fires under has passed:  *)
(* its successor supersedes it.                                              *)
ParkedNeverFiresLate ==
    [][\A e \in Events, p \in Targets :
         /\ p \in fan[e].deferred /\ fan[e].leg[p] \in Unclaimed
         /\ fan'[e].leg[p] = "firing"
         => now < deferralDeadline(rt'[p], e)]_routineVars

(* A due, live schedule always has a leg its dispatch can settle: no dispatch *)
(* ends in RoutineFanoutInvariantError, which would end every tick with it.   *)
DispatchNeverThrows == ~thrown

(* One firing per event, one live firing per Project.                      *)
RoutineInvariant == RoutineTypeOK /\ ClockEventFiredOnce /\ NoOverlappingFirings

(* The clocks and the summaries account for every event, and once.         *)
EventsAreAccountedFor == NoEventLostSilently /\ SummaryIsFinal /\ ParkedNeverFiresLate
===============================================================================
