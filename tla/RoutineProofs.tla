--------------------------- MODULE RoutineProofs ---------------------------
(***************************************************************************)
(* Proofs about Routines: an event starts at most one firing per Project   *)
(* (EventsFireOnce) and is never lost silently (EventsAccounted).          *)
(*                                                                         *)
(* Every operation of the store keeps its tables Sound and leads Onward: a *)
(* reported leg, a firing and a count stay, and a clock moves only when    *)
(* its event was counted or claimed.  Passes over the Projects inherit     *)
(* that from their steps (UpTo); a synchronization, which may set clocks,  *)
(* is looked at on its own, and a dispatch is catch-up, synchronization    *)
(* and due targets in a row.                                               *)
(***************************************************************************)
EXTENDS Routines, FiniteSetTheorems, WellFoundedInduction, TLAPS

-----------------------------------------------------------------------------
(* Passes over the Projects in their order.                                *)

Below == {ss \in Nat \X Nat : ss[1] < ss[2]}

LEMMA LeastOf ==
  ASSUME NEW T \in SUBSET Nat, T # {}
  PROVE  \E m \in T : \A j \in T : m <= j
<1>1. IsWellFoundedOn(Below, Nat)
  BY NatLessThanWellFounded DEF OpToRel, Below
<1>2. PICK x \in T : \A y \in T : ~(<<y, x>> \in Below)
  BY <1>1, WFMin
<1>3. \A y \in T : ~(y < x)
  BY <1>2 DEF Below
<1>. QED  BY <1>3

\* What holds of 0 and passes on to the next number holds up to L.
LEMMA UpTo ==
  ASSUME NEW L \in Nat, NEW G, 0 \in G, \A n \in 1 .. L : n - 1 \in G => n \in G
  PROVE  0 .. L \subseteq G
<1>. DEFINE Bad == {n \in 0 .. L : n \notin G}
<1>. SUFFICES ASSUME Bad # {} PROVE FALSE
  OBVIOUS
<1>1. PICK m \in Bad : \A j \in Bad : m <= j
  <2>1. Bad \in SUBSET Nat
    OBVIOUS
  <2>. HIDE DEF Bad
  <2>. QED  BY <2>1, LeastOf
<1>2. m \in 1 .. L /\ m - 1 \in 0 .. L
  BY <1>1
<1>3. m - 1 \in G
  BY <1>1, <1>2
<1>. QED  BY <1>1, <1>2, <1>3

IsPass(L, s, g, f) == f = [n \in 0 .. L |-> IF n = 0 THEN s ELSE g[<<n, f[n - 1]>>]]

\* A pass that begins in T[0], and whose n-th step leads from T[n-1] to T[n].
LEMMA PassExists ==
  ASSUME NEW L \in Nat, NEW T, NEW g, NEW s \in T[0],
         \A n \in 1 .. L : \A x \in T[n - 1] : g[<<n, x>>] \in T[n]
  PROVE  \E f : IsPass(L, s, g, f) /\ \A n \in 0 .. L : f[n] \in T[n]
<1>. DEFINE Pass(m, f) == IsPass(m, s, g, f) /\ \A n \in 0 .. m : f[n] \in T[n]
            G == {m \in 0 .. L : \E f : Pass(m, f)}
<1>1. 0 \in G
  <2>. DEFINE f == [n \in 0 .. 0 |-> s]
  <2>2. f = [n \in 0 .. 0 |-> IF n = 0 THEN s ELSE g[<<n, f[n - 1]>>]]
    OBVIOUS
  <2>3. \A n \in 0 .. 0 : f[n] \in T[n]
    <3>1. \A n \in 0 .. 0 : n = 0 /\ f[n] = s
      OBVIOUS
    <3>. HIDE DEF f
    <3>. QED  BY <3>1
  <2>1. Pass(0, f)
    BY <2>2, <2>3 DEF IsPass
  <2>. HIDE DEF Pass, f
  <2>. QED  BY <2>1
<1>2. ASSUME NEW m \in 1 .. L, m - 1 \in G
      PROVE  m \in G
  <2>1. PICK f : Pass(m - 1, f)
    BY <1>2
  <2>. DEFINE h == [n \in 0 .. m |-> IF n = m THEN g[<<m, f[m - 1]>>] ELSE f[n]]
  <2>2. /\ DOMAIN f = 0 .. m - 1 /\ f[0] = s
        /\ \A n \in 1 .. m - 1 : f[n] = g[<<n, f[n - 1]>>]
        /\ \A n \in 0 .. m - 1 : f[n] \in T[n]
    BY <1>2, <2>1 DEF IsPass
  <2>3. /\ DOMAIN h = 0 .. m /\ h[m] = g[<<m, f[m - 1]>>]
        /\ \A n \in 0 .. m - 1 : h[n] = f[n]
    BY <1>2
  <2>4. h[m] \in T[m]
    <3>1. m - 1 \in 0 .. m - 1 /\ m \in 1 .. L
      BY <1>2
    <3>2. f[m - 1] \in T[m - 1]
      BY <2>2, <3>1
    <3>. HIDE DEF h
    <3>. QED  BY <2>3, <3>1, <3>2
  <2>5. \A n \in 0 .. m : h[n] \in T[n]
    <3>1. \A n \in 0 .. m : n = m \/ n \in 0 .. m - 1
      BY <1>2
    <3>. HIDE DEF h
    <3>. QED  BY <2>2, <2>3, <2>4, <3>1
  <2>6. \A n \in 0 .. m : h[n] = IF n = 0 THEN s ELSE g[<<n, h[n - 1]>>]
    <3>. SUFFICES ASSUME NEW n \in 0 .. m
                  PROVE  h[n] = IF n = 0 THEN s ELSE g[<<n, h[n - 1]>>]
      OBVIOUS
    <3>. HIDE DEF h
    <3>1. CASE n = 0
      BY <1>2, <2>2, <2>3, <3>1
    <3>2. CASE n = m
      BY <1>2, <2>2, <2>3, <3>2
    <3>3. CASE n # 0 /\ n # m
      BY <1>2, <2>2, <2>3, <3>3
    <3>. QED  BY <3>1, <3>2, <3>3
  <2>7. h = [n \in 0 .. m |-> IF n = 0 THEN s ELSE g[<<n, h[n - 1]>>]]
    <3>1. h = [n \in 0 .. m |-> h[n]]
      OBVIOUS
    <3>. HIDE DEF h
    <3>. QED  BY <2>6, <3>1
  <2>8. Pass(m, h)
    <3>. HIDE DEF h
    <3>. QED  BY <2>5, <2>7 DEF IsPass
  <2>. HIDE DEF Pass, h
  <2>. QED  BY <1>2, <2>8
<1>3. 0 .. L \subseteq G
  <2>. HIDE DEF G
  <2>. QED  BY <1>1, <1>2, UpTo
<1>4. L \in G
  <2>1. L \in 0 .. L
    OBVIOUS
  <2>. HIDE DEF G
  <2>. QED  BY <1>3, <2>1
<1>. QED  BY <1>4

\* Whatever pass there is stays in T.
LEMMA PassStays ==
  ASSUME NEW L \in Nat, NEW T, NEW f, f[0] \in T[0],
         \A n \in 1 .. L : f[n - 1] \in T[n - 1] => f[n] \in T[n]
  PROVE  f[L] \in T[L]
<1>. DEFINE G == {n \in 0 .. L : f[n] \in T[n]}
<1>1. 0 \in G /\ \A n \in 1 .. L : n - 1 \in G => n \in G
  OBVIOUS
<1>2. 0 .. L \subseteq G
  <2>. HIDE DEF G
  <2>. QED  BY <1>1, UpTo
<1>. QED  BY <1>2

LEMMA OrderIsAll ==
  /\ Order \in Seq(Targets) /\ Len(Order) = Cardinality(Targets) /\ Len(Order) \in Nat
  /\ \A m, n \in 1 .. Len(Order) : Order[m] = Order[n] => m = n
  /\ \A p \in Targets : \E n \in 1 .. Len(Order) : Order[n] = p
<1>. DEFINE k == Cardinality(Targets)
<1>1. IsFiniteSet(Targets) /\ k \in Nat /\ ExistsBijection(1 .. k, Targets)
  BY RoutineBounds, FS_CardinalityType
<1>2. \E f \in [1 .. k -> Targets] : IsInjective(f)
  BY <1>1 DEF ExistsBijection, Bijection, Injection, IsInjective
<1>3. Order \in [1 .. k -> Targets] /\ IsInjective(Order)
  BY <1>2 DEF Order, SetToSeq
<1>4. Order \in Seq(Targets) /\ Len(Order) = k
  BY <1>1, <1>3
<1>5. Order \in Injection(1 .. k, Targets)
  BY <1>3 DEF Injection
<1>6. Cardinality(1 .. k) = k
  BY <1>1, FS_Bijection, FS_CountingElements, FS_Interval
<1>7. Order \in Surjection(1 .. k, Targets)
  BY <1>1, <1>5, <1>6, FS_Injection
<1>. QED  BY <1>1, <1>3, <1>4, <1>7 DEF IsInjective, Surjection

LEMMA DuePassStays ==
  ASSUME NEW refused, NEW missing, NEW s, NEW T, s \in T[0],
         \A n \in 1 .. Len(Order) : \A x \in T[n - 1] :
            DueTarget(x, Order[n], refused, missing) \in T[n]
  PROVE  DueTargets(s, refused, missing) \in T[Len(Order)]
<1>. DEFINE L == Len(Order)
            Is(f) == f = [n \in 0 .. L |-> IF n = 0 THEN s
                            ELSE DueTarget(f[n - 1], Order[n], refused, missing)]
            g == [y \in {<<n, x>> : n \in 1 .. L, x \in UNION {T[k] : k \in 0 .. L}} |->
                    DueTarget(y[2], Order[y[1]], refused, missing)]
<1>1. L \in Nat
  BY OrderIsAll
<1>2. \A n \in 1 .. L : \A x \in T[n - 1] :
        g[<<n, x>>] = DueTarget(x, Order[n], refused, missing)
  BY <1>1
<1>. HIDE DEF g
<1>3. PICK f : IsPass(L, s, g, f) /\ \A n \in 0 .. L : f[n] \in T[n]
  <2>1. \A n \in 1 .. L : \A x \in T[n - 1] : g[<<n, x>>] \in T[n]
    BY <1>2
  <2>. HIDE DEF L
  <2>. QED  BY <1>1, <2>1, PassExists
<1>4. Is(f)
  <2>1. \A n \in 1 .. L : n - 1 \in 0 .. L
    BY <1>1
  <2>2. \A n \in 1 .. L : g[<<n, f[n - 1]>>]
                            = DueTarget(f[n - 1], Order[n], refused, missing)
    BY <1>2, <1>3, <2>1
  <2>3. \A n \in 0 .. L : n = 0 \/ n \in 1 .. L
    BY <1>1
  <2>4. \A n \in 0 .. L : (IF n = 0 THEN s ELSE g[<<n, f[n - 1]>>])
          = IF n = 0 THEN s ELSE DueTarget(f[n - 1], Order[n], refused, missing)
    BY <2>2, <2>3
  <2>. QED  BY <1>3, <2>4 DEF IsPass
<1>. DEFINE h == CHOOSE h : Is(h)
<1>5. Is(h)
  BY <1>4
<1>6. h[L] \in T[L]
  <2>. HIDE DEF h
  <2>0. /\ 0 \in 0 .. L /\ \A n \in 1 .. L : n \in 0 .. L /\ n # 0
    BY <1>1
  <2>3. /\ h[0] = s
        /\ \A n \in 1 .. L : h[n] = DueTarget(h[n - 1], Order[n], refused, missing)
    BY <1>5, <2>0
  <2>1. h[0] \in T[0]
    BY <2>3
  <2>2. \A n \in 1 .. L : h[n - 1] \in T[n - 1] => h[n] \in T[n]
    BY <2>3
  <2>. QED  BY <1>1, <2>1, <2>2, PassStays
<1>. QED  BY <1>6 DEF DueTargets, InProjectOrder

-----------------------------------------------------------------------------
(* Clocks.                                                                 *)

LEMMA Bounds ==
  /\ Period \in Nat /\ Period > 0 /\ Horizon \in Nat /\ MaxNow \in Nat /\ MaxNow > 0
  /\ MaxFirings \in Nat /\ Schedules \subseteq 0 .. MaxNow /\ IsFiniteSet(Targets)
BY RoutineBounds

LEMMA PeriodStarts ==
  ASSUME NEW a \in Nat, NEW b \in Nat, b > 0
  PROVE  /\ a \div b \in Nat
         /\ (a \div b) * b <= a
         /\ a < (a \div b + 1) * b
         /\ (a \div b + 1) * b <= a + b
  OBVIOUS

LEMMA NextFires ==
  ASSUME NEW a \in Nat
  PROVE  /\ nextRecurringFireAt(a) \in Nat
         /\ a < nextRecurringFireAt(a) /\ nextRecurringFireAt(a) <= a + Period
<1>1. /\ a \div Period \in Nat /\ a < (a \div Period + 1) * Period
      /\ (a \div Period + 1) * Period <= a + Period
  BY Bounds, PeriodStarts
<1>2. (a \div Period + 1) * Period \in Nat
  BY <1>1, Bounds
<1>. QED  BY <1>1, <1>2 DEF nextRecurringFireAt

\* A clock that is set from now, or from an event that is due, names an event.
LEMMA ClocksAreEvents ==
  ASSUME now \in 0 .. MaxNow
  PROVE  /\ nextRecurringFireAt(now) \in Events
         /\ \A schedule \in Schedules : FirstFireAt(schedule) \in Events
         /\ \A e \in Events : e <= now => missedClockAdvance(e) \in Events
<1>1. /\ Events \in SUBSET Nat
      /\ \A k \in Nat : k > 0 /\ k <= MaxNow + Period => k \in Events
  BY Bounds DEF Events
<1>2. \A k \in Nat : k <= now => nextRecurringFireAt(k) \in Events
  <2>. SUFFICES ASSUME NEW k \in Nat, k <= now PROVE nextRecurringFireAt(k) \in Events
    OBVIOUS
  <2>. DEFINE x == nextRecurringFireAt(k)
  <2>1. x \in Nat /\ k < x /\ x <= k + Period
    BY NextFires
  <2>. HIDE DEF x
  <2>2. x > 0 /\ x <= MaxNow + Period
    BY <2>1, Bounds
  <2>3. x \in Events
    BY <1>1, <2>1, <2>2
  <2>. QED  BY <2>3 DEF x
<1>3. now \in Nat /\ now <= now
  BY Bounds
<1>4. ASSUME NEW schedule \in Schedules PROVE FirstFireAt(schedule) \in Events
  BY <1>1, <1>2, <1>3, Bounds DEF FirstFireAt, Cron
<1>5. ASSUME NEW e \in Events, e <= now PROVE missedClockAdvance(e) \in Events
  BY <1>1, <1>2, <1>3, <1>5 DEF missedClockAdvance
<1>. QED  BY <1>2, <1>3, <1>4, <1>5

-----------------------------------------------------------------------------
(* The tables, and what an operation of the store may do to them.          *)

RowTable == [Targets -> RoutineRow]
FanoutTable == [Events -> FanoutRow]
FiringTable == [Ids -> FiringRow]
TableSet == [rt : RowTable, fan : FanoutTable, firing : FiringTable,
             fired : SUBSET Ids, thrown : BOOLEAN]

Sound(s) == /\ s \in TableSet
            /\ RowsFit(s.rt) /\ FanoutsFit(s.fan) /\ FiringsFit(s.fan, s.firing)

Taken(s, p, e) ==
  \E i \in Ids : s.firing[i].state # "none" /\ s.firing[i].p = p /\ s.firing[i].at = e

\* Reported legs, parked ones, firings and counts stay.
Grows(s, r) ==
  /\ \A e \in Events : s.fan[e].deferred \subseteq r.fan[e].deferred
  /\ \A e \in Events, p \in Targets :
       s.fan[e].leg[p] \in Reported => r.fan[e].leg[p] = s.fan[e].leg[p]
  /\ \A i \in Ids : s.firing[i].state # "none" => r.firing[i] = s.firing[i]
  /\ \A p \in Targets : s.rt[p].counted \subseteq r.rt[p].counted

\* A clock moves on when its event was counted or has its firing.
ClockMoves(s, r, p) ==
  /\ r.rt[p].at = s.rt[p].at
  /\ \/ r.rt[p].state = s.rt[p].state /\ r.rt[p].next = s.rt[p].next
     \/ /\ s.rt[p].state = "active"
        /\ s.rt[p].next \in r.rt[p].counted \/ Taken(r, p, s.rt[p].next)

\* A parked event fires in time.
FiresInTime(s, r) ==
  \A e \in Events, p \in Targets :
    /\ p \in s.fan[e].deferred /\ s.fan[e].leg[p] # "firing" /\ r.fan[e].leg[p] = "firing"
    => now < deferralDeadline(s.rt[p], e)

Onward(s, r) == /\ Grows(s, r) /\ FiresInTime(s, r)
                /\ \A p \in Targets : ClockMoves(s, r, p)

\* No leg becomes a firing.
ClaimsNothing(s, r) == \A e \in Events, p \in Targets :
  r.fan[e].leg[p] = "firing" => s.fan[e].leg[p] = "firing"

LEMMA OnwardStays == \A s : Onward(s, s)
BY DEF Onward, Grows, FiresInTime, ClockMoves

LEMMA OnwardGoesOn ==
  ASSUME NEW s, NEW r, NEW t, Onward(s, r), Onward(r, t)
  PROVE  Onward(s, t)
<1>1. Grows(s, t)
  BY DEF Onward, Grows
<1>2. FiresInTime(s, t)
  <2>. SUFFICES ASSUME NEW e \in Events, NEW p \in Targets, p \in s.fan[e].deferred,
                       s.fan[e].leg[p] # "firing", t.fan[e].leg[p] = "firing"
                PROVE  now < deferralDeadline(s.rt[p], e)
    BY DEF FiresInTime
  <2>1. p \in r.fan[e].deferred /\ r.rt[p].at = s.rt[p].at
    BY DEF Onward, Grows, ClockMoves
  <2>2. deferralDeadline(r.rt[p], e) = deferralDeadline(s.rt[p], e)
    BY <2>1 DEF deferralDeadline
  <2>. QED  BY <2>1, <2>2 DEF Onward, FiresInTime
<1>3. ASSUME NEW p \in Targets PROVE ClockMoves(s, t, p)
  <2>. DEFINE e == s.rt[p].next
  <2>1. Taken(r, p, e) => Taken(t, p, e)
    BY DEF Taken, Onward, Grows
  <2>2. r.rt[p].counted \subseteq t.rt[p].counted
    BY DEF Onward, Grows
  <2>3. ClockMoves(s, r, p) /\ ClockMoves(r, t, p)
    BY DEF Onward
  <2>. QED  BY <2>1, <2>2, <2>3 DEF ClockMoves
<1>. QED  BY <1>1, <1>2, <1>3 DEF Onward

-----------------------------------------------------------------------------
(* One operation.                                                          *)

LEMMA TableFields ==
  ASSUME NEW s \in TableSet
  PROVE  /\ s = [rt |-> s.rt, fan |-> s.fan, firing |-> s.firing,
                 fired |-> s.fired, thrown |-> s.thrown]
         /\ s.rt \in RowTable /\ s.fan \in FanoutTable /\ s.firing \in FiringTable
         /\ s.fired \in SUBSET Ids /\ s.thrown \in BOOLEAN
<1>. HIDE DEF RowTable, FanoutTable, FiringTable
<1>. QED  BY DEF TableSet

\* Records of tables are put together from tables.
LEMMA TablesMade ==
  ASSUME NEW a \in RowTable, NEW b \in FanoutTable, NEW c \in FiringTable,
         NEW d \in SUBSET Ids, NEW x \in BOOLEAN
  PROVE  [rt |-> a, fan |-> b, firing |-> c, fired |-> d, thrown |-> x] \in TableSet
BY DEF TableSet

\* What the record of a row, a fan-out and a firing hold.
LEMMA RowFields ==
  ASSUME NEW s \in TableSet
  PROVE  /\ \A p \in Targets :
              /\ s.rt[p] \in RoutineRow
              /\ s.rt[p].state \in {"active", "operator", "removed", "inactive", "expired"}
              /\ s.rt[p].next \in Events \cup {0} /\ s.rt[p].at \in Schedules
              /\ s.rt[p].fired \in BOOLEAN /\ s.rt[p].counted \in SUBSET Events
         /\ \A e \in Events :
              /\ s.fan[e] \in FanoutRow
              /\ s.fan[e].note \in {"none", "pending", "sending", "sent"}
              /\ s.fan[e].leg \in [Targets -> {"none"} \cup Unclaimed \cup Reported]
              /\ s.fan[e].deferred \in SUBSET Targets
         /\ \A i \in Ids : /\ s.firing[i] \in FiringRow
                           /\ s.firing[i].p \in Targets \cup {NoProject}
                           /\ s.firing[i].at \in Events \cup {0}
                           /\ s.firing[i].state \in {"none", "active", "over"}
<1>1. s.rt \in RowTable /\ s.fan \in FanoutTable /\ s.firing \in FiringTable
  BY TableFields
<1>2. ASSUME NEW p \in Targets
      PROVE  /\ s.rt[p] \in RoutineRow
             /\ s.rt[p].state \in {"active", "operator", "removed", "inactive", "expired"}
             /\ s.rt[p].next \in Events \cup {0} /\ s.rt[p].at \in Schedules
             /\ s.rt[p].fired \in BOOLEAN /\ s.rt[p].counted \in SUBSET Events
  BY <1>1 DEF RowTable, RoutineRow
<1>3. ASSUME NEW e \in Events
      PROVE  /\ s.fan[e] \in FanoutRow
             /\ s.fan[e].note \in {"none", "pending", "sending", "sent"}
             /\ s.fan[e].leg \in [Targets -> {"none"} \cup Unclaimed \cup Reported]
             /\ s.fan[e].deferred \in SUBSET Targets
  BY <1>1 DEF FanoutTable, FanoutRow
<1>4. ASSUME NEW i \in Ids
      PROVE  /\ s.firing[i] \in FiringRow
             /\ s.firing[i].p \in Targets \cup {NoProject}
             /\ s.firing[i].at \in Events \cup {0}
             /\ s.firing[i].state \in {"none", "active", "over"}
  BY <1>1 DEF FiringTable, FiringRow
<1>. QED  BY <1>2, <1>3, <1>4

\* The row of one Project and its leg of one event move on; no firing starts.
RowGoesOn(row, new) ==
  /\ new \in RoutineRow /\ new.at = row.at /\ row.counted \subseteq new.counted
  /\ new.state = "active" => new.next # 0
  /\ new.state = "expired" => ~Cron(new.at)
  /\ \/ new.state = row.state /\ new.next = row.next
     \/ row.state = "active" /\ row.next \in new.counted
LegGoesOn(f, new, p) ==
  /\ new \in FanoutRow /\ new.note = f.note /\ f.deferred \subseteq new.deferred
  /\ new.note = "none" => new = f
  /\ \A q \in Targets : \/ new.leg[q] = f.leg[q]
                        \/ q = p /\ f.leg[q] \in Unclaimed /\ new.leg[q] # "firing"

LEMMA LegStep ==
  ASSUME NEW s, Sound(s), NEW p \in Targets, NEW e \in Events, NEW r \in TableSet,
         r.firing = s.firing, NEW row, NEW f,
         r.rt = [s.rt EXCEPT ![p] = row], r.fan = [s.fan EXCEPT ![e] = f],
         RowGoesOn(s.rt[p], row), LegGoesOn(s.fan[e], f, p)
  PROVE  Sound(r) /\ Onward(s, r)
<1>1. s \in TableSet
  BY DEF Sound
<1>2. s.rt \in RowTable /\ s.fan \in FanoutTable
  BY <1>1, TableFields
<1>3. /\ r.rt[p] = row /\ \A q \in Targets : q # p => r.rt[q] = s.rt[q]
      /\ r.fan[e] = f /\ \A d \in Events : d # e => r.fan[d] = s.fan[d]
  BY <1>2 DEF RowTable, FanoutTable
<1>4. \A d \in Events : \A q \in Targets :
        s.fan[d].leg[q] \in Reported => r.fan[d].leg[q] = s.fan[d].leg[q]
  BY <1>3 DEF LegGoesOn, Reported, Unclaimed
<1>5. \A d \in Events : \A q \in Targets :
        r.fan[d].leg[q] = "firing" => s.fan[d].leg[q] = "firing"
  BY <1>3 DEF LegGoesOn
<1>6. RowsFit(r.rt)
  BY <1>3 DEF Sound, RowsFit, RowGoesOn
<1>7. FanoutsFit(r.fan)
  BY <1>3 DEF Sound, FanoutsFit, LegGoesOn
<1>8. FiringsFit(r.fan, r.firing)
  <2>1. \A i \in Ids : s.firing[i].at \in Events \cup {0}
    BY <1>1, RowFields
  <2>2. FiringsFit(s.fan, s.firing)
    BY DEF Sound
  <2>3. \A i \in Ids : s.firing[i].at # 0 =>
          /\ s.firing[i].p \in Targets
          /\ r.fan[s.firing[i].at].leg[s.firing[i].p] = "firing"
    BY <1>4, <2>1, <2>2 DEF FiringsFit, Reported
  <2>. QED  BY <2>2, <2>3 DEF FiringsFit
<1>9. Grows(s, r)
  <2>1. \A d \in Events : s.fan[d].deferred \subseteq r.fan[d].deferred
    BY <1>3 DEF LegGoesOn
  <2>2. \A q \in Targets : s.rt[q].counted \subseteq r.rt[q].counted
    BY <1>3 DEF RowGoesOn
  <2>. QED  BY <1>4, <2>1, <2>2 DEF Grows
<1>10. FiresInTime(s, r)
  BY <1>5 DEF FiresInTime
<1>11. \A q \in Targets : ClockMoves(s, r, q)
  BY <1>3 DEF ClockMoves, RowGoesOn
<1>. QED  BY <1>6, <1>7, <1>8, <1>9, <1>10, <1>11 DEF Sound, Onward

\* Grouping an event: its fan-out is created unless it exists.
LEMMA EnsureStep ==
  ASSUME NEW s, Sound(s), NEW e \in Events, NEW members
  PROVE  LET r == ensureRoutineFanout(s, e, members) IN
         /\ Sound(r) /\ Onward(s, r)
         /\ r.rt = s.rt /\ r.firing = s.firing /\ r.fired = s.fired /\ r.thrown = s.thrown
         /\ r.fan[e].note # "none" /\ ClaimsNothing(s, r)
         /\ \A d \in Events : s.fan[d].note # "none" => r.fan[d] = s.fan[d]
<1>. DEFINE r == ensureRoutineFanout(s, e, members)
            legs == [p \in Targets |-> IF p \in members THEN "pending" ELSE "none"]
            f == [note |-> "pending", leg |-> legs, deferred |-> s.fan[e].deferred]
            made == [rt |-> s.rt, fan |-> [s.fan EXCEPT ![e] = f], firing |-> s.firing,
                     fired |-> s.fired, thrown |-> s.thrown]
<1>1. s \in TableSet
  BY DEF Sound
<1>2. s.rt \in RowTable /\ s.fan \in FanoutTable /\ s.firing \in FiringTable
      /\ s.fired \in SUBSET Ids /\ s.thrown \in BOOLEAN
  BY <1>1, TableFields
<1>3. CASE s.fan[e].note # "none"
  <2>1. r = s
    BY <1>3 DEF ensureRoutineFanout
  <2>. QED  BY <1>3, <2>1, OnwardStays DEF ClaimsNothing
<1>4. CASE s.fan[e].note = "none"
  <2>1. r = made
    <3>1. s = [rt |-> s.rt, fan |-> s.fan, firing |-> s.firing,
               fired |-> s.fired, thrown |-> s.thrown]
      BY <1>1, TableFields
    <3>2. s.fan[e] \in FanoutRow /\ s.fan \in [Events -> FanoutRow]
      BY <1>2 DEF FanoutTable
    <3>3. [s.fan EXCEPT ![e].note = "pending", ![e].leg = legs] = [s.fan EXCEPT ![e] = f]
      <4>. DEFINE f1 == [s.fan[e] EXCEPT !.note = "pending"]
      <4>1. s.fan[e] = [note |-> s.fan[e].note, leg |-> s.fan[e].leg,
                        deferred |-> s.fan[e].deferred]
        BY <3>2 DEF FanoutRow
      <4>2. f1 = [note |-> "pending", leg |-> s.fan[e].leg, deferred |-> s.fan[e].deferred]
        BY <4>1
      <4>4. [s.fan EXCEPT ![e].note = "pending"] = [s.fan EXCEPT ![e] = f1]
        OBVIOUS
      <4>. HIDE DEF f1, legs
      <4>3. [f1 EXCEPT !.leg = legs] = f
        BY <4>2
      <4>. HIDE DEF f
      <4>5. [s.fan EXCEPT ![e] = f1][e] = f1
        BY <3>2
      <4>6. [[s.fan EXCEPT ![e] = f1] EXCEPT ![e].leg = legs] = [s.fan EXCEPT ![e] = f]
        BY <3>2, <4>3, <4>5
      <4>. QED  BY <4>4, <4>6
    <3>4. r = [s EXCEPT !.fan = [s.fan EXCEPT ![e].note = "pending", ![e].leg = legs]]
      BY <1>4, <3>1 DEF ensureRoutineFanout
    <3>. QED  BY <3>1, <3>3, <3>4
  <2>2. f \in FanoutRow
    BY <1>1, RowFields DEF FanoutRow, Unclaimed
  <2>3. made.fan \in FanoutTable /\ made.fan[e] = f
        /\ \A d \in Events : d # e => made.fan[d] = s.fan[d]
    BY <1>2, <2>2 DEF FanoutTable
  <2>4. f.note = "pending" /\ f.deferred = s.fan[e].deferred
        /\ \A p \in Targets : f.leg[p] \in {"pending", "none"}
    OBVIOUS
  <2>. HIDE DEF f
  <2>5. /\ made \in TableSet /\ made.rt = s.rt /\ made.firing = s.firing
        /\ made.fired = s.fired /\ made.thrown = s.thrown
    BY <1>2, <2>3, TablesMade
  <2>. HIDE DEF made, r
  <2>6. s.fan[e].deferred = {} /\ \A p \in Targets : s.fan[e].leg[p] = "none"
    BY <1>4 DEF Sound, FanoutsFit
  <2>7. RowsFit(made.rt) /\ FanoutsFit(made.fan)
    BY <2>3, <2>4, <2>5 DEF Sound, RowsFit, FanoutsFit
  <2>8. \A d \in Events, q \in Targets :
           (s.fan[d].leg[q] \in Reported => made.fan[d].leg[q] = s.fan[d].leg[q])
           /\ (made.fan[d].leg[q] = "firing" => s.fan[d].leg[q] = "firing")
    BY <2>3, <2>4, <2>6 DEF Reported
  <2>9. FiringsFit(made.fan, made.firing)
    <3>1. \A i \in Ids : s.firing[i].at \in Events \cup {0}
      BY <1>1, RowFields
    <3>2. FiringsFit(s.fan, s.firing)
      BY DEF Sound
    <3>3. \A i \in Ids : s.firing[i].at # 0 =>
            /\ s.firing[i].p \in Targets
            /\ made.fan[s.firing[i].at].leg[s.firing[i].p] = "firing"
      BY <2>8, <3>1, <3>2 DEF FiringsFit, Reported
    <3>. QED  BY <2>5, <3>2, <3>3 DEF FiringsFit
  <2>10. Onward(s, made)
    <3>1. Grows(s, made)
      BY <2>3, <2>4, <2>5, <2>8 DEF Grows
    <3>2. FiresInTime(s, made)
      BY <2>8 DEF FiresInTime
    <3>. QED  BY <2>5, <3>1, <3>2 DEF Onward, ClockMoves
  <2>11. ClaimsNothing(s, made)
    BY <2>8 DEF ClaimsNothing
  <2>. QED  BY <1>4, <2>1, <2>3, <2>4, <2>5, <2>7, <2>9, <2>10, <2>11 DEF Sound, r
<1>. QED  BY <1>3, <1>4

Legs == {"none"} \cup Unclaimed \cup Reported

WithLeg(f, p, v) == [f EXCEPT !.leg[p] = v]

LEMMA LegSet ==
  ASSUME NEW f \in FanoutRow, NEW p \in Targets, NEW v \in Legs
  PROVE  LET g == WithLeg(f, p, v) IN
         /\ g \in FanoutRow /\ g.note = f.note /\ g.deferred = f.deferred
         /\ g.leg[p] = v /\ \A q \in Targets : q # p => g.leg[q] = f.leg[q]
<1>1. f = [note |-> f.note, leg |-> f.leg, deferred |-> f.deferred]
      /\ f.note \in {"none", "pending", "sending", "sent"}
      /\ f.leg \in [Targets -> Legs] /\ f.deferred \in SUBSET Targets
  BY DEF FanoutRow, Legs
<1>. DEFINE new == [f.leg EXCEPT ![p] = v]
            g == [note |-> f.note, leg |-> new, deferred |-> f.deferred]
<1>2. new \in [Targets -> Legs] /\ new[p] = v
      /\ \A q \in Targets : q # p => new[q] = f.leg[q]
  BY <1>1
<1>3. WithLeg(f, p, v) = g
  BY <1>1 DEF WithLeg
<1>. HIDE DEF new
<1>4. g \in FanoutRow
  BY <1>1, <1>2 DEF FanoutRow, Legs
<1>. QED  BY <1>2, <1>3, <1>4

LEMMA RowParts ==
  ASSUME NEW row \in RoutineRow
  PROVE  /\ row = [state |-> row.state, next |-> row.next, at |-> row.at,
                   fired |-> row.fired, counted |-> row.counted]
         /\ row.state \in {"active", "operator", "removed", "inactive", "expired"}
         /\ row.next \in Events \cup {0} /\ row.at \in Schedules
         /\ row.fired \in BOOLEAN /\ row.counted \in SUBSET Events
BY DEF RoutineRow

LEMMA RowMade ==
  ASSUME NEW a \in {"active", "operator", "removed", "inactive", "expired"},
         NEW b \in Events \cup {0}, NEW c \in Schedules, NEW d \in BOOLEAN,
         NEW e \in SUBSET Events
  PROVE  [state |-> a, next |-> b, at |-> c, fired |-> d, counted |-> e] \in RoutineRow
BY DEF RoutineRow

\* A clock moves on, or a one-shot expires.
LEMMA AdvancedRow ==
  ASSUME NEW row \in RoutineRow, row.state = "active", NEW next, Cron(row.at) => next \in Events
  PROVE  LET new == Advanced(row, next) IN
         /\ new \in RoutineRow /\ new.at = row.at /\ new.counted = row.counted
         /\ new.state = "active" => new.next # 0
         /\ new.state = "expired" => ~Cron(new.at)
         /\ Cron(row.at) => new.state = "active"
<1>1. Events \in SUBSET Nat /\ 0 \notin Events
  BY Bounds DEF Events
<1>2. CASE Cron(row.at)
  <2>1. Advanced(row, next) = [state |-> row.state, next |-> next, at |-> row.at,
                               fired |-> row.fired, counted |-> row.counted]
    BY <1>2, RowParts DEF Advanced
  <2>. HIDE DEF Advanced
  <2>2. Advanced(row, next) \in RoutineRow
    BY <1>2, <2>1, RowParts, RowMade
  <2>3. next # 0
    BY <1>1, <1>2
  <2>. QED  BY <1>2, <2>1, <2>2, <2>3
<1>3. CASE ~Cron(row.at)
  <2>1. Advanced(row, next) = [state |-> "expired", next |-> 0, at |-> row.at,
                               fired |-> row.fired, counted |-> row.counted]
    BY <1>3 DEF Advanced, RoutineRow
  <2>. HIDE DEF Advanced
  <2>2. Advanced(row, next) \in RoutineRow
    BY <2>1, RowParts, RowMade
  <2>. QED  BY <1>3, <2>1, <2>2
<1>. QED  BY <1>2, <1>3

LEMMA CountedRow ==
  ASSUME NEW row \in RoutineRow, row.state = "active", row.next \in Events,
         NEW next, Cron(row.at) => next \in Events
  PROVE  LET new == [Advanced(row, next) EXCEPT !.counted = @ \cup {row.next}] IN
         /\ RowGoesOn(row, new) /\ row.next \in new.counted
         /\ Cron(row.at) => new.state = "active"
<1>. DEFINE a == Advanced(row, next)
            new == [state |-> a.state, next |-> a.next, at |-> a.at, fired |-> a.fired,
                    counted |-> a.counted \cup {row.next}]
<1>1. /\ a \in RoutineRow /\ a.at = row.at /\ a.counted = row.counted
      /\ a.state = "active" => a.next # 0
      /\ a.state = "expired" => ~Cron(a.at)
      /\ Cron(row.at) => a.state = "active"
  BY AdvancedRow
<1>. HIDE DEF a
<1>2. /\ a = [state |-> a.state, next |-> a.next, at |-> a.at, fired |-> a.fired,
              counted |-> a.counted]
      /\ a.state \in {"active", "operator", "removed", "inactive", "expired"}
      /\ a.next \in Events \cup {0} /\ a.at \in Schedules
      /\ a.fired \in BOOLEAN /\ a.counted \in SUBSET Events
  BY <1>1, RowParts
<1>3. [a EXCEPT !.counted = @ \cup {row.next}] = new
  BY <1>2
<1>4. new \in RoutineRow
  <2>1. a.counted \cup {row.next} \in SUBSET Events
    BY <1>2
  <2>. QED  BY <1>2, <2>1, RowMade
<1>5. new.state = a.state /\ new.next = a.next /\ new.at = a.at
      /\ new.counted = a.counted \cup {row.next}
  OBVIOUS
<1>. HIDE DEF new
<1>6. RowGoesOn(row, new) /\ row.next \in new.counted
  BY <1>1, <1>4, <1>5 DEF RowGoesOn
<1>. QED  BY <1>1, <1>3, <1>5, <1>6 DEF a

\* Of every other Project, an operation changes nothing.
Elsewhere(s, r, p) ==
  /\ \A q \in Targets : q # p =>
       r.rt[q] = s.rt[q] /\ \A d \in Events : r.fan[d].leg[q] = s.fan[d].leg[q]
  /\ \A d \in Events : r.fan[d].deferred = s.fan[d].deferred

LEMMA SettleStep ==
  ASSUME NEW s, Sound(s), NEW p \in Targets, s.rt[p].state = "active",
         NEW settleLeg \in BOOLEAN, NEW disposition \in {"skipped", "missed"},
         NEW next, Cron(s.rt[p].at) => next \in Events
  PROVE  LET r == settleDueRoutineEvent(s, p, settleLeg, disposition, next) IN
         /\ Sound(r) /\ Onward(s, r) /\ r.firing = s.firing /\ Elsewhere(s, r, p)
         /\ ClaimsNothing(s, r)
         /\ r.thrown \/ s.rt[p].next \in r.rt[p].counted
         /\ s.thrown => r.thrown
         /\ Cron(s.rt[p].at) => r.rt[p].state = "active"
<1>. DEFINE r == settleDueRoutineEvent(s, p, settleLeg, disposition, next)
            e == s.rt[p].next
            row == [Advanced(s.rt[p], next) EXCEPT !.counted = @ \cup {e}]
            v == IF settleLeg THEN disposition ELSE s.fan[e].leg[p]
            f == WithLeg(s.fan[e], p, v)
            made == [rt |-> [s.rt EXCEPT ![p] = row], fan |-> [s.fan EXCEPT ![e] = f],
                     firing |-> s.firing, fired |-> s.fired, thrown |-> s.thrown]
<1>1. /\ s \in TableSet /\ s.rt \in RowTable /\ s.fan \in FanoutTable
      /\ s.firing \in FiringTable /\ s.fired \in SUBSET Ids /\ s.thrown \in BOOLEAN
      /\ s = [rt |-> s.rt, fan |-> s.fan, firing |-> s.firing,
              fired |-> s.fired, thrown |-> s.thrown]
  BY TableFields DEF Sound
<1>2. s.rt[p] \in RoutineRow /\ e \in Events /\ s.fan[e] \in FanoutRow
  BY <1>1, RowFields DEF Sound, RowsFit
<1>3. CASE settleLeg /\ s.fan[e].leg[p] \notin Unclaimed
  <2>. DEFINE same == [rt |-> s.rt, fan |-> s.fan, firing |-> s.firing,
                       fired |-> s.fired, thrown |-> TRUE]
  <2>1. r = same
    BY <1>1, <1>3 DEF settleDueRoutineEvent
  <2>2. /\ same \in TableSet /\ same.rt = s.rt /\ same.fan = s.fan
        /\ same.firing = s.firing /\ same.thrown
    BY <1>1, TablesMade
  <2>. HIDE DEF same, r
  <2>3. Sound(same) /\ Onward(s, same)
    <3>1. Onward(s, s)
      BY OnwardStays
    <3>. QED  BY <2>2, <3>1 DEF Sound, Onward, Grows, FiresInTime, ClockMoves, Taken
  <2>. QED  BY <1>3, <2>1, <2>2, <2>3 DEF Elsewhere, ClaimsNothing, r
<1>4. CASE ~(settleLeg /\ s.fan[e].leg[p] \notin Unclaimed)
  <2>1. r = made
    <3>1. r = [s EXCEPT !.rt[p] = row,
                        !.fan[e].leg[p] = IF settleLeg THEN disposition ELSE @]
      BY <1>4 DEF settleDueRoutineEvent
    <3>. HIDE DEF row, r
    <3>. QED  BY <1>1, <3>1 DEF WithLeg
  <2>2. /\ RowGoesOn(s.rt[p], row) /\ e \in row.counted
        /\ Cron(s.rt[p].at) => row.state = "active"
    BY <1>2, CountedRow
  <2>. HIDE DEF row, r
  <2>3. /\ v \in Legs
        /\ settleLeg => v = disposition
        /\ ~settleLeg => v = s.fan[e].leg[p]
    <3>1. s.fan[e].leg[p] \in Legs
      BY <1>1, <1>2, RowFields DEF Legs
    <3>. QED  BY <3>1 DEF Legs, Reported
  <2>. HIDE DEF v
  <2>4. /\ f \in FanoutRow /\ f.note = s.fan[e].note /\ f.deferred = s.fan[e].deferred
        /\ f.leg[p] = v /\ \A q \in Targets : q # p => f.leg[q] = s.fan[e].leg[q]
    BY <1>2, <2>3, LegSet
  <2>5. LegGoesOn(s.fan[e], f, p)
    <3>1. ~settleLeg => f = s.fan[e]
      <4>1. s.fan[e] = [note |-> s.fan[e].note, leg |-> s.fan[e].leg,
                        deferred |-> s.fan[e].deferred]
            /\ s.fan[e].leg \in [Targets -> Legs]
        BY <1>2 DEF FanoutRow, Legs
      <4>2. [s.fan[e].leg EXCEPT ![p] = s.fan[e].leg[p]] = s.fan[e].leg
        BY <4>1
      <4>. QED  BY <2>3, <4>1, <4>2 DEF WithLeg
    <3>2. settleLeg => s.fan[e].leg[p] \in Unclaimed /\ s.fan[e].note # "none"
      BY <1>2, <1>4 DEF Sound, FanoutsFit, Unclaimed
    <3>. HIDE DEF f
    <3>3. CASE settleLeg
      BY <2>3, <2>4, <3>2, <3>3 DEF LegGoesOn
    <3>4. CASE ~settleLeg
      BY <2>4, <3>1, <3>4 DEF LegGoesOn
    <3>. QED  BY <3>3, <3>4
  <2>. HIDE DEF f
  <2>6. /\ made.rt \in RowTable /\ made.rt[p] = row
        /\ \A q \in Targets : q # p => made.rt[q] = s.rt[q]
    BY <1>1, <2>2 DEF RowTable, RowGoesOn
  <2>7. /\ made.fan \in FanoutTable /\ made.fan[e] = f
        /\ \A d \in Events : d # e => made.fan[d] = s.fan[d]
    BY <1>1, <1>2, <2>4 DEF FanoutTable
  <2>8. /\ made \in TableSet /\ made.firing = s.firing /\ made.thrown = s.thrown
        /\ made.rt = [s.rt EXCEPT ![p] = row] /\ made.fan = [s.fan EXCEPT ![e] = f]
    BY <1>1, <2>6, <2>7, TablesMade
  <2>. HIDE DEF made
  <2>9. Sound(made) /\ Onward(s, made)
    BY <1>2, <2>2, <2>5, <2>8, LegStep
  <2>10. Elsewhere(s, made, p)
    BY <2>4, <2>6, <2>7 DEF Elsewhere
  <2>11. ClaimsNothing(s, made)
    BY <2>3, <2>4, <2>7 DEF ClaimsNothing
  <2>. QED  BY <2>1, <2>2, <2>6, <2>8, <2>9, <2>10, <2>11 DEF r
<1>. QED  BY <1>3, <1>4

LEMMA LegOnlyStep ==
  ASSUME NEW s, Sound(s), NEW p \in Targets, NEW e \in Events, NEW f,
         LegGoesOn(s.fan[e], f, p)
  PROVE  LET r == [rt |-> s.rt, fan |-> [s.fan EXCEPT ![e] = f], firing |-> s.firing,
                   fired |-> s.fired, thrown |-> s.thrown] IN
         Sound(r) /\ Onward(s, r)
<1>. DEFINE r == [rt |-> s.rt, fan |-> [s.fan EXCEPT ![e] = f], firing |-> s.firing,
                  fired |-> s.fired, thrown |-> s.thrown]
<1>1. /\ s \in TableSet /\ s.rt \in RowTable /\ s.fan \in FanoutTable
      /\ s.firing \in FiringTable /\ s.fired \in SUBSET Ids /\ s.thrown \in BOOLEAN
  BY TableFields DEF Sound
<1>2. [s.rt EXCEPT ![p] = s.rt[p]] = s.rt
  BY <1>1 DEF RowTable
<1>3. RowGoesOn(s.rt[p], s.rt[p])
  BY <1>1, RowFields DEF RowGoesOn, Sound, RowsFit
<1>4. [s.fan EXCEPT ![e] = f] \in FanoutTable
  BY <1>1 DEF FanoutTable, LegGoesOn
<1>5. /\ r \in TableSet /\ r.rt = [s.rt EXCEPT ![p] = s.rt[p]]
      /\ r.fan = [s.fan EXCEPT ![e] = f] /\ r.firing = s.firing
  BY <1>1, <1>2, <1>4, TablesMade
<1>. HIDE DEF r
<1>6. Sound(r) /\ Onward(s, r)
  BY <1>3, <1>5, LegStep
<1>. QED  BY <1>6 DEF r

LEMMA HoldStep ==
  ASSUME NEW s, Sound(s), NEW p \in Targets, NEW e \in Events
  PROVE  LET r == holdRoutineFanoutTarget(s, p, e) IN
         /\ Sound(r) /\ Onward(s, r) /\ r.firing = s.firing /\ r.rt = s.rt
         /\ r.thrown = s.thrown
<1>. DEFINE r == holdRoutineFanoutTarget(s, p, e)
            v == IF s.fan[e].leg[p] \in Unclaimed THEN "held" ELSE s.fan[e].leg[p]
            f == WithLeg(s.fan[e], p, v)
            made == [rt |-> s.rt, fan |-> [s.fan EXCEPT ![e] = f], firing |-> s.firing,
                     fired |-> s.fired, thrown |-> s.thrown]
<1>1. /\ s = [rt |-> s.rt, fan |-> s.fan, firing |-> s.firing,
              fired |-> s.fired, thrown |-> s.thrown]
      /\ s \in TableSet
  BY TableFields DEF Sound
<1>2. s.fan[e] \in FanoutRow /\ s.fan[e].leg[p] \in Legs
  BY <1>1, RowFields DEF Legs
<1>3. r = made
  BY <1>1 DEF holdRoutineFanoutTarget, WithLeg
<1>4. /\ v \in Legs
      /\ v = s.fan[e].leg[p] \/ (s.fan[e].leg[p] \in Unclaimed /\ v = "held")
  BY <1>2 DEF Legs, Unclaimed
<1>. HIDE DEF v, r
<1>5. /\ f \in FanoutRow /\ f.note = s.fan[e].note /\ f.deferred = s.fan[e].deferred
      /\ f.leg[p] = v /\ \A q \in Targets : q # p => f.leg[q] = s.fan[e].leg[q]
  BY <1>2, <1>4, LegSet
<1>6. s.fan[e].note = "none" => f = s.fan[e]
  <2>. HAVE s.fan[e].note = "none"
  <2>1. v = s.fan[e].leg[p]
    BY <1>4 DEF Sound, FanoutsFit, Unclaimed
  <2>2. /\ s.fan[e] = [note |-> s.fan[e].note, leg |-> s.fan[e].leg,
                       deferred |-> s.fan[e].deferred]
        /\ s.fan[e].leg \in [Targets -> Legs]
    BY <1>2 DEF FanoutRow, Legs
  <2>3. [s.fan[e].leg EXCEPT ![p] = s.fan[e].leg[p]] = s.fan[e].leg
    BY <2>2
  <2>. QED  BY <2>1, <2>2, <2>3 DEF WithLeg
<1>. HIDE DEF f
<1>7. LegGoesOn(s.fan[e], f, p)
  BY <1>4, <1>5, <1>6 DEF LegGoesOn
<1>8. Sound(made) /\ Onward(s, made)
  BY <1>7, LegOnlyStep
<1>. QED  BY <1>3, <1>8 DEF r

LEMMA DeferStep ==
  ASSUME NEW s, Sound(s), NEW p \in Targets, NEW e \in Events
  PROVE  LET r == deferRoutineFanoutTarget(s, p, e) IN
         /\ Sound(r) /\ Onward(s, r) /\ r.firing = s.firing /\ r.rt = s.rt
         /\ r.thrown = s.thrown
<1>. DEFINE r == deferRoutineFanoutTarget(s, p, e)
            g == WithLeg(s.fan[e], p, "pending")
            f == [note |-> g.note, leg |-> g.leg, deferred |-> g.deferred \cup {p}]
            made == [rt |-> s.rt, fan |-> [s.fan EXCEPT ![e] = f], firing |-> s.firing,
                     fired |-> s.fired, thrown |-> s.thrown]
<1>1. /\ s = [rt |-> s.rt, fan |-> s.fan, firing |-> s.firing,
              fired |-> s.fired, thrown |-> s.thrown]
      /\ s \in TableSet /\ s.fan \in FanoutTable
  BY TableFields DEF Sound
<1>2. s.fan[e] \in FanoutRow
  BY <1>1, RowFields
<1>3. CASE s.fan[e].leg[p] \notin Unclaimed
  BY <1>3, OnwardStays DEF deferRoutineFanoutTarget
<1>4. CASE s.fan[e].leg[p] \in Unclaimed
  <2>1. /\ g \in FanoutRow /\ g.note = s.fan[e].note /\ g.deferred = s.fan[e].deferred
        /\ g.leg[p] = "pending" /\ \A q \in Targets : q # p => g.leg[q] = s.fan[e].leg[q]
    BY <1>2, LegSet DEF Legs, Unclaimed
  <2>2. [g EXCEPT !.deferred = @ \cup {p}] = f
    BY <2>1 DEF FanoutRow
  <2>3. r = made
    <3>1. r = [s EXCEPT !.fan[e].leg[p] = "pending", !.fan[e].deferred = @ \cup {p}]
      BY <1>4 DEF deferRoutineFanoutTarget
    <3>2. [s EXCEPT !.fan[e].leg[p] = "pending"]
            = [s EXCEPT !.fan = [s.fan EXCEPT ![e] = g]]
      BY <1>1 DEF WithLeg
    <3>. HIDE DEF g, f
    <3>. DEFINE h == [s.fan EXCEPT ![e] = g]
    <3>3. h[e] = g /\ [h EXCEPT ![e] = f] = [s.fan EXCEPT ![e] = f]
      BY <1>1 DEF FanoutTable
    <3>4. [s EXCEPT !.fan = h]
            = [rt |-> s.rt, fan |-> h, firing |-> s.firing,
               fired |-> s.fired, thrown |-> s.thrown]
      BY <1>1
    <3>5. r = [[s EXCEPT !.fan = h] EXCEPT !.fan[e].deferred = @ \cup {p}]
      <4>1. r = [[s EXCEPT !.fan[e].leg[p] = "pending"] EXCEPT !.fan[e].deferred = @ \cup {p}]
        BY <1>4 DEF deferRoutineFanoutTarget
      <4>. QED  BY <4>1, <3>2
    <3>. HIDE DEF h
    <3>6. [h EXCEPT ![e].deferred = @ \cup {p}] = [h EXCEPT ![e] = f]
      BY <2>2, <3>3
    <3>. QED  BY <3>3, <3>4, <3>5, <3>6
  <2>4. f \in FanoutRow /\ f.note = g.note /\ f.leg = g.leg
        /\ f.deferred = g.deferred \cup {p}
    BY <2>1 DEF FanoutRow
  <2>5. s.fan[e].note # "none"
    BY <1>4 DEF Sound, FanoutsFit, Unclaimed
  <2>. HIDE DEF f, g, r
  <2>6. LegGoesOn(s.fan[e], f, p)
    BY <1>4, <2>1, <2>4, <2>5 DEF LegGoesOn
  <2>7. Sound(made) /\ Onward(s, made)
    BY <2>6, LegOnlyStep
  <2>. QED  BY <2>3, <2>7 DEF r
<1>. QED  BY <1>3, <1>4

LEMMA NextIdIsFree ==
  ASSUME NEW s, FreeIds(s) # {}
  PROVE  NextId(s) \in FreeIds(s)
<1>1. FreeIds(s) \in SUBSET Nat
  BY Bounds DEF FreeIds, Ids
<1>2. \E i \in FreeIds(s) : \A j \in FreeIds(s) : i <= j
  BY <1>1, LeastOf
<1>. QED  BY <1>2 DEF NextId

ClaimedRow(row) == [Advanced(row, nextRecurringFireAt(now)) EXCEPT !.fired = TRUE]

LEMMA ClaimedRowFits ==
  ASSUME NEW row \in RoutineRow, row.state = "active", now \in 0 .. MaxNow
  PROVE  LET new == ClaimedRow(row) IN
         /\ new \in RoutineRow /\ new.at = row.at /\ new.counted = row.counted
         /\ new.state = "active" => new.next # 0
         /\ new.state = "expired" => ~Cron(new.at)
<1>. DEFINE a == Advanced(row, nextRecurringFireAt(now))
            new == [state |-> a.state, next |-> a.next, at |-> a.at, fired |-> TRUE,
                    counted |-> a.counted]
<1>1. /\ a \in RoutineRow /\ a.at = row.at /\ a.counted = row.counted
      /\ a.state = "active" => a.next # 0
      /\ a.state = "expired" => ~Cron(a.at)
  BY AdvancedRow, ClocksAreEvents
<1>2. ClaimedRow(row) = [a EXCEPT !.fired = TRUE]
  BY DEF ClaimedRow
<1>. HIDE DEF a
<1>3. [a EXCEPT !.fired = TRUE] = new
  <2>1. /\ a = [state |-> a.state, next |-> a.next, at |-> a.at, fired |-> a.fired,
                counted |-> a.counted]
        /\ a.fired \in BOOLEAN
    BY <1>1, RowParts
  <2>2. \A b : [a EXCEPT !.fired = b]
                 = [state |-> a.state, next |-> a.next, at |-> a.at, fired |-> b,
                    counted |-> a.counted]
    BY <2>1
  <2>. QED  BY <2>2
<1>4. new \in RoutineRow
  BY <1>1, RowParts, RowMade
<1>. QED  BY <1>1, <1>2, <1>3, <1>4

ClaimedFirings(s, p) == [s.firing EXCEPT ![NextId(s)] = NewFiring(p, s.rt[p].next)]

\* The firing a claim inserts is the only one of its event, and of its Project
\* where firings may not overlap.
LEMMA ClaimedFiringsFit ==
  ASSUME NEW s, Sound(s), NEW p \in Targets, s.rt[p].next \in Events,
         s.fan[s.rt[p].next].leg[p] \in Unclaimed, FreeIds(s) # {},
         allowOverlap \/ ~hasActiveRoutineFiring(s, p),
         NEW fans,
         fans[s.rt[p].next].leg[p] = "firing",
         \A d \in Events, q \in Targets :
           s.fan[d].leg[q] = "firing" => fans[d].leg[q] = "firing"
  PROVE  LET c == ClaimedFirings(s, p) IN
         /\ c \in FiringTable /\ FiringsFit(fans, c)
         /\ c[NextId(s)].p = p /\ c[NextId(s)].at = s.rt[p].next
         /\ c[NextId(s)].state = "active"
         /\ NextId(s) \in FreeIds(s) /\ \A i \in Ids : i # NextId(s) => c[i] = s.firing[i]
<1>. DEFINE e == s.rt[p].next  id == NextId(s)  c == ClaimedFirings(s, p)
<1>1. /\ s \in TableSet /\ s.firing \in FiringTable /\ FiringsFit(s.fan, s.firing)
  BY TableFields DEF Sound
<1>2. id \in FreeIds(s) /\ id \in Ids /\ s.firing[id].state = "none"
  BY NextIdIsFree DEF FreeIds
<1>3. NewFiring(p, e) \in FiringRow /\ NewFiring(p, e).p = p /\ NewFiring(p, e).at = e
      /\ NewFiring(p, e).state = "active"
  BY DEF NewFiring, FiringRow
<1>4. /\ c \in FiringTable /\ c[id] = NewFiring(p, e)
      /\ \A i \in Ids : i # id => c[i] = s.firing[i]
  BY <1>1, <1>2, <1>3 DEF ClaimedFirings, FiringTable
<1>. HIDE DEF c, id
<1>5. \A i \in Ids : /\ s.firing[i].at \in Events \cup {0}
                     /\ s.firing[i].state \in {"none", "active", "over"}
  BY <1>1, RowFields
<1>6. 0 \notin Events
  BY Bounds DEF Events
<1>7. \A i \in Ids : c[i].state = "none" => c[i].at = 0
  BY <1>1, <1>3, <1>4 DEF FiringsFit
<1>8. \A i \in Ids : c[i].at # 0 =>
        c[i].p \in Targets /\ fans[c[i].at].leg[c[i].p] = "firing"
  <2>. SUFFICES ASSUME NEW i \in Ids, c[i].at # 0
                PROVE  c[i].p \in Targets /\ fans[c[i].at].leg[c[i].p] = "firing"
    OBVIOUS
  <2>1. CASE i = id
    BY <1>3, <1>4, <2>1
  <2>2. CASE i # id
    <3>1. /\ c[i] = s.firing[i] /\ s.firing[i].p \in Targets /\ s.firing[i].at \in Events
          /\ s.fan[s.firing[i].at].leg[s.firing[i].p] = "firing"
      BY <1>1, <1>4, <1>5, <2>2 DEF FiringsFit
    <3>. QED  BY <3>1
  <2>. QED  BY <2>1, <2>2
\* No earlier firing is of this event: its leg would not be unclaimed.
<1>9. \A i \in Ids : ~SameEvent(s.firing[i], NewFiring(p, e))
  <2>. SUFFICES ASSUME NEW i \in Ids, SameEvent(s.firing[i], NewFiring(p, e)) PROVE FALSE
    OBVIOUS
  <2>1. s.firing[i].p = p /\ s.firing[i].at = e /\ e # 0
    BY <1>3, <1>6 DEF SameEvent
  <2>. QED  BY <1>1, <2>1 DEF FiringsFit, Unclaimed
<1>10. \A i, j \in Ids : c[i].at # 0 /\ SameEvent(c[i], c[j]) => i = j
  <2>. SUFFICES ASSUME NEW i \in Ids, NEW j \in Ids, c[i].at # 0, SameEvent(c[i], c[j]), i # j
                PROVE  FALSE
    OBVIOUS
  <2>1. CASE i = id
    BY <1>4, <1>9, <2>1 DEF SameEvent
  <2>2. CASE j = id
    BY <1>4, <1>9, <2>2 DEF SameEvent
  <2>3. CASE i # id /\ j # id
    BY <1>1, <1>4, <2>3 DEF FiringsFit
  <2>. QED  BY <2>1, <2>2, <2>3
<1>11. allowOverlap \/ \A i, j \in Ids : BothLive(c[i], c[j]) => i = j
  <2>. SUFFICES ASSUME ~allowOverlap, NEW i \in Ids, NEW j \in Ids, BothLive(c[i], c[j]), i # j
                PROVE  FALSE
    OBVIOUS
  <2>0. \A k \in Ids : ~(s.firing[k].p = p /\ s.firing[k].state = "active")
    BY DEF hasActiveRoutineFiring
  <2>1. CASE i = id
    BY <1>3, <1>4, <2>0, <2>1 DEF BothLive
  <2>2. CASE j = id
    BY <1>3, <1>4, <2>0, <2>2 DEF BothLive
  <2>3. CASE i # id /\ j # id
    BY <1>1, <1>4, <2>3 DEF FiringsFit
  <2>. QED  BY <2>1, <2>2, <2>3
<1>12. FiringsFit(fans, c)
  BY <1>7, <1>8, <1>10, <1>11 DEF FiringsFit
<1>. QED  BY <1>2, <1>3, <1>4, <1>12 DEF c, id

LEMMA ClaimStep ==
  ASSUME NEW s, Sound(s), NEW p \in Targets, s.rt[p].state = "active",
         now \in 0 .. MaxNow, FreeIds(s) # {},
         allowOverlap \/ ~hasActiveRoutineFiring(s, p),
         p \in s.fan[s.rt[p].next].deferred /\ s.fan[s.rt[p].next].leg[p] \in Unclaimed
           => now < deferralDeadline(s.rt[p], s.rt[p].next)
  PROVE  LET r == claimRoutineFiring(s, p, s.rt[p].next) IN
         /\ Sound(r) /\ Onward(s, r) /\ r.thrown = s.thrown
         /\ r.firing = s.firing \/ \E i \in FreeIds(s) : FreeIds(r) = FreeIds(s) \ {i}
<1>. DEFINE e == s.rt[p].next
            r == claimRoutineFiring(s, p, e)
            id == NextId(s)
            row == ClaimedRow(s.rt[p])
            f == WithLeg(s.fan[e], p, "firing")
            c == ClaimedFirings(s, p)
            made == [rt |-> [s.rt EXCEPT ![p] = row], fan |-> [s.fan EXCEPT ![e] = f],
                     firing |-> c, fired |-> s.fired \cup {id}, thrown |-> s.thrown]
<1>1. /\ s \in TableSet /\ s.rt \in RowTable /\ s.fan \in FanoutTable
      /\ s.firing \in FiringTable /\ s.fired \in SUBSET Ids /\ s.thrown \in BOOLEAN
      /\ s = [rt |-> s.rt, fan |-> s.fan, firing |-> s.firing,
              fired |-> s.fired, thrown |-> s.thrown]
  BY TableFields DEF Sound
<1>2. s.rt[p] \in RoutineRow /\ e \in Events /\ s.fan[e] \in FanoutRow
  BY <1>1, RowFields DEF Sound, RowsFit
<1>3. CASE s.fan[e].leg[p] \notin Unclaimed
  <2>1. r = s
    BY <1>3 DEF claimRoutineFiring
  <2>. QED  BY <2>1, OnwardStays
<1>4. CASE s.fan[e].leg[p] \in Unclaimed
  <2>1. r = made
    <3>1. r = [s EXCEPT !.rt[p] = [Advanced(@, nextRecurringFireAt(now)) EXCEPT !.fired = TRUE],
                        !.fan[e].leg[p] = "firing",
                        !.firing[id] = NewFiring(p, e),
                        !.fired = @ \cup {id}]
      BY <1>4 DEF claimRoutineFiring
    <3>. HIDE DEF id, r
    <3>. QED  BY <1>1, <3>1 DEF ClaimedRow, WithLeg, ClaimedFirings, id
  <2>2. /\ row \in RoutineRow /\ row.at = s.rt[p].at /\ row.counted = s.rt[p].counted
        /\ row.state = "active" => row.next # 0
        /\ row.state = "expired" => ~Cron(row.at)
    BY <1>2, ClaimedRowFits
  <2>3. /\ f \in FanoutRow /\ f.note = s.fan[e].note /\ f.deferred = s.fan[e].deferred
        /\ f.leg[p] = "firing" /\ \A q \in Targets : q # p => f.leg[q] = s.fan[e].leg[q]
    BY <1>2, LegSet DEF Legs, Reported
  <2>. HIDE DEF row, f, r
  <2>4. /\ made.rt \in RowTable /\ made.rt[p] = row
        /\ \A q \in Targets : q # p => made.rt[q] = s.rt[q]
    BY <1>1, <2>2 DEF RowTable
  <2>5. /\ made.fan \in FanoutTable /\ made.fan[e] = f
        /\ \A d \in Events : d # e => made.fan[d] = s.fan[d]
    BY <1>1, <1>2, <2>3 DEF FanoutTable
  <2>6. \A d \in Events, q \in Targets :
          s.fan[d].leg[q] = "firing" => made.fan[d].leg[q] = "firing"
    BY <1>4, <2>3, <2>5 DEF Unclaimed
  <2>7. /\ c \in FiringTable /\ FiringsFit(made.fan, c)
        /\ c[id].p = p /\ c[id].at = e /\ c[id].state = "active"
        /\ id \in FreeIds(s) /\ \A i \in Ids : i # id => c[i] = s.firing[i]
    <3>1. made.fan[e].leg[p] = "firing"
      BY <2>3, <2>5
    <3>. HIDE DEF made, c, id
    <3>2. PICK fans : fans = made.fan
      OBVIOUS
    <3>3. /\ fans[e].leg[p] = "firing"
          /\ \A d \in Events, q \in Targets :
               s.fan[d].leg[q] = "firing" => fans[d].leg[q] = "firing"
      BY <2>6, <3>1, <3>2
    <3>4. /\ c \in FiringTable /\ FiringsFit(fans, c)
          /\ c[id].p = p /\ c[id].at = e /\ c[id].state = "active"
          /\ id \in FreeIds(s) /\ \A i \in Ids : i # id => c[i] = s.firing[i]
      BY <1>2, <1>4, <3>3, ClaimedFiringsFit DEF c, id
    <3>. QED  BY <3>2, <3>4
  <2>. HIDE DEF c
  <2>8. id \in Ids /\ s.firing[id].state = "none"
    BY <2>7 DEF FreeIds
  <2>. HIDE DEF id
  <2>9. made \in TableSet /\ made.firing = c /\ made.thrown = s.thrown
    BY <1>1, <2>4, <2>5, <2>7, <2>8, TablesMade
  <2>. HIDE DEF made
  <2>10. Sound(made)
    <3>1. RowsFit(made.rt)
      BY <2>2, <2>4 DEF Sound, RowsFit
    <3>2. FanoutsFit(made.fan)
      <4>1. f.note # "none"
        BY <1>2, <1>4, <2>3 DEF Sound, FanoutsFit, Unclaimed
      <4>. QED  BY <2>5, <4>1 DEF Sound, FanoutsFit
    <3>. QED  BY <2>7, <2>9, <3>1, <3>2 DEF Sound
  <2>11. Grows(s, made)
    <3>1. \A d \in Events : s.fan[d].deferred \subseteq made.fan[d].deferred
      BY <2>3, <2>5
    <3>2. \A d \in Events, q \in Targets :
            s.fan[d].leg[q] \in Reported => made.fan[d].leg[q] = s.fan[d].leg[q]
      BY <1>4, <2>3, <2>5 DEF Unclaimed, Reported
    <3>3. \A i \in Ids : s.firing[i].state # "none" => made.firing[i] = s.firing[i]
      BY <2>7, <2>8, <2>9
    <3>4. \A q \in Targets : s.rt[q].counted \subseteq made.rt[q].counted
      BY <2>2, <2>4
    <3>. QED  BY <3>1, <3>2, <3>3, <3>4 DEF Grows
  <2>12. FiresInTime(s, made)
    <3>. SUFFICES ASSUME NEW d \in Events, NEW q \in Targets, q \in s.fan[d].deferred,
                         s.fan[d].leg[q] # "firing", made.fan[d].leg[q] = "firing"
                  PROVE  now < deferralDeadline(s.rt[q], d)
      BY DEF FiresInTime
    <3>1. d = e /\ q = p
      BY <2>3, <2>5
    <3>. QED  BY <1>4, <3>1
  <2>13. \A q \in Targets : ClockMoves(s, made, q)
    <3>1. Taken(made, p, e)
      BY <2>7, <2>8, <2>9 DEF Taken
    <3>. QED  BY <2>2, <2>4, <3>1 DEF ClockMoves
  <2>14. FreeIds(made) = FreeIds(s) \ {id}
    BY <2>7, <2>8, <2>9 DEF FreeIds
  <2>15. Onward(s, made)
    BY <2>11, <2>12, <2>13 DEF Onward
  <2>. QED  BY <2>1, <2>7, <2>9, <2>10, <2>14, <2>15 DEF r
<1>. QED  BY <1>3, <1>4

-----------------------------------------------------------------------------
(* One due target.                                                         *)

SameRoom(s, r) == FreeIds(r) = FreeIds(s)
TakesOne(s, r) == \E i \in FreeIds(s) : FreeIds(r) = FreeIds(s) \ {i}

LEMMA SameFiringsSameRoom ==
  ASSUME NEW s, NEW r, r.firing = s.firing
  PROVE  SameRoom(s, r)
BY DEF SameRoom, FreeIds

DueOutcome(x, r, p, refused, missing) ==
  /\ Sound(r) /\ Onward(x, r)
  /\ \/ SameRoom(x, r)
     \/ p \notin refused \cup missing /\ TakesOne(x, r)

LEMMA DueStep ==
  ASSUME NEW x, Sound(x), NEW p \in Targets, now \in 0 .. MaxNow,
         NEW refused, NEW missing, p \in refused \cup missing \/ FreeIds(x) # {}
  PROVE  DueOutcome(x, DueTarget(x, p, refused, missing), p, refused, missing)
<1>. DEFINE r == DueTarget(x, p, refused, missing)
            row == x.rt[p]
            e == row.next
            members == {q \in Targets : x.rt[q].state = "active" /\ x.rt[q].next = e}
            s == ensureRoutineFanout(x, e, members)
            late == now >= deferralDeadline(row, e)
            soon == nextRecurringFireAt(now)
            Idle == x.thrown \/ mode[p] = "projectOff" \/ ~Due(row)
            Busy == ~allowOverlap /\ hasActiveRoutineFiring(s, p)
            A1 == s.fan[e].leg[p] = "none"
            A2 == Parked(s, p, e) /\ late
            A4 == p \in missing
            A5 == p \in refused /\ late
            A6 == p \in refused
<1>1. CASE Idle
  <2>1. r = x
    BY <1>1 DEF DueTarget
  <2>2. SameRoom(x, x)
    BY DEF SameRoom
  <2>. QED  BY <2>1, <2>2, OnwardStays DEF DueOutcome
<1>2. CASE ~Idle
  <2>1. row.state = "active" /\ x \in TableSet
    BY <1>2 DEF Due, Sound
  <2>2. e \in Events
    BY <2>1, RowFields DEF Sound, RowsFit
  <2>3. Cron(row.at) => missedClockAdvance(e) \in Events
    BY <1>2, <2>2, ClocksAreEvents DEF Due
  <2>4. soon \in Events
    BY ClocksAreEvents
  <2>5. /\ r = IF Idle THEN x
               ELSE IF A1 THEN settleDueRoutineEvent(s, p, FALSE, "skipped", soon)
               ELSE IF A2 THEN settleDueRoutineEvent(s, p, TRUE, "missed", missedClockAdvance(e))
               ELSE IF Busy THEN settleDueRoutineEvent(s, p, TRUE, "skipped", soon)
               ELSE IF A4 THEN holdRoutineFanoutTarget(s, p, e)
               ELSE IF A6 THEN IF late
                               THEN settleDueRoutineEvent(s, p, TRUE, "missed", missedClockAdvance(e))
                               ELSE deferRoutineFanoutTarget(s, p, e)
               ELSE claimRoutineFiring(s, p, e)
    BY DEF DueTarget
  <2>. HIDE DEF r, members
  <2>6. /\ Sound(s) /\ Onward(x, s) /\ s.rt = x.rt /\ s.firing = x.firing
    BY <2>2, EnsureStep
  <2>7. /\ s.rt[p].state = "active" /\ s.rt[p].next = e /\ s.rt[p] = row
        /\ s.rt[p].next \in Events
    BY <2>1, <2>2, <2>6
  <2>8. SameRoom(x, s) /\ FreeIds(s) = FreeIds(x)
    BY <2>6 DEF SameRoom, FreeIds
  <2>. HIDE DEF s
  \* Whatever keeps the firings keeps the room.
  <2>9. ASSUME NEW t, Sound(t), Onward(s, t), t.firing = s.firing
        PROVE  DueOutcome(x, t, p, refused, missing)
    <3>1. SameRoom(x, t)
      BY <2>6, <2>9 DEF SameRoom, FreeIds
    <3>. QED  BY <2>6, <2>9, <3>1, OnwardGoesOn DEF DueOutcome
  <2>10. \A settleLeg \in BOOLEAN, disposition \in {"skipped", "missed"} : \A next :
           (Cron(row.at) => next \in Events)
           => DueOutcome(x, settleDueRoutineEvent(s, p, settleLeg, disposition, next),
                         p, refused, missing)
    <3>. SUFFICES ASSUME NEW settleLeg \in BOOLEAN, NEW disposition \in {"skipped", "missed"},
                         NEW next, Cron(row.at) => next \in Events
                  PROVE  DueOutcome(x, settleDueRoutineEvent(s, p, settleLeg, disposition, next),
                                    p, refused, missing)
      OBVIOUS
    <3>. DEFINE t == settleDueRoutineEvent(s, p, settleLeg, disposition, next)
    <3>1. Sound(t) /\ Onward(s, t) /\ t.firing = s.firing
      BY <2>6, <2>7, SettleStep
    <3>. HIDE DEF t
    <3>2. DueOutcome(x, t, p, refused, missing)
      BY <2>9, <3>1
    <3>. QED  BY <3>2 DEF t
  <2>11. CASE A1
    <3>1. r = settleDueRoutineEvent(s, p, FALSE, "skipped", soon)
      BY <1>2, <2>5, <2>11
    <3>. QED  BY <2>4, <2>10, <3>1 DEF r
  <2>12. CASE ~A1 /\ A2
    <3>1. r = settleDueRoutineEvent(s, p, TRUE, "missed", missedClockAdvance(e))
      BY <1>2, <2>5, <2>12
    <3>. QED  BY <2>3, <2>10, <3>1 DEF r
  <2>13. CASE ~A1 /\ ~A2 /\ Busy
    <3>1. r = settleDueRoutineEvent(s, p, TRUE, "skipped", soon)
      BY <1>2, <2>5, <2>13
    <3>. QED  BY <2>4, <2>10, <3>1 DEF r
  <2>14. CASE ~A1 /\ ~A2 /\ ~Busy /\ A4
    <3>1. r = holdRoutineFanoutTarget(s, p, e)
      BY <1>2, <2>5, <2>14
    <3>2. Sound(r) /\ Onward(s, r) /\ r.firing = s.firing
      BY <2>2, <2>6, <3>1, HoldStep
    <3>. QED  BY <2>9, <3>2 DEF r
  <2>15. CASE ~A1 /\ ~A2 /\ ~Busy /\ ~A4 /\ A5
    <3>1. r = settleDueRoutineEvent(s, p, TRUE, "missed", missedClockAdvance(e))
      BY <1>2, <2>5, <2>15
    <3>. QED  BY <2>3, <2>10, <3>1 DEF r
  <2>16. CASE ~A1 /\ ~A2 /\ ~Busy /\ ~A4 /\ ~A5 /\ A6
    <3>1. r = deferRoutineFanoutTarget(s, p, e)
      BY <1>2, <2>5, <2>16
    <3>2. Sound(r) /\ Onward(s, r) /\ r.firing = s.firing
      BY <2>2, <2>6, <3>1, DeferStep
    <3>. QED  BY <2>9, <3>2 DEF r
  <2>17. CASE ~A1 /\ ~A2 /\ ~Busy /\ ~A4 /\ ~A5 /\ ~A6
    <3>1. r = claimRoutineFiring(s, p, e)
      BY <1>2, <2>5, <2>17
    <3>2. FreeIds(s) # {} /\ p \notin refused \cup missing
      BY <2>8, <2>17
    <3>3. allowOverlap \/ ~hasActiveRoutineFiring(s, p)
      BY <2>17
    <3>4. p \in s.fan[e].deferred /\ s.fan[e].leg[p] \in Unclaimed
            => now < deferralDeadline(row, e)
      <4>1. e # 0
        BY <2>2, Bounds DEF Events
      <4>2. deferralDeadline(row, e) \in Int /\ now \in Int
        <5>1. nextRecurringFireAt(e) \in Int /\ e + Horizon \in Int /\ now \in Int
          BY <2>2, NextFires, Bounds DEF Events
        <5>. QED  BY <5>1 DEF deferralDeadline
      <4>3. ~late => now < deferralDeadline(row, e)
        BY <4>2
      <4>. HIDE DEF late
      <4>. QED  BY <2>17, <4>1, <4>3 DEF Parked
    <3>5. /\ Sound(r) /\ Onward(s, r)
          /\ r.firing = s.firing \/ \E i \in FreeIds(s) : FreeIds(r) = FreeIds(s) \ {i}
      BY <2>6, <2>7, <3>1, <3>2, <3>3, <3>4, ClaimStep
    <3>6. SameRoom(x, r) \/ TakesOne(x, r)
      BY <2>8, <3>5, SameFiringsSameRoom DEF SameRoom, TakesOne
    <3>. QED  BY <2>6, <3>2, <3>5, <3>6, OnwardGoesOn DEF DueOutcome, r
  <2>. QED  BY <2>11, <2>12, <2>13, <2>14, <2>15, <2>16, <2>17
<1>. QED  BY <1>1, <1>2

-----------------------------------------------------------------------------
(* All due targets, in their order.                                        *)

\* The targets from the n-th on that may still want a firing.
Wanting(n, spared) == {Order[m] : m \in n + 1 .. Len(Order)} \ spared

LEMMA FreeIdsAreFinite ==
  ASSUME NEW s
  PROVE  /\ IsFiniteSet(FreeIds(s)) /\ Cardinality(FreeIds(s)) \in Nat
         /\ Cardinality(FreeIds(s)) = 0 <=> FreeIds(s) = {}
         /\ \A i \in FreeIds(s) : Cardinality(FreeIds(s) \ {i}) = Cardinality(FreeIds(s)) - 1
<1>1. IsFiniteSet(Ids)
  BY Bounds, FS_Interval DEF Ids
<1>2. FreeIds(s) \subseteq Ids
  BY DEF FreeIds
<1>3. IsFiniteSet(FreeIds(s))
  BY <1>1, <1>2, FS_Subset
<1>. QED  BY <1>3, FS_CardinalityType, FS_EmptySet, FS_RemoveElement

LEMMA WantingShrinks ==
  ASSUME NEW n \in 1 .. Len(Order), NEW spared
  PROVE  /\ Cardinality(Wanting(n - 1, spared)) \in Nat /\ Cardinality(Wanting(n, spared)) \in Nat
         /\ Cardinality(Wanting(n, spared)) <= Cardinality(Wanting(n - 1, spared))
         /\ Order[n] \notin spared =>
              Cardinality(Wanting(n, spared)) = Cardinality(Wanting(n - 1, spared)) - 1
<1>. DEFINE L == Len(Order)
            p == Order[n]
            A == Wanting(n - 1, spared)
            B == Wanting(n, spared)
<1>1. /\ L \in Nat /\ \A m \in 1 .. L : Order[m] \in Targets
      /\ \A m, k \in 1 .. L : Order[m] = Order[k] => m = k
  BY OrderIsAll
<1>2. /\ n \in (n - 1) + 1 .. L
      /\ \A m : m \in (n - 1) + 1 .. L <=> m = n \/ m \in n + 1 .. L
      /\ \A m \in n + 1 .. L : m \in 1 .. L /\ m # n
  BY <1>1
<1>3. A \subseteq Targets /\ B \subseteq A
  BY <1>1, <1>2 DEF Wanting
<1>4. B = A \ {p}
  BY <1>1, <1>2 DEF Wanting
<1>5. p \notin spared => p \in A
  BY <1>2 DEF Wanting
<1>6. IsFiniteSet(A) /\ IsFiniteSet(B)
  BY <1>3, Bounds, FS_Subset
<1>. HIDE DEF A, B
<1>7. Cardinality(A) \in Nat /\ Cardinality(B) \in Nat
  BY <1>6, FS_CardinalityType
<1>8. Cardinality(B) <= Cardinality(A)
  BY <1>3, <1>6, FS_Subset
<1>9. p \in A => Cardinality(B) = Cardinality(A) - 1
  BY <1>4, <1>6, FS_RemoveElement
<1>. QED  BY <1>5, <1>7, <1>8, <1>9 DEF A, B

LEMMA DuesStep ==
  ASSUME NEW b, Sound(b), now \in 0 .. MaxNow, NEW refused, NEW missing,
         Cardinality(FreeIds(b)) >= Cardinality(Targets \ (refused \cup missing))
  PROVE  LET r == DueTargets(b, refused, missing) IN Sound(r) /\ Onward(b, r)
<1>. DEFINE L == Len(Order)
            spared == refused \cup missing
            T == [n \in 0 .. L |->
                    {x \in TableSet : /\ Sound(x) /\ Onward(b, x)
                                      /\ Cardinality(Wanting(n, spared))
                                           <= Cardinality(FreeIds(x))}]
<1>1. L \in Nat /\ 0 \in 0 .. L /\ L \in 0 .. L
  BY OrderIsAll
<1>2. b \in T[0]
  <2>1. Wanting(0, spared) = Targets \ spared
    BY OrderIsAll DEF Wanting
  <2>2. IsFiniteSet(Targets \ spared)
    BY Bounds, FS_Subset
  <2>3. Cardinality(Targets \ spared) \in Nat /\ Cardinality(FreeIds(b)) \in Nat
    BY <2>2, FS_CardinalityType, FreeIdsAreFinite
  <2>4. Cardinality(Wanting(0, spared)) <= Cardinality(FreeIds(b))
    BY <2>1, <2>3
  <2>. QED  BY <1>1, <2>4, OnwardStays DEF Sound
<1>3. ASSUME NEW n \in 1 .. L, NEW x \in T[n - 1]
      PROVE  DueTarget(x, Order[n], refused, missing) \in T[n]
  <2>. DEFINE p == Order[n]
              r == DueTarget(x, p, refused, missing)
  <2>1. n - 1 \in 0 .. L /\ n \in 0 .. L /\ p \in Targets
    BY <1>1, OrderIsAll
  <2>2. /\ Sound(x) /\ Onward(b, x)
        /\ Cardinality(Wanting(n - 1, spared)) <= Cardinality(FreeIds(x))
    BY <2>1
  <2>. HIDE DEF T
  <2>3. /\ Cardinality(Wanting(n - 1, spared)) \in Nat /\ Cardinality(Wanting(n, spared)) \in Nat
        /\ Cardinality(Wanting(n, spared)) <= Cardinality(Wanting(n - 1, spared))
        /\ p \notin spared =>
             Cardinality(Wanting(n, spared)) = Cardinality(Wanting(n - 1, spared)) - 1
    BY WantingShrinks
  <2>4. p \notin spared => FreeIds(x) # {}
    BY <2>2, <2>3, FreeIdsAreFinite
  <2>5. DueOutcome(x, r, p, refused, missing)
    <3>1. p \in refused \cup missing \/ FreeIds(x) # {}
      BY <2>4
    <3>. HIDE DEF p
    <3>2. DueOutcome(x, DueTarget(x, p, refused, missing), p, refused, missing)
      BY <2>1, <2>2, <3>1, DueStep
    <3>. QED  BY <3>2
  <2>. HIDE DEF r
  <2>6. Sound(r) /\ Onward(b, r)
    BY <2>2, <2>5, OnwardGoesOn DEF DueOutcome
  <2>7. Cardinality(Wanting(n, spared)) <= Cardinality(FreeIds(r))
    <3>1. CASE SameRoom(x, r)
      BY <2>2, <2>3, <3>1, FreeIdsAreFinite DEF SameRoom
    <3>2. CASE p \notin refused \cup missing /\ TakesOne(x, r)
      <4>1. PICK i \in FreeIds(x) : FreeIds(r) = FreeIds(x) \ {i}
        BY <3>2 DEF TakesOne
      <4>2. Cardinality(FreeIds(r)) = Cardinality(FreeIds(x)) - 1
        BY <4>1, FreeIdsAreFinite
      <4>3. Cardinality(FreeIds(x)) \in Nat
        BY FreeIdsAreFinite
      <4>. QED  BY <2>2, <2>3, <3>2, <4>2, <4>3
    <3>. QED  BY <2>5, <3>1, <3>2 DEF DueOutcome
  <2>8. r \in T[n]
    BY <2>1, <2>6, <2>7 DEF T, Sound
  <2>. QED  BY <2>8 DEF r
<1>4. DueTargets(b, refused, missing) \in T[Len(Order)]
  <2>. HIDE DEF T
  <2>. QED  BY <1>2, <1>3, DuePassStays
<1>5. \A x \in T[L] : Sound(x) /\ Onward(b, x)
  BY <1>1
<1>. HIDE DEF T
<1>. QED  BY <1>4, <1>5

LEMMA GroupPassStays ==
  ASSUME NEW targets, NEW s, NEW T, s \in T[0],
         \A n \in 1 .. Len(Order) : \A x \in T[n - 1] :
            EnsureGroup(s, targets, x, Order[n]) \in T[n]
  PROVE  EnsureGroups(s, targets) \in T[Len(Order)]
<1>. DEFINE L == Len(Order)
            Is(f) == f = [n \in 0 .. L |-> IF n = 0 THEN s
                            ELSE EnsureGroup(s, targets, f[n - 1], Order[n])]
            g == [y \in {<<n, x>> : n \in 1 .. L, x \in UNION {T[k] : k \in 0 .. L}} |->
                    EnsureGroup(s, targets, y[2], Order[y[1]])]
<1>1. L \in Nat
  BY OrderIsAll
<1>2. \A n \in 1 .. L : \A x \in T[n - 1] :
        g[<<n, x>>] = EnsureGroup(s, targets, x, Order[n])
  BY <1>1
<1>. HIDE DEF g
<1>3. PICK f : IsPass(L, s, g, f) /\ \A n \in 0 .. L : f[n] \in T[n]
  <2>1. \A n \in 1 .. L : \A x \in T[n - 1] : g[<<n, x>>] \in T[n]
    BY <1>2
  <2>. HIDE DEF L
  <2>. QED  BY <1>1, <2>1, PassExists
<1>4. Is(f)
  <2>1. \A n \in 1 .. L : n - 1 \in 0 .. L
    BY <1>1
  <2>2. \A n \in 1 .. L : g[<<n, f[n - 1]>>]
                            = EnsureGroup(s, targets, f[n - 1], Order[n])
    BY <1>2, <1>3, <2>1
  <2>3. \A n \in 0 .. L : n = 0 \/ n \in 1 .. L
    BY <1>1
  <2>4. \A n \in 0 .. L : (IF n = 0 THEN s ELSE g[<<n, f[n - 1]>>])
          = IF n = 0 THEN s ELSE EnsureGroup(s, targets, f[n - 1], Order[n])
    BY <2>2, <2>3
  <2>. QED  BY <1>3, <2>4 DEF IsPass
<1>. DEFINE h == CHOOSE h : Is(h)
<1>5. Is(h)
  BY <1>4
<1>6. h[L] \in T[L]
  <2>. HIDE DEF h
  <2>0. /\ 0 \in 0 .. L /\ \A n \in 1 .. L : n \in 0 .. L /\ n # 0
    BY <1>1
  <2>3. /\ h[0] = s
        /\ \A n \in 1 .. L : h[n] = EnsureGroup(s, targets, h[n - 1], Order[n])
    BY <1>5, <2>0
  <2>1. h[0] \in T[0]
    BY <2>3
  <2>2. \A n \in 1 .. L : h[n - 1] \in T[n - 1] => h[n] \in T[n]
    BY <2>3
  <2>. QED  BY <1>1, <2>1, <2>2, PassStays
<1>. QED  BY <1>6 DEF EnsureGroups, InProjectOrder
LEMMA SkipPassStays ==
  ASSUME NEW targets, NEW s, NEW T, s \in T[0],
         \A n \in 1 .. Len(Order) : \A x \in T[n - 1] :
            SkipSlept(s, targets, x, Order[n]) \in T[n]
  PROVE  SkipSleptThrough(s, targets) \in T[Len(Order)]
<1>. DEFINE L == Len(Order)
            Is(f) == f = [n \in 0 .. L |-> IF n = 0 THEN s
                            ELSE SkipSlept(s, targets, f[n - 1], Order[n])]
            g == [y \in {<<n, x>> : n \in 1 .. L, x \in UNION {T[k] : k \in 0 .. L}} |->
                    SkipSlept(s, targets, y[2], Order[y[1]])]
<1>1. L \in Nat
  BY OrderIsAll
<1>2. \A n \in 1 .. L : \A x \in T[n - 1] :
        g[<<n, x>>] = SkipSlept(s, targets, x, Order[n])
  BY <1>1
<1>. HIDE DEF g
<1>3. PICK f : IsPass(L, s, g, f) /\ \A n \in 0 .. L : f[n] \in T[n]
  <2>1. \A n \in 1 .. L : \A x \in T[n - 1] : g[<<n, x>>] \in T[n]
    BY <1>2
  <2>. HIDE DEF L
  <2>. QED  BY <1>1, <2>1, PassExists
<1>4. Is(f)
  <2>1. \A n \in 1 .. L : n - 1 \in 0 .. L
    BY <1>1
  <2>2. \A n \in 1 .. L : g[<<n, f[n - 1]>>]
                            = SkipSlept(s, targets, f[n - 1], Order[n])
    BY <1>2, <1>3, <2>1
  <2>3. \A n \in 0 .. L : n = 0 \/ n \in 1 .. L
    BY <1>1
  <2>4. \A n \in 0 .. L : (IF n = 0 THEN s ELSE g[<<n, f[n - 1]>>])
          = IF n = 0 THEN s ELSE SkipSlept(s, targets, f[n - 1], Order[n])
    BY <2>2, <2>3
  <2>. QED  BY <1>3, <2>4 DEF IsPass
<1>. DEFINE h == CHOOSE h : Is(h)
<1>5. Is(h)
  BY <1>4
<1>6. h[L] \in T[L]
  <2>. HIDE DEF h
  <2>0. /\ 0 \in 0 .. L /\ \A n \in 1 .. L : n \in 0 .. L /\ n # 0
    BY <1>1
  <2>3. /\ h[0] = s
        /\ \A n \in 1 .. L : h[n] = SkipSlept(s, targets, h[n - 1], Order[n])
    BY <1>5, <2>0
  <2>1. h[0] \in T[0]
    BY <2>3
  <2>2. \A n \in 1 .. L : h[n - 1] \in T[n - 1] => h[n] \in T[n]
    BY <2>3
  <2>. QED  BY <1>1, <2>1, <2>2, PassStays
<1>. QED  BY <1>6 DEF SkipSleptThrough, InProjectOrder

-----------------------------------------------------------------------------
(* Catching up after a restart.                                            *)

\* What grouping does besides creating fan-outs: nothing.
Groups(b, x) ==
  /\ Sound(x) /\ Onward(b, x) /\ ClaimsNothing(b, x)
  /\ x.rt = b.rt /\ x.firing = b.firing /\ x.thrown = b.thrown
  /\ \A d \in Events : b.fan[d].note # "none" => x.fan[d] = b.fan[d]

LEMMA GroupsStep ==
  ASSUME NEW b, Sound(b), NEW targets,
         \A p \in targets : p \in Targets /\ b.rt[p].next \in Events
  PROVE  Groups(b, EnsureGroups(b, targets))
<1>. DEFINE L == Len(Order)
            T == [n \in 0 .. L |-> {x \in TableSet : Groups(b, x)}]
<1>1. L \in Nat /\ 0 \in 0 .. L /\ L \in 0 .. L /\ \A n \in 1 .. L : n - 1 \in 0 .. L
  BY OrderIsAll
<1>2. b \in T[0]
  BY <1>1, OnwardStays DEF Groups, Sound, ClaimsNothing
<1>3. ASSUME NEW n \in 1 .. L, NEW x \in T[n - 1]
      PROVE  EnsureGroup(b, targets, x, Order[n]) \in T[n]
  <2>. DEFINE p == Order[n]
              r == EnsureGroup(b, targets, x, p)
              e == b.rt[p].next
              members == {q \in targets : b.rt[q].next = b.rt[p].next}
  <2>1. Groups(b, x) /\ n \in 0 .. L
    BY <1>1
  <2>. HIDE DEF T, p
  <2>2. CASE p \notin targets
    <3>1. r = x
      BY <2>2 DEF EnsureGroup
    <3>. QED  BY <2>1, <3>1 DEF T, Groups, Sound, p
  <2>3. CASE p \in targets
    <3>1. r = ensureRoutineFanout(x, e, members)
      BY <2>3 DEF EnsureGroup
    <3>2. e \in Events /\ Sound(x)
      BY <2>1, <2>3 DEF Groups
    <3>. HIDE DEF members, r, e
    <3>3. /\ Sound(r) /\ Onward(x, r) /\ r.rt = x.rt /\ r.firing = x.firing
          /\ r.thrown = x.thrown /\ ClaimsNothing(x, r)
          /\ \A d \in Events : x.fan[d].note # "none" => r.fan[d] = x.fan[d]
      BY <3>1, <3>2, EnsureStep
    <3>4. Onward(b, r)
      BY <2>1, <3>3, OnwardGoesOn DEF Groups
    <3>5. Groups(b, r)
      BY <2>1, <3>3, <3>4 DEF Groups, ClaimsNothing
    <3>. QED  BY <2>1, <3>5 DEF T, Groups, Sound, r, p
  <2>. QED  BY <2>2, <2>3 DEF p
<1>4. EnsureGroups(b, targets) \in T[L]
  <2>. HIDE DEF T
  <2>. QED  BY <1>2, <1>3, GroupPassStays
<1>. QED  BY <1>1, <1>4

\* After n targets: the others are as they were, these have their event counted.
Skipped(s, x, targets, n) ==
  /\ Sound(x) /\ Onward(s, x) /\ ClaimsNothing(s, x) /\ x.firing = s.firing
  /\ \A q \in Targets : q \notin targets =>
       x.rt[q] = s.rt[q] /\ \A d \in Events : x.fan[d].leg[q] = s.fan[d].leg[q]
  /\ \A m \in n + 1 .. Len(Order) : x.rt[Order[m]] = s.rt[Order[m]]
  /\ \A m \in 1 .. n : Order[m] \in targets =>
       x.thrown \/ s.rt[Order[m]].next \in x.rt[Order[m]].counted

LEMMA SkipsStep ==
  ASSUME NEW s, Sound(s), now \in 0 .. MaxNow, NEW targets,
         \A p \in targets : p \in Targets /\ s.rt[p].state = "active"
  PROVE  Skipped(s, SkipSleptThrough(s, targets), targets, Len(Order))
<1>. DEFINE L == Len(Order)
            T == [n \in 0 .. L |-> {x \in TableSet : Skipped(s, x, targets, n)}]
<1>1. L \in Nat /\ 0 \in 0 .. L /\ L \in 0 .. L /\ \A n \in 1 .. L : n - 1 \in 0 .. L
  BY OrderIsAll
<1>2. s \in T[0]
  BY <1>1, OnwardStays DEF Skipped, Sound, ClaimsNothing
<1>3. ASSUME NEW n \in 1 .. L, NEW x \in T[n - 1]
      PROVE  SkipSlept(s, targets, x, Order[n]) \in T[n]
  <2>. DEFINE p == Order[n]
              r == SkipSlept(s, targets, x, p)
              open == s.fan[s.rt[p].next].note = "pending"
                        /\ s.fan[s.rt[p].next].leg[p] # "none"
              soon == nextRecurringFireAt(now)
  <2>1. Skipped(s, x, targets, n - 1) /\ n \in 0 .. L
    BY <1>1
  <2>2. /\ p \in Targets
        /\ \A m \in n + 1 .. L : m \in (n - 1) + 1 .. L /\ Order[m] # p
        /\ n \in (n - 1) + 1 .. L
        /\ \A m \in 1 .. n : m = n \/ m \in 1 .. n - 1
        /\ \A m \in 1 .. n - 1 : Order[m] # p /\ Order[m] \in Targets
        /\ \A m \in n + 1 .. L : Order[m] \in Targets
    <3>1. \A m \in n + 1 .. L : m \in (n - 1) + 1 .. L /\ m \in 1 .. L /\ m # n
      BY <1>1
    <3>2. \A m \in 1 .. n - 1 : m \in 1 .. L /\ m # n
      BY <1>1
    <3>3. \A m \in 1 .. L : Order[m] \in Targets /\ (m # n => Order[m] # p)
      BY OrderIsAll
    <3>4. n \in (n - 1) + 1 .. L /\ \A m \in 1 .. n : m = n \/ m \in 1 .. n - 1
      BY <1>1
    <3>. QED  BY <3>1, <3>2, <3>3, <3>4
  <2>. HIDE DEF T, p
  <2>3. CASE p \notin targets \/ x.thrown
    <3>1. r = x
      BY <2>3 DEF SkipSlept
    <3>2. Skipped(s, x, targets, n)
      <4>1. \A m \in 1 .. n : Order[m] \in targets =>
              x.thrown \/ s.rt[Order[m]].next \in x.rt[Order[m]].counted
        BY <2>1, <2>2, <2>3 DEF Skipped, p
      <4>2. \A m \in n + 1 .. L : x.rt[Order[m]] = s.rt[Order[m]]
        BY <2>1, <2>2 DEF Skipped
      <4>. QED  BY <2>1, <4>1, <4>2 DEF Skipped
    <3>. QED  BY <2>1, <3>1, <3>2 DEF T, Skipped, Sound, p
  <2>4. CASE p \in targets /\ ~x.thrown
    <3>1. r = settleDueRoutineEvent(x, p, open, "skipped", soon)
      BY <2>4 DEF SkipSlept
    <3>2. x.rt[p] = s.rt[p] /\ x.rt[p].state = "active" /\ Sound(x)
      BY <2>1, <2>2, <2>4 DEF Skipped, p
    <3>3. soon \in Events /\ open \in BOOLEAN
      BY ClocksAreEvents
    <3>. HIDE DEF soon, open, r
    <3>4. /\ Sound(r) /\ Onward(x, r) /\ Elsewhere(x, r, p) /\ ClaimsNothing(x, r)
          /\ r.firing = x.firing
          /\ r.thrown \/ x.rt[p].next \in r.rt[p].counted
      BY <2>2, <3>1, <3>2, <3>3, SettleStep
    <3>5. Onward(s, r)
      BY <2>1, <3>4, OnwardGoesOn DEF Skipped
    <3>6. ClaimsNothing(s, r)
      BY <2>1, <3>4 DEF Skipped, ClaimsNothing
    <3>7. \A q \in Targets : q \notin targets =>
            r.rt[q] = s.rt[q] /\ \A d \in Events : r.fan[d].leg[q] = s.fan[d].leg[q]
      BY <2>1, <2>4, <3>4 DEF Skipped, Elsewhere
    <3>8. \A m \in n + 1 .. L : r.rt[Order[m]] = s.rt[Order[m]]
      BY <2>1, <2>2, <3>4 DEF Skipped, Elsewhere
    <3>9. \A m \in 1 .. n : Order[m] \in targets =>
            r.thrown \/ s.rt[Order[m]].next \in r.rt[Order[m]].counted
      <4>1. \A m \in 1 .. n - 1 : Order[m] \in targets =>
              s.rt[Order[m]].next \in r.rt[Order[m]].counted
        BY <2>1, <2>2, <2>4, <3>4 DEF Skipped, Elsewhere
      <4>. QED  BY <2>2, <3>2, <3>4, <4>1 DEF p
    <3>10. r.firing = s.firing
      BY <2>1, <3>4 DEF Skipped
    <3>11. Skipped(s, r, targets, n)
      BY <3>4, <3>5, <3>6, <3>7, <3>8, <3>9, <3>10 DEF Skipped
    <3>. QED  BY <2>1, <3>11 DEF T, Skipped, Sound, r, p
  <2>. QED  BY <2>3, <2>4 DEF p
<1>4. SkipSleptThrough(s, targets) \in T[L]
  <2>. HIDE DEF T
  <2>. QED  BY <1>2, <1>3, SkipPassStays
<1>. QED  BY <1>1, <1>4

LEMMA CatchUpStep ==
  ASSUME NEW b, Sound(b), now \in 0 .. MaxNow, NEW targets,
         \A p \in targets : p \in Targets /\ b.rt[p].state = "active"
  PROVE  LET c == SkipCatchUp(b, targets) IN
         /\ Sound(c) /\ Onward(b, c) /\ ClaimsNothing(b, c) /\ c.firing = b.firing
         /\ \A p \in Targets : p \notin targets =>
              /\ c.rt[p] = b.rt[p]
              /\ \A d \in Events : Parked(b, p, d) => Parked(c, p, d)
         /\ \A p \in targets : c.thrown \/ b.rt[p].next \in c.rt[p].counted
<1>. DEFINE s == EnsureGroups(b, targets)
            c == SkipSleptThrough(s, targets)
<1>1. Groups(b, s)
  <2>1. \A p \in targets : b.rt[p].next \in Events
    BY RowFields DEF Sound, RowsFit
  <2>. QED  BY <2>1, GroupsStep
<1>. HIDE DEF s
<1>2. Skipped(s, c, targets, Len(Order))
  <2>1. Sound(s) /\ \A p \in targets : s.rt[p].state = "active"
    BY <1>1 DEF Groups
  <2>. QED  BY <2>1, SkipsStep
<1>. HIDE DEF c
<1>3. Onward(b, c) /\ Sound(c) /\ ClaimsNothing(b, c) /\ c.firing = b.firing
  BY <1>1, <1>2, OnwardGoesOn DEF Groups, Skipped, ClaimsNothing
<1>4. ASSUME NEW p \in Targets, p \notin targets
      PROVE  /\ c.rt[p] = b.rt[p]
             /\ \A d \in Events : Parked(b, p, d) => Parked(c, p, d)
  <2>1. c.rt[p] = b.rt[p]
    BY <1>1, <1>2, <1>4 DEF Groups, Skipped
  <2>2. ASSUME NEW d \in Events, Parked(b, p, d) PROVE Parked(c, p, d)
    <3>1. p \in b.fan[d].deferred /\ b.fan[d].leg[p] \in Unclaimed
      BY <2>2 DEF Parked
    <3>2. b.fan[d].note # "none"
      BY <3>1 DEF Sound, FanoutsFit
    <3>3. s.fan[d] = b.fan[d] /\ c.fan[d].leg[p] = s.fan[d].leg[p]
      BY <1>1, <1>2, <1>4, <3>2 DEF Groups, Skipped
    <3>4. p \in c.fan[d].deferred
      BY <1>3, <3>1 DEF Onward, Grows
    <3>. QED  BY <2>2, <3>1, <3>3, <3>4 DEF Parked
  <2>. QED  BY <2>1, <2>2
<1>5. ASSUME NEW p \in targets PROVE c.thrown \/ b.rt[p].next \in c.rt[p].counted
  <2>1. PICK m \in 1 .. Len(Order) : Order[m] = p
    BY OrderIsAll
  <2>. QED  BY <1>1, <1>2, <2>1 DEF Groups, Skipped
<1>. QED  BY <1>3, <1>4, <1>5 DEF SkipCatchUp, s, c

-----------------------------------------------------------------------------
(* Synchronizing the table with the declarations.                          *)

WithCounted(row, c) == [row EXCEPT !.counted = c]
WithLegs(f, l) == [f EXCEPT !.leg = l]

LEMMA CountedSet ==
  ASSUME NEW row \in RoutineRow, NEW c \in SUBSET Events
  PROVE  LET new == WithCounted(row, c) IN
         /\ new \in RoutineRow /\ new.state = row.state /\ new.next = row.next
         /\ new.at = row.at /\ new.fired = row.fired /\ new.counted = c
<1>1. WithCounted(row, c) = [state |-> row.state, next |-> row.next, at |-> row.at,
                             fired |-> row.fired, counted |-> c]
  BY RowParts DEF WithCounted
<1>. QED  BY <1>1, RowParts, RowMade

LEMMA LegsSet ==
  ASSUME NEW f \in FanoutRow, NEW l \in [Targets -> Legs]
  PROVE  LET new == WithLegs(f, l) IN
         /\ new \in FanoutRow /\ new.note = f.note /\ new.leg = l /\ new.deferred = f.deferred
<1>1. f = [note |-> f.note, leg |-> f.leg, deferred |-> f.deferred]
      /\ f.note \in {"none", "pending", "sending", "sent"} /\ f.deferred \in SUBSET Targets
  BY DEF FanoutRow
<1>2. WithLegs(f, l) = [note |-> f.note, leg |-> l, deferred |-> f.deferred]
  BY <1>1 DEF WithLegs
<1>. QED  BY <1>1, <1>2 DEF FanoutRow, Legs

\* The settling of legs whose Routine is no longer due at their event.
Lost(s, p) == {e \in Events : Unavailable(s, e, p) /\ p \in s.fan[e].deferred}
SettledLegs(s, e) ==
  [p \in Targets |-> IF ~Unavailable(s, e, p) THEN s.fan[e].leg[p]
                     ELSE IF e \in Lost(s, p) THEN "missed" ELSE "skipped"]

LEMMA UnavailableStep ==
  ASSUME NEW s, Sound(s)
  PROVE  LET d == settleUnavailableRoutineFanoutTargets(s) IN
         /\ Sound(d) /\ Grows(s, d) /\ ClaimsNothing(s, d)
         /\ d.firing = s.firing /\ d.thrown = s.thrown
         /\ \A p \in Targets : d.rt[p].state = s.rt[p].state
                               /\ d.rt[p].next = s.rt[p].next /\ d.rt[p].at = s.rt[p].at
<1>. DEFINE d == settleUnavailableRoutineFanoutTargets(s)
            rows == [p \in Targets |-> WithCounted(s.rt[p], s.rt[p].counted \cup Lost(s, p))]
            fans == [e \in Events |-> WithLegs(s.fan[e], SettledLegs(s, e))]
            made == [rt |-> rows, fan |-> fans, firing |-> s.firing,
                     fired |-> s.fired, thrown |-> s.thrown]
<1>1. /\ s \in TableSet /\ s.rt \in RowTable /\ s.fan \in FanoutTable
      /\ s.firing \in FiringTable /\ s.fired \in SUBSET Ids /\ s.thrown \in BOOLEAN
      /\ s = [rt |-> s.rt, fan |-> s.fan, firing |-> s.firing,
              fired |-> s.fired, thrown |-> s.thrown]
  BY TableFields DEF Sound
<1>2. d = made
  <2>1. d = [s EXCEPT !.rt = rows, !.fan = fans]
    BY DEF settleUnavailableRoutineFanoutTargets, WithCounted, WithLegs, Lost, SettledLegs
  <2>. HIDE DEF d, rows, fans
  <2>. QED  BY <1>1, <2>1
<1>3. \A p \in Targets :
        /\ rows[p] \in RoutineRow /\ rows[p].state = s.rt[p].state /\ rows[p].next = s.rt[p].next
        /\ rows[p].at = s.rt[p].at /\ s.rt[p].counted \subseteq rows[p].counted
  <2>. SUFFICES ASSUME NEW p \in Targets
                PROVE  /\ rows[p] \in RoutineRow /\ rows[p].state = s.rt[p].state
                       /\ rows[p].next = s.rt[p].next
                       /\ rows[p].at = s.rt[p].at /\ s.rt[p].counted \subseteq rows[p].counted
    OBVIOUS
  <2>. DEFINE c == s.rt[p].counted \cup Lost(s, p)
  <2>1. c \in SUBSET Events /\ s.rt[p] \in RoutineRow /\ s.rt[p].counted \subseteq c
    BY <1>1, RowFields DEF Lost
  <2>2. rows[p] = WithCounted(s.rt[p], c)
    OBVIOUS
  <2>. HIDE DEF c, rows
  <2>. QED  BY <2>1, <2>2, CountedSet
<1>4. \A e \in Events :
        /\ fans[e] \in FanoutRow /\ fans[e].note = s.fan[e].note
        /\ fans[e].leg = SettledLegs(s, e) /\ fans[e].deferred = s.fan[e].deferred
  <2>. SUFFICES ASSUME NEW e \in Events
                PROVE  /\ fans[e] \in FanoutRow /\ fans[e].note = s.fan[e].note
                       /\ fans[e].leg = SettledLegs(s, e)
                       /\ fans[e].deferred = s.fan[e].deferred
    OBVIOUS
  <2>1. s.fan[e] \in FanoutRow /\ s.fan[e].leg \in [Targets -> Legs]
    BY <1>1, RowFields DEF Legs
  <2>2. SettledLegs(s, e) \in [Targets -> Legs]
    BY <2>1 DEF SettledLegs, Legs, Reported
  <2>3. fans[e] = WithLegs(s.fan[e], SettledLegs(s, e))
    OBVIOUS
  <2>. HIDE DEF fans
  <2>. QED  BY <2>1, <2>2, <2>3, LegsSet
<1>5. rows \in RowTable /\ fans \in FanoutTable
  BY <1>3, <1>4 DEF RowTable, FanoutTable
<1>. HIDE DEF rows, fans, d
<1>6. /\ made \in TableSet /\ made.rt = rows /\ made.fan = fans /\ made.firing = s.firing
      /\ made.fired = s.fired /\ made.thrown = s.thrown
  BY <1>1, <1>5, TablesMade
<1>. HIDE DEF made
<1>7. \A e \in Events, p \in Targets :
        /\ \/ fans[e].leg[p] = s.fan[e].leg[p]
           \/ s.fan[e].leg[p] \in Unclaimed /\ fans[e].leg[p] \in {"missed", "skipped"}
        /\ s.fan[e].leg[p] = "none" => fans[e].leg[p] = "none"
  <2>. SUFFICES ASSUME NEW e \in Events, NEW p \in Targets
                PROVE  /\ \/ fans[e].leg[p] = s.fan[e].leg[p]
                          \/ /\ s.fan[e].leg[p] \in Unclaimed
                             /\ fans[e].leg[p] \in {"missed", "skipped"}
                       /\ s.fan[e].leg[p] = "none" => fans[e].leg[p] = "none"
    OBVIOUS
  <2>1. fans[e].leg[p] = IF ~Unavailable(s, e, p) THEN s.fan[e].leg[p]
                         ELSE IF e \in Lost(s, p) THEN "missed" ELSE "skipped"
    BY <1>4 DEF SettledLegs
  <2>2. Unavailable(s, e, p) => s.fan[e].leg[p] \in Unclaimed
    BY DEF Unavailable
  <2>3. "none" \notin Unclaimed
    BY DEF Unclaimed
  <2>. QED  BY <2>1, <2>2, <2>3
<1>8. RowsFit(rows) /\ FanoutsFit(fans)
  BY <1>3, <1>4, <1>7 DEF Sound, RowsFit, FanoutsFit
<1>9. \A e \in Events, p \in Targets :
        /\ s.fan[e].leg[p] \in Reported => fans[e].leg[p] = s.fan[e].leg[p]
        /\ fans[e].leg[p] = "firing" <=> s.fan[e].leg[p] = "firing"
  BY <1>7 DEF Reported, Unclaimed
<1>10. FiringsFit(fans, s.firing)
  <2>1. \A i \in Ids : s.firing[i].at \in Events \cup {0}
    BY <1>1, RowFields
  <2>2. FiringsFit(s.fan, s.firing)
    BY DEF Sound
  <2>3. \A i \in Ids : s.firing[i].at # 0 =>
          /\ s.firing[i].p \in Targets
          /\ fans[s.firing[i].at].leg[s.firing[i].p] = "firing"
    BY <1>9, <2>1, <2>2 DEF FiringsFit
  <2>. QED  BY <2>2, <2>3 DEF FiringsFit
<1>11. Grows(s, made) /\ ClaimsNothing(s, made)
  BY <1>3, <1>4, <1>6, <1>9 DEF Grows, ClaimsNothing
<1>. QED  BY <1>2, <1>3, <1>6, <1>8, <1>10, <1>11 DEF Sound, d

WithState(row, st) == [row EXCEPT !.state = st]
Upserted(row, n, sched, st) == [row EXCEPT !.next = n, !.at = sched, !.state = st,
                                           !.fired = @ /\ row.at = sched]

LEMMA UpsertMade ==
  ASSUME NEW row \in RoutineRow, NEW n \in Events \cup {0}, NEW sched \in Schedules,
         NEW st \in {"active", "operator", "removed", "inactive", "expired"}
  PROVE  LET new == Upserted(row, n, sched, st) IN
         /\ new \in RoutineRow /\ new.state = st /\ new.next = n /\ new.at = sched
         /\ new.counted = row.counted
<1>. DEFINE new == Upserted(row, n, sched, st)
            fr == row.fired /\ row.at = sched
<1>1. /\ row = [state |-> row.state, next |-> row.next, at |-> row.at,
                fired |-> row.fired, counted |-> row.counted]
      /\ row.counted \in SUBSET Events
  BY RowParts
<1>2. fr \in BOOLEAN
  OBVIOUS
<1>3. new = [row EXCEPT !.next = n, !.at = sched, !.state = st, !.fired = fr]
  BY DEF Upserted
<1>. HIDE DEF fr, new
<1>4. new = [state |-> st, next |-> n, at |-> sched, fired |-> fr, counted |-> row.counted]
  BY <1>1, <1>2, <1>3
<1>5. new \in RoutineRow
  BY <1>1, <1>2, <1>4, RowMade
<1>. QED  BY <1>4, <1>5 DEF new

LEMMA StateMade ==
  ASSUME NEW row \in RoutineRow,
         NEW st \in {"active", "operator", "removed", "inactive", "expired"}
  PROVE  LET new == WithState(row, st) IN
         /\ new \in RoutineRow /\ new.state = st /\ new.counted = row.counted
<1>1. WithState(row, st) = [state |-> st, next |-> row.next, at |-> row.at,
                                   fired |-> row.fired, counted |-> row.counted]
  BY RowParts DEF WithState
<1>. QED  BY <1>1, RowParts, RowMade

\* A synchronized row is live only by its declaration, and then has its clock.
LEMMA SyncedRowFits ==
  ASSUME NEW s, Sound(s), NEW p \in Targets, NEW recompute \in BOOLEAN,
         mode \in [Targets -> Modes], at \in Schedules, now \in 0 .. MaxNow
  PROVE  LET new == SyncedRow(s, p, recompute) IN
         /\ new \in RoutineRow /\ new.counted = s.rt[p].counted
         /\ new.state = "active" => new.next # 0
         /\ new.state = "expired" => ~Cron(new.at)
         /\ new.state \in {"active", "expired"} =>
              /\ mode[p] = "on" /\ new.at = at /\ new.next = UpsertNext(s, p, recompute)
<1>. DEFINE row == s.rt[p]
            new == SyncedRow(s, p, recompute)
            n == UpsertNext(s, p, recompute)
            st == UpsertState(row, p)
<1>1. /\ row \in RoutineRow /\ row.next \in Events \cup {0}
      /\ row.state = "expired" => ~Cron(row.at)
  BY RowFields DEF Sound, RowsFit
<1>2. FirstFireAt(at) \in Events /\ 0 \notin Events
  BY ClocksAreEvents, Bounds DEF Events
<1>3. CASE mode[p] = "gone"
  <2>1. new = WithState(row, "removed")
    BY <1>3 DEF SyncedRow, WithState
  <2>. HIDE DEF new, row
  <2>. QED  BY <1>1, <2>1, StateMade DEF new, row
<1>4. CASE mode[p] = "projectOff"
  <2>1. new = WithState(row, "inactive")
    BY <1>4 DEF SyncedRow, WithState
  <2>. HIDE DEF new, row
  <2>. QED  BY <1>1, <2>1, StateMade DEF new, row
<1>5. CASE mode[p] \notin {"gone", "projectOff"}
  <2>1. new = Upserted(row, n, at, st)
    BY <1>5 DEF SyncedRow, Upserted
  <2>2. n \in Events \cup {0}
    BY <1>1, <1>2 DEF UpsertNext
  <2>3. st \in {"operator", "active", "expired"}
    BY DEF UpsertState
  <2>4. st = "expired" => ~Cron(at)
    BY DEF UpsertState
  <2>5. st = "active" => n # 0
    <3>. SUFFICES ASSUME st = "active", n = 0 PROVE FALSE
      OBVIOUS
    <3>1. row.at = at /\ row.next = 0 /\ row.state = "expired"
      BY <1>2 DEF UpsertNext
    <3>2. ~Cron(at)
      BY <1>1, <3>1
    <3>3. st = "expired" \/ mode[p] = "off"
      BY <3>1, <3>2 DEF UpsertState
    <3>. QED  BY <3>3 DEF UpsertState
  <2>6. st \in {"active", "expired"} => mode[p] = "on"
    BY <1>5 DEF UpsertState, Modes
  <2>. HIDE DEF st, n
  <2>7. /\ new \in RoutineRow /\ new.state = st /\ new.next = n /\ new.at = at
        /\ new.counted = row.counted
    <3>1. st \in {"active", "operator", "removed", "inactive", "expired"}
      BY <2>3
    <3>2. row \in RoutineRow
      BY <1>1
    <3>. HIDE DEF new, row
    <3>3. LET made == Upserted(row, n, at, st) IN
          /\ made \in RoutineRow /\ made.state = st /\ made.next = n /\ made.at = at
          /\ made.counted = row.counted
      BY <2>2, <3>1, <3>2, UpsertMade
    <3>. QED  BY <2>1, <3>3
  <2>. HIDE DEF new
  <2>. QED  BY <2>4, <2>5, <2>6, <2>7 DEF n, new
<1>. QED  BY <1>3, <1>4, <1>5

LEMMA SyncStep ==
  ASSUME NEW s, Sound(s), NEW recompute \in BOOLEAN,
         mode \in [Targets -> Modes], at \in Schedules, now \in 0 .. MaxNow
  PROVE  LET d == synchronizeRoutineTargets(s, recompute) IN
         /\ Sound(d) /\ Grows(s, d) /\ ClaimsNothing(s, d)
         /\ d.firing = s.firing /\ d.thrown = s.thrown
         /\ \A p \in Targets : d.rt[p].state \in {"active", "expired"} =>
              /\ mode[p] = "on" /\ d.rt[p].at = at
              /\ d.rt[p].next = UpsertNext(s, p, recompute)
<1>. DEFINE rows == [p \in Targets |-> SyncedRow(s, p, recompute)]
            mid == [rt |-> rows, fan |-> s.fan, firing |-> s.firing,
                    fired |-> s.fired, thrown |-> s.thrown]
            d == settleUnavailableRoutineFanoutTargets(mid)
<1>1. /\ s \in TableSet /\ s.rt \in RowTable /\ s.fan \in FanoutTable
      /\ s.firing \in FiringTable /\ s.fired \in SUBSET Ids /\ s.thrown \in BOOLEAN
      /\ s = [rt |-> s.rt, fan |-> s.fan, firing |-> s.firing,
              fired |-> s.fired, thrown |-> s.thrown]
  BY TableFields DEF Sound
<1>2. synchronizeRoutineTargets(s, recompute) = d
  <2>1. [s EXCEPT !.rt = rows] = mid
    <3>. HIDE DEF rows
    <3>. QED  BY <1>1
  <2>2. synchronizeRoutineTargets(s, recompute)
          = settleUnavailableRoutineFanoutTargets([s EXCEPT !.rt = rows])
    BY DEF synchronizeRoutineTargets
  <2>. HIDE DEF mid, rows
  <2>. QED  BY <2>1, <2>2
<1>3. \A p \in Targets :
         /\ rows[p] \in RoutineRow /\ rows[p].counted = s.rt[p].counted
         /\ rows[p].state = "active" => rows[p].next # 0
         /\ rows[p].state = "expired" => ~Cron(rows[p].at)
         /\ rows[p].state \in {"active", "expired"} =>
              mode[p] = "on" /\ rows[p].at = at /\ rows[p].next = UpsertNext(s, p, recompute)
  BY SyncedRowFits
<1>4. rows \in RowTable
  BY <1>3 DEF RowTable
<1>. HIDE DEF rows
<1>5. /\ mid \in TableSet /\ mid.rt = rows /\ mid.fan = s.fan /\ mid.firing = s.firing
      /\ mid.fired = s.fired /\ mid.thrown = s.thrown
  BY <1>1, <1>4, TablesMade
<1>. HIDE DEF mid
<1>6. Sound(mid)
  BY <1>3, <1>5 DEF Sound, RowsFit
<1>. HIDE DEF d
<1>7. /\ Sound(d) /\ Grows(mid, d) /\ ClaimsNothing(mid, d)
      /\ d.firing = mid.firing /\ d.thrown = mid.thrown
      /\ \A p \in Targets : d.rt[p].state = mid.rt[p].state
                            /\ d.rt[p].next = mid.rt[p].next /\ d.rt[p].at = mid.rt[p].at
  BY <1>6, UnavailableStep DEF d
<1>8. Grows(s, d)
  BY <1>3, <1>5, <1>7 DEF Grows
<1>9. ClaimsNothing(s, d)
  BY <1>5, <1>7 DEF ClaimsNothing
<1>. QED  BY <1>2, <1>3, <1>5, <1>7, <1>8, <1>9

-----------------------------------------------------------------------------
(* What a dispatch does to the tables it began with.                       *)

LEMMA TablesFit ==
  ASSUME RoutineInv
  PROVE  /\ Sound(Tables) /\ Tables.fan = fan /\ Tables.firing = firing
         /\ Tables.thrown = FALSE
         /\ \A p \in Targets :
              /\ Tables.rt[p].state = rt[p].state /\ Tables.rt[p].next = rt[p].next
              /\ Tables.rt[p].at = rt[p].at
<1>. DEFINE rows == [p \in Targets |-> WithCounted(rt[p], {})]
            made == [rt |-> rows, fan |-> fan, firing |-> firing, fired |-> {}, thrown |-> FALSE]
<1>1. Tables = made
  BY DEF Tables, WithCounted
<1>2. rt \in RowTable /\ fan \in FanoutTable /\ firing \in FiringTable
  BY DEF RoutineInv, RoutineTypeOK, RowTable, FanoutTable, FiringTable
<1>3. \A p \in Targets :
        /\ rows[p] \in RoutineRow /\ rows[p].state = rt[p].state
        /\ rows[p].next = rt[p].next /\ rows[p].at = rt[p].at
  <2>1. \A p \in Targets : rows[p] = WithCounted(rt[p], {}) /\ rt[p] \in RoutineRow
    BY <1>2 DEF RowTable
  <2>2. {} \in SUBSET Events
    OBVIOUS
  <2>. HIDE DEF rows
  <2>. QED  BY <2>1, <2>2, CountedSet
<1>4. rows \in RowTable
  BY <1>3 DEF RowTable
<1>. HIDE DEF rows
<1>5. /\ made \in TableSet /\ made.rt = rows /\ made.fan = fan /\ made.firing = firing
      /\ made.thrown = FALSE
  BY <1>2, <1>4, TablesMade
<1>. HIDE DEF made
<1>6. RowsFit(rows)
  BY <1>3 DEF RoutineInv, RowsFit
<1>. QED  BY <1>1, <1>3, <1>5, <1>6 DEF RoutineInv, Sound

\* The clock of a live schedule leaves no due event behind, and what was parked
\* fires in time.
KeepsEvents(b, x) ==
  \A p \in Targets : LET e == b.rt[p].next IN
    /\ b.rt[p].state = "active" /\ e \in 1 .. now
    /\ x.rt[p].state \in {"active", "expired"} /\ x.rt[p].at = b.rt[p].at
    /\ x.rt[p].next # e
    => e \in x.rt[p].counted \/ Taken(x, p, e)

ParkedInTime(b, x) ==
  \A e \in Events, p \in Targets :
    /\ p \in b.fan[e].deferred /\ b.fan[e].leg[p] # "firing" /\ x.fan[e].leg[p] = "firing"
    => now < deferralDeadline(x.rt[p], e)

\* A synchronization leaves a live clock alone, or has counted its event, or
\* sets it from now, as a restart does for the targets it caught up.
LEMMA SyncKeepsClocks ==
  ASSUME NEW s, Sound(s), NEW recompute \in BOOLEAN,
         mode \in [Targets -> Modes], at \in Schedules, now \in 0 .. MaxNow,
         NEW p \in Targets, s.rt[p].state = "active",
         synchronizeRoutineTargets(s, recompute).rt[p].state \in {"active", "expired"},
         synchronizeRoutineTargets(s, recompute).rt[p].at = s.rt[p].at
  PROVE  LET d == synchronizeRoutineTargets(s, recompute) IN
         \/ d.rt[p].next = s.rt[p].next
         \/ recompute /\ mode[p] = "on" /\ Cron(at) /\ catchUpSkip /\ s.rt[p].at = at
              /\ ~Parked(s, p, s.rt[p].next)
<1>. DEFINE d == synchronizeRoutineTargets(s, recompute)
<1>1. mode[p] = "on" /\ d.rt[p].at = at /\ d.rt[p].next = UpsertNext(s, p, recompute)
  BY SyncStep
<1>2. s.rt[p].next # 0
  BY DEF Sound, RowsFit
<1>. QED  BY <1>1, <1>2 DEF UpsertNext

LEMMA DispatchedStep ==
  ASSUME RoutineInv, NEW refused, NEW missing,
         Cardinality(FreeIds(Tables)) >= Cardinality(Targets \ (refused \cup missing))
  PROVE  LET x == Dispatched(refused, missing) IN
         /\ Sound(x) /\ Grows(Tables, x)
         /\ KeepsEvents(Tables, x) /\ ParkedInTime(Tables, x)
<1>. DEFINE b == Tables
            targets == CatchUpTargets(b)
            c == IF fresh THEN SkipCatchUp(b, targets) ELSE b
            d == synchronizeRoutineTargets(c, fresh)
            y == IF c.thrown THEN c ELSE d
            x == DueTargets(y, refused, missing)
<1>1. /\ mode \in [Targets -> Modes] /\ at \in Schedules /\ now \in 0 .. MaxNow
      /\ fresh \in BOOLEAN
  BY DEF RoutineInv, RoutineTypeOK
<1>2. Sound(b) /\ b.thrown = FALSE
  BY TablesFit
<1>3. x = Dispatched(refused, missing)
  BY DEF Dispatched
<1>. HIDE DEF b
<1>4. \A p \in targets : p \in Targets /\ b.rt[p].state = "active"
  BY DEF CatchUpTargets
<1>5. /\ Sound(c) /\ Onward(b, c) /\ ClaimsNothing(b, c) /\ c.firing = b.firing
      /\ \A p \in Targets : ~fresh \/ p \notin targets =>
           /\ c.rt[p] = b.rt[p]
           /\ \A e \in Events : Parked(b, p, e) => Parked(c, p, e)
      /\ fresh => \A p \in targets : c.thrown \/ b.rt[p].next \in c.rt[p].counted
  <2>1. CASE fresh
    <3>1. c = SkipCatchUp(b, targets)
      BY <2>1
    <3>. HIDE DEF targets, c
    <3>. QED  BY <1>1, <1>2, <1>4, <2>1, <3>1, CatchUpStep
  <2>2. CASE ~fresh
    <3>1. c = b
      BY <2>2
    <3>. HIDE DEF targets, c
    <3>. QED  BY <1>2, <2>2, <3>1, OnwardStays DEF ClaimsNothing
  <2>. QED  BY <2>1, <2>2
<1>. HIDE DEF c
<1>6. Sound(d) /\ Grows(c, d) /\ ClaimsNothing(c, d) /\ d.firing = c.firing
  BY <1>1, <1>5, SyncStep
<1>7. /\ Sound(y) /\ Grows(c, y) /\ ClaimsNothing(c, y) /\ y.firing = c.firing
  <2>1. Grows(c, c) /\ ClaimsNothing(c, c)
    BY DEF Grows, ClaimsNothing
  <2>. QED  BY <1>5, <1>6, <2>1
<1>. HIDE DEF y
<1>8. Sound(x) /\ Onward(y, x)
  <2>1. FreeIds(y) = FreeIds(b)
    <3>. QED  BY <1>5, <1>7 DEF FreeIds
  <2>2. Cardinality(FreeIds(y)) >= Cardinality(Targets \ (refused \cup missing))
    BY <2>1 DEF b
  <2>. QED  BY <1>1, <1>7, <2>2, DuesStep
<1>. HIDE DEF x
<1>9. Grows(b, x)
  BY <1>5, <1>7, <1>8 DEF Onward, Grows
<1>10. ParkedInTime(b, x)
  <2>. SUFFICES ASSUME NEW e \in Events, NEW p \in Targets, p \in b.fan[e].deferred,
                       b.fan[e].leg[p] # "firing", x.fan[e].leg[p] = "firing"
                PROVE  now < deferralDeadline(x.rt[p], e)
    BY DEF ParkedInTime
  <2>1. p \in y.fan[e].deferred /\ y.fan[e].leg[p] # "firing"
    BY <1>5, <1>7 DEF Onward, Grows, ClaimsNothing
  <2>2. now < deferralDeadline(y.rt[p], e) /\ x.rt[p].at = y.rt[p].at
    BY <1>8, <2>1 DEF Onward, FiresInTime, ClockMoves
  <2>. QED  BY <2>2 DEF deferralDeadline
<1>11. KeepsEvents(b, x)
  <2>. SUFFICES ASSUME NEW p \in Targets, b.rt[p].state = "active", b.rt[p].next \in 1 .. now,
                       x.rt[p].state \in {"active", "expired"}, x.rt[p].at = b.rt[p].at,
                       x.rt[p].next # b.rt[p].next
                PROVE  b.rt[p].next \in x.rt[p].counted \/ Taken(x, p, b.rt[p].next)
    BY DEF KeepsEvents
  <2>. DEFINE e == b.rt[p].next
  <2>1. e \in Events
    BY <1>2, RowFields DEF Sound, RowsFit
  <2>2. ClockMoves(y, x, p) /\ Grows(y, x)
    BY <1>8 DEF Onward
  <2>3. CASE c.thrown
    <3>1. y = c
      BY <2>3 DEF y
    <3>2. Onward(b, x)
      BY <1>5, <1>8, <3>1, OnwardGoesOn
    <3>. QED  BY <3>2 DEF Onward, ClockMoves
  <2>4. CASE ~c.thrown /\ fresh /\ p \in targets
    <3>1. e \in c.rt[p].counted
      BY <1>5, <2>4
    <3>. QED  BY <1>7, <2>2, <3>1 DEF Grows
  <2>5. CASE ~c.thrown /\ ~(fresh /\ p \in targets)
    <3>1. y = d
      BY <2>5 DEF y
    <3>2. c.rt[p] = b.rt[p] /\ \A f \in Events : Parked(b, p, f) => Parked(c, p, f)
      BY <1>1, <1>5, <2>5
    <3>3. CASE d.rt[p].state \notin {"active", "expired"}
      BY <2>2, <3>1, <3>3 DEF ClockMoves
    <3>4. CASE d.rt[p].state \in {"active", "expired"}
      <4>1. d.rt[p].at = c.rt[p].at
        BY <2>2, <3>1, <3>2 DEF ClockMoves
      <4>2. d.rt[p].next = e
        <5>1. \/ d.rt[p].next = c.rt[p].next
              \/ fresh /\ mode[p] = "on" /\ Cron(at) /\ catchUpSkip /\ c.rt[p].at = at
                   /\ ~Parked(c, p, c.rt[p].next)
          BY <1>1, <1>5, <3>2, <3>4, <4>1, SyncKeepsClocks
        <5>2. CASE fresh /\ mode[p] = "on" /\ Cron(at) /\ catchUpSkip /\ c.rt[p].at = at
                     /\ ~Parked(c, p, c.rt[p].next)
          <6>1. ~Parked(b, p, e)
            BY <2>1, <3>2, <5>2
          <6>2. p \in targets
            BY <3>2, <5>2, <6>1 DEF CatchUpTargets
          <6>. QED  BY <2>5, <5>2, <6>2
        <5>. QED  BY <3>2, <5>1, <5>2
      <4>. QED  BY <2>2, <3>1, <4>2 DEF ClockMoves
    <3>. QED  BY <3>3, <3>4
  <2>. QED  BY <2>3, <2>4, <2>5
<1>. QED  BY <1>3, <1>8, <1>9, <1>10, <1>11 DEF b

-----------------------------------------------------------------------------
(* What every step keeps.                                                  *)

EventsKept == \A p \in Targets :
  LET e == rt[p].next
  IN  /\ rt[p].state = "active" /\ e \in 1 .. now
      /\ rt'[p].state \in {"active", "expired"} /\ rt'[p].at = rt[p].at
      /\ rt'[p].next # e
      => \/ e \in rt'[p].counted
         \/ \E i \in Ids : firing'[i].p = p /\ firing'[i].at = e

SummariesKept == \A e \in Events, p \in Targets :
  /\ fan[e].note \in {"sending", "sent"}
  /\ fan[e].leg[p] \in Reported
  => fan'[e].leg[p] = fan[e].leg[p]

ParkedKept == \A e \in Events, p \in Targets :
  /\ p \in fan[e].deferred /\ fan[e].leg[p] \in Unclaimed
  /\ fan'[e].leg[p] = "firing"
  => now < deferralDeadline(rt'[p], e)

Kept == RoutineInv' /\ EventsKept /\ SummariesKept /\ ParkedKept

\* Whatever leaves the rows and the legs alone.
LEMMA SameLegsKept ==
  ASSUME rt' = rt, \A e \in Events, p \in Targets : fan'[e].leg[p] = fan[e].leg[p]
  PROVE  EventsKept /\ SummariesKept /\ ParkedKept
BY DEF EventsKept, SummariesKept, ParkedKept, Unclaimed

\* A step that writes tables: a dispatch or a synchronization.
LEMMA WrittenKept ==
  ASSUME RoutineInv, NEW x, Sound(x), Grows(Tables, x),
         KeepsEvents(Tables, x), ParkedInTime(Tables, x), Write(x),
         UNCHANGED <<now, up, declVars, faults>>,
         fresh' \in BOOLEAN, thrown' \in BOOLEAN, batch' \subseteq Ids
  PROVE  Kept
<1>1. /\ Tables.fan = fan /\ Tables.firing = firing
      /\ \A p \in Targets :
           /\ Tables.rt[p].state = rt[p].state /\ Tables.rt[p].next = rt[p].next
           /\ Tables.rt[p].at = rt[p].at
  BY TablesFit
<1>2. /\ rt' = x.rt /\ fan' = x.fan /\ firing' = x.firing
      /\ now' = now /\ up' = up /\ mode' = mode /\ at' = at
      /\ catchUpSkip' = catchUpSkip /\ allowOverlap' = allowOverlap /\ faults' = faults
  BY DEF Write, declVars
<1>3. RoutineInv'
  <2>1. /\ rt' \in [Targets -> RoutineRow] /\ fan' \in [Events -> FanoutRow]
        /\ firing' \in [Ids -> FiringRow]
    BY <1>2, TableFields DEF Sound, RowTable, FanoutTable, FiringTable
  <2>2. RowsFit(rt') /\ FanoutsFit(fan')
    BY <1>2 DEF Sound
  <2>3. \A p \in Targets : rt'[p].state = "active" => rt'[p].next # 0
    BY <2>2 DEF RowsFit
  <2>4. RoutineTypeOK'
    BY <1>2, <2>1, <2>3 DEF RoutineInv, RoutineTypeOK
  <2>5. FiringsFit(fan, firing)'
    BY <1>2 DEF Sound, FiringsFit
  <2>. QED  BY <2>2, <2>4, <2>5 DEF RoutineInv, RowsFit, FanoutsFit
<1>4. EventsKept
  BY <1>1, <1>2 DEF KeepsEvents, EventsKept, Taken
<1>5. SummariesKept
  BY <1>1, <1>2 DEF Grows, SummariesKept
<1>6. ParkedKept
  BY <1>1, <1>2 DEF ParkedInTime, ParkedKept, Unclaimed
<1>. QED  BY <1>3, <1>4, <1>5, <1>6 DEF Kept

LEMMA DispatchKept ==
  ASSUME RoutineInv, NEW refused, NEW missing, dispatchDueRoutines(refused, missing)
  PROVE  Kept
<1>. DEFINE x == Dispatched(refused, missing)
<1>1. /\ Write(x) /\ batch' = x.fired /\ thrown' = (thrown \/ x.thrown) /\ fresh' = FALSE
      /\ UNCHANGED <<now, up, declVars, faults>>
      /\ Cardinality(FreeIds(Tables)) >= Cardinality(Targets \ (refused \cup missing))
  BY DEF dispatchDueRoutines
<1>2. Sound(x) /\ Grows(Tables, x) /\ KeepsEvents(Tables, x) /\ ParkedInTime(Tables, x)
  BY <1>1, DispatchedStep
<1>. HIDE DEF x
<1>3. x.fired \in SUBSET Ids /\ x.thrown \in BOOLEAN /\ thrown \in BOOLEAN
  BY <1>2, TableFields DEF Sound, RoutineInv, RoutineTypeOK
<1>. QED  BY <1>1, <1>2, <1>3, WrittenKept

LEMMA SyncKept ==
  ASSUME RoutineInv, SyncForManualFire
  PROVE  Kept
<1>. DEFINE d == synchronizeRoutineTargets(Tables, FALSE)
<1>1. /\ mode \in [Targets -> Modes] /\ at \in Schedules /\ now \in 0 .. MaxNow
      /\ fresh \in BOOLEAN /\ thrown \in BOOLEAN /\ batch \subseteq Ids
  BY DEF RoutineInv, RoutineTypeOK
<1>2. /\ Write(d) /\ UNCHANGED <<now, up, declVars, faults>>
      /\ fresh' = fresh /\ thrown' = thrown /\ batch' = batch
  BY DEF SyncForManualFire
<1>3. Sound(Tables)
  BY TablesFit
<1>4. Sound(d) /\ Grows(Tables, d) /\ ClaimsNothing(Tables, d)
  BY <1>1, <1>3, SyncStep
<1>5. KeepsEvents(Tables, d)
  <2>. SUFFICES ASSUME NEW p \in Targets, Tables.rt[p].state = "active",
                       d.rt[p].state \in {"active", "expired"},
                       d.rt[p].at = Tables.rt[p].at
                PROVE  d.rt[p].next = Tables.rt[p].next
    BY DEF KeepsEvents
  <2>1. \/ d.rt[p].next = Tables.rt[p].next
        \/ FALSE /\ mode[p] = "on" /\ Cron(at) /\ catchUpSkip /\ Tables.rt[p].at = at
             /\ ~Parked(Tables, p, Tables.rt[p].next)
    BY <1>1, <1>3, SyncKeepsClocks
  <2>. QED  BY <2>1
<1>6. ParkedInTime(Tables, d)
  BY <1>4 DEF ParkedInTime, ClaimsNothing
<1>. HIDE DEF d
<1>. QED  BY <1>1, <1>2, <1>4, <1>5, <1>6, WrittenKept

-----------------------------------------------------------------------------
(* Firings and summaries.                                                  *)

LEMMA ManualFireKept ==
  ASSUME RoutineInv, NEW p \in Targets, NEW force \in BOOLEAN, fireRoutineNow(p, force)
  PROVE  Kept
<1>. DEFINE id == NextId(Tables)
            f == NewFiring(p, 0)
<1>1. /\ firing' = [firing EXCEPT ![id] = f]
      /\ UNCHANGED <<now, up, fresh, declVars, rt, fan, batch, thrown, faults>>
      /\ allowOverlap \/ ~hasActiveRoutineFiring(Tables, p)
      /\ Tables.firing = firing
  BY TablesFit DEF fireRoutineNow
<1>2. id \in FreeIds(Tables)
  BY NextIdIsFree DEF fireRoutineNow
<1>3. id \in Ids /\ firing[id].state = "none" /\ firing \in [Ids -> FiringRow]
  BY <1>1, <1>2 DEF FreeIds, RoutineInv, RoutineTypeOK
<1>4. f \in FiringRow /\ f.p = p /\ f.at = 0 /\ f.state = "active"
  BY DEF NewFiring, FiringRow
<1>. HIDE DEF id, f
<1>5. /\ firing' \in [Ids -> FiringRow] /\ firing'[id] = f
      /\ \A i \in Ids : i # id => firing'[i] = firing[i]
  BY <1>1, <1>3, <1>4
<1>6. FiringsFit(fan, firing)
  BY DEF RoutineInv
<1>7. FiringsFit(fan, firing)'
  <2>1. \A i \in Ids : firing'[i].state = "none" => firing'[i].at = 0
    BY <1>4, <1>5, <1>6 DEF FiringsFit
  <2>2. \A i \in Ids : firing'[i].at # 0 => i # id
    BY <1>4, <1>5
  <2>3. \A i \in Ids : firing'[i].at # 0 =>
          firing'[i].p \in Targets /\ fan[firing'[i].at].leg[firing'[i].p] = "firing"
    BY <1>5, <1>6, <2>2 DEF FiringsFit
  <2>4. \A i, j \in Ids : firing'[i].at # 0 /\ SameEvent(firing'[i], firing'[j]) => i = j
    <3>1. \A i, j \in Ids : firing'[i].at # 0 /\ SameEvent(firing'[i], firing'[j])
            => i # id /\ j # id
      BY <1>4, <1>5 DEF SameEvent
    <3>. QED  BY <1>5, <1>6, <3>1 DEF FiringsFit
  <2>5. allowOverlap \/ \A i, j \in Ids : BothLive(firing'[i], firing'[j]) => i = j
    <3>. SUFFICES ASSUME ~allowOverlap, NEW i \in Ids, NEW j \in Ids,
                         BothLive(firing'[i], firing'[j])
                  PROVE  i = j
      OBVIOUS
    <3>1. \A k \in Ids : ~(firing[k].p = p /\ firing[k].state = "active")
      BY <1>1 DEF hasActiveRoutineFiring
    <3>2. firing'[i].p = p <=> i = id
      BY <1>4, <1>5, <3>1 DEF BothLive
    <3>3. firing'[j].p = p <=> j = id
      BY <1>4, <1>5, <3>1 DEF BothLive
    <3>4. CASE i = id \/ j = id
      BY <3>2, <3>3, <3>4 DEF BothLive
    <3>5. CASE i # id /\ j # id
      BY <1>5, <1>6, <3>5 DEF FiringsFit
    <3>. QED  BY <3>4, <3>5
  <2>. QED  BY <1>1, <2>1, <2>3, <2>4, <2>5 DEF FiringsFit, declVars
<1>8. RoutineInv'
  BY <1>1, <1>5, <1>7
     DEF RoutineInv, RoutineTypeOK, RowsFit, FanoutsFit, declVars
<1>9. EventsKept /\ SummariesKept /\ ParkedKept
  BY <1>1, SameLegsKept
<1>. QED  BY <1>8, <1>9 DEF Kept

WithNote(f, note) == [f EXCEPT !.note = note]
Ended(f) == [f EXCEPT !.state = "over"]

LEMMA NoteSet ==
  ASSUME NEW f \in FanoutRow, NEW note \in {"none", "pending", "sending", "sent"}
  PROVE  LET new == WithNote(f, note) IN
         /\ new \in FanoutRow /\ new.note = note /\ new.leg = f.leg /\ new.deferred = f.deferred
<1>1. /\ f = [note |-> f.note, leg |-> f.leg, deferred |-> f.deferred]
      /\ f.leg \in [Targets -> Legs] /\ f.deferred \in SUBSET Targets
  BY DEF FanoutRow, Legs
<1>2. WithNote(f, note) = [note |-> note, leg |-> f.leg, deferred |-> f.deferred]
  BY <1>1 DEF WithNote
<1>. QED  BY <1>1, <1>2 DEF FanoutRow, Legs

LEMMA FiringEnded ==
  ASSUME NEW f \in FiringRow
  PROVE  LET new == Ended(f) IN
         new \in FiringRow /\ new.p = f.p /\ new.at = f.at /\ new.state = "over"
<1>1. Ended(f) = [p |-> f.p, at |-> f.at, state |-> "over"]
  BY DEF FiringRow, Ended
<1>. QED  BY <1>1 DEF FiringRow

\* Notes may change, and live firings end.
LEMMA NotesAndEndsKept ==
  ASSUME RoutineInv, rt' = rt, fan' \in [Events -> FanoutRow], firing' \in [Ids -> FiringRow],
         allowOverlap' = allowOverlap,
         \A e \in Events : /\ fan'[e].note = "none" => fan[e].note = "none"
                           /\ fan'[e].leg = fan[e].leg /\ fan'[e].deferred = fan[e].deferred,
         \A i \in Ids : \/ firing'[i] = firing[i]
                        \/ /\ firing'[i].state = "over"
                           /\ firing'[i].p = firing[i].p /\ firing'[i].at = firing[i].at,
         RoutineTypeOK'
  PROVE  Kept
<1>1. RowsFit(rt)' /\ FanoutsFit(fan)'
  BY DEF RoutineInv, RowsFit, FanoutsFit
<1>2. FiringsFit(fan, firing)'
  <2>1. FiringsFit(fan, firing)
    BY DEF RoutineInv
  <2>2. \A i \in Ids : firing'[i].p = firing[i].p /\ firing'[i].at = firing[i].at
    OBVIOUS
  <2>3. \A i \in Ids : firing'[i].state = "none" => firing[i].state = "none"
    OBVIOUS
  <2>4. \A i \in Ids : firing'[i].state = "active" => firing[i].state = "active"
    OBVIOUS
  <2>5. \A i \in Ids : firing'[i].at # 0 =>
          firing'[i].p \in Targets /\ fan'[firing'[i].at].leg[firing'[i].p] = "firing"
    <3>1. \A i \in Ids : firing[i].at \in Events \cup {0}
      BY DEF RoutineInv, RoutineTypeOK, FiringRow
    <3>. QED  BY <2>1, <2>2, <3>1 DEF FiringsFit
  <2>6. \A i \in Ids : firing'[i].state = "none" => firing'[i].at = 0
    BY <2>1, <2>2, <2>3 DEF FiringsFit
  <2>7. \A i, j \in Ids : firing'[i].at # 0 /\ SameEvent(firing'[i], firing'[j]) => i = j
    BY <2>1, <2>2 DEF FiringsFit, SameEvent
  <2>8. allowOverlap' \/ \A i, j \in Ids : BothLive(firing'[i], firing'[j]) => i = j
    BY <2>1, <2>2, <2>4 DEF FiringsFit, BothLive
  <2>. QED  BY <2>5, <2>6, <2>7, <2>8 DEF FiringsFit
<1>. QED  BY <1>1, <1>2, SameLegsKept DEF RoutineInv, Kept

LEMMA CompleteFiringKept ==
  ASSUME RoutineInv, NEW i \in Ids, CompleteFiring(i)
  PROVE  Kept
<1>1. /\ firing \in [Ids -> FiringRow] /\ fan \in [Events -> FanoutRow]
      /\ UNCHANGED <<now, up, fresh, declVars, rt, fan, batch, thrown, faults>>
      /\ firing' = [firing EXCEPT ![i] = Ended(firing[i])]
  BY DEF RoutineInv, RoutineTypeOK, CompleteFiring, Ended
<1>2. /\ Ended(firing[i]) \in FiringRow /\ Ended(firing[i]).p = firing[i].p
      /\ Ended(firing[i]).at = firing[i].at /\ Ended(firing[i]).state = "over"
  BY <1>1, FiringEnded
<1>3. /\ firing' \in [Ids -> FiringRow] /\ firing'[i] = Ended(firing[i])
      /\ \A j \in Ids : j # i => firing'[j] = firing[j]
  BY <1>1, <1>2
<1>4. RoutineTypeOK'
  BY <1>1, <1>3 DEF RoutineInv, RoutineTypeOK, declVars
<1>. QED  BY <1>1, <1>2, <1>3, <1>4, NotesAndEndsKept DEF declVars

LEMMA DeliverKept ==
  ASSUME RoutineInv, NEW e \in Events, Deliver(e)
  PROVE  Kept
<1>1. PICK note \in {"pending", "sending", "sent"} :
        /\ fan' = [fan EXCEPT ![e].note = note]
        /\ UNCHANGED <<now, up, fresh, declVars, rt, firing, batch, thrown>>
        /\ faults' \in 0 .. MaxFaults
  <2>1. faults \in 0 .. MaxFaults /\ MaxFaults \in Nat
    BY RoutineBounds DEF RoutineInv, RoutineTypeOK
  <2>2. CASE claimRoutineFanoutNotification(e)
    BY <2>1, <2>2 DEF claimRoutineFanoutNotification
  <2>3. ASSUME NEW delivered \in BOOLEAN, completeRoutineFanoutNotification(e, delivered)
        PROVE  \E note \in {"pending", "sending", "sent"} :
                 /\ fan' = [fan EXCEPT ![e].note = note]
                 /\ UNCHANGED <<now, up, fresh, declVars, rt, firing, batch, thrown>>
                 /\ faults' \in 0 .. MaxFaults
    <3>1. faults' \in 0 .. MaxFaults
      BY <2>1, <2>3 DEF completeRoutineFanoutNotification, Fault
    <3>. QED  BY <2>3, <3>1 DEF completeRoutineFanoutNotification
  <2>. QED  BY <2>2, <2>3 DEF Deliver
<1>2. fan \in [Events -> FanoutRow] /\ firing \in [Ids -> FiringRow]
  BY DEF RoutineInv, RoutineTypeOK
<1>3. fan' = [fan EXCEPT ![e] = WithNote(fan[e], note)]
  BY <1>1 DEF WithNote
<1>4. /\ WithNote(fan[e], note) \in FanoutRow /\ WithNote(fan[e], note).note = note
      /\ WithNote(fan[e], note).leg = fan[e].leg
      /\ WithNote(fan[e], note).deferred = fan[e].deferred
  BY <1>2, NoteSet
<1>5. /\ fan' \in [Events -> FanoutRow] /\ fan'[e] = WithNote(fan[e], note)
      /\ \A d \in Events : d # e => fan'[d] = fan[d]
  BY <1>2, <1>3, <1>4
<1>6. RoutineTypeOK'
  BY <1>1, <1>2, <1>5 DEF RoutineInv, RoutineTypeOK, declVars
<1>. QED  BY <1>1, <1>2, <1>4, <1>5, <1>6, NotesAndEndsKept DEF declVars

LEMMA StartDaemonKept ==
  ASSUME RoutineInv, StartDaemon
  PROVE  Kept
<1>. DEFINE Note(f) == IF f.note = "sending" THEN "pending" ELSE f.note
            Over(f) == IF f.state = "active" THEN "over" ELSE f.state
<1>1. /\ fan \in [Events -> FanoutRow] /\ firing \in [Ids -> FiringRow]
      /\ UNCHANGED <<now, declVars, rt, batch, thrown, faults>>
      /\ up' = TRUE /\ fresh' = TRUE
      /\ fan' = [e \in Events |-> WithNote(fan[e], Note(fan[e]))]
      /\ firing' = [i \in Ids |-> [firing[i] EXCEPT !.state = Over(firing[i])]]
  BY DEF RoutineInv, RoutineTypeOK, StartDaemon, WithNote
<1>2. \A e \in Events :
        /\ fan'[e] \in FanoutRow /\ fan'[e].note = Note(fan[e])
        /\ fan'[e].leg = fan[e].leg /\ fan'[e].deferred = fan[e].deferred
  <2>. SUFFICES ASSUME NEW e \in Events
                PROVE  /\ fan'[e] \in FanoutRow /\ fan'[e].note = Note(fan[e])
                       /\ fan'[e].leg = fan[e].leg /\ fan'[e].deferred = fan[e].deferred
    OBVIOUS
  <2>1. fan[e] \in FanoutRow /\ Note(fan[e]) \in {"none", "pending", "sending", "sent"}
    BY <1>1 DEF FanoutRow
  <2>2. fan'[e] = WithNote(fan[e], Note(fan[e]))
    BY <1>1
  <2>. HIDE DEF Note
  <2>. QED  BY <2>1, <2>2, NoteSet
<1>3. \A i \in Ids :
        /\ firing'[i] \in FiringRow
        /\ \/ firing'[i] = firing[i]
           \/ /\ firing'[i].state = "over"
              /\ firing'[i].p = firing[i].p /\ firing'[i].at = firing[i].at
  <2>. SUFFICES ASSUME NEW i \in Ids
                PROVE  /\ firing'[i] \in FiringRow
                       /\ \/ firing'[i] = firing[i]
                          \/ /\ firing'[i].state = "over"
                             /\ firing'[i].p = firing[i].p /\ firing'[i].at = firing[i].at
    OBVIOUS
  <2>1. firing[i] \in FiringRow
    BY <1>1
  <2>2. CASE firing[i].state = "active"
    <3>1. firing'[i] = Ended(firing[i])
      BY <1>1, <2>2 DEF Ended
    <3>. QED  BY <2>1, <3>1, FiringEnded
  <2>3. CASE firing[i].state # "active"
    <3>1. firing'[i] = [firing[i] EXCEPT !.state = firing[i].state]
      BY <1>1, <2>3
    <3>2. firing'[i] = firing[i]
      BY <2>1, <3>1 DEF FiringRow
    <3>. QED  BY <2>1, <3>2
  <2>. QED  BY <2>2, <2>3
<1>4. fan' \in [Events -> FanoutRow] /\ firing' \in [Ids -> FiringRow]
  BY <1>1, <1>2, <1>3
<1>5. RoutineTypeOK'
  BY <1>1, <1>4 DEF RoutineInv, RoutineTypeOK, declVars
<1>. QED  BY <1>1, <1>2, <1>3, <1>4, <1>5, NotesAndEndsKept DEF declVars

-----------------------------------------------------------------------------
(* The whole.                                                              *)

\* Steps that leave the tables and the policies alone.
LEMMA SameTablesKept ==
  ASSUME RoutineInv, UNCHANGED tableVars, UNCHANGED <<catchUpSkip, allowOverlap>>,
         now' \in 0 .. MaxNow, {up', fresh', thrown'} \subseteq BOOLEAN,
         mode' \in [Targets -> Modes], at' \in Schedules, batch' \subseteq Ids,
         faults' \in 0 .. MaxFaults
  PROVE  Kept
<1>1. rt' = rt /\ fan' = fan /\ firing' = firing /\ allowOverlap' = allowOverlap
      /\ catchUpSkip' = catchUpSkip
  BY DEF tableVars
<1>2. RoutineTypeOK'
  BY <1>1 DEF RoutineInv, RoutineTypeOK
<1>3. /\ fan' \in [Events -> FanoutRow] /\ firing' \in [Ids -> FiringRow]
  BY <1>1 DEF RoutineInv, RoutineTypeOK
<1>. QED  BY <1>1, <1>2, <1>3, NotesAndEndsKept

LEMMA StepKept == RoutineInv /\ [RoutineNext]_routineVars => Kept
<1>. SUFFICES ASSUME RoutineInv, [RoutineNext]_routineVars PROVE Kept
  OBVIOUS
<1>1. /\ now \in 0 .. MaxNow /\ {up, fresh, thrown} \subseteq BOOLEAN
      /\ mode \in [Targets -> Modes] /\ at \in Schedules /\ batch \subseteq Ids
      /\ faults \in 0 .. MaxFaults /\ MaxNow \in Nat /\ MaxFaults \in Nat
      /\ Edited \subseteq Targets
  BY RoutineBounds DEF RoutineInv, RoutineTypeOK
<1>2. Fault => faults' \in 0 .. MaxFaults
  BY <1>1 DEF Fault
<1>3. CASE UNCHANGED routineVars
  BY <1>1, <1>3, SameTablesKept DEF routineVars, declVars
<1>4. CASE Dispatch
  BY <1>4, DispatchKept DEF Dispatch
<1>5. CASE EndDispatch
  BY <1>1, <1>5, SameTablesKept DEF EndDispatch, declVars
<1>6. CASE SyncForManualFire
  BY <1>6, SyncKept
<1>7. CASE \E p \in Targets, force \in BOOLEAN : fireRoutineNow(p, force)
  BY <1>7, ManualFireKept
<1>8. CASE \E i \in Ids : CompleteFiring(i)
  BY <1>8, CompleteFiringKept
<1>9. CASE \E e \in Events : Deliver(e)
  BY <1>9, DeliverKept
<1>10. CASE PassTime
  <2>1. now' \in 0 .. MaxNow
    BY <1>1, <1>10 DEF PassTime
  <2>. QED  BY <1>1, <1>10, <2>1, SameTablesKept DEF PassTime, declVars
<1>11. CASE \E p \in Edited, m \in Modes : EditMode(p, m)
  <2>1. mode' \in [Targets -> Modes]
    BY <1>1, <1>11 DEF EditMode
  <2>. QED  BY <1>1, <1>2, <1>11, <2>1, SameTablesKept DEF EditMode
<1>12. CASE \E schedule \in Schedules : EditSchedule(schedule)
  BY <1>1, <1>2, <1>12, SameTablesKept DEF EditSchedule
<1>13. CASE CrashDaemon
  BY <1>1, <1>2, <1>13, SameTablesKept DEF CrashDaemon, declVars
<1>14. CASE StartDaemon
  BY <1>14, StartDaemonKept
<1>. QED  BY <1>3, <1>4, <1>5, <1>6, <1>7, <1>8, <1>9, <1>10, <1>11, <1>12, <1>13, <1>14
          DEF RoutineNext

LEMMA InitKept == RoutineInit => RoutineInv
<1>. SUFFICES ASSUME RoutineInit PROVE RoutineInv
  OBVIOUS
<1>1. /\ now = 0 /\ up = TRUE /\ fresh = TRUE /\ thrown = FALSE /\ batch = {} /\ faults = 0
      /\ mode = [p \in Targets |-> "on"] /\ at \in Schedules
      /\ catchUpSkip \in BOOLEAN /\ allowOverlap \in BOOLEAN
      /\ MaxNow \in Nat /\ MaxFaults \in Nat
  BY RoutineBounds DEF RoutineInit
<1>2. FirstFireAt(at) \in Events /\ FirstFireAt(at) # 0
  <2>1. now \in 0 .. MaxNow
    BY <1>1
  <2>2. 0 \notin Events
    BY Bounds DEF Events
  <2>. QED  BY <1>1, <2>1, <2>2, ClocksAreEvents
<1>. DEFINE row == [state |-> "active", next |-> FirstFireAt(at), at |-> at,
                    fired |-> FALSE, counted |-> {}]
            f == [note |-> "none", leg |-> [p \in Targets |-> "none"], deferred |-> {}]
<1>3. /\ rt = [p \in Targets |-> row] /\ fan = [e \in Events |-> f]
      /\ firing = [i \in Ids |-> NoFiring]
  BY DEF RoutineInit
<1>4. row \in RoutineRow /\ row.state = "active" /\ row.next # 0
  BY <1>1, <1>2, RowMade
<1>5. /\ f \in FanoutRow /\ f.deferred = {} /\ \A p \in Targets : f.leg[p] = "none"
  BY DEF FanoutRow
<1>6. NoFiring \in FiringRow /\ NoFiring.at = 0 /\ NoFiring.state = "none"
  BY DEF NoFiring, FiringRow
<1>. HIDE DEF row, f, NoFiring
<1>7. rt \in [Targets -> RoutineRow] /\ \A p \in Targets : rt[p] = row
  BY <1>3, <1>4
<1>8. fan \in [Events -> FanoutRow] /\ \A e \in Events : fan[e] = f
  BY <1>3, <1>5
<1>9. firing \in [Ids -> FiringRow] /\ \A i \in Ids : firing[i] = NoFiring
  BY <1>3, <1>6
<1>10. mode \in [Targets -> Modes]
  BY <1>1 DEF Modes
<1>11. RoutineTypeOK
  <2>1. now \in 0 .. MaxNow /\ faults \in 0 .. MaxFaults
    BY <1>1
  <2>2. up \in BOOLEAN /\ {fresh, catchUpSkip, allowOverlap, thrown} \subseteq BOOLEAN
    BY <1>1
  <2>3. \A p \in Targets : rt[p].state = "active" => rt[p].next # 0
    BY <1>4, <1>7
  <2>. QED  BY <1>1, <1>7, <1>8, <1>9, <1>10, <2>1, <2>2, <2>3 DEF RoutineTypeOK
<1>12. RowsFit(rt) /\ FanoutsFit(fan)
  BY <1>4, <1>5, <1>7, <1>8 DEF RowsFit, FanoutsFit
<1>13. FiringsFit(fan, firing)
  BY <1>6, <1>9 DEF FiringsFit, BothLive
<1>. QED  BY <1>11, <1>12, <1>13 DEF RoutineInv

LEMMA InvariantFollows == RoutineInv => RoutineInvariant
<1>. SUFFICES ASSUME RoutineInv PROVE RoutineInvariant
  OBVIOUS
<1>1. RoutineTypeOK /\ FiringsFit(fan, firing)
  BY DEF RoutineInv
<1>2. ClockEventFiredOnce
  BY <1>1 DEF FiringsFit, SameEvent, ClockEventFiredOnce
<1>3. NoOverlappingFirings
  <2>. SUFFICES ASSUME ~allowOverlap, NEW p \in Targets
                PROVE  Cardinality({i \in Ids : firing[i].p = p
                                                /\ firing[i].state = "active"}) <= 1
    BY DEF NoOverlappingFirings
  <2>. DEFINE S == {i \in Ids : firing[i].p = p /\ firing[i].state = "active"}
  <2>1. \A i, j \in S : i = j
    BY <1>1 DEF FiringsFit, BothLive
  <2>. HIDE DEF S
  <2>2. CASE S = {}
    <3>1. Cardinality(S) = 0
      BY <2>2, FS_EmptySet
    <3>. QED  BY <3>1 DEF S
  <2>3. CASE S # {}
    <3>1. PICK i : S = {i}
      BY <2>1, <2>3
    <3>2. Cardinality(S) = 1
      BY <3>1, FS_Singleton
    <3>. QED  BY <3>2 DEF S
  <2>. QED  BY <2>2, <2>3
<1>. QED  BY <1>1, <1>2, <1>3 DEF RoutineInvariant

LEMMA RoutineInvariance == RoutineSpec => []RoutineInv
<1>1. RoutineInv /\ [RoutineNext]_routineVars => RoutineInv'
  BY StepKept DEF Kept
<1>. QED  BY <1>1, InitKept, PTL DEF RoutineSpec

\* However many Projects, policies, schedules, faults and firings there are: an
\* event starts at most one firing per Project, and without allow_overlap a Project
\* has at most one live firing.
THEOREM EventsFireOnce == RoutineSpec => []RoutineInvariant
BY RoutineInvariance, InvariantFollows, PTL

\* A live clock passes a due event only with its firing or a counted skip or miss,
\* a reported leg stays as reported, and what was parked fires in time.
THEOREM EventsAccounted == RoutineSpec => EventsAreAccountedFor
<1>1. RoutineInv /\ [RoutineNext]_routineVars
        => [EventsKept]_routineVars /\ [SummariesKept]_routineVars /\ [ParkedKept]_routineVars
  BY StepKept DEF Kept
<1>2. EventsAreAccountedFor <=> /\ [][EventsKept]_routineVars /\ [][SummariesKept]_routineVars
                                /\ [][ParkedKept]_routineVars
  BY PTL DEF EventsAreAccountedFor, NoEventLostSilently, SummaryIsFinal, ParkedNeverFiresLate,
             EventsKept, SummariesKept, ParkedKept
<1>. QED  BY <1>1, <1>2, RoutineInvariance, PTL DEF RoutineSpec
=============================================================================
