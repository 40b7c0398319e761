---------------------------- MODULE ProviderProofs ----------------------------
(***************************************************************************)
(* Run-Chain Provider Plans, Provider Interventions, and the processes of  *)
(* a Run: what holds for any number of requests, root Runs, mishaps,       *)
(* tickets, attempts and messages.                                         *)
(***************************************************************************)
EXTENDS ProviderPlans, ProviderInterventions, ProviderProcess, SequenceTheorems, FiniteSetTheorems, TLAPS

-----------------------------------------------------------------------------
(* Provider Plans.                                                         *)

RootRun == [plan : {0} \cup Requests, state : {"live", "ended"}]
PlanStatuses == LiveStatuses \cup Settled \cup {"none"}
RequestPlaces == {"idle", "reading", "deciding", "writing", "settling", "over"}
RequestKinds == {"none", "start", "retry", "cancel"}
PlanIds == {0} \cup Requests
RequestRecord ==
    [at : RequestPlaces, kind : RequestKinds, plan : PlanIds,
     sent : BOOLEAN, flag : BOOLEAN, was : PlanStatuses]

PlanRecords ==
    /\ planStatus \in [Requests -> PlanStatuses]
    /\ request \in [Requests -> RequestRecord]
    /\ readyLabel \in BOOLEAN /\ snapshotReady \in BOOLEAN
    /\ freshClaim \in [at : {"idle", "queued", "label"}, plan : {0} \cup Requests]
    /\ root \in Seq(RootRun) /\ Len(root) <= MaxRoots
    /\ mishaps \in 0 .. MaxMishaps

\* A request names the plan it works on; the plan of a Start is new.
RequestsNamePlans ==
    \A k \in Requests :
        /\ request[k].at \in {"deciding", "writing", "settling"} => request[k].plan \in Requests
        /\ request[k].at = "reading" => request[k].plan \in Requests
        /\ request[k].at = "idle" => planStatus[k] = "none"
        /\ (request[k].kind = "start" /\ request[k].at \in {"reading", "deciding"}
              => planStatus[k] = "none")

\* The partial unique index on the live statuses.
OneLivePlan == \A p, q \in LivePlans : p = q

\* Between the check of the plan and its consumption no other plan comes up: the
\* checked one can only lapse.
ClaimHoldsPlan ==
    freshClaim.at = "label" => LivePlans \subseteq {freshClaim.plan}

\* A claim that is under way has room for the root it may create.
ClaimHasRoom == freshClaim.at # "idle" => Len(root) < MaxRoots

PlanInv ==
    PlanRecords /\ ClaimHasRoom /\ RequestsNamePlans /\ OneLivePlan /\ ClaimHoldsPlan /\ NoPlanUnderALiveRoot

LEMMA ActivePlanIsLive ==
  ASSUME PlanRecords, OneLivePlan
  PROVE  /\ ActivePlan \in {0} \cup Requests
         /\ LivePlans \subseteq {ActivePlan}
         /\ ActivePlan # 0 => ActivePlan \in LivePlans
BY PlanBounds DEF ActivePlan, LivePlans, OneLivePlan, Requests

LEMMA PlanWords ==
  /\ {"idle", "reading", "deciding", "writing", "settling", "over"} \subseteq RequestPlaces
  /\ {"none", "start", "retry", "cancel"} \subseteq RequestKinds
  /\ {"none", "pending", "label_written", "label_failed", "expired", "consumed", "cancelled",
      "superseded"} \subseteq PlanStatuses
  /\ 0 \in PlanIds /\ Requests \subseteq PlanIds
BY DEF PlanIds, RequestPlaces, RequestKinds, PlanStatuses, LiveStatuses, Settled

LEMMA PlansBegin == PlansInit => PlanInv
<1>. SUFFICES ASSUME PlansInit PROVE PlanInv
  OBVIOUS
<1>. USE PlanBounds, PlanWords DEF PlansInit
<1>1. \A p \in Requests : planStatus[p] \notin LiveStatuses
  BY DEF LiveStatuses
<1>2. root \in Seq(RootRun) /\ Len(root) = 0 /\ 0 <= MaxRoots /\ 0 \in 0 .. MaxMishaps
  OBVIOUS
<1>3. PlanRecords
  BY <1>2 DEF PlanRecords, RequestRecord, NoRequest, NoFreshClaim
<1>4. OneLivePlan /\ ClaimHoldsPlan /\ NoPlanUnderALiveRoot
  BY <1>1 DEF OneLivePlan, ClaimHoldsPlan, NoPlanUnderALiveRoot, LivePlans
<1>. QED
  BY <1>3, <1>4 DEF PlanInv, RequestsNamePlans, ClaimHasRoom, NoRequest, NoFreshClaim

\* A step of a request, of GitHub or of time.
PlanStep(k) ==
    \/ StartBegins(k) \/ RequestStep(k) \/ LabelLands(k) \/ Expire(k)
    \/ \E p \in Requests : RetryBegins(k, p) \/ CancelBegins(k, p)

SettledStays(p) == planStatus[p] \in Settled => planStatus'[p] = planStatus[p]

\* The statuses: what any step of a request may do to them.
LEMMA StatusSteps ==
  ASSUME PlanInv, NEW k \in Requests, PlanStep(k)
  PROVE  /\ planStatus' \in [Requests -> PlanStatuses]
         /\ \A p \in Requests : SettledStays(p)
         /\ OneLivePlan' /\ NoPlanUnderALiveRoot' /\ ClaimHoldsPlan'
         /\ UNCHANGED <<freshClaim, root, snapshotReady, mishaps>> /\ readyLabel' \in BOOLEAN
         /\ \A p \in Requests : planStatus'[p] # planStatus[p] =>
               \/ planStatus[p] # "none"
               \/ p = k /\ request[k].at = "deciding" /\ request'[k].at # "deciding"
<1>. USE PlanBounds DEF PlanInv, PlanRecords, PlanStatuses, LiveStatuses, Settled, SettledStays,
     LivePlans, OneLivePlan, NoPlanUnderALiveRoot, ClaimHoldsPlan, apart, LiveRoot
<1>1. CASE UNCHANGED <<planStatus, freshClaim, root, snapshotReady, mishaps>>
           /\ readyLabel' \in BOOLEAN
  BY <1>1
<1>2. CASE CreatePlan(k)
  <2>1. CASE UNCHANGED planStatus
    BY <1>1, <1>2, <2>1 DEF CreatePlan
  <2>2. CASE ~UNCHANGED planStatus
    <3>1. /\ planStatus' = [p \in Requests |-> IF p = k THEN "pending"
                                ELSE IF planStatus[p] \in LiveStatuses THEN "superseded"
                                ELSE planStatus[p]]
          /\ ~LiveRoot /\ freshClaim.at # "label" /\ UNCHANGED apart
          /\ request' = [request EXCEPT ![k].at = "writing", ![k].sent = TRUE]
          /\ request[k].at = "deciding" /\ request[k].kind = "start"
      BY <1>2, <2>2 DEF CreatePlan, StartBlocked, PlanMutexFree
    <3>2. planStatus[k] = "none"
      BY <3>1 DEF RequestsNamePlans
    <3>3. request'[k].at = "writing"
      BY <3>1 DEF RequestRecord
    <3>4. LivePlans' = {k} /\ ~LiveRoot' /\ planStatus' \in [Requests -> PlanStatuses]
      BY <3>1
    <3>. QED
      BY <3>1, <3>2, <3>3, <3>4
  <2>. QED
    BY <2>1, <2>2
<1>3. CASE ReopenPlan(k)
  BY <1>3 DEF ReopenPlan, PlanMutexFree, Answer, RequestsNamePlans
<1>4. CASE CancelPlan(k)
  BY <1>4 DEF CancelPlan, PlanMutexFree, RequestsNamePlans
<1>5. CASE SettleLabelWrite(k)
  BY <1>5 DEF SettleLabelWrite, MarkLabelResult, PlanMutexFree, RequestsNamePlans
<1>6. CASE Expire(k)
  BY <1>6 DEF Expire
<1>. QED
  BY <1>1, <1>2, <1>3, <1>4, <1>5, <1>6 DEF PlanStep, RequestStep, StartBegins, LabelLands,
     RetryBegins, CancelBegins, ReadLive, WriteAnswered

\* The requests.
\* An answered request.
LEMMA AnswerGiven ==
  ASSUME request \in [Requests -> RequestRecord], NEW k \in Requests, Answer(k)
  PROVE  /\ request' \in [Requests -> RequestRecord] /\ request'[k].at = "over"
         /\ \A j \in Requests \ {k} : request'[j] = request[j]
BY PlanWords DEF Answer, NoRequest, RequestRecord

LEMMA RequestSteps ==
  ASSUME PlanInv, NEW k \in Requests, PlanStep(k)
  PROVE  request' \in [Requests -> RequestRecord] /\ RequestsNamePlans'
<1>. DEFINE Fits == /\ request' \in [Requests -> RequestRecord]
                    /\ \A j \in Requests \ {k} : request'[j] = request[j]
            Named == /\ request'[k].at \in {"reading", "deciding", "writing", "settling"}
                          => request'[k].plan \in Requests
                     /\ request'[k].at = "idle" => planStatus'[k] = "none"
                     /\ (request'[k].kind = "start" /\ request'[k].at \in {"reading", "deciding"}
                          => planStatus'[k] = "none")
<1>0. /\ request[k] \in RequestRecord /\ request \in [Requests -> RequestRecord]
      /\ request[k].sent \in BOOLEAN /\ request[k].flag \in BOOLEAN
      /\ planStatus \in [Requests -> PlanStatuses]
  BY DEF PlanInv, PlanRecords, RequestRecord
<1>1. ASSUME Answer(k) PROVE Fits /\ Named
  BY <1>0, <1>1, AnswerGiven
<1>. USE <1>0, PlanWords
<1>2. ASSUME StartBegins(k) PROVE Fits /\ Named
  <2>1. Fits
    BY <1>2 DEF StartBegins, NoRequest, RequestRecord
  <2>2. Named
    BY <1>2 DEF StartBegins, NoRequest, Arrives, PlanInv, RequestsNamePlans
  <2>. QED
    BY <2>1, <2>2
<1>3. ASSUME ReadLive(k) PROVE Fits /\ Named
  <2>1. ASSUME NEW flag \in BOOLEAN,
               request' = [request EXCEPT ![k].at = "deciding", ![k].flag = flag]
        PROVE  Fits /\ request'[k].kind = request[k].kind /\ request'[k].plan = request[k].plan
               /\ request'[k].at = "deciding"
    BY <2>1 DEF RequestRecord
  <2>2. Answer(k) \/ \E flag \in BOOLEAN :
                       request' = [request EXCEPT ![k].at = "deciding", ![k].flag = flag]
    BY <1>3 DEF ReadLive
  <2>3. request[k].at = "reading" /\ UNCHANGED planStatus
    BY <1>3 DEF ReadLive
  <2>. QED
    BY <1>1, <2>1, <2>2, <2>3 DEF PlanInv, RequestsNamePlans
<1>4. ASSUME CreatePlan(k) PROVE Fits /\ Named
  <2>1. CASE request' = [request EXCEPT ![k].at = "writing", ![k].sent = TRUE]
    <3>1. Fits /\ request'[k].at = "writing" /\ request'[k].plan = request[k].plan
      BY <2>1 DEF RequestRecord
    <3>. QED
      BY <1>4, <3>1 DEF CreatePlan, PlanInv, RequestsNamePlans
  <2>. QED
    BY <1>1, <1>4, <2>1 DEF CreatePlan
<1>5. ASSUME ReopenPlan(k) PROVE Fits /\ Named
  <2>1. ASSUME NEW at \in {"settling", "writing"}, NEW sent \in BOOLEAN,
               request' = [request EXCEPT ![k].at = at, ![k].sent = sent]
        PROVE  Fits /\ request'[k].at = at /\ request'[k].plan = request[k].plan
    BY <2>1 DEF RequestRecord
  <2>2. Answer(k) \/ \E at \in {"settling", "writing"}, sent \in BOOLEAN :
                       request' = [request EXCEPT ![k].at = at, ![k].sent = sent]
    BY <1>5 DEF ReopenPlan
  <2>. QED
    BY <1>1, <1>5, <2>1, <2>2 DEF ReopenPlan, PlanInv, RequestsNamePlans
<1>6. ASSUME WriteAnswered(k) PROVE Fits /\ Named
  <2>1. Fits
    BY <1>6 DEF WriteAnswered, RequestRecord
  <2>2. Named
    BY <1>6 DEF WriteAnswered, RequestRecord, PlanInv, RequestsNamePlans
  <2>. QED
    BY <2>1, <2>2
<1>7. ASSUME LabelLands(k) PROVE Fits /\ Named
  <2>1. Fits
    BY <1>7 DEF LabelLands, RequestRecord
  <2>2. Named
    BY <1>7 DEF LabelLands, RequestRecord, PlanInv, RequestsNamePlans
  <2>. QED
    BY <2>1, <2>2
<1>8. ASSUME Expire(k) PROVE Fits /\ Named
  BY <1>8 DEF Expire, PlanInv, RequestsNamePlans
<1>9. ASSUME NEW p \in Requests, NEW r \in RequestRecord, r.plan = p,
             r.kind \in {"retry", "cancel"}, r.at \in {"reading", "deciding"},
             request' = [request EXCEPT ![k] = r]
      PROVE  Fits /\ Named
  BY <1>9
<1>9a. ASSUME NEW p \in Requests, RetryBegins(k, p) PROVE Fits /\ Named
  <2>. DEFINE r == [NoRequest EXCEPT !.at = "reading", !.kind = "retry", !.plan = p]
  <2>1. r \in RequestRecord /\ r.plan = p /\ r.kind = "retry" /\ r.at = "reading"
    BY DEF NoRequest, RequestRecord
  <2>2. request' = [request EXCEPT ![k] = r]
    BY <1>9a DEF RetryBegins
  <2>. HIDE DEF r
  <2>. QED
    BY <1>9, <2>1, <2>2
<1>9b. ASSUME NEW p \in Requests, CancelBegins(k, p) PROVE Fits /\ Named
  <2>1. PICK at \in {"reading", "deciding"} :
          request' = [request EXCEPT ![k] =
            [NoRequest EXCEPT !.kind = "cancel", !.plan = p, !.was = planStatus[p], !.at = at]]
    BY <1>9b DEF CancelBegins
  <2>. DEFINE r == [NoRequest EXCEPT !.kind = "cancel", !.plan = p, !.was = planStatus[p],
                                     !.at = at]
  <2>2. planStatus[p] \in PlanStatuses
    OBVIOUS
  <2>3. r \in RequestRecord /\ r.plan = p /\ r.kind = "cancel" /\ r.at = at
    BY <2>2 DEF NoRequest, RequestRecord
  <2>. HIDE DEF r
  <2>. QED
    BY <1>9, <2>1, <2>3 DEF r
<1>10. Fits /\ Named
  BY <1>1, <1>2, <1>3, <1>4, <1>5, <1>6, <1>7, <1>8, <1>9a, <1>9b DEF PlanStep, RequestStep, CancelPlan,
     SettleLabelWrite
<1>11. \A j \in Requests \ {k} : planStatus[j] = "none" => planStatus'[j] = "none"
  BY StatusSteps
<1>. QED
  BY <1>10, <1>11 DEF PlanInv, RequestsNamePlans

LEMMA RootsEnd ==
  ASSUME PlanRecords, root' = [n \in DOMAIN root |-> [root[n] EXCEPT !.state = "ended"]]
  PROVE  root' \in Seq(RootRun) /\ Len(root') = Len(root) /\ ~LiveRoot'
<1>. DEFINE n == Len(root)
<1>1. n \in Nat /\ DOMAIN root = 1 .. n /\ \A i \in 1 .. n : root[i] \in RootRun
  BY DEF PlanRecords
<1>2. \A i \in 1 .. n : root'[i] \in RootRun /\ root'[i].state = "ended"
  BY <1>1 DEF RootRun
<1>3. root' \in Seq(RootRun) /\ Len(root') = n
  BY <1>1, <1>2
<1>4. \A i \in DOMAIN root' : root'[i].state = "ended"
  BY <1>1, <1>2
<1>. QED
  BY <1>3, <1>4 DEF LiveRoot

\* The claim and the rest of the world.
LEMMA ClaimSteps ==
  ASSUME PlanInv,
         \/ ResolveAndClaim \/ ClaimStep
         \/ PollReadyLabel \/ EditReadyLabel \/ RootEnds \/ PlansRestart
  PROVE  /\ PlanInv'
         /\ \A p \in Requests : SettledStays(p)
         /\ Len(root') > Len(root) =>
               LET new == root'[Len(root')] IN
               \/ LivePlans = {}
               \/ new.plan \in LivePlans /\ planStatus'[new.plan] = "consumed"
               \/ new.state = "ended"
<1>. USE PlanBounds DEF PlanInv, SettledStays, Mishap
<1>0. Len(root) \in Nat
  BY DEF PlanRecords
<1>1. CASE ResolveAndClaim
  BY <1>0, <1>1, ActivePlanIsLive DEF ResolveAndClaim, ClaimHasRoom, PlanRecords, RequestsNamePlans, OneLivePlan,
     ClaimHoldsPlan, NoPlanUnderALiveRoot, LivePlans, LiveRoot
<1>2. CASE CheckPlan
  BY <1>0, <1>2, ActivePlanIsLive DEF CheckPlan, ClaimHasRoom, PlanUnchanged, NoFreshClaim, PlanRecords,
     RequestsNamePlans, OneLivePlan, ClaimHoldsPlan, NoPlanUnderALiveRoot, LivePlans, LiveRoot
<1>3. CASE ClaimWriteFails
  BY <1>0, <1>3 DEF ClaimWriteFails, ClaimHasRoom, NoFreshClaim, PlanRecords, RequestsNamePlans, OneLivePlan,
     ClaimHoldsPlan, NoPlanUnderALiveRoot, LivePlans, LiveRoot
<1>4. CASE ConsumePlan
  <2>. DEFINE p == freshClaim.plan
              consumes == p # 0 /\ planStatus[p] \in Consumable
  <2>0. p \in {0} \cup Requests /\ LivePlans \subseteq {p} /\ LivePlans \subseteq Requests
    BY <1>4 DEF ConsumePlan, PlanRecords, ClaimHoldsPlan, LivePlans
  <2>1. PICK state \in {"live", "ended"} :
            /\ p # 0 /\ ~consumes => state = "ended"
            /\ root' = Append(root, [plan |-> IF consumes THEN p ELSE 0, state |-> state])
    BY <1>4 DEF ConsumePlan
  <2>2. /\ planStatus' = IF consumes THEN [planStatus EXCEPT ![p] = "consumed"] ELSE planStatus
        /\ freshClaim' = NoFreshClaim
        /\ UNCHANGED <<request, readyLabel, snapshotReady, mishaps>>
    BY <1>4 DEF ConsumePlan
  <2>3. /\ planStatus' \in [Requests -> PlanStatuses]
        /\ LivePlans' = IF consumes THEN {} ELSE LivePlans
        /\ \A q \in Requests : SettledStays(q) /\ (planStatus[q] = "none" => planStatus'[q] = "none")
    BY <2>0, <2>2, PlanWords DEF PlanRecords, LivePlans, Consumable, LiveStatuses, Settled
  <2>4. /\ root' \in Seq(RootRun) /\ Len(root') = Len(root) + 1
        /\ root'[Len(root')] = [plan |-> IF consumes THEN p ELSE 0, state |-> state]
        /\ \A n \in 1 .. Len(root) : root'[n] = root[n]
    BY <1>0, <2>0, <2>1 DEF PlanRecords, RootRun
  <2>5. Len(root') <= MaxRoots
    <3>1. freshClaim.at = "label"
      BY <1>4 DEF ConsumePlan
    <3>. QED
      BY <1>0, <2>4, <3>1 DEF ClaimHasRoom
  <2>6. PlanRecords'
    BY <2>2, <2>3, <2>4, <2>5 DEF PlanRecords, NoFreshClaim
  <2>7. RequestsNamePlans'
    BY <2>2, <2>3 DEF RequestsNamePlans
  <2>8. LiveRoot' => LivePlans' = {}
    <3>1. LiveRoot' => LiveRoot \/ state = "live"
      BY <1>0, <2>1, <2>4 DEF LiveRoot, PlanRecords
    <3>2. CASE consumes
      BY <2>3, <3>2
    <3>3. CASE p # 0 /\ ~consumes
      BY <2>1, <2>3, <3>1, <3>3 DEF NoPlanUnderALiveRoot
    <3>4. CASE p = 0
      BY <2>0, <2>3, <3>4, PlanBounds DEF Requests
    <3>. QED
      BY <3>2, <3>3, <3>4
  <2>9. \/ LivePlans = {}
        \/ root'[Len(root')].plan \in LivePlans /\ planStatus'[root'[Len(root')].plan] = "consumed"
        \/ root'[Len(root')].state = "ended"
    <3>1. CASE consumes
      <4>1. p \in LivePlans /\ planStatus'[p] = "consumed"
        BY <2>0, <2>2, <3>1 DEF PlanRecords, LivePlans, Consumable, LiveStatuses
      <4>2. root'[Len(root')].plan = p
        BY <2>4, <3>1
      <4>. QED
        BY <4>1, <4>2
    <3>2. CASE p # 0 /\ ~consumes
      BY <2>1, <2>4, <3>2
    <3>3. CASE p = 0
      BY <2>0, <3>3 DEF Requests
    <3>. QED
      BY <3>1, <3>2, <3>3
  <2>. QED
    BY <2>2, <2>3, <2>6, <2>7, <2>8, <2>9 DEF OneLivePlan, ClaimHoldsPlan, ClaimHasRoom,
       NoFreshClaim, NoPlanUnderALiveRoot
<1>5. CASE PollReadyLabel \/ EditReadyLabel
  <2>1. UNCHANGED <<planStatus, request, freshClaim, root>>
    BY <1>5 DEF PollReadyLabel, EditReadyLabel
  <2>2. readyLabel' \in BOOLEAN /\ snapshotReady' \in BOOLEAN
    BY <1>5, Zenon DEF PollReadyLabel, EditReadyLabel, PlanRecords
  <2>3. mishaps' \in 0 .. MaxMishaps
    BY <1>5 DEF PollReadyLabel, EditReadyLabel, PlanRecords
  <2>. QED
    BY <1>0, <2>1, <2>2, <2>3 DEF PlanRecords, RequestsNamePlans, OneLivePlan, ClaimHasRoom,
       ClaimHoldsPlan, NoPlanUnderALiveRoot, LivePlans, LiveRoot
<1>6. CASE RootEnds
  BY <1>0, <1>6, RootsEnd DEF RootEnds, PlanRecords, ClaimHasRoom, RequestsNamePlans, OneLivePlan,
     ClaimHoldsPlan, NoPlanUnderALiveRoot, LivePlans
<1>7. CASE PlansRestart
  <2>1. /\ root' \in Seq(RootRun) /\ Len(root') = Len(root) /\ ~LiveRoot'
        /\ UNCHANGED <<planStatus, readyLabel>> /\ snapshotReady' = FALSE
        /\ freshClaim' = NoFreshClaim
    BY <1>7, RootsEnd DEF PlansRestart
  <2>2. mishaps' \in 0 .. MaxMishaps
    <3>1. mishaps < MaxMishaps /\ mishaps' = mishaps + 1
      BY <1>7, Zenon DEF PlansRestart
    <3>. QED
      BY <3>1 DEF PlanRecords
  <2>3. \A k \in Requests : /\ request'[k] \in RequestRecord
                            /\ request'[k].at \in {"idle", "over"}
                            /\ request'[k].at = "idle" => request[k].at = "idle"
    BY <1>7, PlanWords DEF PlansRestart, NoRequest, RequestRecord, PlanRecords
  <2>4. request' \in [Requests -> RequestRecord]
    BY <1>7, <2>3 DEF PlansRestart
  <2>5. PlanRecords'
    BY <2>1, <2>2, <2>4 DEF PlanRecords, NoFreshClaim
  <2>. QED
    BY <1>0, <2>1, <2>3, <2>5 DEF RequestsNamePlans, OneLivePlan, ClaimHoldsPlan, ClaimHasRoom,
       NoPlanUnderALiveRoot, LivePlans, NoFreshClaim
<1>. QED
  BY <1>1, <1>2, <1>3, <1>4, <1>5, <1>6, <1>7 DEF ClaimStep

LEMMA PlansGoOn == PlanInv /\ PlansNext =>
                      /\ PlanInv' /\ \A p \in Requests : SettledStays(p)
                      /\ Len(root') > Len(root) =>
                           LET new == root'[Len(root')] IN
                           \/ LivePlans = {}
                           \/ new.plan \in LivePlans /\ planStatus'[new.plan] = "consumed"
                           \/ new.state = "ended"
<1>. SUFFICES ASSUME PlanInv, PlansNext PROVE
                      /\ PlanInv' /\ \A p \in Requests : SettledStays(p)
                      /\ Len(root') > Len(root) =>
                           LET new == root'[Len(root')] IN
                           \/ LivePlans = {}
                           \/ new.plan \in LivePlans /\ planStatus'[new.plan] = "consumed"
                           \/ new.state = "ended"
  OBVIOUS
<1>1. CASE \E k \in Requests : PlanStep(k)
  <2>. PICK k \in Requests : PlanStep(k)
    BY <1>1
  <2>1. /\ planStatus' \in [Requests -> PlanStatuses]
        /\ \A p \in Requests : SettledStays(p)
        /\ OneLivePlan' /\ NoPlanUnderALiveRoot' /\ ClaimHoldsPlan'
        /\ UNCHANGED <<freshClaim, root, snapshotReady, mishaps>> /\ readyLabel' \in BOOLEAN
    BY StatusSteps
  <2>2. request' \in [Requests -> RequestRecord] /\ RequestsNamePlans'
    BY RequestSteps
  <2>3. PlanRecords' /\ ClaimHasRoom' /\ Len(root) \in Nat /\ Len(root') = Len(root)
    BY <2>1, <2>2 DEF PlanInv, PlanRecords, ClaimHasRoom
  <2>. QED
    BY <2>1, <2>2, <2>3 DEF PlanInv
<1>2. CASE ~(\E k \in Requests : PlanStep(k))
  BY <1>2, ClaimSteps DEF PlansNext, PlanStep
<1>. QED
  BY <1>1, <1>2

LEMMA PlanInvHolds == PlansSpec => []PlanInv
<1>1. PlanInv /\ UNCHANGED planVars => PlanInv'
  BY DEF planVars, PlanInv, PlanRecords, ClaimHasRoom, RequestsNamePlans, OneLivePlan,
     ClaimHoldsPlan, NoPlanUnderALiveRoot, LivePlans, LiveRoot
<1>2. PlanInv /\ PlansNext => PlanInv'
  BY PlansGoOn
<1>. QED
  BY PlansBegin, <1>1, <1>2, PTL DEF PlansSpec

(* However many Starts, Retries and Cancels, root Runs and mishaps there are,
   no plan is live while a chain of the Issue runs.                         *)
THEOREM NoPlanBesideRunningWork == PlansSpec => []PlanInvariant
<1>1. PlanInv => PlanInvariant
  <2>. SUFFICES ASSUME PlanInv PROVE PlanTypeOK
    BY DEF PlanInvariant, PlanInv
  <2>. USE DEF PlanInv, PlanRecords
  <2>1. /\ planStatus \in [Requests -> LiveStatuses \cup Settled \cup {"none"}]
        /\ request \in [Requests ->
             [at : {"idle", "reading", "deciding", "writing", "settling", "over"},
              kind : {"none", "start", "retry", "cancel"}, plan : {0} \cup Requests,
              sent : BOOLEAN, flag : BOOLEAN, was : LiveStatuses \cup Settled \cup {"none"}]]
    BY Zenon DEF RequestRecord, RequestPlaces, RequestKinds, PlanIds, PlanStatuses
  <2>2. \A n \in DOMAIN root : root[n] \in [plan : {0} \cup Requests, state : {"live", "ended"}]
    <3>1. \A n \in DOMAIN root : root[n] \in RootRun
      OBVIOUS
    <3>. QED
      BY <3>1, Zenon DEF RootRun
  <2>3. {readyLabel, snapshotReady} \subseteq BOOLEAN
    BY Zenon
  <2>. QED
    BY <2>1, <2>2, <2>3, Zenon DEF PlanTypeOK
<1>. QED
  BY <1>1, PlanInvHolds, PTL

(* No root Run is created past a live plan, and a settled plan never comes
   back, whatever order requests, label results and claims arrive in.       *)
THEOREM PlansBindForGood == PlansSpec => PlansBindRoots
<1>. DEFINE NewRoot == Len(root') > Len(root) =>
                         LET new == root'[Len(root')] IN
                         \/ LivePlans = {}
                         \/ new.plan \in LivePlans /\ planStatus'[new.plan] = "consumed"
                         \/ new.state = "ended"
            Final == \A p \in Requests :
                        planStatus[p] \in Settled => planStatus'[p] = planStatus[p]
<1>1. PlanInv /\ PlansNext => NewRoot /\ Final
  BY PlansGoOn DEF SettledStays
<1>2. PlanInv /\ UNCHANGED planVars => NewRoot /\ Final
  BY DEF planVars, PlanInv, PlanRecords
<1>3. PlanInv /\ [PlansNext]_planVars => [NewRoot]_planVars /\ [Final]_planVars
  BY <1>1, <1>2
<1>. QED
  BY <1>3, PlanInvHolds, PTL DEF PlansSpec, PlansBindRoots, NoRootPastALivePlan, SettledPlanIsFinal

-----------------------------------------------------------------------------
(* Provider Interventions.                                                 *)

RunNumbers == 0 .. MaxChainRuns
Creators == Launches \cup {Unscheduled}
Kinds == {"none", "recovery", "review", "resume"}
Outcomes == {"none", "scheduled", "launched", "failed", "dropped"}
RunRecord == [state : RunStates, parent : RunNumbers, by : Creators, source : Sources,
              definition : Definitions, bound : Definitions, ahead : BOOLEAN]
LaunchRecord ==
    [at : Threads, kind : Kinds, from : RunNumbers, evidence : Definitions,
     outcome : Outcomes, to : RunNumbers, owner : BOOLEAN, source : Sources,
     definition : Definitions]

InterventionRecords ==
    /\ daemon \in {"up", "stopping", "down"}
    /\ chain \in Seq(RunRecord) /\ Len(chain) \in 1 .. MaxChainRuns
    /\ launch \in [Launches -> LaunchRecord]
    /\ scheduled \in Creators
    /\ claimLabel \in BOOLEAN /\ current \in Definitions /\ choice \in Definitions
    /\ trouble \in 0 .. MaxTrouble

LEMMA InterventionWords ==
  /\ {"active", "stopped", "review", "cancelled", "stale", "done"} \subseteq RunStates
  /\ {"none", "recovery", "state", "default"} \subseteq Sources
  /\ {"idle", "reading", "confirming", "armed", "fired", "park", "parking", "fail", "claim",
      "label", "over"} \subseteq Threads
  /\ {"none", "recovery", "review", "resume"} \subseteq Kinds
  /\ {"none", "scheduled", "launched", "failed", "dropped"} \subseteq Outcomes
  /\ 0 \in RunNumbers /\ Launches \subseteq Creators /\ Unscheduled \in Creators
  /\ 0 \in Definitions /\ 1 \in Definitions /\ Definitions \subseteq Nat
  /\ RunNumbers \subseteq Nat /\ Interventions \subseteq Launches /\ ResumeLaunch \in Launches
  /\ ResumeLaunch \notin Interventions /\ Unscheduled \notin Launches
  /\ Launches = {ResumeLaunch} \cup Interventions
BY InterventionBounds DEF RunStates, Sources, Threads, Kinds, Outcomes, RunNumbers, Creators,
   Launches, ResumeLaunch, Interventions, Unscheduled, Definitions

LEMMA OneLaunchChanges ==
  ASSUME InterventionRecords, NEW l \in Launches, NEW r \in LaunchRecord, Set(l, r)
  PROVE  /\ launch' \in [Launches -> LaunchRecord] /\ launch'[l] = r
         /\ \A j \in Launches \ {l} : launch'[j] = launch[j]
BY DEF InterventionRecords, Set

\* A row that is settled, and the launch it belongs to.
Keeps(s, q) ==
    /\ s.kind = q.kind /\ s.from = q.from /\ s.evidence = q.evidence
Concludes(s, q, outcome, to) ==
    \/ s.outcome = q.outcome /\ s.to = q.to
    \/ q.outcome = "scheduled" /\ s.outcome = outcome /\ s.to = to

LEMMA RowSettled ==
  ASSUME NEW q \in LaunchRecord, NEW outcome \in Outcomes, NEW to \in RunNumbers, NEW s,
         s = SettleRow(q, outcome, to)
  PROVE  /\ s \in LaunchRecord /\ Keeps(s, q) /\ Concludes(s, q, outcome, to)
         /\ s.at = q.at /\ s.source = q.source /\ s.definition = q.definition
<1>1. CASE q.outcome = "scheduled"
  <2>1. s = [q EXCEPT !.outcome = outcome, !.to = to]
    BY <1>1 DEF SettleRow
  <2>. QED
    BY <1>1, <2>1 DEF LaunchRecord, Keeps, Concludes
<1>2. CASE q.outcome # "scheduled"
  BY <1>2 DEF SettleRow, Keeps, Concludes
<1>. QED
  BY <1>1, <1>2

LEMMA LaunchEnded ==
  ASSUME NEW q \in LaunchRecord, NEW outcome \in Outcomes, NEW to \in RunNumbers, NEW s,
         s = Over(q, outcome, to)
  PROVE  s \in LaunchRecord /\ Keeps(s, q) /\ Concludes(s, q, outcome, to) /\ s.at = "over"
<1>. DEFINE m == SettleRow(q, outcome, to)
<1>1. m \in LaunchRecord /\ Keeps(m, q) /\ Concludes(m, q, outcome, to)
  BY RowSettled
<1>2. s = [m EXCEPT !.at = "over", !.owner = FALSE, !.source = "none", !.definition = 0]
  BY DEF Over
<1>. HIDE DEF m
<1>. QED
  BY <1>1, <1>2, InterventionWords DEF LaunchRecord, Keeps, Concludes

-----------------------------------------------------------------------------
(* The inductive invariant.                                                *)

AtRest(l) == launch[l].at \in {"idle", "over"}
KindOf(l) == IF l = ResumeLaunch THEN {"resume"} ELSE {"recovery", "review"}

\* What Decide left in a launch that goes for the claim still holds there.
ClaimFits(q) ==
    /\ q.kind = "recovery" => q.source = "recovery"
    /\ q.kind = "review" /\ q.evidence = 0 => q.source = "default"
    /\ q.kind = "review" /\ q.evidence # 0 => q.source = "state" /\ q.definition = q.evidence
    /\ q.source = "state" => PlanChoice(q) = q.definition
    /\ q.kind = "resume" /\ RecoveryThatLaunched(q.from) => q.source = "recovery"

LaunchFits(l) ==
    /\ launch[l].at # "idle" => launch[l].kind \in KindOf(l)
    /\ ~AtRest(l) => launch[l].from \in DOMAIN chain
    /\ launch[l].at \in {"claim", "label"} => ClaimFits(launch[l])
    /\ launch[l].at = "label" => ActiveRuns = {}

\* The mutex, from its entry to the write that ends the section.
InMutex(l) == launch[l].at \in {"parking", "label"}
OneInMutex == \A l, m \in Launches : InMutex(l) /\ InMutex(m) => l = m

\* The registry knows no launch that has not begun.
ScheduledBegan == scheduled # Unscheduled => launch[scheduled].at # "idle"

\* A shutdown resume is alone: the Run it continues is the head and cancelled,
\* and nothing the operator asks for begins at such a head.
HeadCancelled == chain[HeadRun].state = "cancelled"
InterventionsRest == \A k \in Interventions : AtRest(k)
ResumeAlone ==
    /\ ~AtRest(ResumeLaunch) =>
          launch[ResumeLaunch].from = HeadRun /\ HeadCancelled /\ InterventionsRest
    /\ daemon = "up" /\ HeadCancelled => InterventionsRest
    /\ daemon = "down" => InterventionsRest /\ AtRest(ResumeLaunch)

RunAsConfirmed(r) ==
    \A k \in Interventions : chain[r].by = k =>
        LET q == launch[k]
            run == chain[r]
        IN  /\ q.at = "over"
            /\ run.parent = q.from
            /\ q.kind = "recovery" => run.source = "recovery"
            /\ q.kind = "review" /\ q.evidence = 0 => run.source = "default"
            /\ q.kind = "review" /\ q.evidence # 0 =>
                 run.source = "state" /\ run.definition = q.evidence
RunFits(r) ==
    /\ RunAsConfirmed(r)
    /\ chain[r].source = "state" => chain[r].bound = chain[r].definition
    /\ chain[r].by = ResumeLaunch /\ RecoveryThatLaunched(chain[r].parent)
         => chain[r].source = "recovery"
    /\ chain[r].parent <= Len(chain)

OneActive == \A r, s \in ActiveRuns : r = s

InterventionInv ==
    /\ InterventionRecords
    /\ \A l \in Launches : LaunchFits(l)
    /\ OneInMutex /\ ScheduledBegan /\ ResumeAlone /\ OneActive
    /\ \A r \in DOMAIN chain : RunFits(r)

LEMMA InterventionsBegin == InterventionsInit => InterventionInv
<1>. SUFFICES ASSUME InterventionsInit PROVE InterventionInv
  OBVIOUS
<1>. USE InterventionBounds, InterventionWords DEF InterventionsInit
<1>1. PICK state \in {"stopped", "review"} : chain = <<FirstRun(state)>>
  OBVIOUS
<1>2. FirstRun(state) \in RunRecord /\ NoLaunch \in LaunchRecord
  BY DEF FirstRun, RunRecord, NoLaunch, LaunchRecord
<1>3. /\ chain \in Seq(RunRecord) /\ Len(chain) = 1 /\ DOMAIN chain = {1}
      /\ chain[1] = FirstRun(state)
  BY <1>1, <1>2
<1>4. /\ current \in Definitions /\ choice \in Definitions
      /\ 1 \in 1 .. MaxChainRuns /\ 0 \in 0 .. MaxTrouble
  <2>1. MaxEdits \in Nat /\ MaxEdits >= 1 /\ MaxChainRuns \in Nat /\ MaxChainRuns >= 1
        /\ MaxTrouble \in Nat
    BY InterventionBounds
  <2>2. current \in {1, 2} /\ choice = 1
    BY Zenon DEF InterventionsInit
  <2>. QED
    BY ONLY <2>1, <2>2 DEF Definitions
<1>5. InterventionRecords
  BY <1>2, <1>3, <1>4 DEF InterventionRecords, InterventionsInit
<1>6. /\ \A l \in Launches : launch[l].at = "idle"
      /\ chain[1].by = Unscheduled /\ chain[1].source = "none" /\ chain[1].parent = 0
      /\ chain[1].state \notin {"active", "cancelled"}
  BY <1>3 DEF FirstRun, NoLaunch
<1>7. ActiveRuns = {}
  BY <1>3, <1>6 DEF ActiveRuns
<1>. QED
  BY <1>3, <1>5, <1>6, <1>7 DEF InterventionInv, LaunchFits, AtRest, OneInMutex, InMutex, ResumeAlone,
     HeadCancelled, HeadRun, InterventionsRest, OneActive, RunFits, RunAsConfirmed, ScheduledBegan

-----------------------------------------------------------------------------
(* The steps.                                                              *)

\* What a thread may write when it does not touch the chain.
ThreadStep(l, r) ==
    LET q == launch[l] IN
    /\ daemon # "down" /\ Set(l, r) /\ UNCHANGED <<daemon, chain, choice, current>>
    /\ scheduled' \in {scheduled, Unscheduled, l} /\ trouble' \in 0 .. MaxTrouble /\ claimLabel' \in BOOLEAN
    /\ q.at = "over" => l = ResumeLaunch
    /\ r.at # "idle" /\ r.kind \in KindOf(l)
    /\ r.at # "over" => r.from \in DOMAIN chain
    /\ r.outcome = "launched" =>
          q.outcome = "launched" /\ r.to = q.to /\ r.kind = q.kind
    /\ r.at \in {"claim", "label"} => ClaimFits(r)
    /\ r.at = "label" => ActiveRuns = {}
    /\ r.at \in {"parking", "label"} => MutexFree
    /\ r.at # "over" =>
         IF l = ResumeLaunch THEN r.from = HeadRun /\ HeadCancelled /\ InterventionsRest
         ELSE AtRest(ResumeLaunch) /\ ~(daemon = "up" /\ HeadCancelled)

LEMMA OneThreadMoves ==
  ASSUME InterventionInv, NEW l \in Launches, NEW r \in LaunchRecord, ThreadStep(l, r)
  PROVE  InterventionInv'
<1>. USE DEF InterventionInv, ThreadStep
<1>. USE InterventionWords
<1>1. /\ launch' \in [Launches -> LaunchRecord] /\ launch'[l] = r
      /\ \A j \in Launches \ {l} : launch'[j] = launch[j]
  BY OneLaunchChanges
<1>2. InterventionRecords'
  <2>1. scheduled' \in Creators
    BY DEF InterventionRecords
  <2>. QED
    BY <1>1, <2>1 DEF InterventionRecords
<1>3. \A n : RecoveryThatLaunched(n)' => RecoveryThatLaunched(n)
  BY <1>1 DEF RecoveryThatLaunched
<1>4. \A q : ClaimFits(q) => ClaimFits(q)'
  BY <1>3 DEF ClaimFits, PlanChoice
<1>5. ActiveRuns' = ActiveRuns /\ OneActive'
  BY DEF ActiveRuns, OneActive
<1>6. \A j \in Launches : LaunchFits(j)'
  <2>1. LaunchFits(l)'
    BY <1>1, <1>4, <1>5 DEF LaunchFits, AtRest
  <2>2. ASSUME NEW j \in Launches \ {l} PROVE LaunchFits(j)'
    BY <1>1, <1>4, <1>5 DEF LaunchFits, AtRest
  <2>. QED
    BY <2>1, <2>2
<1>7. OneInMutex'
  BY <1>1 DEF OneInMutex, InMutex, MutexFree
<1>8. ResumeAlone'
  BY <1>1 DEF ResumeAlone, AtRest, InterventionsRest, HeadCancelled, HeadRun
<1>9. \A n \in DOMAIN chain' : RunFits(n)'
  BY <1>1, <1>3 DEF RunFits, RunAsConfirmed
<1>10. ScheduledBegan'
  BY <1>1 DEF ScheduledBegan, InterventionRecords, Creators
<1>. QED
  BY <1>2, <1>5, <1>6, <1>7, <1>8, <1>9, <1>10

\* A step that creates no Run: states of Runs change, launches end or are settled.
RunStays(n) ==
    /\ chain'[n].parent = chain[n].parent /\ chain'[n].by = chain[n].by
    /\ chain'[n].source = chain[n].source /\ chain'[n].definition = chain[n].definition
    /\ chain'[n].bound = chain[n].bound
    /\ chain'[n].state = "active" => chain[n].state = "active"
    /\ chain[n].state = "cancelled" => chain'[n].state = "cancelled"
    /\ chain'[n].state = "cancelled" => chain[n].state = "cancelled" \/ daemon' = "stopping"

SameThread(l) ==
    /\ launch'[l].at = launch[l].at
    /\ launch'[l].source = launch[l].source /\ launch'[l].definition = launch[l].definition

LaunchStays(l) ==
    /\ Keeps(launch'[l], launch[l])
    /\ launch'[l].outcome = "launched" =>
          launch[l].outcome = "launched" /\ launch'[l].to = launch[l].to
    /\ SameThread(l) \/ (launch[l].at # "idle" /\ launch'[l].at = "over")

LEMMA NoRunBegins ==
  ASSUME InterventionInv, InterventionRecords', choice' = choice,
         Len(chain') = Len(chain), \A n \in DOMAIN chain : RunStays(n),
         scheduled' \in {scheduled, Unscheduled},
         \A l \in Launches : LaunchStays(l),
         daemon' = "up" => daemon # "stopping",
         daemon' = "down" => \A l \in Launches : launch'[l].at \in {"idle", "over"}
  PROVE  InterventionInv'
<1>. USE DEF InterventionInv
<1>. USE InterventionWords
<1>0. /\ Len(chain) \in Nat /\ DOMAIN chain = 1 .. Len(chain) /\ DOMAIN chain' = DOMAIN chain
      /\ HeadRun \in DOMAIN chain /\ HeadRun' = HeadRun
  BY DEF InterventionRecords, HeadRun
<1>3. \A n : RecoveryThatLaunched(n)' => RecoveryThatLaunched(n)
  BY DEF RecoveryThatLaunched, LaunchStays, Keeps
<1>4. \A l \in Launches : SameThread(l) /\ ClaimFits(launch[l]) => ClaimFits(launch[l])'
  BY <1>3 DEF ClaimFits, PlanChoice, LaunchStays, Keeps, SameThread
<1>5. ActiveRuns' \subseteq ActiveRuns /\ OneActive'
  BY <1>0 DEF ActiveRuns, OneActive, RunStays
<1>6. \A l \in Launches : LaunchFits(l)'
  <2>1. ASSUME NEW l \in Launches PROVE LaunchFits(l)'
    BY <1>0, <1>4, <1>5 DEF LaunchFits, AtRest, LaunchStays, Keeps, SameThread, KindOf
  <2>. QED
    BY <2>1
<1>7. OneInMutex'
  BY DEF OneInMutex, InMutex, LaunchStays, SameThread
<1>8. ResumeAlone'
  <2>1. \A l \in Launches : AtRest(l) => AtRest(l)'
    BY DEF AtRest, LaunchStays, SameThread
  <2>2. ~AtRest(ResumeLaunch)' =>
          launch'[ResumeLaunch].from = HeadRun' /\ HeadCancelled' /\ InterventionsRest'
    BY <1>0, <2>1 DEF ResumeAlone, LaunchStays, Keeps, RunStays, HeadCancelled, InterventionsRest
  <2>3. daemon' = "up" /\ HeadCancelled' => InterventionsRest'
    BY <1>0, <2>1 DEF ResumeAlone, RunStays, HeadCancelled, InterventionsRest, InterventionRecords
  <2>4. daemon' = "down" => InterventionsRest' /\ AtRest(ResumeLaunch)'
    BY DEF InterventionsRest, AtRest
  <2>. QED
    BY <2>2, <2>3, <2>4 DEF ResumeAlone
<1>9. \A n \in DOMAIN chain' : RunFits(n)'
  <2>1. ASSUME NEW n \in DOMAIN chain PROVE RunFits(n)'
    <3>1. RunFits(n) /\ RunStays(n)
      OBVIOUS
    <3>2. RunAsConfirmed(n)'
      BY <3>1 DEF RunFits, RunAsConfirmed, RunStays, LaunchStays, Keeps, SameThread
    <3>. QED
      BY <1>3, <3>1, <3>2 DEF RunFits, RunStays
  <2>. QED
    BY <1>0, <2>1
<1>10. ScheduledBegan'
  BY DEF ScheduledBegan, InterventionRecords, Creators, LaunchStays, SameThread
<1>. QED
  BY <1>5, <1>6, <1>7, <1>8, <1>9, <1>10

\* A step that creates a Run.
NewRunFits(run, l) ==
    LET q == launch[l] IN
    /\ run.parent = q.from
    /\ \/ run.by = Unscheduled /\ run.source = "none" /\ run.state \in {"review", "stopped"}
       \/ /\ run.by = l /\ q.at = "label" /\ run.source = q.source
          /\ run.definition = q.definition
          /\ q.source = "state" => run.bound = PlanChoice(q)
          /\ run.state = "active" \/ (run.state = "cancelled" /\ daemon = "stopping")

LaunchGoesOn(j, l) ==
    /\ Keeps(launch'[j], launch[j])
    /\ launch'[j].outcome = "launched" =>
          \/ launch[j].outcome = "launched" /\ launch'[j].to = launch[j].to
          \/ launch'[j].to = Len(chain) + 1
    /\ IF j = l THEN launch'[j].at = "over" ELSE SameThread(j)

LEMMA RunBegins ==
  ASSUME InterventionInv, InterventionRecords', NEW l \in Launches, NEW run \in RunRecord,
         chain' = Append(chain, run), NewRunFits(run, l),
         launch[l].at \in {"parking", "fail", "label"}, daemon # "down", daemon' = daemon,
         scheduled' = scheduled, \A j \in Launches : LaunchGoesOn(j, l)
  PROVE  InterventionInv'
<1>. USE DEF InterventionInv
<1>. USE InterventionWords
<1>. PICK N \in Nat : N = Len(chain)
  BY DEF InterventionRecords
<1>0. /\ N \in Nat /\ N >= 1 /\ DOMAIN chain = 1 .. N /\ DOMAIN chain' = 1 .. (N + 1)
      /\ Len(chain') = N + 1
      /\ \A n \in 1 .. N : chain'[n] = chain[n]
      /\ chain'[N + 1] = run
      /\ HeadRun = N /\ HeadRun' = N + 1
  BY DEF InterventionRecords, HeadRun
<1>1. launch[l].from \in 1 .. N /\ launch[l].kind \in KindOf(l)
  BY <1>0 DEF LaunchFits, AtRest
<1>2. \A n \in Nat : n <= N /\ RecoveryThatLaunched(n)' => RecoveryThatLaunched(n)
  BY <1>0 DEF RecoveryThatLaunched, LaunchGoesOn, Keeps
<1>3. l \in Interventions => AtRest(ResumeLaunch)
  BY DEF ResumeAlone, InterventionsRest, AtRest
<1>4. \A j \in Launches \ {l} : launch[j].at \in {"claim", "label"} => ClaimFits(launch[j])'
  <2>1. ASSUME NEW j \in Launches \ {l}, launch[j].at \in {"claim", "label"}
        PROVE  ClaimFits(launch[j])'
    <3>1. j \in Interventions
      <4>1. ~AtRest(j) /\ ~AtRest(l)
        BY <2>1 DEF AtRest
      <4>. QED
        BY <1>3, <4>1
    <3>2. ClaimFits(launch[j]) /\ launch[j].kind \in {"recovery", "review"}
      BY <2>1, <3>1 DEF LaunchFits, KindOf
    <3>3. Keeps(launch'[j], launch[j]) /\ SameThread(j)
      BY DEF LaunchGoesOn
    <3>. QED
      BY <3>2, <3>3 DEF ClaimFits, PlanChoice, Keeps, SameThread
  <2>. QED
    BY <2>1
<1>5. ActiveRuns' = IF run.state = "active" THEN ActiveRuns \cup {N + 1} ELSE ActiveRuns
  BY <1>0 DEF ActiveRuns
<1>6. run.state = "active" => ActiveRuns = {} /\ launch[l].at = "label"
  BY DEF NewRunFits, LaunchFits
<1>7. OneActive'
  BY <1>5, <1>6 DEF OneActive
<1>8. \A j \in Launches : LaunchFits(j)'
  <2>1. LaunchFits(l)'
    BY <1>1 DEF LaunchFits, AtRest, LaunchGoesOn, Keeps, KindOf
  <2>2. ASSUME NEW j \in Launches \ {l} PROVE LaunchFits(j)'
    <3>1. Keeps(launch'[j], launch[j]) /\ SameThread(j) /\ LaunchFits(j)
      BY DEF LaunchGoesOn
    <3>2. launch[j].at = "label" => run.state # "active"
      BY <1>6 DEF OneInMutex, InMutex
    <3>3. launch'[j].at # "idle" => launch'[j].kind \in KindOf(j)
      BY <3>1 DEF LaunchFits, Keeps, SameThread
    <3>4. ~AtRest(j)' => launch'[j].from \in DOMAIN chain'
      BY <1>0, <3>1 DEF LaunchFits, AtRest, Keeps, SameThread
    <3>5. launch'[j].at = "label" => ActiveRuns' = {}
      BY <1>5, <3>1, <3>2 DEF LaunchFits, SameThread
    <3>. QED
      BY <1>4, <3>1, <3>3, <3>4, <3>5 DEF LaunchFits, SameThread
  <2>. QED
    BY <2>1, <2>2
<1>9. OneInMutex'
  BY DEF OneInMutex, InMutex, LaunchGoesOn, SameThread
<1>10. ResumeAlone'
  <2>1. AtRest(ResumeLaunch)'
    BY <1>3 DEF AtRest, LaunchGoesOn, SameThread
  <2>2. daemon' = "up" => ~HeadCancelled'
    BY <1>0 DEF HeadCancelled, NewRunFits
  <2>. QED
    BY <2>1, <2>2 DEF ResumeAlone
<1>11. ASSUME NEW n \in 1 .. N PROVE RunFits(n)'
  <2>1. RunFits(n) /\ chain'[n] = chain[n] /\ n \in Nat
    BY <1>0
  <2>2. RunAsConfirmed(n)'
    BY <2>1 DEF RunFits, RunAsConfirmed, LaunchGoesOn, Keeps, SameThread
  <2>3. chain[n].parent \in Nat /\ chain[n].parent <= N
    <3>1. chain[n] \in RunRecord
      BY <1>0 DEF InterventionRecords
    <3>. QED
      BY <1>0, <2>1, <3>1 DEF RunFits, RunRecord
  <2>. QED
    BY <1>0, <1>2, <2>1, <2>2, <2>3 DEF RunFits
<1>12. RunFits(N + 1)'
  <2>1. /\ Keeps(launch'[l], launch[l]) /\ launch'[l].at = "over"
        /\ launch[l].at = "label" => ClaimFits(launch[l])
    BY DEF LaunchGoesOn, LaunchFits
  <2>2. run.by = l => launch[l].at = "label" /\ l # Unscheduled
    BY DEF NewRunFits
  <2>3. RunAsConfirmed(N + 1)'
    <3>1. ASSUME NEW k \in Interventions, run.by = k
          PROVE  /\ k = l /\ launch[l].at = "label" /\ run.source = launch[l].source
                 /\ run.definition = launch[l].definition /\ run.parent = launch[l].from
      BY <3>1 DEF NewRunFits
    <3>. QED
      BY <1>0, <2>1, <3>1 DEF RunAsConfirmed, ClaimFits, Keeps
  <2>4. run.source = "state" => run.bound = run.definition
    BY <2>1 DEF NewRunFits, ClaimFits
  <2>5. run.by = ResumeLaunch /\ RecoveryThatLaunched(run.parent)' => run.source = "recovery"
    BY <1>0, <1>1, <1>2, <2>1, <2>2 DEF NewRunFits, ClaimFits, KindOf
  <2>6. run.parent <= N + 1
    BY <1>0, <1>1 DEF NewRunFits
  <2>. QED
    BY <1>0, <2>3, <2>4, <2>5, <2>6 DEF RunFits
<1>13. ScheduledBegan'
  BY DEF ScheduledBegan, InterventionRecords, Creators, LaunchGoesOn, SameThread
<1>. QED
  BY <1>0, <1>7, <1>8, <1>9, <1>10, <1>11, <1>12, <1>13

LEMMA TroubleCounts ==
  ASSUME trouble \in 0 .. MaxTrouble, Trouble \/ UNCHANGED trouble
  PROVE  trouble' \in 0 .. MaxTrouble
<1>1. CASE Trouble
  BY <1>1, InterventionBounds DEF Trouble
<1>. QED
  BY <1>1

\* A thread that goes on within the same confirmed launch.
LEMMA ThreadGoesOn ==
  ASSUME InterventionInv, NEW l \in Launches, NEW r \in LaunchRecord, Set(l, r),
         launch[l].at \notin {"idle", "over"}, Keeps(r, launch[l]), r.at # "idle",
         r.outcome # "launched" \/ (r.outcome = launch[l].outcome /\ r.to = launch[l].to),
         r.at \in {"claim", "label"} => ClaimFits(r),
         r.at = "label" => ActiveRuns = {},
         r.at \in {"parking", "label"} => MutexFree,
         daemon # "down", UNCHANGED <<daemon, chain, choice, current>>,
         scheduled' \in {scheduled, Unscheduled, l}, trouble' \in 0 .. MaxTrouble, claimLabel' \in BOOLEAN
  PROVE  InterventionInv'
<1>. USE DEF InterventionInv
<1>1. ~AtRest(l) /\ LaunchFits(l)
  BY DEF AtRest
<1>2. /\ r.kind \in KindOf(l) /\ r.from \in DOMAIN chain /\ r.from = launch[l].from
      /\ r.kind = launch[l].kind
  BY <1>1 DEF LaunchFits, Keeps, AtRest
<1>3. IF l = ResumeLaunch THEN r.from = HeadRun /\ HeadCancelled /\ InterventionsRest
      ELSE AtRest(ResumeLaunch) /\ ~(daemon = "up" /\ HeadCancelled)
  BY <1>1, <1>2, InterventionWords DEF ResumeAlone, InterventionsRest
<1>4. ThreadStep(l, r)
  BY <1>1, <1>2, <1>3 DEF ThreadStep
<1>. QED
  BY <1>4, OneThreadMoves

LEMMA RequestKeeps ==
  ASSUME InterventionInv, NEW k \in Interventions, NEW kind \in {"recovery", "review"},
         Request(k, kind)
  PROVE  InterventionInv'
<1>. USE InterventionWords
<1>1. PICK e \in {0, current} : Set(k, [NoLaunch EXCEPT !.at = "reading", !.kind = kind,
                                                      !.from = HeadRun, !.evidence = e])
  BY DEF Request
<1>. DEFINE r == [NoLaunch EXCEPT !.at = "reading", !.kind = kind, !.from = HeadRun,
                                  !.evidence = e]
<1>2. HeadRun \in DOMAIN chain /\ HeadRun \in RunNumbers /\ e \in Definitions
  BY DEF InterventionInv, InterventionRecords, HeadRun, RunNumbers
<1>3. /\ r \in LaunchRecord /\ r.at = "reading" /\ r.kind = kind /\ r.from = HeadRun
      /\ r.outcome = "none"
  BY <1>2 DEF NoLaunch, LaunchRecord
<1>. HIDE DEF r
<1>4. AtRest(ResumeLaunch) /\ ~HeadCancelled
  BY DEF Request, ResumePending, StoppedFor, HeadCancelled, AtRest, InterventionInv, ResumeAlone
<1>5. ThreadStep(k, r)
  BY <1>1, <1>2, <1>3, <1>4
     DEF Request, ThreadStep, KindOf, r, InterventionInv, InterventionRecords
<1>. QED
  BY <1>3, <1>5, OneThreadMoves

LEMMA ReadIssueKeeps ==
  ASSUME InterventionInv, NEW k \in Interventions, ReadIssue(k)
  PROVE  InterventionInv'
<1>. USE InterventionWords
<1>1. PICK at \in {"over", "confirming"} : Set(k, [launch[k] EXCEPT !.at = at])
  BY DEF ReadIssue
<1>2. launch[k] \in LaunchRecord
  BY DEF InterventionInv, InterventionRecords
<1>. DEFINE r == [launch[k] EXCEPT !.at = at]
<1>3. /\ r \in LaunchRecord /\ Keeps(r, launch[k]) /\ r.at = at
      /\ r.outcome = launch[k].outcome /\ r.to = launch[k].to
  BY <1>2 DEF LaunchRecord, Keeps
<1>. HIDE DEF r
<1>4. trouble' \in 0 .. MaxTrouble
  BY TroubleCounts DEF ReadIssue, InterventionInv, InterventionRecords
<1>. QED
  BY <1>1, <1>3, <1>4, ThreadGoesOn DEF ReadIssue, r, InterventionInv, InterventionRecords

LEMMA ConfirmKeeps ==
  ASSUME InterventionInv, NEW k \in Interventions, Confirm(k)
  PROVE  InterventionInv'
<1>. USE InterventionWords
<1>1. PICK at \in {"over", "armed"}, outcome \in {launch[k].outcome, "dropped", "scheduled"} :
         Set(k, [launch[k] EXCEPT !.at = at, !.outcome = outcome])
  <2>1. Set(k, [launch[k] EXCEPT !.at = "over"])
          => Set(k, [launch[k] EXCEPT !.at = "over", !.outcome = launch[k].outcome])
    BY DEF Set, InterventionInv, InterventionRecords, LaunchRecord
  <2>. QED
    BY <2>1 DEF Confirm
<1>2. launch[k] \in LaunchRecord
  BY DEF InterventionInv, InterventionRecords
<1>. DEFINE r == [launch[k] EXCEPT !.at = at, !.outcome = outcome]
<1>3. outcome \in Outcomes
  BY <1>2 DEF LaunchRecord
<1>4. /\ r \in LaunchRecord /\ Keeps(r, launch[k]) /\ r.at = at
      /\ r.outcome = outcome /\ r.to = launch[k].to
  BY <1>2, <1>3 DEF LaunchRecord, Keeps
<1>. HIDE DEF r
<1>5. scheduled' \in {scheduled, Unscheduled, k}
  BY DEF Confirm, InterventionInv, InterventionRecords
<1>. QED
  BY <1>1, <1>4, <1>5, ThreadGoesOn DEF Confirm, r, InterventionInv, InterventionRecords

LEMMA ResumeKeeps ==
  ASSUME InterventionInv, ResumeAfterShutdown
  PROVE  InterventionInv'
<1>. USE InterventionWords
<1>. DEFINE r == [NoLaunch EXCEPT !.at = "armed", !.kind = "resume", !.from = HeadRun]
<1>2. HeadRun \in DOMAIN chain /\ HeadRun \in RunNumbers
  BY DEF InterventionInv, InterventionRecords, HeadRun, RunNumbers
<1>3. /\ r \in LaunchRecord /\ r.at = "armed" /\ r.kind = "resume" /\ r.from = HeadRun
      /\ r.outcome = "none"
  BY <1>2 DEF NoLaunch, LaunchRecord
<1>. HIDE DEF r
<1>4. Set(ResumeLaunch, r)
  BY DEF ResumeAfterShutdown, r
<1>5. HeadCancelled /\ InterventionsRest
  BY DEF ResumeAfterShutdown, HeadCancelled, InterventionInv, ResumeAlone
<1>6. ThreadStep(ResumeLaunch, r)
  BY <1>2, <1>3, <1>4, <1>5
     DEF ResumeAfterShutdown, ThreadStep, KindOf, InterventionInv, InterventionRecords
<1>. QED
  BY <1>3, <1>6, OneThreadMoves

LEMMA FireKeeps ==
  ASSUME InterventionInv, NEW l \in Launches, FireLaunch(l)
  PROVE  InterventionInv'
<1>. USE InterventionWords
<1>. DEFINE r == [launch[l] EXCEPT !.at = "fired"]
<1>2. launch[l] \in LaunchRecord
  BY DEF InterventionInv, InterventionRecords
<1>3. /\ r \in LaunchRecord /\ Keeps(r, launch[l]) /\ r.at = "fired"
      /\ r.outcome = launch[l].outcome /\ r.to = launch[l].to
  BY <1>2 DEF LaunchRecord, Keeps
<1>4. Set(l, r)
  BY DEF FireLaunch
<1>. HIDE DEF r
<1>. QED
  BY <1>3, <1>4, ThreadGoesOn DEF FireLaunch, InterventionInv, InterventionRecords

LEMMA LaunchDropped ==
  ASSUME InterventionInv, NEW l \in Launches, launch[l].at \notin {"idle", "over"},
         NEW outcome \in {"dropped", "failed"}, Set(l, Over(launch[l], outcome, 0)),
         daemon # "down", UNCHANGED <<daemon, chain, choice, current>>,
         scheduled' \in {scheduled, Unscheduled, l}, trouble' \in 0 .. MaxTrouble, claimLabel' \in BOOLEAN
  PROVE  InterventionInv'
<1>. DEFINE r == Over(launch[l], outcome, 0)
<1>1. launch[l] \in LaunchRecord
  BY DEF InterventionInv, InterventionRecords
<1>2. r \in LaunchRecord /\ Keeps(r, launch[l]) /\ Concludes(r, launch[l], outcome, 0) /\ r.at = "over"
  BY <1>1, LaunchEnded, InterventionWords
<1>3. r.outcome # "launched" \/ (r.outcome = launch[l].outcome /\ r.to = launch[l].to)
  BY <1>2 DEF Concludes
<1>. HIDE DEF r
<1>. QED
  BY <1>2, <1>3, ThreadGoesOn DEF r

LEMMA DecideKeeps ==
  ASSUME InterventionInv, NEW l \in Launches, Decide(l)
  PROVE  InterventionInv'
<1>. USE InterventionWords
<1>. DEFINE q == launch[l]
            bound == PlanChoice(q)
            source == IF RecoveryChoice(q) THEN "recovery"
                      ELSE IF bound # 0 THEN "state" ELSE "default"
<1>1. /\ q \in LaunchRecord /\ q.at = "fired" /\ daemon # "down"
      /\ UNCHANGED <<daemon, chain, scheduled, claimLabel, current, choice>>
      /\ current \in Definitions /\ scheduled \in Creators /\ claimLabel \in BOOLEAN
  BY DEF Decide, InterventionInv, InterventionRecords
<1>2. trouble' \in 0 .. MaxTrouble
  BY TroubleCounts DEF Decide, InterventionInv, InterventionRecords
<1>3. \/ Set(l, Over(q, "dropped", 0))
      \/ \E at \in {"park", "fail"} : Set(l, [q EXCEPT !.at = at])
      \/ /\ current # 0 /\ (source = "state" => bound = current)
         /\ Set(l, [q EXCEPT !.at = "claim", !.source = source, !.definition = current])
  BY DEF Decide
<1>4. CASE Set(l, Over(q, "dropped", 0))
  BY <1>1, <1>2, <1>4, LaunchDropped
<1>5. ASSUME NEW at \in {"park", "fail"}, Set(l, [q EXCEPT !.at = at]) PROVE InterventionInv'
  <2>. DEFINE r == [q EXCEPT !.at = at]
  <2>1. /\ r \in LaunchRecord /\ Keeps(r, q) /\ r.at = at
        /\ r.outcome = q.outcome /\ r.to = q.to
    BY <1>1 DEF LaunchRecord, Keeps
  <2>. HIDE DEF r
  <2>. QED
    BY <1>1, <1>2, <1>5, <2>1, ThreadGoesOn DEF r
<1>6. CASE /\ current # 0 /\ (source = "state" => bound = current)
           /\ Set(l, [q EXCEPT !.at = "claim", !.source = source, !.definition = current])
  <2>. DEFINE r == [q EXCEPT !.at = "claim", !.source = source, !.definition = current]
  <2>0. source \in Sources
    BY DEF Sources
  <2>1. /\ r \in LaunchRecord /\ Keeps(r, q) /\ r.at = "claim"
        /\ r.outcome = q.outcome /\ r.to = q.to /\ r.source = source /\ r.definition = current
    BY <1>1, <2>0 DEF LaunchRecord, Keeps
  <2>2. q.kind \in KindOf(l)
    BY <1>1 DEF InterventionInv, LaunchFits
  <2>3. PlanChoice(r) = bound /\ r.kind = q.kind /\ r.from = q.from /\ r.evidence = q.evidence
    BY <2>1 DEF PlanChoice, Keeps
  <2>. HIDE DEF r
  <2>4. ClaimFits(r)
    <3>1. CASE q.kind = "recovery"
      <4>1. source = "recovery"
        BY <3>1 DEF RecoveryChoice
      <4>. QED
        BY <2>1, <2>3, <3>1, <4>1 DEF ClaimFits
    <3>2. CASE q.kind = "review"
      <4>1. ~RecoveryChoice(q) /\ bound = q.evidence
        BY <3>2 DEF RecoveryChoice, PlanChoice
      <4>. QED
        BY <1>6, <2>1, <2>3, <3>2, <4>1 DEF ClaimFits
    <3>3. CASE q.kind = "resume"
      <4>1. RecoveryThatLaunched(q.from) => source = "recovery"
        BY <3>3 DEF RecoveryChoice
      <4>. QED
        BY <1>6, <2>1, <2>3, <3>3, <4>1 DEF ClaimFits
    <3>. QED
      BY <2>2, <3>1, <3>2, <3>3 DEF KindOf
  <2>. HIDE DEF source
  <2>. QED
    BY <1>1, <1>2, <1>6, <2>1, <2>4, ThreadGoesOn DEF r
<1>. QED
  BY <1>3, <1>4, <1>5, <1>6

\* A launch that meets a shutdown leaves its parent cancelled.
LEMMA ParentCancelled ==
  ASSUME InterventionInv, InterventionRecords', NEW r, CancelParent(r), choice' = choice,
         scheduled' \in {scheduled, Unscheduled}, \A l \in Launches : LaunchStays(l),
         daemon' = "stopping"
  PROVE  InterventionInv'
<1>1. chain \in Seq(RunRecord)
  BY DEF InterventionInv, InterventionRecords
<1>2. Len(chain') = Len(chain) /\ \A n \in DOMAIN chain : RunStays(n)
  BY <1>1 DEF CancelParent, RunStays, RunRecord
<1>. QED
  BY <1>2, NoRunBegins

LEMMA ParentRecords ==
  ASSUME InterventionRecords, NEW r, CancelParent(r)
  PROVE  chain' \in Seq(RunRecord) /\ Len(chain') \in 1 .. MaxChainRuns
<1>1. \A n \in DOMAIN chain : chain[n] \in RunRecord
  BY DEF InterventionRecords
<1>2. \A n \in DOMAIN chain : [chain[n] EXCEPT !.state = "cancelled"] \in RunRecord
  BY <1>1, InterventionWords DEF RunRecord
<1>3. PICK n \in Nat : n = Len(chain) /\ DOMAIN chain = 1 .. n /\ n \in 1 .. MaxChainRuns
  BY DEF InterventionRecords
<1>4. chain \in [1 .. n -> RunRecord]
  BY <1>1, <1>3 DEF InterventionRecords
<1>5. chain' \in [1 .. n -> RunRecord]
  BY <1>2, <1>3, <1>4 DEF CancelParent
<1>6. chain' \in Seq(RunRecord) /\ Len(chain') = n
  BY <1>5
<1>. QED
  BY <1>3, <1>6

\* A launch that meets a shutdown ends without a Run.
LEMMA DroppedAtShutdown ==
  ASSUME InterventionInv, NEW l \in Launches, launch[l].at # "idle", daemon = "stopping",
         UNCHANGED <<daemon, scheduled, current, choice, trouble>>, claimLabel' \in BOOLEAN,
         CancelParent(launch[l].from), Set(l, Over(launch[l], "dropped", 0))
  PROVE  InterventionInv'
<1>. DEFINE r == Over(launch[l], "dropped", 0)
<1>1. InterventionRecords /\ launch[l] \in LaunchRecord
  BY DEF InterventionInv, InterventionRecords
<1>2. r \in LaunchRecord /\ Keeps(r, launch[l]) /\ Concludes(r, launch[l], "dropped", 0)
      /\ r.at = "over"
  BY <1>1, LaunchEnded, InterventionWords
<1>. HIDE DEF r
<1>3. /\ launch' \in [Launches -> LaunchRecord] /\ launch'[l] = r
      /\ \A j \in Launches \ {l} : launch'[j] = launch[j]
  BY <1>1, <1>2, OneLaunchChanges DEF r
<1>4. InterventionRecords'
  BY <1>1, <1>3, ParentRecords DEF InterventionRecords
<1>5. \A j \in Launches : LaunchStays(j)
  BY <1>2, <1>3 DEF LaunchStays, Keeps, SameThread, Concludes
<1>. QED
  BY <1>4, <1>5, ParentCancelled

LEMMA EnterParkKeeps ==
  ASSUME InterventionInv, NEW l \in Launches, EnterPark(l)
  PROVE  InterventionInv'
<1>. USE InterventionWords
<1>1. /\ launch[l] \in LaunchRecord /\ launch[l].at = "park" /\ daemon # "down"
      /\ UNCHANGED <<daemon, scheduled, claimLabel, current, choice, trouble>>
      /\ claimLabel \in BOOLEAN /\ scheduled \in Creators /\ trouble \in 0 .. MaxTrouble
  BY DEF EnterPark, InterventionInv, InterventionRecords
<1>2. CASE daemon = "stopping"
  BY <1>1, <1>2, DroppedAtShutdown DEF EnterPark
<1>3. CASE daemon # "stopping"
  <2>. DEFINE r == [launch[l] EXCEPT !.at = "parking"]
  <2>1. /\ r \in LaunchRecord /\ Keeps(r, launch[l]) /\ r.at = "parking"
        /\ r.outcome = launch[l].outcome /\ r.to = launch[l].to
    BY <1>1 DEF LaunchRecord, Keeps
  <2>2. Set(l, r) /\ MutexFree /\ UNCHANGED chain
    BY <1>3 DEF EnterPark
  <2>. HIDE DEF r
  <2>. QED
    BY <1>1, <2>1, <2>2, ThreadGoesOn
<1>. QED
  BY <1>2, <1>3

LEMMA RearmKeeps ==
  ASSUME InterventionInv, NEW l \in Launches, Rearm(l), launch[l].at = "claim",
         daemon # "down", UNCHANGED <<daemon, chain, choice, current, claimLabel>>,
         trouble' \in 0 .. MaxTrouble
  PROVE  InterventionInv'
<1>. USE InterventionWords
<1>. DEFINE q == launch[l]
            r == [q EXCEPT !.at = "armed", !.source = "none", !.definition = 0,
                           !.owner = l # ResumeLaunch]
<1>1. /\ q \in LaunchRecord /\ claimLabel' \in BOOLEAN /\ scheduled' \in {scheduled, Unscheduled, l}
  BY DEF Rearm, InterventionInv, InterventionRecords
<1>2. Set(l, Over(q, "failed", 0)) \/ Set(l, r)
  BY Zenon DEF Rearm
<1>3. (l # ResumeLaunch) \in BOOLEAN
  BY Zenon
<1>4. r \in LaunchRecord /\ Keeps(r, q) /\ r.at = "armed" /\ r.outcome = q.outcome /\ r.to = q.to
  <2>1. \A b \in BOOLEAN : LET m == [q EXCEPT !.at = "armed", !.source = "none",
                                              !.definition = 0, !.owner = b]
                           IN  /\ m \in LaunchRecord /\ Keeps(m, q) /\ m.at = "armed"
                               /\ m.outcome = q.outcome /\ m.to = q.to
    BY <1>1 DEF LaunchRecord, Keeps
  <2>. QED
    BY <1>3, <2>1, Zenon
<1>. HIDE DEF r
<1>. QED
  BY <1>1, <1>2, <1>4, ThreadGoesOn, LaunchDropped

LEMMA EnterClaimKeeps ==
  ASSUME InterventionInv, NEW l \in Launches, EnterClaim(l)
  PROVE  InterventionInv'
<1>. USE InterventionWords
<1>. DEFINE q == launch[l]
<1>1. /\ q \in LaunchRecord /\ q.at = "claim" /\ daemon # "down" /\ MutexFree
      /\ UNCHANGED <<daemon, claimLabel, current, choice>>
      /\ claimLabel \in BOOLEAN /\ scheduled \in Creators /\ ClaimFits(q)
  BY DEF EnterClaim, InterventionInv, InterventionRecords, LaunchFits
<1>2. trouble' \in 0 .. MaxTrouble
  BY TroubleCounts DEF EnterClaim, InterventionInv, InterventionRecords
<1>3. \/ /\ daemon = "stopping" /\ CancelParent(q.from) /\ Set(l, Over(q, "dropped", 0))
         /\ UNCHANGED <<scheduled, trouble>>
      \/ UNCHANGED chain /\ Rearm(l)
      \/ /\ ~Reserved /\ UNCHANGED <<chain, scheduled>> /\ Set(l, [q EXCEPT !.at = "label"])
  BY Zenon DEF EnterClaim
<1>4. CASE daemon = "stopping" /\ CancelParent(q.from) /\ Set(l, Over(q, "dropped", 0))
           /\ UNCHANGED <<scheduled, trouble>>
  BY <1>1, <1>4, DroppedAtShutdown
<1>5. CASE UNCHANGED chain /\ Rearm(l)
  BY <1>1, <1>2, <1>5, RearmKeeps
<1>6. CASE ~Reserved /\ UNCHANGED <<chain, scheduled>> /\ Set(l, [q EXCEPT !.at = "label"])
  <2>. DEFINE r == [q EXCEPT !.at = "label"]
  <2>1. /\ r \in LaunchRecord /\ Keeps(r, q) /\ r.at = "label"
        /\ r.outcome = q.outcome /\ r.to = q.to
        /\ r.source = q.source /\ r.definition = q.definition
    BY <1>1 DEF LaunchRecord, Keeps
  <2>2. ClaimFits(r)
    BY <1>1, <2>1 DEF ClaimFits, PlanChoice, Keeps
  <2>3. ActiveRuns = {}
    BY <1>6 DEF Reserved
  <2>. HIDE DEF r
  <2>. QED
    BY <1>1, <1>2, <1>6, <2>1, <2>2, <2>3, ThreadGoesOn DEF r
<1>. QED
  BY <1>3, <1>4, <1>5, <1>6

LEMMA NewRunRecord ==
  ASSUME NEW q \in LaunchRecord, NEW state \in RunStates
  PROVE  LET run == NewRun(q, state) IN
         /\ run \in RunRecord /\ run.parent = q.from /\ run.by = Unscheduled
         /\ run.source = "none" /\ run.state = state
<1>1. IsHead(q.from) \in BOOLEAN
  BY Zenon DEF IsHead
<1>. QED
  BY <1>1, InterventionWords DEF NewRun, RunRecord, LaunchRecord

LEMMA ChainAppended ==
  ASSUME InterventionRecords, NEW run \in RunRecord, Len(chain) < MaxChainRuns,
         chain' = Append(chain, run)
  PROVE  /\ chain' \in Seq(RunRecord) /\ Len(chain') \in 1 .. MaxChainRuns
         /\ Len(chain) + 1 \in RunNumbers
BY InterventionBounds DEF InterventionRecords, RunNumbers

\* One launch ends with the Run it creates.
LEMMA EndsWithARun ==
  ASSUME InterventionInv, NEW l \in Launches, NEW run \in RunRecord,
         NEW outcome \in {"dropped", "failed", "launched"}, NEW to \in {0, Len(chain) + 1},
         outcome = "launched" => to = Len(chain) + 1,
         chain' = Append(chain, run), NewRunFits(run, l), Len(chain) < MaxChainRuns,
         launch[l].at \in {"parking", "fail", "label"}, daemon # "down",
         UNCHANGED <<daemon, scheduled, current>>, choice' \in Definitions,
         claimLabel' \in BOOLEAN, trouble' \in 0 .. MaxTrouble,
         Set(l, Over(launch[l], outcome, to))
  PROVE  InterventionInv'
<1>. DEFINE r == Over(launch[l], outcome, to)
<1>1. InterventionRecords /\ launch[l] \in LaunchRecord
  BY DEF InterventionInv, InterventionRecords
<1>2. /\ chain' \in Seq(RunRecord) /\ Len(chain') \in 1 .. MaxChainRuns
      /\ to \in RunNumbers
  BY <1>1, ChainAppended, InterventionWords
<1>3. r \in LaunchRecord /\ Keeps(r, launch[l]) /\ Concludes(r, launch[l], outcome, to)
      /\ r.at = "over"
  <2>1. outcome \in Outcomes
    BY InterventionWords
  <2>. QED
    BY <1>1, <1>2, <2>1, LaunchEnded
<1>. HIDE DEF r
<1>4. /\ launch' \in [Launches -> LaunchRecord] /\ launch'[l] = r
      /\ \A j \in Launches \ {l} : launch'[j] = launch[j]
  BY <1>1, <1>3, OneLaunchChanges DEF r
<1>5. InterventionRecords'
  BY <1>1, <1>2, <1>4 DEF InterventionRecords
<1>6. \A j \in Launches : LaunchGoesOn(j, l)
  BY <1>3, <1>4 DEF LaunchGoesOn, Keeps, SameThread, Concludes
<1>. QED
  BY <1>5, <1>6, RunBegins

LEMMA ParkKeeps ==
  ASSUME InterventionInv, NEW l \in Launches, Park(l)
  PROVE  InterventionInv'
<1>. USE InterventionWords
<1>. DEFINE q == launch[l]
<1>1. /\ q \in LaunchRecord /\ q.at = "parking" /\ daemon # "down" /\ Len(chain) < MaxChainRuns
      /\ UNCHANGED <<daemon, scheduled, current, choice, trouble>> /\ claimLabel' \in BOOLEAN
      /\ choice \in Definitions /\ trouble \in 0 .. MaxTrouble
  BY DEF Park, InterventionInv, InterventionRecords
<1>2. CASE daemon = "stopping"
  BY <1>1, <1>2, DroppedAtShutdown DEF Park
<1>3. CASE daemon # "stopping"
  <2>1. PICK outcome \in {"failed", "dropped"} :
          /\ chain' = Append(chain, NewRun(q, "review"))
          /\ Set(l, Over(q, outcome, Len(chain) + 1))
    BY <1>3 DEF Park, HeadRun
  <2>2. NewRun(q, "review") \in RunRecord /\ NewRunFits(NewRun(q, "review"), l)
    BY <1>1, NewRunRecord DEF NewRunFits
  <2>. QED
    BY <1>1, <2>1, <2>2, EndsWithARun
<1>. QED
  BY <1>2, <1>3

LEMMA FailKeeps ==
  ASSUME InterventionInv, NEW l \in Launches, FailBeforeProvider(l)
  PROVE  InterventionInv'
<1>. USE InterventionWords
<1>. DEFINE q == launch[l]
<1>1. /\ q \in LaunchRecord /\ q.at = "fail" /\ daemon # "down" /\ Len(chain) < MaxChainRuns
      /\ UNCHANGED <<daemon, scheduled, current, choice, trouble>> /\ claimLabel' \in BOOLEAN
      /\ choice \in Definitions /\ trouble \in 0 .. MaxTrouble
      /\ InterventionRecords
  <2>1. claimLabel' \in {claimLabel, TRUE, FALSE}
    BY Zenon DEF FailBeforeProvider
  <2>2. claimLabel' \in BOOLEAN
    BY <2>1, Zenon DEF InterventionInv, InterventionRecords
  <2>. QED
    BY <2>2 DEF FailBeforeProvider, InterventionInv, InterventionRecords
<1>2. CASE daemon = "stopping"
  BY <1>1, <1>2, DroppedAtShutdown DEF FailBeforeProvider
<1>3. CASE daemon # "stopping"
  <2>. PICK to \in RunNumbers : to = Len(chain) + 1
    BY <1>1, InterventionBounds DEF InterventionRecords, RunNumbers
  <2>1. /\ chain' = Append(chain, NewRun(q, "stopped"))
        /\ launch' = [j \in Launches |->
             IF j = l THEN Over(q, "failed", to)
             ELSE IF launch[j].from = q.from THEN SettleRow(launch[j], "failed", to)
             ELSE launch[j]]
    BY <1>3 DEF FailBeforeProvider, HeadRun
  <2>2. NewRun(q, "stopped") \in RunRecord /\ NewRunFits(NewRun(q, "stopped"), l)
    BY <1>1, NewRunRecord DEF NewRunFits
  <2>3. /\ chain' \in Seq(RunRecord) /\ Len(chain') \in 1 .. MaxChainRuns
        /\ to \in RunNumbers
    BY <1>1, <2>1, <2>2, ChainAppended
  <2>4. ASSUME NEW j \in Launches PROVE launch'[j] \in LaunchRecord /\ LaunchGoesOn(j, l)
    <3>1. launch[j] \in LaunchRecord
      BY <1>1 DEF InterventionRecords
    <3>2. CASE j = l
      <4>1. launch'[j] = Over(launch[j], "failed", to) /\ "failed" \in Outcomes
        BY <2>1, <3>2
      <4>2. /\ launch'[j] \in LaunchRecord /\ Keeps(launch'[j], launch[j])
            /\ Concludes(launch'[j], launch[j], "failed", to) /\ launch'[j].at = "over"
        <5>. DEFINE e == Over(launch[j], "failed", to)
        <5>1. e \in LaunchRecord /\ Keeps(e, launch[j]) /\ Concludes(e, launch[j], "failed", to)
              /\ e.at = "over"
          BY <3>1, <4>1, LaunchEnded
        <5>. QED
          BY <4>1, <5>1
      <4>. QED
        BY <3>2, <4>2 DEF LaunchGoesOn, Concludes
    <3>3. CASE j # l /\ launch[j].from = q.from
      <4>1. launch'[j] = SettleRow(launch[j], "failed", to) /\ "failed" \in Outcomes
        BY <2>1, <3>3
      <4>2. /\ launch'[j] \in LaunchRecord /\ Keeps(launch'[j], launch[j])
            /\ Concludes(launch'[j], launch[j], "failed", to) /\ SameThread(j)
        <5>. DEFINE e == SettleRow(launch[j], "failed", to)
        <5>1. e \in LaunchRecord /\ Keeps(e, launch[j]) /\ Concludes(e, launch[j], "failed", to)
              /\ e.at = launch[j].at /\ e.source = launch[j].source
              /\ e.definition = launch[j].definition
          BY ONLY <3>1, <4>1, RowSettled, to \in RunNumbers
        <5>. QED
          BY <4>1, <5>1 DEF SameThread
      <4>. QED
        BY <3>3, <4>2 DEF LaunchGoesOn, Concludes
    <3>4. CASE j # l /\ launch[j].from # q.from
      BY <2>1, <3>1, <3>4 DEF LaunchGoesOn, SameThread, Keeps
    <3>. QED
      BY <3>2, <3>3, <3>4
  <2>5. launch' \in [Launches -> LaunchRecord]
    BY <2>1, <2>4
  <2>6. InterventionRecords'
    BY <1>1, <2>3, <2>5 DEF InterventionRecords
  <2>. QED
    BY <1>1, <2>1, <2>2, <2>4, <2>6, RunBegins
<1>. QED
  BY <1>2, <1>3

LEMMA LaunchRunKeeps ==
  ASSUME InterventionInv, NEW l \in Launches, LaunchRun(l)
  PROVE  InterventionInv'
<1>. USE InterventionWords
<1>. DEFINE q == launch[l]
            run(state) == [NewRun(q, state) EXCEPT !.by = l, !.source = q.source,
                             !.definition = q.definition,
                             !.bound = IF q.source = "state" THEN PlanChoice(q) ELSE 0]
<1>1. /\ q \in LaunchRecord /\ q.at = "label" /\ daemon # "down" /\ Len(chain) < MaxChainRuns
      /\ UNCHANGED <<daemon, scheduled, current>> /\ InterventionRecords
      /\ choice \in Definitions /\ scheduled \in Creators
  BY DEF LaunchRun, InterventionInv, InterventionRecords
<1>2. /\ claimLabel' \in BOOLEAN /\ PlanChoice(q) \in Definitions /\ choice' \in Definitions
  BY <1>1 DEF LaunchRun, PlanChoice, LaunchRecord
<1>3. trouble' \in 0 .. MaxTrouble
  BY TroubleCounts DEF LaunchRun, InterventionInv, InterventionRecords
<1>4. ASSUME NEW state \in {"active", "cancelled"}, state = "active" \/ daemon = "stopping"
      PROVE  run(state) \in RunRecord /\ NewRunFits(run(state), l)
  <2>. DEFINE new == NewRun(q, state)
  <2>1. new \in RunRecord /\ new.parent = q.from /\ new.state = state
    BY <1>1, NewRunRecord
  <2>2. \A b \in Definitions :
          LET m == [new EXCEPT !.by = l, !.source = q.source, !.definition = q.definition,
                               !.bound = b]
          IN  /\ m \in RunRecord /\ m.parent = q.from /\ m.state = state /\ m.by = l
              /\ m.source = q.source /\ m.definition = q.definition /\ m.bound = b
    <3>. HIDE DEF new
    <3>. QED
      BY <1>1, <2>1 DEF RunRecord, LaunchRecord
  <2>3. run(state) \in RunRecord /\ run(state).parent = q.from /\ run(state).state = state
        /\ run(state).by = l /\ run(state).source = q.source
        /\ run(state).definition = q.definition
        /\ (q.source = "state" => run(state).bound = PlanChoice(q))
    <3>. HIDE DEF new
    <3>1. (IF q.source = "state" THEN PlanChoice(q) ELSE 0) \in Definitions
      BY <1>2
    <3>2. run(state) = [new EXCEPT !.by = l, !.source = q.source, !.definition = q.definition,
                               !.bound = IF q.source = "state" THEN PlanChoice(q) ELSE 0]
      BY DEF new
    <3>3. /\ run(state) \in RunRecord /\ run(state).parent = q.from
          /\ run(state).state = state
          /\ run(state).by = l /\ run(state).source = q.source
          /\ run(state).definition = q.definition
          /\ run(state).bound = IF q.source = "state" THEN PlanChoice(q) ELSE 0
      BY <2>2, <3>1, <3>2
    <3>. QED
      BY <3>3
  <2>. HIDE DEF run
  <2>. QED
    BY <1>1, <1>4, <2>3 DEF NewRunFits
<1>5. \/ /\ daemon = "up" /\ chain' = Append(chain, run("active"))
         /\ Set(l, Over(q, "launched", Len(chain) + 1))
      \/ /\ daemon = "stopping" /\ chain' = Append(chain, run("cancelled"))
         /\ Set(l, Over(q, "dropped", 0))
      \/ UNCHANGED <<chain, choice>> /\ Set(l, Over(q, "failed", 0))
  BY DEF LaunchRun, HeadRun
<1>. HIDE DEF run
<1>6. CASE daemon = "up" /\ chain' = Append(chain, run("active"))
           /\ Set(l, Over(q, "launched", Len(chain) + 1))
  <2>1. run("active") \in RunRecord /\ NewRunFits(run("active"), l)
    BY <1>4
  <2>. QED
    BY <1>1, <1>2, <1>3, <1>6, <2>1, EndsWithARun
<1>7. CASE daemon = "stopping" /\ chain' = Append(chain, run("cancelled"))
           /\ Set(l, Over(q, "dropped", 0))
  <2>1. run("cancelled") \in RunRecord /\ NewRunFits(run("cancelled"), l)
    BY <1>4, <1>7
  <2>. QED
    BY <1>1, <1>2, <1>3, <1>7, <2>1, EndsWithARun
<1>8. CASE UNCHANGED <<chain, choice>> /\ Set(l, Over(q, "failed", 0))
  BY <1>1, <1>2, <1>3, <1>8, LaunchDropped
<1>. QED
  BY <1>5, <1>6, <1>7, <1>8

LEMMA RunStopsKeeps ==
  ASSUME InterventionInv, NEW r \in DOMAIN chain, RunStops(r)
  PROVE  InterventionInv'
<1>1. PICK state \in {"cancelled", "stopped", "done"} :
         chain' = [chain EXCEPT ![r].state = state] /\ (state = "cancelled" <=> daemon = "stopping")
  BY DEF RunStops
<1>2. /\ InterventionRecords /\ UNCHANGED <<daemon, launch, scheduled, current, choice, trouble>>
      /\ chain[r].state = "active"
  BY DEF RunStops, InterventionInv
<1>3. claimLabel' \in BOOLEAN
  <2>1. claimLabel' = (daemon = "stopping" /\ claimLabel)
    BY Zenon DEF RunStops
  <2>. QED
    BY <2>1, Zenon
<1>4. PICK n \in Nat : n = Len(chain) /\ DOMAIN chain = 1 .. n /\ n \in 1 .. MaxChainRuns
  BY <1>2 DEF InterventionRecords
<1>5. \A m \in 1 .. n : chain[m] \in RunRecord
  BY <1>2, <1>4 DEF InterventionRecords
<1>6. chain' \in [1 .. n -> RunRecord]
  BY <1>1, <1>2, <1>4, <1>5, InterventionWords DEF RunRecord, InterventionRecords
<1>7. chain' \in Seq(RunRecord) /\ Len(chain') = n
  BY <1>6
<1>8. InterventionRecords'
  BY <1>2, <1>3, <1>4, <1>7 DEF InterventionRecords
<1>9. \A m \in DOMAIN chain : RunStays(m)
  BY <1>1, <1>2, <1>4, <1>5 DEF RunStays, RunRecord
<1>10. \A l \in Launches : LaunchStays(l)
  BY <1>2 DEF LaunchStays, SameThread, Keeps
<1>11. daemon' = "down" => \A l \in Launches : launch'[l].at \in {"idle", "over"}
  BY <1>2, InterventionWords DEF InterventionInv, ResumeAlone, InterventionsRest, AtRest
<1>. QED
  BY <1>2, <1>4, <1>7, <1>8, <1>9, <1>10, <1>11, NoRunBegins

LEMMA StopKeeps ==
  ASSUME InterventionInv, StopDaemon
  PROVE  InterventionInv'
<1>. USE InterventionWords
<1>1. /\ InterventionRecords /\ daemon' = "stopping" /\ scheduled' = Unscheduled
      /\ UNCHANGED <<claimLabel, current, choice>>
  BY DEF StopDaemon, InterventionInv
<1>2. trouble' \in 0 .. MaxTrouble
  BY <1>1, TroubleCounts DEF StopDaemon, InterventionRecords
<1>3. chain' = chain \/ \E r : CancelParent(r)
  BY DEF StopDaemon
<1>4. chain' \in Seq(RunRecord) /\ Len(chain') \in 1 .. MaxChainRuns
  BY <1>1, <1>3, ParentRecords DEF InterventionRecords
<1>5. /\ launch' \in [Launches -> LaunchRecord]
      /\ \A j \in Launches : LaunchStays(j)
  <2>1. CASE UNCHANGED launch
    BY <1>1, <2>1 DEF InterventionRecords, LaunchStays, Keeps, SameThread
  <2>2. CASE ~UNCHANGED launch
    <3>1. scheduled \in Launches /\ launch[scheduled].at # "idle"
          /\ Set(scheduled, [launch[scheduled] EXCEPT !.at = "over", !.owner = FALSE])
      <4>1. scheduled # Unscheduled
            /\ Set(scheduled, [launch[scheduled] EXCEPT !.at = "over", !.owner = FALSE])
        BY <2>2 DEF StopDaemon
      <4>. QED
        BY <1>1, <4>1 DEF InterventionRecords, Creators, InterventionInv, ScheduledBegan
    <3>. DEFINE r == [launch[scheduled] EXCEPT !.at = "over", !.owner = FALSE]
    <3>2. r \in LaunchRecord /\ Keeps(r, launch[scheduled]) /\ r.at = "over"
          /\ r.outcome = launch[scheduled].outcome /\ r.to = launch[scheduled].to
      BY <1>1, <3>1 DEF InterventionRecords, LaunchRecord, Keeps
    <3>. HIDE DEF r
    <3>3. /\ launch' \in [Launches -> LaunchRecord] /\ launch'[scheduled] = r
          /\ \A j \in Launches \ {scheduled} : launch'[j] = launch[j]
      BY <1>1, <3>1, <3>2, OneLaunchChanges DEF r
    <3>. QED
      BY <3>1, <3>2, <3>3 DEF LaunchStays, Keeps, SameThread
  <2>. QED
    BY <2>1, <2>2
<1>6. InterventionRecords'
  BY <1>1, <1>2, <1>4, <1>5 DEF InterventionRecords
<1>7. CASE UNCHANGED chain
  <2>1. Len(chain') = Len(chain) /\ \A n \in DOMAIN chain : RunStays(n)
    BY <1>7 DEF RunStays
  <2>. QED
    BY <1>1, <1>5, <1>6, <2>1, NoRunBegins
<1>8. ASSUME NEW r, CancelParent(r) PROVE InterventionInv'
  BY <1>1, <1>5, <1>6, <1>8, ParentCancelled
<1>. QED
  BY <1>3, <1>7, <1>8

LEMMA ProcessEndsKeeps ==
  ASSUME InterventionInv, ProcessEnds, Trouble \/ UNCHANGED trouble
  PROVE  InterventionInv'
<1>. USE InterventionWords
<1>1. InterventionRecords /\ UNCHANGED <<claimLabel, current, choice>> /\ daemon' = "down"
      /\ scheduled' = Unscheduled
  BY DEF ProcessEnds, InterventionInv
<1>2. trouble' \in 0 .. MaxTrouble
  BY <1>1, TroubleCounts DEF InterventionRecords
<1>3. PICK n \in Nat : n = Len(chain) /\ DOMAIN chain = 1 .. n /\ n \in 1 .. MaxChainRuns
  BY <1>1 DEF InterventionRecords
<1>4. \A m \in 1 .. n : chain[m] \in RunRecord
  BY <1>1, <1>3 DEF InterventionRecords
<1>5. \A m \in 1 .. n : chain'[m] \in RunRecord /\ RunStays(m)
  <2>1. ASSUME NEW m \in 1 .. n PROVE chain'[m] \in RunRecord /\ RunStays(m)
    <3>1. CASE chain[m].state = "active"
      <4>1. chain'[m] = [chain[m] EXCEPT !.state = "stale"]
        BY <1>3, <3>1 DEF ProcessEnds
      <4>. QED
        BY <1>4, <3>1, <4>1 DEF RunRecord, RunStays
    <3>2. CASE chain[m].state # "active"
      <4>1. chain'[m] = chain[m]
        BY <1>3, <3>2 DEF ProcessEnds
      <4>. QED
        BY <1>4, <4>1 DEF RunStays
    <3>. QED
      BY <3>1, <3>2
  <2>. QED
    BY <2>1
<1>6. chain' \in Seq(RunRecord) /\ Len(chain') = n
  <2>1. chain' \in [1 .. n -> RunRecord]
    BY <1>3, <1>5 DEF ProcessEnds
  <2>. QED
    BY <2>1
<1>7. ASSUME NEW l \in Launches
      PROVE  launch'[l] \in LaunchRecord /\ LaunchStays(l) /\ launch'[l].at \in {"idle", "over"}
  <2>1. launch[l] \in LaunchRecord
    BY <1>1 DEF InterventionRecords
  <2>2. CASE launch[l].at = "idle"
    <3>1. launch'[l] = launch[l]
      BY <2>2 DEF ProcessEnds
    <3>. QED
      BY <2>1, <2>2, <3>1 DEF LaunchStays, Keeps, SameThread
  <2>3. CASE launch[l].at # "idle"
    <3>1. launch'[l] = [launch[l] EXCEPT !.at = "over", !.owner = FALSE, !.source = "none",
                                         !.definition = 0]
      BY <2>3 DEF ProcessEnds
    <3>. QED
      BY <2>1, <2>3, <3>1 DEF LaunchStays, Keeps, LaunchRecord
  <2>. QED
    BY <2>2, <2>3
<1>8. launch' \in [Launches -> LaunchRecord]
  BY <1>7 DEF ProcessEnds
<1>9. InterventionRecords'
  BY <1>1, <1>2, <1>3, <1>6, <1>8 DEF InterventionRecords
<1>. QED
  BY <1>1, <1>3, <1>5, <1>6, <1>7, <1>9, NoRunBegins

LEMMA SweepKeeps ==
  ASSUME InterventionInv, StartAndSweep
  PROVE  InterventionInv'
<1>. USE InterventionWords
<1>1. /\ InterventionRecords /\ daemon = "down" /\ daemon' = "up"
      /\ UNCHANGED <<chain, scheduled, claimLabel, current, choice, trouble>>
      /\ launch' = [l \in Launches |-> SettleRow(launch[l], "dropped", 0)]
  BY DEF StartAndSweep, InterventionInv
<1>2. ASSUME NEW l \in Launches PROVE launch'[l] \in LaunchRecord /\ LaunchStays(l)
  <2>1. launch'[l] = SettleRow(launch[l], "dropped", 0) /\ launch[l] \in LaunchRecord
        /\ "dropped" \in Outcomes
    BY <1>1 DEF InterventionRecords
  <2>. DEFINE e == SettleRow(launch[l], "dropped", 0)
  <2>2. e \in LaunchRecord /\ Keeps(e, launch[l]) /\ Concludes(e, launch[l], "dropped", 0)
        /\ e.at = launch[l].at /\ e.source = launch[l].source
        /\ e.definition = launch[l].definition
    BY ONLY <2>1, RowSettled, InterventionWords
  <2>. HIDE DEF e
  <2>3. launch'[l] = e
    BY <2>1 DEF e
  <2>. QED
    BY <2>2, <2>3 DEF LaunchStays, SameThread, Concludes
<1>3. InterventionRecords'
  BY <1>1, <1>2 DEF InterventionRecords
<1>4. \A n \in DOMAIN chain : RunStays(n)
  BY <1>1 DEF RunStays
<1>. QED
  BY <1>1, <1>2, <1>3, <1>4, NoRunBegins

\* The operator edits the workflow, whether or not the daemon runs.
LEMMA EditKeeps ==
  ASSUME InterventionInv, EditDefinition \/ RestoreState
  PROVE  InterventionInv'
<1>1. /\ UNCHANGED <<daemon, chain, launch, scheduled, claimLabel, choice, trouble>>
      /\ current' \in Definitions
  BY InterventionWords DEF EditDefinition, RestoreState, InterventionInv, InterventionRecords
<1>2. InterventionRecords' /\ InterventionRecords
  BY <1>1 DEF InterventionInv, InterventionRecords
<1>3. \A n \in DOMAIN chain : RunStays(n)
  BY <1>1 DEF RunStays
<1>4. \A l \in Launches : LaunchStays(l)
  BY <1>1 DEF LaunchStays, SameThread, Keeps
<1>5. daemon' = "down" => \A l \in Launches : launch'[l].at \in {"idle", "over"}
  BY <1>1, InterventionWords DEF InterventionInv, ResumeAlone, InterventionsRest, AtRest
<1>. QED
  BY <1>1, <1>2, <1>3, <1>4, <1>5, NoRunBegins

LEMMA InterventionsGoOn == InterventionInv /\ [InterventionsNext]_interventionVars
                             => InterventionInv'
<1>. SUFFICES ASSUME InterventionInv, [InterventionsNext]_interventionVars
              PROVE  InterventionInv'
  OBVIOUS
<1>. USE InterventionWords
<1>1. ASSUME NEW k \in Interventions, NEW kind \in {"recovery", "review"}, Request(k, kind)
      PROVE  InterventionInv'
  BY <1>1, RequestKeeps
<1>2. ASSUME NEW k \in Interventions, ReadIssue(k) \/ Confirm(k) PROVE InterventionInv'
  BY <1>2, ReadIssueKeeps, ConfirmKeeps
<1>3. ASSUME NEW l \in Launches, LaunchStep(l) PROVE InterventionInv'
  BY <1>3, FireKeeps, DecideKeeps, EnterParkKeeps, ParkKeeps, FailKeeps, EnterClaimKeeps,
     LaunchRunKeeps DEF LaunchStep
<1>4. ASSUME NEW r \in DOMAIN chain, RunStops(r) PROVE InterventionInv'
  BY <1>4, RunStopsKeeps
<1>5. CASE ResumeAfterShutdown
  BY <1>5, ResumeKeeps
<1>6. CASE EditDefinition \/ RestoreState
  BY <1>6, EditKeeps
<1>7. CASE StopDaemon
  BY <1>7, StopKeeps
<1>8. CASE ExitDaemon \/ KillDaemon
  BY <1>8, ProcessEndsKeeps DEF ExitDaemon, KillDaemon
<1>9. CASE StartAndSweep
  BY <1>9, SweepKeeps
<1>10. CASE UNCHANGED interventionVars
  BY <1>10 DEF interventionVars, InterventionInv, InterventionRecords, LaunchFits, AtRest,
     ClaimFits, PlanChoice, RecoveryThatLaunched, ActiveRuns, OneInMutex, InMutex, ScheduledBegan,
     ResumeAlone, HeadCancelled, HeadRun, InterventionsRest, OneActive, RunFits, RunAsConfirmed
<1>. QED
  BY <1>1, <1>2, <1>3, <1>4, <1>5, <1>6, <1>7, <1>8, <1>9, <1>10 DEF InterventionsNext

LEMMA InterventionInvHolds == InterventionsSpec => []InterventionInv
BY InterventionsBegin, InterventionsGoOn, PTL DEF InterventionsSpec

LEMMA OneActiveCounts ==
  ASSUME InterventionInv
  PROVE  OneRunAtATime
<1>1. CASE ActiveRuns = {}
  BY <1>1, FS_EmptySet DEF OneRunAtATime
<1>2. CASE ActiveRuns # {}
  <2>1. PICK r \in ActiveRuns : ActiveRuns = {r}
    BY <1>2 DEF InterventionInv, OneActive
  <2>. QED
    BY <2>1, FS_Singleton DEF OneRunAtATime
<1>. QED
  BY <1>1, <1>2

(* For any number of interventions, Runs, edits and failures: the chain of the
   Issue runs one Run at a time, and the one the operator confirmed, with the
   provider and on the definition that were confirmed.                      *)
THEOREM LaunchedOnceAndAsConfirmed == InterventionsSpec => []InterventionInvariant
<1>1. InterventionInv => InterventionInvariant
  <2>. SUFFICES ASSUME InterventionInv PROVE InterventionInvariant
    OBVIOUS
  <2>0. InterventionRecords /\ \A n \in DOMAIN chain : chain[n] \in RunRecord /\ RunFits(n)
    BY DEF InterventionInv, InterventionRecords
  <2>1. InterventionTypeOK
    BY <2>0, Zenon DEF InterventionTypeOK, InterventionRecords, RunRecord, LaunchRecord, RunNumbers,
       Creators, Kinds, Outcomes
  <2>2. LaunchedAsConfirmed
    BY <2>0 DEF LaunchedAsConfirmed, RunFits, RunAsConfirmed
  <2>3. ChoiceFitsDefinition
    BY <2>0 DEF ChoiceFitsDefinition, RunFits
  <2>4. RecoveryProviderSticks
    BY <2>0 DEF RecoveryProviderSticks, RunFits, RecoveryThatLaunched
  <2>. QED
    BY <2>1, <2>2, <2>3, <2>4, OneActiveCounts DEF InterventionInvariant
<1>. QED
  BY <1>1, InterventionInvHolds, PTL

(* The plan of the chain is rewritten by the launch of a review and by nothing
   else: not by a resolve that is dropped, refused or repeated, and not by a
   launch of another kind.                                                  *)
THEOREM OnlyALaunchRewritesThePlan == InterventionsSpec => PlanRewrittenByLaunchOnly
<1>. DEFINE Rewritten == choice' # choice =>
              \E k \in Interventions : /\ launch[k].kind = "review"
                                       /\ Len(chain') = Len(chain) + 1
                                       /\ chain'[Len(chain')].by = k
<1>1. InterventionInv /\ [InterventionsNext]_interventionVars => Rewritten
  <2>. SUFFICES ASSUME InterventionInv, [InterventionsNext]_interventionVars, choice' # choice
                PROVE  \E k \in Interventions : /\ launch[k].kind = "review"
                                                /\ Len(chain') = Len(chain) + 1
                                                /\ chain'[Len(chain')].by = k
    OBVIOUS
  <2>1. PICK l \in Launches : LaunchRun(l)
    BY DEF InterventionsNext, interventionVars, LaunchStep, Request, ReadIssue, Confirm,
       ResumeAfterShutdown, FireLaunch, Decide, EnterPark, Park, FailBeforeProvider, EnterClaim,
       RunStops, EditDefinition, RestoreState, StopDaemon, ExitDaemon, KillDaemon, ProcessEnds,
       StartAndSweep
  <2>2. choice' = PlanChoice(launch[l])
    BY <2>1 DEF LaunchRun
  <2>3. launch[l].kind = "review" /\ l \in Interventions
    <3>1. launch[l].kind = "review"
      BY <2>2 DEF PlanChoice
    <3>. QED
      BY <2>1, <3>1, InterventionWords DEF LaunchRun, InterventionInv, LaunchFits, KindOf
  <2>4. PICK run : chain' = Append(chain, [run EXCEPT !.by = l, !.source = launch[l].source,
                             !.definition = launch[l].definition,
                             !.bound = IF launch[l].source = "state"
                                         THEN PlanChoice(launch[l]) ELSE 0])
                   /\ run = NewRun(launch[l], "active")
    BY <2>1 DEF LaunchRun
  <2>5. [run EXCEPT !.by = l, !.source = launch[l].source,
                    !.definition = launch[l].definition,
                    !.bound = IF launch[l].source = "state"
                                THEN PlanChoice(launch[l]) ELSE 0].by = l
    BY <2>4 DEF NewRun
  <2>6. chain \in Seq(RunRecord)
    BY DEF InterventionInv, InterventionRecords
  <2>7. Len(chain') = Len(chain) + 1 /\ chain'[Len(chain')].by = l
    BY <2>4, <2>5, <2>6
  <2>. QED
    BY <2>3, <2>7
<1>2. InterventionInv /\ [InterventionsNext]_interventionVars => [Rewritten]_interventionVars
  BY <1>1
<1>. QED
  BY <1>2, InterventionInvHolds, PTL DEF InterventionsSpec, PlanRewrittenByLaunchOnly

-----------------------------------------------------------------------------
(* The processes of a group. *)

LEMMA TreeTypes ==
  ASSUME NEW t \in TreeRecord
  PROVE  /\ t.super \in SupervisorPlaces /\ t.asked \in BOOLEAN /\ t.termed \in BOOLEAN
         /\ t.reply \in BOOLEAN /\ t.guardian \in {"none", "starting", "ready", "gone"}
         /\ t.provider \in {"none", "alive", "gone"} /\ t.result \in Results
         /\ t.survivor \in {"none", "group", "detached"} /\ t.holds \in BOOLEAN
         /\ t.exit \in Results
BY DEF TreeRecord

LEMMA ProviderStops ==
  ASSUME NEW t \in TreeRecord, NEW whole \in BOOLEAN
  PROVE  LET w == WithoutProvider(t, whole)
         IN  /\ w \in TreeRecord
             /\ w.super = t.super /\ w.asked = t.asked /\ w.termed = t.termed
             /\ w.reply = t.reply /\ w.guardian = t.guardian /\ w.exit = t.exit
             /\ w.provider = IF t.provider = "alive" THEN "gone" ELSE t.provider
             /\ w.result = IF t.provider = "alive" THEN "killed" ELSE t.result
             /\ w.survivor \in {t.survivor, "none"} /\ w.survivor # "group"
             /\ whole => w.survivor = "none"
<1>. DEFINE dies == t.survivor = "group" \/ (whole /\ t.survivor = "detached")
            provider == IF t.provider = "alive" THEN "gone" ELSE t.provider
            result == IF t.provider = "alive" THEN "killed" ELSE t.result
            survivor == IF dies THEN "none" ELSE t.survivor
            holds == t.holds /\ ~dies
            w == [t EXCEPT !.provider = provider, !.result = result,
                           !.survivor = survivor, !.holds = holds]
<1>1. w = WithoutProvider(t, whole)
  BY DEF WithoutProvider, TreeRecord
<1>2. /\ provider \in {"none", "alive", "gone"} /\ result \in Results
      /\ survivor \in {"none", "group", "detached"} /\ holds \in BOOLEAN
      /\ survivor # "group" /\ survivor \in {t.survivor, "none"}
      /\ (whole => survivor = "none")
  BY TreeTypes DEF Results
<1>. HIDE DEF provider, result, survivor, holds
<1>3. /\ w \in TreeRecord
      /\ w.super = t.super /\ w.asked = t.asked /\ w.termed = t.termed
      /\ w.reply = t.reply /\ w.guardian = t.guardian /\ w.exit = t.exit
      /\ w.provider = provider /\ w.result = result /\ w.survivor = survivor
  BY <1>2 DEF TreeRecord
<1>. HIDE DEF w
<1>4. w.survivor \in {t.survivor, "none"} /\ w.survivor # "group" /\ (whole => w.survivor = "none")
  BY <1>2, <1>3
<1>5. /\ w.provider = IF t.provider = "alive" THEN "gone" ELSE t.provider
      /\ w.result = IF t.provider = "alive" THEN "killed" ELSE t.result
  BY <1>3 DEF provider, result
<1>. QED  BY <1>1, <1>3, <1>4, <1>5

LEMMA GroupStops ==
  ASSUME NEW t \in TreeRecord
  PROVE  LET w == GroupKilled(t)
         IN  /\ w \in TreeRecord
             /\ w.super = IF t.super = "none" THEN "none" ELSE "gone"
             /\ w.guardian = IF t.guardian = "none" THEN "none" ELSE "gone"
             /\ w.exit = IF SupervisorAlive(t) THEN "killed" ELSE t.exit
             /\ w.asked = t.asked /\ w.termed = t.termed /\ w.reply = t.reply
             /\ w.provider = IF t.provider = "alive" THEN "gone" ELSE t.provider
             /\ w.result = IF t.provider = "alive" THEN "killed" ELSE t.result
             /\ w.survivor \in {t.survivor, "none"} /\ w.survivor # "group"
             /\ GroupEmpty(w)
<1>1. PICK u \in TreeRecord : u = WithoutProvider(t, FALSE)
  BY ProviderStops
<1>2. /\ u.super = t.super /\ u.asked = t.asked /\ u.termed = t.termed
      /\ u.reply = t.reply /\ u.guardian = t.guardian /\ u.exit = t.exit
      /\ u.provider = IF t.provider = "alive" THEN "gone" ELSE t.provider
      /\ u.result = IF t.provider = "alive" THEN "killed" ELSE t.result
      /\ u.survivor \in {t.survivor, "none"} /\ u.survivor # "group"
  BY <1>1, ProviderStops
<1>. DEFINE super == IF t.super = "none" THEN "none" ELSE "gone"
            guardian == IF t.guardian = "none" THEN "none" ELSE "gone"
            exit == IF SupervisorAlive(t) THEN "killed" ELSE t.exit
            w == [u EXCEPT !.super = super, !.guardian = guardian, !.exit = exit]
<1>3. w = GroupKilled(t)
  BY <1>1, <1>2 DEF GroupKilled, TreeRecord
<1>4. /\ super \in SupervisorPlaces /\ guardian \in {"none", "starting", "ready", "gone"}
      /\ exit \in Results
  BY TreeTypes DEF SupervisorPlaces, Results
<1>. HIDE DEF super, guardian, exit
<1>5. /\ w \in TreeRecord /\ w.super = super /\ w.guardian = guardian /\ w.exit = exit
      /\ w.asked = u.asked /\ w.termed = u.termed /\ w.reply = u.reply
      /\ w.provider = u.provider /\ w.result = u.result /\ w.survivor = u.survivor
  BY <1>4 DEF TreeRecord
<1>6. GroupEmpty(w)
  BY <1>2, <1>5 DEF GroupEmpty, SupervisorAlive, super, guardian
<1>. QED  BY <1>2, <1>3, <1>5, <1>6 DEF super, guardian, exit

(* The pipe. *)

LEMMA Sent ==
  ASSUME NEW T, NEW s \in Seq(T), NEW x \in T
  PROVE  /\ Append(s, x) \in Seq(T)
         /\ \A m : (\E i \in DOMAIN Append(s, x) : Append(s, x)[i] = m)
                   <=> (\E i \in DOMAIN s : s[i] = m) \/ x = m
<1>1. /\ DOMAIN s = 1 .. Len(s) /\ Len(s) \in Nat /\ Append(s, x) \in Seq(T)
      /\ DOMAIN Append(s, x) = 1 .. Len(s) + 1 /\ Append(s, x)[Len(s) + 1] = x
      /\ \A i \in 1 .. Len(s) : Append(s, x)[i] = s[i]
  OBVIOUS
<1>2. ASSUME NEW m, NEW i \in 1 .. Len(s) + 1, Append(s, x)[i] = m
      PROVE  (\E j \in 1 .. Len(s) : s[j] = m) \/ x = m
  BY <1>1, <1>2
<1>3. ASSUME NEW m, NEW i \in 1 .. Len(s), s[i] = m
      PROVE  \E j \in 1 .. Len(s) + 1 : Append(s, x)[j] = m
  BY <1>1, <1>3
<1>4. ASSUME NEW m, x = m PROVE \E j \in 1 .. Len(s) + 1 : Append(s, x)[j] = m
  BY <1>1, <1>4
<1>. QED  BY <1>1, <1>2, <1>3, <1>4

LEMMA Received ==
  ASSUME NEW T, NEW s \in Seq(T), s # <<>>
  PROVE  /\ Tail(s) \in Seq(T) /\ Head(s) \in T /\ Head(s) = s[1] /\ 1 \in DOMAIN s
         /\ \A m : (\E i \in DOMAIN s : s[i] = m)
                   <=> (\E i \in DOMAIN Tail(s) : Tail(s)[i] = m) \/ Head(s) = m
<1>1. /\ DOMAIN s = 1 .. Len(s) /\ Len(s) \in Nat /\ Len(s) # 0 /\ Tail(s) \in Seq(T)
      /\ DOMAIN Tail(s) = 1 .. Len(s) - 1 /\ Head(s) = s[1] /\ Head(s) \in T
      /\ \A i \in 1 .. Len(s) - 1 : Tail(s)[i] = s[i + 1]
  BY HeadTailProperties
<1>2. ASSUME NEW m, NEW i \in 1 .. Len(s), s[i] = m
      PROVE  (\E j \in 1 .. Len(s) - 1 : Tail(s)[j] = m) \/ Head(s) = m
  <2>1. CASE i = 1
    BY <1>1, <1>2, <2>1
  <2>2. CASE i # 1
    <3>1. i - 1 \in 1 .. Len(s) - 1 /\ (i - 1) + 1 = i
      BY <1>1, <2>2
    <3>2. Tail(s)[i - 1] = m
      BY <1>1, <1>2, <3>1
    <3>. QED  BY <3>1, <3>2
  <2>. QED  BY <2>1, <2>2
<1>3. ASSUME NEW m, NEW i \in 1 .. Len(s) - 1, Tail(s)[i] = m
      PROVE  \E j \in 1 .. Len(s) : s[j] = m
  <2>1. i + 1 \in 1 .. Len(s)
    BY <1>1
  <2>. QED  BY <1>1, <1>3, <2>1
<1>4. 1 \in 1 .. Len(s)
  BY <1>1
<1>. QED  BY <1>1, <1>2, <1>3, <1>4

(* What a step of the processes may do: none starts again, none settled      *)
(* unsettles, and what the provider came to stays.                         *)
TreeMoves ==
    /\ tree' \in TreeRecord /\ tree'.super # "none"
    /\ ScriptSettled(tree) => ScriptSettled(tree')
    /\ GroupEmpty(tree) => GroupEmpty(tree')
    /\ tree.super = "gone" => tree'.super = "gone"
    /\ tree'.super \in {"starting", "announced"} => tree.super \in {"starting", "announced"}
    /\ tree'.super \in {"starting", "announced", "suppressed"}
         => tree.super \in {"starting", "announced", "suppressed"}
    /\ tree'.provider = "alive" => tree.provider = "alive" \/ tree.super = "announced"
    /\ tree.provider = "gone" => tree'.provider = "gone" /\ tree'.result = tree.result
    /\ InScope(tree') => InScope(tree) \/ tree.super = "announced"

LEMMA TreeMovesFit ==
  ASSUME ProcessInv, TreeMoves, tree.super # "none",
         UNCHANGED <<attempt, session, scopes, report>>, shutdown'.cancel = shutdown.cancel
  PROVE  SessionFits' /\ ScopesFit'
<1>. USE DEF ProcessInv
<1>1. session.at \notin {"idle", "probing", "marked", "down", "swept"}
  BY DEF SessionFits
<1>2. SessionFits'
  BY <1>1 DEF SessionFits, TreeMoves
<1>3. session.at = "over" /\ InScope(tree') => InScope(tree)
  BY DEF SessionFits, TreeMoves
<1>4. ScopesFit'
  BY <1>1, <1>3 DEF ScopesFit
<1>. QED  BY <1>2, <1>4

(* While the supervisor lives, the group is not empty, the daemon has seen   *)
(* no exit and reported none.                                              *)
LEMMA WhileAlive ==
  ASSUME ProcessInv, SupervisorAlive(tree)
  PROVE  /\ tree.super # "none" /\ tree.super # "gone" /\ tree.exit = "none"
         /\ ~GroupEmpty(tree) /\ shutdown.at # "over" /\ wire.open /\ ~wire.exitSeen /\ ~wire.closed
         /\ report.exit = "none"
<1>. USE DEF ProcessInv
<1>1. tree.super # "none" /\ tree.super # "gone" /\ ~GroupEmpty(tree)
  BY DEF SupervisorAlive, GroupEmpty
<1>2. wire.open \in BOOLEAN /\ wire.exitSeen \in BOOLEAN /\ wire.closed \in BOOLEAN
  BY DEF ProcessRecords, WireRecord
<1>. QED  BY <1>1, <1>2 DEF TreeFits, SessionFits, WireFits, ShutdownFits

(* A step of the live processes alone. *)
LEMMA LiveTreeStep ==
  ASSUME ProcessInv, SupervisorAlive(tree), SupervisorLeaves, TreeMoves, wire' \in WireRecord,
         wire'.open = wire.open, wire'.exitSeen = wire.exitSeen, wire'.closed = wire.closed,
         TreeFits', tree'.termed = tree.termed,
         Pending("shutdown-unavailable")' => ScriptSettled(tree'),
         Pending("provider-exited") => Pending("provider-exited")',
         Pending("provider-exited")' => tree'.provider = "gone",
         tree'.provider = "gone" /\ tree'.super # "running" /\ faults = 0
           => Pending("provider-exited")' \/ (tree.provider = "gone" /\ tree.super # "running"),
         tree'.exit = "killed" /\ tree'.result = "own" /\ faults = 0 => tree.termed,
         group.exit # "none" => tree'.result = tree.result
  PROVE  ProcessInv'
<1>. USE DEF ProcessInv
<1>1. /\ tree.super # "none" /\ tree.super # "gone" /\ tree.exit = "none"
      /\ ~GroupEmpty(tree) /\ shutdown.at # "over" /\ wire.open /\ ~wire.exitSeen /\ ~wire.closed
      /\ report.exit = "none"
  BY WhileAlive
<1>2. UNCHANGED <<attempt, session, scopes, group, shutdown, queue, outputs, report, stalled, faults>>
  BY DEF SupervisorLeaves
<1>3. SessionFits' /\ ScopesFit'
  BY <1>1, <1>2, TreeMovesFit
<1>4. WireFits'
  BY <1>1, <1>2 DEF WireFits, TreeMoves
<1>5. ShutdownFits'
  BY <1>1, <1>2 DEF ShutdownFits, TreeMoves
<1>6. ExitsAreTold'
  <2>1. SUFFICES ASSUME faults = 0 PROVE ExitsAreTold'
    BY <1>2 DEF ExitsAreTold
  <2>2. session.at \in {"stopping", "over"} => tree'.provider # "alive"
    BY <2>1 DEF ExitsAreTold, TreeMoves, SessionFits
  <2>3. shutdown.at # "over" /\ tree'.provider = "gone" /\ tree'.super # "running"
          => Pending("provider-exited")' \/ group.exit # "none"
    BY <2>1 DEF ExitsAreTold
  <2>4. ~session.cancelled /\ tree'.exit = "killed" /\ tree'.result = "own" => shutdown.at = "term"
    BY <1>1, <2>1 DEF ShutdownFits, SessionFits
  <2>. QED  BY <1>1, <1>2, <2>2, <2>3, <2>4 DEF ExitsAreTold
<1>. QED  BY <1>2, <1>3, <1>4, <1>5, <1>6 DEF ProcessRecords, TreeMoves

LEMMA WireSends ==
  ASSUME ProcessInv, NEW message \in Messages, TellDaemon(message)
  PROVE  /\ wire' \in WireRecord /\ wire'.open = wire.open /\ wire'.exitSeen = wire.exitSeen
         /\ wire'.closed = wire.closed /\ wire'.down = wire.down
         /\ \A m : Pending(m)' <=> Pending(m) \/ m = message
<1>1. wire \in WireRecord /\ wire.up \in Seq(Messages)
  BY DEF ProcessInv, ProcessRecords, WireRecord
<1>2. Append(wire.up, message) \in Seq(Messages)
  BY <1>1, Sent
<1>3. /\ wire' \in WireRecord /\ wire'.open = wire.open /\ wire'.exitSeen = wire.exitSeen
      /\ wire'.closed = wire.closed /\ wire'.down = wire.down
      /\ wire'.up = Append(wire.up, message)
  BY <1>1, <1>2 DEF TellDaemon, WireRecord
<1>4. \A m : (\E i \in DOMAIN wire'.up : wire'.up[i] = m)
               <=> (\E i \in DOMAIN wire.up : wire.up[i] = m) \/ m = message
  BY <1>1, <1>3, Sent
<1>. QED  BY <1>3, <1>4 DEF Pending

LEMMA WireStays ==
  ASSUME ProcessInv, UNCHANGED wire
  PROVE  /\ wire' \in WireRecord /\ wire'.open = wire.open /\ wire'.exitSeen = wire.exitSeen
         /\ wire'.closed = wire.closed /\ \A m : Pending(m)' <=> Pending(m)
BY DEF ProcessInv, ProcessRecords, Pending

LEMMA GuardianReadyKeeps == ProcessInv /\ GuardianReady => ProcessInv'
<1>. SUFFICES ASSUME ProcessInv, GuardianReady PROVE ProcessInv'
  OBVIOUS
<1>1. /\ tree \in TreeRecord /\ tree.super = "starting" /\ SupervisorAlive(tree)
      /\ tree.provider = "none" /\ tree.exit = "none" /\ tree.result = "none" /\ ~ScriptSettled(tree)
  BY TreeTypes DEF ProcessInv, ProcessRecords, TreeFits, GuardianReady, SupervisorAlive, ScriptSettled
<1>2. /\ tree' \in TreeRecord /\ tree'.super \in {"starting", "announced"} /\ tree'.guardian = "ready"
      /\ tree'.provider = tree.provider /\ tree'.result = tree.result /\ tree'.exit = tree.exit
      /\ tree'.termed = tree.termed /\ tree'.survivor = tree.survivor
  BY <1>1 DEF GuardianReady, TreeRecord, SupervisorPlaces
<1>3. "group-ready" \in Messages
  BY DEF Messages
<1>4. /\ wire' \in WireRecord /\ wire'.open = wire.open /\ wire'.exitSeen = wire.exitSeen
      /\ wire'.closed = wire.closed
      /\ \A m : m # "group-ready" => (Pending(m)' <=> Pending(m))
  BY <1>3, WireSends, WireStays DEF GuardianReady
<1>5. TreeFits'
  BY <1>1, <1>2 DEF TreeFits
<1>6. TreeMoves
  BY <1>1, <1>2, WhileAlive DEF TreeMoves, InScope
<1>7. ~Pending("shutdown-unavailable") /\ ~Pending("provider-exited")
  BY <1>1 DEF ProcessInv, WireFits
<1>. QED  BY <1>1, <1>2, <1>4, <1>5, <1>6, <1>7, LiveTreeStep DEF GuardianReady

LEMMA LaunchProviderKeeps == ProcessInv /\ LaunchProvider => ProcessInv'
<1>. SUFFICES ASSUME ProcessInv, LaunchProvider PROVE ProcessInv'
  OBVIOUS
<1>1. /\ tree \in TreeRecord /\ tree.super = "announced" /\ SupervisorAlive(tree)
      /\ tree.provider = "none" /\ tree.exit = "none" /\ tree.result = "none" /\ ~ScriptSettled(tree)
  BY TreeTypes DEF ProcessInv, ProcessRecords, TreeFits, LaunchProvider, SupervisorAlive, ScriptSettled
<1>2. /\ tree' \in TreeRecord
      /\ \/ tree'.super = "suppressed" /\ tree'.provider = "none"
         \/ tree'.super = "running" /\ tree'.provider = "alive"
      /\ tree'.guardian = tree.guardian /\ tree'.result = tree.result /\ tree'.exit = tree.exit
      /\ tree'.termed = tree.termed
  BY <1>1 DEF LaunchProvider, TreeRecord, SupervisorPlaces
<1>3. /\ wire' \in WireRecord /\ wire'.open = wire.open /\ wire'.exitSeen = wire.exitSeen
      /\ wire'.closed = wire.closed /\ \A m : Pending(m)' <=> Pending(m)
  BY WireStays DEF LaunchProvider
<1>4. TreeFits'
  BY <1>1, <1>2 DEF ProcessInv, TreeFits, ScriptSettled, LaunchProvider, SupervisorLeaves
<1>5. TreeMoves
  BY <1>1, <1>2, WhileAlive DEF TreeMoves
<1>6. ~Pending("shutdown-unavailable") /\ ~Pending("provider-exited")
  BY <1>1 DEF ProcessInv, WireFits
<1>. QED  BY <1>1, <1>2, <1>3, <1>4, <1>5, <1>6, LiveTreeStep DEF LaunchProvider

LEMMA HearPrepareKeeps == ProcessInv /\ HearPrepare => ProcessInv'
<1>. SUFFICES ASSUME ProcessInv, HearPrepare PROVE ProcessInv'
  OBVIOUS
<1>1. tree \in TreeRecord /\ SupervisorAlive(tree)
  BY DEF ProcessInv, ProcessRecords, HearPrepare
<1>2. /\ tree' \in TreeRecord /\ tree'.super = tree.super /\ tree'.guardian = tree.guardian
      /\ tree'.provider = tree.provider /\ tree'.result = tree.result /\ tree'.exit = tree.exit
      /\ tree'.termed = tree.termed /\ tree'.survivor = tree.survivor
  BY <1>1 DEF HearPrepare, TreeRecord
<1>. DEFINE message == IF ScriptSettled(tree) THEN "shutdown-unavailable" ELSE "shutdown-ready"
<1>3. message \in Messages /\ message # "provider-exited"
      /\ (message = "shutdown-unavailable" => ScriptSettled(tree))
  BY DEF Messages
<1>4. wire \in WireRecord /\ wire.up \in Seq(Messages) /\ Append(wire.up, message) \in Seq(Messages)
  BY <1>3, Sent DEF ProcessInv, ProcessRecords, WireRecord
<1>5. wire' = [wire EXCEPT !.down = FALSE, !.up = Append(wire.up, message)]
  BY <1>4 DEF HearPrepare, WireRecord
<1>. HIDE DEF message
<1>6. /\ wire' \in WireRecord /\ wire'.open = wire.open /\ wire'.exitSeen = wire.exitSeen
      /\ wire'.closed = wire.closed /\ wire'.up = Append(wire.up, message)
  BY <1>4, <1>5 DEF WireRecord
<1>7. \A m : Pending(m)' <=> Pending(m) \/ m = message
  <2>1. \A m : (\E i \in DOMAIN wire'.up : wire'.up[i] = m)
                 <=> (\E i \in DOMAIN wire.up : wire.up[i] = m) \/ m = message
    BY <1>3, <1>4, <1>6, Sent
  <2>. QED  BY <2>1 DEF Pending
<1>8. TreeFits'
  BY <1>2 DEF ProcessInv, TreeFits, ScriptSettled, HearPrepare, SupervisorLeaves
<1>9. TreeMoves /\ (ScriptSettled(tree') = ScriptSettled(tree))
  BY <1>1, <1>2, WhileAlive DEF TreeMoves, ScriptSettled, InScope
<1>10. /\ Pending("shutdown-unavailable") => ScriptSettled(tree)
       /\ Pending("provider-exited") => tree.provider = "gone"
  BY DEF ProcessInv, WireFits
<1>. QED  BY <1>1, <1>2, <1>3, <1>6, <1>7, <1>8, <1>9, <1>10, WhileAlive, LiveTreeStep
          DEF HearPrepare

LEMMA StopBeforeProviderLaunchKeeps == ProcessInv /\ StopBeforeProviderLaunch => ProcessInv'
<1>. SUFFICES ASSUME ProcessInv, StopBeforeProviderLaunch PROVE ProcessInv'
  OBVIOUS
<1>1. tree \in TreeRecord /\ SupervisorAlive(tree) /\ tree.exit = "none" /\ tree.super # "gone"
  BY WhileAlive DEF ProcessInv, ProcessRecords, StopBeforeProviderLaunch
<1>2. /\ tree' \in TreeRecord
      /\ tree'.provider = tree.provider /\ tree'.result = tree.result /\ tree'.exit = tree.exit
      /\ tree'.termed = tree.termed /\ tree'.survivor = tree.survivor
      /\ \/ tree'.super = tree.super /\ tree'.guardian = tree.guardian
         \/ /\ tree'.super = "closing" /\ tree'.guardian = "gone"
            /\ tree.provider = "none" /\ ~ScriptSettled(tree)
  BY <1>1 DEF StopBeforeProviderLaunch, TreeRecord, SupervisorPlaces
<1>3. /\ wire' \in WireRecord /\ wire'.open = wire.open /\ wire'.exitSeen = wire.exitSeen
      /\ wire'.closed = wire.closed /\ \A m : Pending(m)' <=> Pending(m)
  BY WireStays DEF StopBeforeProviderLaunch
<1>4. TreeFits' /\ (ScriptSettled(tree) => ScriptSettled(tree'))
  BY <1>1, <1>2 DEF ProcessInv, TreeFits, ScriptSettled, StopBeforeProviderLaunch, SupervisorLeaves
<1>5. TreeMoves
  BY <1>1, <1>2, <1>4, WhileAlive DEF TreeMoves, InScope
<1>6. /\ Pending("shutdown-unavailable") => ScriptSettled(tree)
      /\ Pending("provider-exited") => tree.provider = "gone"
  BY DEF ProcessInv, WireFits
<1>. QED  BY <1>1, <1>2, <1>3, <1>4, <1>5, <1>6, LiveTreeStep DEF StopBeforeProviderLaunch

LEMMA FinishKeeps == ProcessInv /\ Finish => ProcessInv'
<1>. SUFFICES ASSUME ProcessInv, Finish PROVE ProcessInv'
  OBVIOUS
<1>1. /\ tree \in TreeRecord /\ SupervisorAlive(tree) /\ tree.super = "running"
      /\ tree.provider = "gone" /\ ~ScriptSettled(tree) /\ tree.exit = "none"
  BY WhileAlive DEF ProcessInv, ProcessRecords, Finish, SupervisorAlive, ScriptSettled
<1>2. /\ tree' \in TreeRecord /\ tree'.super = "delaying" /\ tree'.guardian = tree.guardian
      /\ tree'.provider = tree.provider /\ tree'.result = tree.result /\ tree'.exit = tree.exit
      /\ tree'.termed = tree.termed /\ tree'.survivor = tree.survivor
  BY <1>1 DEF Finish, TreeRecord, SupervisorPlaces
<1>3. "provider-exited" \in Messages
  BY DEF Messages
<1>4. /\ wire' \in WireRecord /\ wire'.open = wire.open /\ wire'.exitSeen = wire.exitSeen
      /\ wire'.closed = wire.closed
      /\ \A m : Pending(m)' <=> Pending(m) \/ m = "provider-exited"
  BY <1>3, WireSends DEF Finish
<1>5. TreeFits' /\ ScriptSettled(tree')
  BY <1>1, <1>2 DEF ProcessInv, TreeFits, ScriptSettled, Finish, SupervisorLeaves
<1>6. TreeMoves
  BY <1>1, <1>2, <1>5, WhileAlive DEF TreeMoves, InScope
<1>. QED  BY <1>1, <1>2, <1>4, <1>5, <1>6, LiveTreeStep DEF Finish

LEMMA FinishDelayOverKeeps == ProcessInv /\ FinishDelayOver => ProcessInv'
<1>. SUFFICES ASSUME ProcessInv, FinishDelayOver PROVE ProcessInv'
  OBVIOUS
<1>1. /\ tree \in TreeRecord /\ SupervisorAlive(tree) /\ tree.super = "delaying"
      /\ tree.provider = "gone" /\ ScriptSettled(tree) /\ tree.exit = "none"
      /\ tree.result # "none" /\ tree.result \in Results /\ tree.result # "unlaunched"
      /\ tree.termed \in BOOLEAN /\ tree.asked \in BOOLEAN
  BY WhileAlive, TreeTypes
  DEF ProcessInv, ProcessRecords, TreeFits, FinishDelayOver, SupervisorAlive, ScriptSettled
<1>2. /\ tree' \in TreeRecord /\ tree'.guardian = tree.guardian
      /\ tree'.provider = tree.provider /\ tree'.result = tree.result
      /\ tree'.termed = tree.termed /\ tree'.survivor = tree.survivor
      /\ \/ tree'.super = "gone" /\ tree'.exit = "killed" /\ tree.termed
         \/ tree'.super = "gone" /\ tree'.exit = tree.result
         \/ tree'.super = "released" /\ tree'.exit = "none"
  <2>1. "killed" \in Results /\ "gone" \in SupervisorPlaces /\ "released" \in SupervisorPlaces
    BY DEF Results, SupervisorPlaces
  <2>2. CASE tree.termed
    BY <1>1, <2>1, <2>2 DEF FinishDelayOver, TreeRecord
  <2>3. CASE ~tree.termed /\ tree.asked
    BY <1>1, <2>1, <2>3 DEF FinishDelayOver, TreeRecord
  <2>4. CASE ~tree.termed /\ ~tree.asked
    BY <1>1, <2>1, <2>4 DEF FinishDelayOver, TreeRecord
  <2>. QED  BY <1>1, <2>2, <2>3, <2>4
<1>3. "group-released" \in Messages
  BY DEF Messages
<1>4. /\ wire' \in WireRecord /\ wire'.open = wire.open /\ wire'.exitSeen = wire.exitSeen
      /\ wire'.closed = wire.closed
      /\ \A m : m # "group-released" => (Pending(m)' <=> Pending(m))
  BY <1>3, WireSends, WireStays DEF FinishDelayOver
<1>5. TreeFits' /\ ScriptSettled(tree')
  BY <1>1, <1>2 DEF ProcessInv, TreeFits, ScriptSettled, FinishDelayOver, SupervisorLeaves
<1>6. TreeMoves
  BY <1>1, <1>2, <1>5, WhileAlive DEF TreeMoves, InScope
<1>. QED  BY <1>1, <1>2, <1>4, <1>5, <1>6, LiveTreeStep DEF FinishDelayOver

LEMMA ReleaseGuardianKeeps == ProcessInv /\ ReleaseGuardian => ProcessInv'
<1>. SUFFICES ASSUME ProcessInv, ReleaseGuardian PROVE ProcessInv'
  OBVIOUS
<1>1. /\ tree \in TreeRecord /\ SupervisorAlive(tree) /\ tree.super = "released"
      /\ tree.provider = "gone" /\ ScriptSettled(tree) /\ tree.exit = "none"
  BY WhileAlive
  DEF ProcessInv, ProcessRecords, TreeFits, ReleaseGuardian, SupervisorAlive, ScriptSettled
<1>2. /\ tree' \in TreeRecord /\ tree'.super = "closing" /\ tree'.guardian = "gone"
      /\ tree'.provider = tree.provider /\ tree'.result = tree.result /\ tree'.exit = tree.exit
      /\ tree'.termed = tree.termed /\ tree'.survivor = tree.survivor
  BY <1>1 DEF ReleaseGuardian, TreeRecord, SupervisorPlaces
<1>3. /\ wire' \in WireRecord /\ wire'.open = wire.open /\ wire'.exitSeen = wire.exitSeen
      /\ wire'.closed = wire.closed /\ \A m : Pending(m)' <=> Pending(m)
  BY WireStays DEF ReleaseGuardian
<1>4. TreeFits' /\ ScriptSettled(tree')
  BY <1>1, <1>2 DEF ProcessInv, TreeFits, ScriptSettled
<1>5. TreeMoves
  BY <1>1, <1>2, <1>4, WhileAlive DEF TreeMoves, InScope
<1>. QED  BY <1>1, <1>2, <1>3, <1>4, <1>5, LiveTreeStep DEF ReleaseGuardian

LEMMA SupervisorExitsKeeps == ProcessInv /\ SupervisorExits => ProcessInv'
<1>. SUFFICES ASSUME ProcessInv, SupervisorExits PROVE ProcessInv'
  OBVIOUS
<1>1. /\ tree \in TreeRecord /\ SupervisorAlive(tree) /\ tree.super = "closing"
      /\ tree.provider # "alive" /\ ScriptSettled(tree) /\ tree.exit = "none"
      /\ tree.result # "unlaunched" /\ tree.result \in Results
      /\ tree.provider \in {"none", "alive", "gone"}
  BY WhileAlive, TreeTypes
  DEF ProcessInv, ProcessRecords, TreeFits, SupervisorExits, SupervisorAlive, ScriptSettled
<1>2. /\ tree' \in TreeRecord /\ tree'.super = "gone" /\ tree'.guardian = tree.guardian
      /\ tree'.provider = tree.provider /\ tree'.result = tree.result
      /\ tree'.termed = tree.termed /\ tree'.survivor = tree.survivor
      /\ tree'.exit = IF tree.provider = "none" THEN "unlaunched" ELSE tree.result
  BY <1>1 DEF SupervisorExits, TreeRecord, SupervisorPlaces, Results
<1>3. /\ wire' \in WireRecord /\ wire'.open = wire.open /\ wire'.exitSeen = wire.exitSeen
      /\ wire'.closed = wire.closed /\ \A m : Pending(m)' <=> Pending(m)
  BY WireStays DEF SupervisorExits
<1>4. TreeFits' /\ ScriptSettled(tree')
  BY <1>1, <1>2 DEF ProcessInv, TreeFits, ScriptSettled
<1>5. TreeMoves
  BY <1>1, <1>2, <1>4, WhileAlive DEF TreeMoves, InScope
<1>. QED  BY <1>1, <1>2, <1>3, <1>4, <1>5, LiveTreeStep DEF SupervisorExits, ProcessInv, WireFits

LEMMA FailClosedKeeps == ProcessInv /\ FailClosed => ProcessInv'
<1>. SUFFICES ASSUME ProcessInv, FailClosed PROVE ProcessInv'
  OBVIOUS
<1>1. /\ tree \in TreeRecord /\ SupervisorAlive(tree) /\ ~ScriptSettled(tree) /\ tree.guardian = "gone"
      /\ tree.provider \in {"none", "alive", "gone"} /\ tree.super # "none" /\ tree.super # "gone"
      /\ tree.survivor \in {"none", "group", "detached"} /\ tree.exit = "none"
  BY WhileAlive, TreeTypes DEF ProcessInv, ProcessRecords, FailClosed
<1>2. faults # 0
  BY <1>1 DEF ProcessInv, TreeFits
<1>3. tree' = GroupKilled(tree)
  BY DEF FailClosed
<1>4. /\ tree' \in TreeRecord /\ tree'.super = "gone" /\ tree'.exit = "killed"
      /\ tree'.termed = tree.termed
      /\ tree'.provider = IF tree.provider = "alive" THEN "gone" ELSE tree.provider
      /\ tree'.result = IF tree.provider = "alive" THEN "killed" ELSE tree.result
      /\ tree'.survivor \in {tree.survivor, "none"} /\ tree'.survivor # "group"
  BY <1>1, <1>3, GroupStops
<1>5. /\ wire' \in WireRecord /\ wire'.open = wire.open /\ wire'.exitSeen = wire.exitSeen
      /\ wire'.closed = wire.closed /\ \A m : Pending(m)' <=> Pending(m)
  BY WireStays DEF FailClosed
<1>6. TreeFits' /\ ScriptSettled(tree')
  BY <1>1, <1>2, <1>4 DEF ProcessInv, TreeFits, ScriptSettled
<1>7. TreeMoves
  BY <1>1, <1>4, <1>6, WhileAlive DEF TreeMoves, InScope
<1>8. group.exit # "none" => tree.provider = "gone"
  BY DEF ProcessInv, WireFits, TreeFits
<1>9. Pending("provider-exited") => tree.provider = "gone"
  BY DEF ProcessInv, WireFits
<1>. QED  BY <1>1, <1>2, <1>4, <1>5, <1>6, <1>7, <1>8, <1>9, LiveTreeStep DEF FailClosed

(* The world. *)

LEMMA ProviderExitsKeeps == ProcessInv /\ ProviderExits => ProcessInv'
<1>. SUFFICES ASSUME ProcessInv, ProviderExits PROVE ProcessInv'
  OBVIOUS
<1>1. /\ tree \in TreeRecord /\ tree.provider = "alive" /\ tree.super = "running"
      /\ SupervisorAlive(tree) /\ ~ScriptSettled(tree) /\ tree.exit = "none" /\ tree.result = "none"
  BY TreeTypes
  DEF ProcessInv, ProcessRecords, ProviderExits, TreeFits, SupervisorAlive, ScriptSettled
<1>2. PICK result \in {"own", "killed"} :
        tree' = [tree EXCEPT !.provider = "gone", !.result = result]
  BY DEF ProviderExits
<1>3. /\ tree' \in TreeRecord /\ tree'.super = tree.super /\ tree'.guardian = tree.guardian
      /\ tree'.provider = "gone" /\ tree'.result = result /\ tree'.exit = tree.exit
      /\ tree'.termed = tree.termed /\ tree'.survivor = tree.survivor
  BY <1>1, <1>2 DEF TreeRecord, Results
<1>4. /\ wire' \in WireRecord /\ wire'.open = wire.open /\ wire'.exitSeen = wire.exitSeen
      /\ wire'.closed = wire.closed /\ \A m : Pending(m)' <=> Pending(m)
  BY WireStays DEF ProviderExits, WorldLeaves
<1>5. TreeFits'
  BY <1>1, <1>3 DEF ProcessInv, TreeFits, ScriptSettled, ProviderExits
<1>6. TreeMoves
  BY <1>1, <1>3, WhileAlive DEF TreeMoves, InScope
<1>7. group.exit = "none" /\ ~Pending("shutdown-unavailable") /\ ~Pending("provider-exited")
  BY <1>1 DEF ProcessInv, WireFits
<1>8. SupervisorLeaves
  BY DEF ProviderExits, WorldLeaves, SupervisorLeaves
<1>. QED  BY <1>1, <1>3, <1>4, <1>5, <1>6, <1>7, <1>8, LiveTreeStep

LEMMA SurvivorStartsKeeps == ProcessInv /\ SurvivorStarts => ProcessInv'
<1>. SUFFICES ASSUME ProcessInv, SurvivorStarts PROVE ProcessInv'
  OBVIOUS
<1>1. /\ tree \in TreeRecord /\ tree.provider = "alive" /\ tree.super = "running"
      /\ SupervisorAlive(tree) /\ ~ScriptSettled(tree) /\ tree.exit = "none"
  BY TreeTypes
  DEF ProcessInv, ProcessRecords, SurvivorStarts, TreeFits, SupervisorAlive, ScriptSettled
<1>2. /\ tree' \in TreeRecord /\ tree'.super = tree.super /\ tree'.guardian = tree.guardian
      /\ tree'.provider = tree.provider /\ tree'.result = tree.result /\ tree'.exit = tree.exit
      /\ tree'.termed = tree.termed
  BY <1>1 DEF SurvivorStarts, TreeRecord
<1>3. /\ wire' \in WireRecord /\ wire'.open = wire.open /\ wire'.exitSeen = wire.exitSeen
      /\ wire'.closed = wire.closed /\ \A m : Pending(m)' <=> Pending(m)
  BY WireStays DEF SurvivorStarts, WorldLeaves
<1>4. TreeFits'
  BY <1>1, <1>2 DEF ProcessInv, TreeFits, ScriptSettled, SurvivorStarts
<1>5. TreeMoves
  BY <1>1, <1>2, WhileAlive DEF TreeMoves, InScope
<1>6. ~Pending("shutdown-unavailable") /\ ~Pending("provider-exited")
  BY <1>1 DEF ProcessInv, WireFits
<1>7. SupervisorLeaves
  BY DEF SurvivorStarts, WorldLeaves, SupervisorLeaves
<1>. QED  BY <1>1, <1>2, <1>3, <1>4, <1>5, <1>6, <1>7, LiveTreeStep

LEMMA ProviderWritesKeeps == ProcessInv /\ ProviderWrites => ProcessInv'
<1>. SUFFICES ASSUME ProcessInv, ProviderWrites PROVE ProcessInv'
  OBVIOUS
<1>. USE DEF ProcessInv
<1>1. tree.super = "running" /\ UNCHANGED <<tree, faults>> /\ WorldLeaves
  BY DEF ProviderWrites, TreeFits
<1>2. PICK item \in Items \ {"exit"} : queue' = Append(queue, item)
  BY DEF ProviderWrites, Items
<1>3. /\ queue \in Seq(Items) /\ queue' \in Seq(Items) /\ queue' # <<>>
      /\ \A m : (\E i \in DOMAIN queue' : queue'[i] = m)
                  <=> (\E i \in DOMAIN queue : queue[i] = m) \/ item = m
  BY <1>2, Sent DEF ProcessRecords
<1>4. outputs' \in 0 .. MaxOutputs
  BY ProcessBounds DEF ProviderWrites, ProcessRecords
<1>5. \A i \in DOMAIN queue' : queue'[i] = "exit" => wire.closed
  BY <1>2, <1>3 DEF WireFits
<1>6. WireFits'
  BY <1>1, <1>5 DEF WorldLeaves, WireFits, Pending
<1>. QED  BY <1>1, <1>3, <1>4, <1>6
          DEF WorldLeaves, ProcessRecords, TreeFits, SessionFits, ShutdownFits, ExitsAreTold,
              ScopesFit, Pending, LiveScopes

LEMMA SurvivorEndsKeeps == ProcessInv /\ SurvivorEnds => ProcessInv'
<1>. SUFFICES ASSUME ProcessInv, SurvivorEnds PROVE ProcessInv'
  OBVIOUS
<1>1. /\ tree \in TreeRecord /\ tree.super # "none"
      /\ UNCHANGED <<attempt, session, scopes, group, shutdown, wire, queue, outputs, report,
                     stalled, faults>>
  BY DEF ProcessInv, ProcessRecords, SessionFits, NoTree, SurvivorEnds, WorldLeaves
<1>2. /\ tree' \in TreeRecord /\ tree'.super = tree.super /\ tree'.guardian = tree.guardian
      /\ tree'.provider = tree.provider /\ tree'.result = tree.result /\ tree'.exit = tree.exit
      /\ tree'.termed = tree.termed /\ tree'.survivor = "none"
  BY <1>1 DEF SurvivorEnds, TreeRecord
<1>3. TreeMoves /\ (GroupEmpty(tree) => GroupEmpty(tree')) /\ (ScriptSettled(tree') = ScriptSettled(tree))
  BY <1>1, <1>2 DEF TreeMoves, InScope, GroupEmpty, ScriptSettled, SupervisorAlive
<1>4. SessionFits' /\ ScopesFit'
  BY <1>1, <1>3, TreeMovesFit
<1>5. TreeFits' /\ WireFits' /\ ShutdownFits' /\ ExitsAreTold'
  BY <1>1, <1>2, <1>3
  DEF ProcessInv, TreeFits, WireFits, ShutdownFits, ExitsAreTold, Pending
<1>. QED  BY <1>1, <1>2, <1>4, <1>5 DEF ProcessInv, ProcessRecords

LEMMA GuardianLostKeeps == ProcessInv /\ GuardianLost => ProcessInv'
<1>. SUFFICES ASSUME ProcessInv, GuardianLost PROVE ProcessInv'
  OBVIOUS
<1>1. /\ tree \in TreeRecord /\ tree.super # "none"
      /\ UNCHANGED <<attempt, session, scopes, group, shutdown, wire, queue, outputs, report, stalled>>
  BY DEF ProcessInv, ProcessRecords, SessionFits, NoTree, GuardianLost, WorldLeaves
<1>2. faults' \in 0 .. MaxFaults /\ faults' > 0 /\ faults' # 0
  BY ProcessBounds DEF ProcessInv, ProcessRecords, GuardianLost
<1>3. /\ tree' \in TreeRecord /\ tree'.super = tree.super
      /\ tree'.provider = tree.provider /\ tree'.result = tree.result /\ tree'.exit = tree.exit
      /\ tree'.termed = tree.termed /\ tree'.survivor = tree.survivor /\ tree'.guardian = "gone"
  BY <1>1 DEF GuardianLost, TreeRecord
<1>4. TreeMoves /\ (GroupEmpty(tree) => GroupEmpty(tree')) /\ (ScriptSettled(tree') = ScriptSettled(tree))
  BY <1>1, <1>3 DEF TreeMoves, InScope, GroupEmpty, ScriptSettled, SupervisorAlive
<1>5. SessionFits' /\ ScopesFit'
  BY <1>1, <1>4, TreeMovesFit
<1>6. TreeFits' /\ WireFits' /\ ExitsAreTold'
  BY <1>1, <1>2, <1>3, <1>4
  DEF ProcessInv, TreeFits, WireFits, ExitsAreTold, Pending
<1>7. ShutdownFits'
  BY <1>1, <1>2, <1>3, <1>4 DEF ProcessInv, ShutdownFits
<1>. QED  BY <1>1, <1>2, <1>3, <1>5, <1>6, <1>7 DEF ProcessInv, ProcessRecords

LEMMA LeakedScopeEndsKeeps == ProcessInv /\ LeakedScopeEnds => ProcessInv'
<1>. SUFFICES ASSUME ProcessInv, LeakedScopeEnds PROVE ProcessInv'
  OBVIOUS
<1>1. PICK a \in scopes.live : scopes' = [scopes EXCEPT !.live = scopes.live \ {a}]
  BY DEF LeakedScopeEnds, ProcessInv, ProcessRecords, ScopesRecord
<1>2. /\ scopes' \in ScopesRecord /\ scopes'.live = scopes.live \ {a} /\ scopes'.owed = scopes.owed
      /\ scopes'.runOwes = scopes.runOwes
  BY <1>1 DEF ProcessInv, ProcessRecords, ScopesRecord
<1>3. UNCHANGED <<attempt, session, group, shutdown, wire, tree, queue, outputs, report, stalled, faults>>
  BY DEF LeakedScopeEnds
<1>4. ScopesFit'
  BY <1>2, <1>3 DEF ProcessInv, ScopesFit
<1>. QED  BY <1>2, <1>3, <1>4
          DEF ProcessInv, ProcessRecords, TreeFits, SessionFits, WireFits, ShutdownFits,
              ExitsAreTold, Pending

(* The shutdown of the group. *)

FaultsFit ==
    /\ stalled' \in BOOLEAN /\ faults' \in 0 .. MaxFaults
    /\ stalled' => faults' > 0
    /\ faults' = 0 => faults = 0

LEMMA OvertakesFits ==
  ASSUME ProcessInv, NEW late \in BOOLEAN, Overtakes(late)
  PROVE  FaultsFit /\ (faults' = 0 => ~late)
<1>1. stalled \in BOOLEAN /\ faults \in 0 .. MaxFaults /\ faults \in Nat /\ MaxFaults \in Nat
  BY ProcessBounds DEF ProcessInv, ProcessRecords
<1>2. stalled => faults > 0
  BY DEF ProcessInv, ShutdownFits
<1>3. CASE late /\ ~stalled
  <2>1. faults' = faults + 1 /\ stalled' = TRUE /\ faults < MaxFaults
    BY <1>3 DEF Overtakes
  <2>. QED  BY <1>1, <2>1 DEF FaultsFit
<1>4. CASE ~(late /\ ~stalled)
  <2>1. faults' = faults /\ stalled' = stalled /\ (late => stalled)
    BY <1>1, <1>4 DEF Overtakes
  <2>2. faults = 0 => ~late
    BY <1>1, <1>2, <2>1
  <2>. QED  BY <1>1, <1>2, <2>1, <2>2 DEF FaultsFit
<1>. QED  BY <1>3, <1>4

LEMMA NothingOvertaken == ProcessInv /\ UNCHANGED <<stalled, faults>> => FaultsFit
BY DEF ProcessInv, ProcessRecords, ShutdownFits, FaultsFit

(* What reading an event of the supervisor does to the pipe. *)
WireReads ==
    /\ wire' \in WireRecord /\ wire'.up = wire.up /\ wire'.open = wire.open
    /\ wire'.closed = wire.closed
    /\ wire.exitSeen => wire'.exitSeen
    /\ wire'.exitSeen => wire.exitSeen \/ tree.super = "gone"

LEMMA WireReadsFit ==
  ASSUME ProcessInv, WireReads
  PROVE  /\ ~wire'.open \/ wire'.exitSeen => tree.super = "gone"
         /\ wire'.closed => wire'.exitSeen
         /\ \A m : Pending(m)' <=> Pending(m)
BY DEF ProcessInv, WireFits, WireReads, Pending

LEMMA KillKeeps ==
  ASSUME ProcessInv, ShutdownLeaves, FaultsFit, WireReads, tree.super # "none",
         NEW preserve \in BOOLEAN, ForceKill(preserve),
         faults' = 0 /\ ~session.cancelled /\ tree.result = "own" => preserve /\ group.exit # "none"
  PROVE  ProcessInv'
<1>. USE DEF ProcessInv
<1>1. PICK t \in TreeRecord : t = GroupKilled(tree)
  BY GroupStops DEF ProcessRecords
<1>2. tree \in TreeRecord /\ t.super = "gone" /\ t.guardian \in {"none", "gone"}
      /\ t.exit = (IF SupervisorAlive(tree) THEN "killed" ELSE tree.exit)
      /\ t.termed = tree.termed
      /\ t.provider = (IF tree.provider = "alive" THEN "gone" ELSE tree.provider)
      /\ t.result = (IF tree.provider = "alive" THEN "killed" ELSE tree.result)
      /\ t.survivor \in {tree.survivor, "none"} /\ t.survivor # "group"
  BY <1>1, GroupStops DEF ProcessRecords
<1>3. /\ tree' \in TreeRecord /\ tree'.super = t.super /\ tree'.guardian = t.guardian
      /\ tree'.exit = t.exit /\ tree'.termed = t.termed /\ tree'.provider = t.provider
      /\ tree'.result = t.result /\ tree'.survivor = t.survivor
  BY <1>1 DEF ForceKill, TreeRecord
<1>4. /\ group' \in GroupRecord /\ group'.exit = group.exit
      /\ group'.preserve = (preserve /\ group.exit # "none")
  BY DEF ForceKill, ProcessRecords, GroupRecord
<1>5. /\ shutdown' \in ShutdownRecord /\ shutdown'.at = "over" /\ shutdown'.cancel = shutdown.cancel
  BY DEF ForceKill, ProcessRecords, ShutdownRecord, ShutdownPlaces
<1>6. UNCHANGED <<attempt, session, scopes, queue, outputs, report>>
  BY DEF ShutdownLeaves
<1>7. /\ tree.super \in SupervisorPlaces /\ tree.provider \in {"none", "alive", "gone"}
      /\ tree.survivor \in {"none", "group", "detached"} /\ tree.exit \in Results
  BY <1>2, TreeTypes
<1>8. /\ GroupEmpty(tree') /\ ScriptSettled(tree') /\ tree'.exit # "none"
      /\ (tree'.exit = "unlaunched" => tree.super = "gone" /\ tree.exit = "unlaunched")
      /\ (tree.super = "gone" => tree'.exit = tree.exit)
  BY <1>2, <1>3, <1>7 DEF GroupEmpty, ScriptSettled, SupervisorAlive, TreeFits
<1>9. TreeFits'
  BY <1>2, <1>3, <1>7, <1>8 DEF TreeFits
<1>10. TreeMoves
  BY <1>2, <1>3, <1>7, <1>8 DEF TreeMoves, InScope
<1>11. SessionFits' /\ ScopesFit'
  BY <1>5, <1>6, <1>10, TreeMovesFit
<1>12. group.exit # "none" => tree.provider = "gone"
  BY DEF WireFits, TreeFits
<1>13. WireFits'
  BY <1>2, <1>3, <1>4, <1>6, <1>8, <1>12, WireReadsFit DEF WireFits, WireReads
<1>14. ShutdownFits'
  BY <1>4, <1>5, <1>8 DEF ShutdownFits, FaultsFit
<1>15. ExitsAreTold'
  <2>1. SUFFICES ASSUME faults' = 0 PROVE ExitsAreTold'
    BY DEF ExitsAreTold
  <2>2. faults = 0
    BY <2>1 DEF FaultsFit
  <2>3. tree'.result = "own" => tree.result = "own"
    BY <1>2, <1>3
  <2>4. tree'.provider # "alive"
    BY <1>2, <1>3
  <2>5. ~session.cancelled /\ tree'.result = "own" => group'.preserve
    BY <1>4, <2>1, <2>3
  <2>. QED  BY <1>5, <1>6, <2>2, <2>3, <2>4, <2>5 DEF ExitsAreTold
<1>. QED  BY <1>3, <1>4, <1>5, <1>6, <1>9, <1>11, <1>13, <1>14, <1>15
          DEF ProcessRecords, FaultsFit, WireReads

LEMMA TermKeeps ==
  ASSUME ProcessInv, ShutdownLeaves, FaultsFit, WireReads, UNCHANGED group, SignalTerm,
         shutdown.at \in {"eof", "eofRest"}
  PROVE  ProcessInv'
<1>. USE DEF ProcessInv
<1>1. tree \in TreeRecord /\ tree.super # "none"
  BY DEF ProcessRecords, SessionFits, NoShutdown
<1>2. /\ tree' \in TreeRecord /\ tree'.super = tree.super /\ tree'.guardian = tree.guardian
      /\ tree'.provider = tree.provider /\ tree'.result = tree.result /\ tree'.exit = tree.exit
      /\ tree'.survivor = tree.survivor
  BY <1>1 DEF SignalTerm, GroupTermed, TreeRecord
<1>3. /\ shutdown' \in ShutdownRecord /\ shutdown'.cancel = shutdown.cancel
      /\ shutdown'.at = IF GroupEmpty(tree) THEN "over"
                        ELSE IF shutdown.cancel THEN "termRest" ELSE "term"
  BY DEF SignalTerm, ProcessRecords, ShutdownRecord, ShutdownPlaces
<1>4. UNCHANGED <<attempt, session, scopes, queue, outputs, report>>
  BY DEF ShutdownLeaves
<1>5. /\ (GroupEmpty(tree') = GroupEmpty(tree)) /\ (ScriptSettled(tree') = ScriptSettled(tree))
      /\ (InScope(tree') = InScope(tree))
  BY <1>2 DEF GroupEmpty, ScriptSettled, SupervisorAlive, InScope
<1>6. TreeMoves
  BY <1>1, <1>2, <1>5 DEF TreeMoves
<1>7. SessionFits' /\ ScopesFit'
  BY <1>1, <1>3, <1>4, <1>6, TreeMovesFit
<1>8. WireFits'
  BY <1>2, <1>4, <1>5, WireReadsFit DEF WireFits, WireReads
<1>9. ShutdownFits'
  BY <1>2, <1>3, <1>5 DEF ShutdownFits, FaultsFit
<1>10. TreeFits'
  BY <1>2, <1>5 DEF TreeFits, FaultsFit
<1>11. ExitsAreTold'
  BY <1>2, <1>3, <1>4, WireReadsFit DEF ExitsAreTold, FaultsFit, WireReads
<1>. QED  BY <1>2, <1>3, <1>4, <1>7, <1>8, <1>9, <1>10, <1>11
          DEF ProcessRecords, FaultsFit, WireReads

LEMMA PlaceKeeps ==
  ASSUME ProcessInv, ShutdownLeaves, FaultsFit, WireReads, UNCHANGED <<tree, group>>,
         tree.super # "none",
         shutdown' \in ShutdownRecord, shutdown'.cancel = shutdown.cancel,
         (shutdown'.at = "over") = (shutdown.at = "over"),
         shutdown'.at = "refused" => ScriptSettled(tree),
         shutdown'.at \in {"eofRest", "termRest"} => shutdown.cancel,
         tree.termed => shutdown'.at \in {"term", "termRest", "over"},
         shutdown.at = "term"
           => (shutdown'.at = "term" /\ wire'.exitSeen = wire.exitSeen) \/ shutdown.cancel
  PROVE  ProcessInv'
<1>. USE DEF ProcessInv
<1>1. UNCHANGED <<attempt, session, scopes, queue, outputs, report>>
  BY DEF ShutdownLeaves
<1>2. SessionFits' /\ ScopesFit' /\ TreeFits'
  BY <1>1 DEF SessionFits, ScopesFit, TreeFits, FaultsFit
<1>3. WireFits'
  BY <1>1, WireReadsFit DEF WireFits, WireReads
<1>4. ShutdownFits'
  BY DEF ShutdownFits, FaultsFit
<1>5. ExitsAreTold'
  BY <1>1, WireReadsFit DEF ExitsAreTold, FaultsFit, WireReads, SessionFits
<1>. QED  BY <1>1, <1>2, <1>3, <1>4, <1>5 DEF ProcessRecords, FaultsFit, WireReads

(* A provider that stopped by itself is not overlooked by what reads all the *)
(* messages that were due.                                                 *)
LEMMA NothingOverlooked ==
  ASSUME ProcessInv, faults = 0, shutdown.at # "over", group.exit = "none",
         ~Pending("provider-exited"),
         ~(tree.super = "running" /\ tree.provider = "gone")
  PROVE  tree.result # "own"
BY DEF ProcessInv, TreeFits, ExitsAreTold

LEMMA WaitEndedKeeps ==
  ASSUME ProcessInv, ShutdownLeaves, FaultsFit, WireReads, shutdown.at \in {"eof", "term"},
         NEW exited \in BOOLEAN, exited => group.exit # "none",
         ~exited /\ faults' = 0 => tree.result # "own",
         WaitEnded(exited)
  PROVE  ProcessInv'
<1>1. tree.super # "none"
  BY DEF ProcessInv, SessionFits, NoShutdown
<1>2. CASE exited /\ ForceKill(TRUE)
  BY <1>1, <1>2, KillKeeps
<1>3. CASE ~exited /\ ForceKill(FALSE)
  BY <1>1, <1>3, KillKeeps
<1>4. CASE shutdown.at = "eof" /\ SignalTerm /\ UNCHANGED group
  BY <1>4, TermKeeps
<1>5. CASE /\ shutdown.cancel /\ UNCHANGED <<tree, group>>
           /\ shutdown' = [shutdown EXCEPT !.at = IF @ = "eof" THEN "eofRest" ELSE "termRest"]
  <2>1. /\ shutdown' \in ShutdownRecord /\ shutdown'.cancel = shutdown.cancel
        /\ shutdown'.at = IF shutdown.at = "eof" THEN "eofRest" ELSE "termRest"
    BY <1>5 DEF ProcessInv, ProcessRecords, ShutdownRecord, ShutdownPlaces
  <2>2. tree.termed => shutdown.at # "eof"
    BY DEF ProcessInv, ShutdownFits
  <2>. QED  BY <1>1, <1>5, <2>1, <2>2, PlaceKeeps
<1>. QED  BY <1>2, <1>3, <1>4, <1>5 DEF WaitEnded

LEMMA WireUnread == ProcessInv /\ UNCHANGED wire => WireReads
BY DEF ProcessInv, ProcessRecords, WireReads

LEMMA ExitIsKnownKeeps == ProcessInv /\ ExitIsKnown => ProcessInv'
<1>. SUFFICES ASSUME ProcessInv, ExitIsKnown PROVE ProcessInv'
  OBVIOUS
<1>1. FaultsFit /\ WireReads
  BY NothingOvertaken, WireUnread DEF ExitIsKnown
<1>2. /\ shutdown.at \in {"eof", "term"} /\ group.exit # "none" /\ WaitEnded(TRUE) /\ ShutdownLeaves
  BY DEF ExitIsKnown
<1>3. TRUE => group.exit # "none"
  BY <1>2
<1>4. ~TRUE /\ faults' = 0 => tree.result # "own"
  OBVIOUS
<1>. QED  BY <1>1, <1>2, <1>3, <1>4, WaitEndedKeeps

(* reserveProviderProcessGroup settles without a further event of the pipe. *)
LEMMA ReservationKeeps ==
  ASSUME ProcessInv, ShutdownLeaves, FaultsFit, WireReads, UNCHANGED <<tree, group>>,
         shutdown.at = "reserving", NEW reserved \in BOOLEAN, ReservationSettles(reserved),
         ~reserved => ScriptSettled(tree)
  PROVE  ProcessInv'
<1>1. tree.super # "none" /\ ~tree.termed
  BY TreeTypes DEF ProcessInv, ProcessRecords, SessionFits, NoShutdown, ShutdownFits
<1>2. /\ shutdown' \in ShutdownRecord /\ shutdown'.cancel = shutdown.cancel
      /\ shutdown'.at = IF reserved THEN "eof" ELSE "refused"
  BY DEF ProcessInv, ProcessRecords, ReservationSettles, ShutdownRecord, ShutdownPlaces
<1>. QED  BY <1>1, <1>2, PlaceKeeps

LEMMA ExitEventKeeps == ProcessInv /\ ExitEvent => ProcessInv'
<1>. SUFFICES ASSUME ProcessInv, ExitEvent PROVE ProcessInv'
  OBVIOUS
<1>. DEFINE late == "provider-exited" \in {wire.up[i] : i \in DOMAIN wire.up}
<1>1. FaultsFit /\ (faults' = 0 => ~late)
  <2>1. late \in BOOLEAN /\ Overtakes(late)
    BY DEF ExitEvent
  <2>. HIDE DEF late
  <2>. QED  BY <2>1, OvertakesFits
<1>2. tree.super = "gone" /\ ShutdownLeaves /\ ScriptSettled(tree)
  BY DEF ExitEvent, ScriptSettled
<1>3. WireReads /\ wire'.exitSeen = TRUE
  BY <1>2 DEF ExitEvent, ProcessInv, ProcessRecords, WireRecord, WireReads
<1>4. group.reserved \in BOOLEAN /\ shutdown \in ShutdownRecord
  BY DEF ProcessInv, ProcessRecords, GroupRecord
<1>5. CASE shutdown.at = "reserving"
  <2>1. ReservationSettles(group.reserved) /\ UNCHANGED <<tree, group>>
    BY <1>5 DEF ExitEvent
  <2>. QED  BY <1>1, <1>2, <1>3, <1>4, <1>5, <2>1, ReservationKeeps
<1>6. CASE shutdown.at \in {"eof", "term"}
  <2>1. PICK exited \in BOOLEAN : exited = (group.exit # "none")
    OBVIOUS
  <2>2. WaitEnded(exited)
    BY <1>6, <2>1 DEF ExitEvent
  <2>3. ~exited /\ faults' = 0 => tree.result # "own"
    <3>1. ~late => ~Pending("provider-exited")
      BY DEF Pending
    <3>. QED  BY <1>1, <1>2, <1>6, <2>1, <3>1, NothingOverlooked DEF FaultsFit
  <2>. QED  BY <1>1, <1>2, <1>3, <1>6, <2>1, <2>2, <2>3, WaitEndedKeeps
<1>7. CASE shutdown.at \notin {"reserving", "eof", "term"}
  <2>1. UNCHANGED <<tree, group, shutdown>>
    BY <1>7 DEF ExitEvent
  <2>. QED  BY <1>1, <1>2, <1>3, <1>4, <1>7, <2>1, PlaceKeeps DEF ProcessInv, ShutdownFits
<1>. QED  BY <1>5, <1>6, <1>7

LEMMA PreparationTimerKeeps == ProcessInv /\ PreparationTimer => ProcessInv'
<1>. SUFFICES ASSUME ProcessInv, PreparationTimer PROVE ProcessInv'
  OBVIOUS
<1>1. FaultsFit
  BY OvertakesFits DEF PreparationTimer, TimerFires
<1>2. WireReads /\ ShutdownLeaves /\ UNCHANGED <<tree, group>>
  BY WireUnread DEF PreparationTimer, ShutdownLeaves
<1>3. shutdown.at = "reserving" /\ tree.super # "none" /\ ~tree.termed
  BY TreeTypes DEF PreparationTimer, ProcessInv, ProcessRecords, SessionFits, NoShutdown, ShutdownFits
<1>4. /\ shutdown' \in ShutdownRecord /\ shutdown'.cancel = shutdown.cancel
      /\ shutdown'.at \in {"eof", "reserving"}
  BY <1>3 DEF PreparationTimer, ProcessInv, ProcessRecords, ShutdownRecord, ShutdownPlaces
<1>. QED  BY <1>1, <1>2, <1>3, <1>4, PlaceKeeps

LEMMA GraceOverKeeps == ProcessInv /\ GraceOver => ProcessInv'
<1>. SUFFICES ASSUME ProcessInv, GraceOver PROVE ProcessInv'
  OBVIOUS
<1>. DEFINE late == \/ wire.up # <<>>
                    \/ wire.down /\ SupervisorAlive(tree)
                    \/ tree.super \in {"delaying", "released"}
                    \/ tree.super = "running" /\ tree.provider = "gone"
<1>1. FaultsFit /\ (faults' = 0 => ~late)
  <2>1. late \in BOOLEAN /\ Overtakes(late)
    BY DEF GraceOver, TimerFires, ProcessInv, ProcessRecords, WireRecord
  <2>. HIDE DEF late
  <2>. QED  BY <2>1, OvertakesFits
<1>2. WireReads /\ ShutdownLeaves
  BY WireUnread DEF GraceOver
<1>3. CASE shutdown.at \in {"eof", "term"} /\ group.exit = "none" /\ WaitEnded(FALSE)
  <2>1. ~late => ~Pending("provider-exited") /\ ~(tree.super = "running" /\ tree.provider = "gone")
    BY DEF Pending
  <2>2. faults' = 0 => tree.result # "own"
    BY <1>1, <1>3, <2>1, NothingOverlooked DEF FaultsFit
  <2>. QED  BY <1>1, <1>2, <1>3, <2>2, WaitEndedKeeps
<1>4. CASE shutdown.at = "eofRest" /\ SignalTerm /\ UNCHANGED group
  BY <1>1, <1>2, <1>4, TermKeeps
<1>5. CASE shutdown.at = "termRest" /\ ForceKill(FALSE)
  <2>1. session.cancelled /\ tree.super # "none"
    BY <1>5 DEF ProcessInv, ShutdownFits, SessionFits, NoShutdown
  <2>. QED  BY <1>1, <1>2, <1>5, <2>1, KillKeeps
<1>. QED  BY <1>3, <1>4, <1>5 DEF GraceOver

LEMMA DisconnectKeeps == ProcessInv /\ Disconnect => ProcessInv'
<1>. SUFFICES ASSUME ProcessInv, Disconnect PROVE ProcessInv'
  OBVIOUS
<1>. USE DEF ProcessInv
<1>1. tree.super = "gone" /\ UNCHANGED <<tree, group, stalled, faults>> /\ ScriptSettled(tree)
  BY DEF Disconnect, ScriptSettled
<1>2. /\ wire' \in WireRecord /\ wire'.up = wire.up /\ wire'.open = FALSE
      /\ wire'.exitSeen = wire.exitSeen /\ wire'.closed = wire.closed
      /\ \A m : Pending(m)' <=> Pending(m)
  <2>1. /\ wire' \in WireRecord /\ wire'.up = wire.up /\ wire'.open = FALSE
        /\ wire'.exitSeen = wire.exitSeen /\ wire'.closed = wire.closed
    BY DEF Disconnect, ProcessRecords, WireRecord
  <2>. QED  BY <2>1 DEF Pending
<1>3. /\ shutdown' \in ShutdownRecord /\ shutdown'.cancel = shutdown.cancel
      /\ \/ shutdown'.at = shutdown.at
         \/ shutdown.at = "reserving" /\ shutdown'.at \in {"eof", "refused"}
  BY DEF Disconnect, ReservationSettles, ProcessRecords, ShutdownRecord, ShutdownPlaces
<1>4. UNCHANGED <<attempt, session, scopes, queue, outputs, report>>
  BY DEF Disconnect, ShutdownLeaves
<1>5. SessionFits' /\ ScopesFit' /\ TreeFits'
  BY <1>1, <1>3, <1>4 DEF SessionFits, ScopesFit, TreeFits
<1>6. WireFits'
  BY <1>1, <1>2, <1>4 DEF WireFits
<1>7. ShutdownFits'
  BY <1>1, <1>3 DEF ShutdownFits
<1>8. ExitsAreTold'
  BY <1>1, <1>2, <1>3, <1>4 DEF ExitsAreTold
<1>. QED  BY <1>1, <1>2, <1>3, <1>4, <1>5, <1>6, <1>7, <1>8 DEF ProcessRecords

LEMMA DeliverKeeps == ProcessInv /\ Deliver => ProcessInv'
<1>. SUFFICES ASSUME ProcessInv, Deliver PROVE ProcessInv'
  OBVIOUS
<1>. USE DEF ProcessInv
<1>. DEFINE message == Head(wire.up)
<1>1. /\ wire \in WireRecord /\ wire.up \in Seq(Messages) /\ wire.up # <<>>
  BY DEF Deliver, ProcessRecords, WireRecord
<1>2. /\ Tail(wire.up) \in Seq(Messages) /\ message \in Messages
      /\ \A m : (\E i \in DOMAIN wire.up : wire.up[i] = m)
                  <=> (\E i \in DOMAIN Tail(wire.up) : Tail(wire.up)[i] = m) \/ message = m
  BY <1>1, Received
<1>3. /\ wire' \in WireRecord /\ wire'.up = Tail(wire.up) /\ wire'.open = wire.open
      /\ wire'.exitSeen = wire.exitSeen /\ wire'.closed = wire.closed
  BY <1>1, <1>2 DEF Deliver, WireRecord
<1>4. \A m : Pending(m) <=> Pending(m)' \/ message = m
  <2>1. \A m : (\E i \in DOMAIN wire.up : wire.up[i] = m)
                 <=> (\E i \in DOMAIN wire'.up : wire'.up[i] = m) \/ message = m
    BY <1>2, <1>3
  <2>. QED  BY <2>1 DEF Pending
<1>5. /\ UNCHANGED <<attempt, session, scopes, queue, outputs, report, tree, stalled, faults>>
  BY DEF Deliver, ShutdownLeaves
<1>. HIDE DEF message
<1>6. message = "provider-exited" => tree.provider = "gone"
  BY <1>4 DEF WireFits
<1>7. message = "shutdown-unavailable" => ScriptSettled(tree)
  BY <1>4 DEF WireFits
<1>8. /\ group' \in GroupRecord /\ group'.preserve = group.preserve
      /\ group'.exit = IF message = "provider-exited" THEN tree.result ELSE group.exit
  <2>1. tree.result \in Results
    BY TreeTypes DEF ProcessRecords
  <2>2. group' = CASE message = "group-ready" -> [group EXCEPT !.reserved = TRUE]
                   [] message = "group-released" -> [group EXCEPT !.reserved = FALSE]
                   [] message = "provider-exited" -> [group EXCEPT !.exit = tree.result]
                   [] OTHER -> group
    BY DEF Deliver, message
  <2>3. CASE message = "group-ready"
    BY <2>2, <2>3 DEF ProcessRecords, GroupRecord
  <2>4. CASE message = "group-released"
    BY <2>2, <2>4 DEF ProcessRecords, GroupRecord
  <2>5. CASE message = "provider-exited"
    BY <2>1, <2>2, <2>5 DEF ProcessRecords, GroupRecord
  <2>6. CASE message \notin {"group-ready", "group-released", "provider-exited"}
    <3>1. group' = group
      BY <2>2, <2>6
    <3>. QED  BY <2>6, <3>1 DEF ProcessRecords
  <2>. QED  BY <2>3, <2>4, <2>5, <2>6
<1>9. /\ shutdown' \in ShutdownRecord /\ shutdown'.cancel = shutdown.cancel
      /\ \/ shutdown'.at = shutdown.at
         \/ shutdown.at = "reserving" /\ shutdown'.at = "eof"
         \/ /\ shutdown.at = "reserving" /\ shutdown'.at = "refused"
            /\ message = "shutdown-unavailable"
  <2>1. \/ UNCHANGED shutdown
        \/ shutdown.at = "reserving" /\ ReservationSettles(TRUE)
        \/ shutdown.at = "reserving" /\ ReservationSettles(FALSE) /\ message = "shutdown-unavailable"
    <3>1. CASE shutdown.at = "reserving" /\ message = "shutdown-ready" /\ group.reserved
      BY <3>1 DEF Deliver, message
    <3>2. CASE shutdown.at = "reserving" /\ message = "shutdown-unavailable"
      <4>1. ~(message = "shutdown-ready")
        BY <3>2
      <4>. QED  BY <3>2, <4>1 DEF Deliver, message
    <3>3. CASE /\ ~(shutdown.at = "reserving" /\ message = "shutdown-ready" /\ group.reserved)
               /\ ~(shutdown.at = "reserving" /\ message = "shutdown-unavailable")
      BY <3>3 DEF Deliver, message
    <3>. QED  BY <3>1, <3>2, <3>3
  <2>. QED  BY <2>1 DEF ReservationSettles, ProcessRecords, ShutdownRecord, ShutdownPlaces
<1>10. SessionFits'
  <2>1. tree.super # "none"
    BY <1>1 DEF SessionFits, NoWire
  <2>. QED  BY <1>5, <1>9, <2>1 DEF SessionFits
<1>11. ScopesFit' /\ TreeFits'
  BY <1>5 DEF ScopesFit, TreeFits
<1>12. WireFits'
  BY <1>3, <1>4, <1>5, <1>8 DEF WireFits
<1>13. ShutdownFits'
  BY <1>5, <1>6, <1>7, <1>8, <1>9 DEF ShutdownFits, TreeFits
<1>14. ExitsAreTold'
  BY <1>3, <1>4, <1>5, <1>6, <1>8, <1>9 DEF ExitsAreTold, TreeFits
<1>. QED  BY <1>3, <1>5, <1>8, <1>9, <1>10, <1>11, <1>12, <1>13, <1>14 DEF ProcessRecords

LEMMA CloseKeeps == ProcessInv /\ Close => ProcessInv'
<1>. SUFFICES ASSUME ProcessInv, Close PROVE ProcessInv'
  OBVIOUS
<1>. USE DEF ProcessInv
<1>1. /\ wire' \in WireRecord /\ wire'.up = wire.up /\ wire'.open = wire.open
      /\ wire'.exitSeen = wire.exitSeen /\ wire'.closed = TRUE /\ wire.exitSeen
  BY DEF Close, ProcessRecords, WireRecord
<1>2. UNCHANGED <<attempt, session, scopes, group, shutdown, tree, outputs, report, stalled, faults>>
  BY DEF Close
<1>3. tree.super = "gone"
  BY <1>1 DEF WireFits
<1>4. "exit" \in Items
  BY DEF Items
<1>5. queue' \in Seq(Items)
  BY <1>4, Sent DEF Close, ProcessRecords
<1>6. WireFits'
  BY <1>1, <1>2, <1>3 DEF WireFits, Pending
<1>7. ExitsAreTold'
  BY <1>1, <1>2 DEF ExitsAreTold, Pending
<1>. QED  BY <1>1, <1>2, <1>3, <1>5, <1>6, <1>7
          DEF ProcessRecords, TreeFits, SessionFits, ShutdownFits, ScopesFit

(* The session. *)

LEMMA AskedFits ==
  ASSUME ProcessInv, tree.super # "none", NEW cancel \in BOOLEAN, ShutdownAsked(cancel),
         UNCHANGED <<tree, group, stalled, faults>>
  PROVE  /\ wire' \in WireRecord /\ wire'.up = wire.up /\ wire'.open = wire.open
         /\ wire'.exitSeen = wire.exitSeen /\ wire'.closed = wire.closed
         /\ shutdown' \in ShutdownRecord /\ (shutdown'.cancel => shutdown.cancel \/ cancel)
         /\ \A place \in {"over", "term"} : shutdown.at = place <=> shutdown'.at = place
         /\ ShutdownFits'
<1>. USE DEF ProcessInv
<1>1. /\ wire \in WireRecord /\ shutdown \in ShutdownRecord
      /\ shutdown.cancel \in BOOLEAN /\ wire.open \in BOOLEAN
      /\ ~wire.open => tree.super = "gone"
  BY DEF ProcessRecords, WireFits, ShutdownRecord, WireRecord
<1>2. CASE shutdown.at # "none"
  <2>1. shutdown' = [shutdown EXCEPT !.cancel = shutdown.cancel \/ cancel] /\ wire' = wire
    BY <1>2 DEF ShutdownAsked
  <2>. DEFINE c == shutdown.cancel \/ cancel
  <2>2. c \in BOOLEAN /\ (shutdown.cancel => c)
    OBVIOUS
  <2>3. shutdown' = [shutdown EXCEPT !.cancel = c]
    BY <2>1
  <2>4. c => shutdown.cancel \/ cancel
    OBVIOUS
  <2>. HIDE DEF c
  <2>5. shutdown' \in ShutdownRecord /\ shutdown'.at = shutdown.at /\ shutdown'.cancel = c
    BY <1>1, <2>2, <2>3 DEF ShutdownRecord
  <2>6. ShutdownFits'
    BY <2>2, <2>5 DEF ShutdownFits
  <2>. QED  BY <1>1, <2>1, <2>4, <2>5, <2>6
<1>3. CASE shutdown.at = "none"
  <2>. DEFINE sent == wire.open /\ tree.super # "gone"
              at == IF group.reserved /\ ~sent THEN "eof"
                    ELSE IF wire.open THEN "reserving" ELSE "refused"
  <2>1. /\ shutdown' = [shutdown EXCEPT !.at = at, !.cancel = cancel, !.timer = TRUE]
        /\ wire' = [wire EXCEPT !.down = sent]
    BY <1>3 DEF ShutdownAsked
  <2>2. /\ sent \in BOOLEAN /\ at \in {"eof", "reserving", "refused"}
        /\ at = "refused" => ScriptSettled(tree)
    BY <1>1 DEF ScriptSettled
  <2>. HIDE DEF sent, at
  <2>3. /\ wire' \in WireRecord /\ wire'.up = wire.up /\ wire'.open = wire.open
        /\ wire'.exitSeen = wire.exitSeen /\ wire'.closed = wire.closed
    BY <1>1, <2>1, <2>2 DEF WireRecord
  <2>4. shutdown' \in ShutdownRecord /\ shutdown'.at = at /\ shutdown'.cancel = cancel
    BY <1>1, <2>1, <2>2 DEF ShutdownRecord, ShutdownPlaces
  <2>5. ShutdownFits'
    BY <1>3, <2>2, <2>4 DEF ShutdownFits
  <2>. QED  BY <1>3, <2>2, <2>3, <2>4, <2>5
<1>. QED  BY <1>2, <1>3

LEMMA SessionTypes ==
  ASSUME ProcessInv
  PROVE  /\ session.at \in SessionPlaces /\ session.adapter \in Adapters
         /\ session.step \in 0 .. Streaming /\ session.listed \in BOOLEAN
         /\ session.cancelled \in BOOLEAN /\ session.wrapped \in BOOLEAN
BY DEF ProcessInv, ProcessRecords, SessionRecord

(* A step of the session among the items, which may ask for the shutdown. *)
LEMMA ReadingFits ==
  ASSUME ProcessInv, UNCHANGED <<attempt, group, tree, outputs, stalled, scopes, report, faults>>,
         tree.super # "none", session' \in SessionRecord,
         session'.wrapped = session.wrapped, session.cancelled => session'.cancelled,
         \/ session'.at = session.at
         \/ {session.at, session'.at} \subseteq {"reading", "shutting"},
         \/ UNCHANGED <<shutdown, wire>>
         \/ \E cancel \in BOOLEAN : ShutdownAsked(cancel) /\ (cancel => session'.cancelled),
         \/ queue' = queue
         \/ queue # <<>> /\ queue' = Tail(queue)
  PROVE  ProcessInv'
<1>. USE DEF ProcessInv
<1>1. /\ wire' \in WireRecord /\ wire'.up = wire.up /\ wire'.open = wire.open
      /\ wire'.exitSeen = wire.exitSeen /\ wire'.closed = wire.closed
      /\ shutdown' \in ShutdownRecord /\ (shutdown'.cancel => session'.cancelled)
      /\ \A place \in {"over", "term"} : shutdown.at = place <=> shutdown'.at = place
      /\ ShutdownFits'
  <2>1. CASE UNCHANGED <<shutdown, wire>>
    BY <2>1 DEF ProcessRecords, ShutdownFits, SessionFits
  <2>2. CASE \E cancel \in BOOLEAN : ShutdownAsked(cancel) /\ (cancel => session'.cancelled)
    BY <2>2, AskedFits DEF SessionFits
  <2>. QED  BY <2>1, <2>2
<1>2. \A m : Pending(m)' <=> Pending(m)
  BY <1>1 DEF Pending
<1>3. /\ queue' \in Seq(Items) /\ (queue' # <<>> => queue # <<>>)
      /\ \A i \in DOMAIN queue' : queue'[i] = "exit" => wire.closed
  <2>1. CASE queue' = queue
    BY <2>1 DEF ProcessRecords, WireFits
  <2>2. CASE queue # <<>> /\ queue' = Tail(queue)
    <3>1. /\ queue' \in Seq(Items)
          /\ \A m : (\E i \in DOMAIN queue' : queue'[i] = m) => \E i \in DOMAIN queue : queue[i] = m
      BY <2>2, Received DEF ProcessRecords
    <3>. QED  BY <2>2, <3>1 DEF WireFits
  <2>. QED  BY <2>1, <2>2
<1>4. SessionFits'
  BY <1>1 DEF SessionFits
<1>5. WireFits'
  BY <1>1, <1>2, <1>3 DEF WireFits
<1>6. ExitsAreTold'
  BY <1>1, <1>2 DEF ExitsAreTold
<1>7. ScopesFit' /\ TreeFits'
  BY DEF ScopesFit, TreeFits
<1>. QED  BY <1>1, <1>3, <1>4, <1>5, <1>6, <1>7 DEF ProcessRecords

LEMMA CancelKeeps == ProcessInv /\ Cancel => ProcessInv'
<1>. SUFFICES ASSUME ProcessInv, Cancel PROVE ProcessInv'
  OBVIOUS
<1>1. /\ session' \in SessionRecord /\ session'.at = session.at /\ session'.cancelled = TRUE
      /\ session'.wrapped = session.wrapped
  BY DEF Cancel, ProcessInv, ProcessRecords, SessionRecord
<1>2. UNCHANGED <<attempt, group, tree, outputs, stalled, scopes, report, faults, queue>>
  BY DEF Cancel, SessionLeaves
<1>3. CASE tree.super # "none"
  BY <1>1, <1>2, <1>3, ReadingFits DEF Cancel
<1>4. CASE tree.super = "none"
  <2>. USE DEF ProcessInv
  <2>1. UNCHANGED <<shutdown, wire>>
    BY <1>4 DEF Cancel
  <2>2. SessionFits'
    BY <1>1, <1>2, <2>1 DEF SessionFits
  <2>3. WireFits' /\ ShutdownFits' /\ ScopesFit' /\ TreeFits'
    BY <1>1, <1>2, <2>1 DEF WireFits, ShutdownFits, ScopesFit, TreeFits, Pending
  <2>4. ExitsAreTold'
    BY <1>1, <1>2, <2>1 DEF ExitsAreTold, Pending
  <2>. QED  BY <1>1, <1>2, <2>1, <2>2, <2>3, <2>4 DEF ProcessRecords
<1>. QED  BY <1>3, <1>4

LEMMA ReadItemKeeps == ProcessInv /\ ReadItem => ProcessInv'
<1>. SUFFICES ASSUME ProcessInv, ReadItem PROVE ProcessInv'
  OBVIOUS
<1>1. tree.super # "none"
  BY DEF ReadItem, ProcessInv, SessionFits
<1>2. /\ session.at = "reading" /\ queue # <<>> /\ queue' = Tail(queue)
      /\ UNCHANGED <<attempt, group, tree, outputs, stalled, scopes, report, faults>>
  BY DEF ReadItem, SessionLeaves
<1>3. \E step \in 0 .. Streaming : ReadOn(step) \/ Stop(step)
  <2>1. session.step \in 0 .. 4
    BY SessionTypes DEF Streaming
  <2>2. PICK item \in {Head(queue)} : Acted(item)
    BY DEF ReadItem
  <2>3. CASE session.step = 0
    BY <2>2, <2>3 DEF Acted, Draining, Streaming
  <2>4. CASE session.step = 4
    BY <2>2, <2>4 DEF Acted, Draining, Streaming
  <2>5. CASE session.step \notin {0, 4}
    <3>1. session.step + 1 \in 0 .. 4
      BY <2>1, <2>5
    <3>2. \/ ReadOn(session.step + 1)
          \/ Stop(0)
      BY <2>2, <2>5 DEF Acted, Draining, Streaming
    <3>. QED  BY <3>1, <3>2 DEF Streaming
  <2>. QED  BY <2>1, <2>3, <2>4, <2>5
<1>4. PICK step \in 0 .. Streaming : ReadOn(step) \/ Stop(step)
  BY <1>3
<1>5. CASE ReadOn(step)
  <2>1. /\ session' \in SessionRecord /\ session'.at = session.at
        /\ session'.wrapped = session.wrapped /\ session'.cancelled = session.cancelled
    BY <1>5 DEF ReadOn, ProcessInv, ProcessRecords, SessionRecord
  <2>. QED  BY <1>1, <1>2, <1>5, <2>1, ReadingFits DEF ReadOn
<1>6. CASE Stop(step)
  <2>1. /\ session' \in SessionRecord /\ session'.at = "shutting"
        /\ session'.wrapped = session.wrapped /\ session'.cancelled = session.cancelled
    BY <1>6 DEF Stop, ProcessInv, ProcessRecords, SessionRecord, SessionPlaces
  <2>2. ShutdownAsked(FALSE)
    BY <1>6 DEF Stop
  <2>. QED  BY <1>1, <1>2, <2>1, <2>2, ReadingFits
<1>. QED  BY <1>4, <1>5, <1>6

LEMMA ShutdownSettledKeeps == ProcessInv /\ ShutdownSettled => ProcessInv'
<1>. SUFFICES ASSUME ProcessInv, ShutdownSettled PROVE ProcessInv'
  OBVIOUS
<1>1. tree.super # "none"
  BY DEF ShutdownSettled, Resolved, ProcessInv, SessionFits, NoShutdown
<1>2. /\ session.at = "shutting" /\ queue' = queue /\ UNCHANGED <<shutdown, wire>>
      /\ UNCHANGED <<attempt, group, tree, outputs, stalled, scopes, report, faults>>
  BY DEF ShutdownSettled, SessionLeaves
<1>3. /\ session' \in SessionRecord /\ session'.at = "reading"
      /\ session'.wrapped = session.wrapped /\ session'.cancelled = session.cancelled
  BY DEF ShutdownSettled, ProcessInv, ProcessRecords, SessionRecord, SessionPlaces
<1>. QED  BY <1>1, <1>2, <1>3, ReadingFits

LEMMA ReadExitKeeps == ProcessInv /\ ReadExit => ProcessInv'
<1>. SUFFICES ASSUME ProcessInv, ReadExit PROVE ProcessInv'
  OBVIOUS
<1>. USE DEF ProcessInv
<1>1. /\ session.at = "reading" /\ queue # <<>> /\ queue' = Tail(queue) /\ Head(queue) = "exit"
      /\ UNCHANGED <<attempt, group, tree, outputs, stalled, scopes, shutdown, wire, faults>>
  BY DEF ReadExit, SessionLeaves
<1>2. /\ queue' \in Seq(Items) /\ 1 \in DOMAIN queue /\ queue[1] = "exit"
      /\ \A m : (\E i \in DOMAIN queue' : queue'[i] = m) => \E i \in DOMAIN queue : queue[i] = m
  BY <1>1, Received DEF ProcessRecords
<1>3. wire.closed /\ wire.exitSeen /\ tree.super = "gone" /\ tree.exit # "none" /\ tree.provider # "alive"
  BY <1>2 DEF WireFits, TreeFits
<1>4. /\ session' \in SessionRecord /\ session'.at = "stopping"
      /\ session'.wrapped = session.wrapped /\ session'.cancelled = session.cancelled
  BY DEF ReadExit, ProcessRecords, SessionRecord, SessionPlaces
<1>5. /\ tree.exit \in Results /\ tree.result \in Results /\ group.exit \in Results
      /\ session.cancelled \in BOOLEAN
  BY TreeTypes, SessionTypes DEF ProcessRecords, GroupRecord
<1>6. /\ report' \in [exit : Results, cancelled : BOOLEAN]
      /\ report'.exit = IF group.preserve THEN group.exit ELSE tree.exit
      /\ report'.cancelled = session.cancelled
  BY <1>5 DEF ReadExit
<1>7. SessionFits'
  BY <1>1, <1>3, <1>4 DEF SessionFits
<1>8. WireFits'
  BY <1>1, <1>2, <1>3 DEF WireFits, Pending
<1>9. ExitsAreTold'
  <2>1. SUFFICES ASSUME faults = 0 PROVE ExitsAreTold'
    BY <1>1 DEF ExitsAreTold
  <2>2. ~session.cancelled /\ tree.result = "own" => report'.exit = "own"
    <3>1. SUFFICES ASSUME ~session.cancelled, tree.result = "own" PROVE report'.exit = "own"
      OBVIOUS
    <3>2. CASE group.preserve
      BY <1>6, <3>1, <3>2 DEF ShutdownFits, WireFits
    <3>3. CASE ~group.preserve
      <4>1. tree.exit # "killed"
        BY <1>3, <2>1, <3>1, <3>3 DEF ExitsAreTold
      <4>2. tree.exit # "unlaunched"
        BY <3>1 DEF TreeFits
      <4>. QED  BY <1>3, <1>5, <1>6, <3>3, <4>1, <4>2 DEF Results
    <3>. QED  BY <3>2, <3>3
  <2>3. \A m : Pending(m)' <=> Pending(m)
    BY <1>1 DEF Pending
  <2>. QED  BY <1>1, <1>3, <1>4, <1>6, <2>1, <2>2, <2>3 DEF ExitsAreTold
<1>10. ScopesFit' /\ TreeFits' /\ ShutdownFits'
  BY <1>1, <1>4 DEF ScopesFit, TreeFits, ShutdownFits
<1>. QED  BY <1>1, <1>2, <1>4, <1>6, <1>7, <1>8, <1>9, <1>10 DEF ProcessRecords

LEMMA ConsumerFailsKeeps == ProcessInv /\ ConsumerFails => ProcessInv'
<1>. SUFFICES ASSUME ProcessInv, ConsumerFails PROVE ProcessInv'
  OBVIOUS
<1>. USE DEF ProcessInv
<1>1. /\ session.at = "reading" /\ queue # <<>> /\ queue' = Tail(queue)
      /\ UNCHANGED <<attempt, group, tree, outputs, stalled, scopes, shutdown, wire, report>>
  BY DEF ConsumerFails, SessionLeaves
<1>2. /\ queue' \in Seq(Items)
      /\ \A m : (\E i \in DOMAIN queue' : queue'[i] = m) => \E i \in DOMAIN queue : queue[i] = m
  BY <1>1, Received DEF ProcessRecords
<1>3. faults' \in 0 .. MaxFaults /\ faults' # 0 /\ faults' > 0
  BY ProcessBounds DEF ConsumerFails, ProcessRecords
<1>4. /\ session' \in SessionRecord /\ session'.at = "stopping"
      /\ session'.wrapped = session.wrapped /\ session'.cancelled = session.cancelled
  BY DEF ConsumerFails, ProcessRecords, SessionRecord, SessionPlaces
<1>5. SessionFits'
  BY <1>1, <1>4 DEF SessionFits, WireFits
<1>6. WireFits' /\ ExitsAreTold'
  BY <1>1, <1>2, <1>3 DEF WireFits, ExitsAreTold, Pending
<1>7. ScopesFit' /\ TreeFits' /\ ShutdownFits'
  BY <1>1, <1>3, <1>4 DEF ScopesFit, TreeFits, ShutdownFits
<1>. QED  BY <1>1, <1>2, <1>3, <1>4, <1>5, <1>6, <1>7 DEF ProcessRecords

LEMMA ConfirmProviderScopeCleanupKeeps ==
  ProcessInv /\ ConfirmProviderScopeCleanup => ProcessInv'
<1>. SUFFICES ASSUME ProcessInv, ConfirmProviderScopeCleanup PROVE ProcessInv'
  OBVIOUS
<1>. USE DEF ProcessInv
<1>1. /\ session.at = "stopping"
      /\ UNCHANGED <<attempt, group, outputs, stalled, shutdown, wire, queue, report>>
  BY DEF ConfirmProviderScopeCleanup, SessionLeaves
<1>2. /\ session' \in SessionRecord /\ session'.at = "over"
      /\ session'.wrapped = session.wrapped /\ session'.cancelled = session.cancelled
  BY DEF ConfirmProviderScopeCleanup, ProcessRecords, SessionRecord, SessionPlaces
<1>3. CASE /\ UNCHANGED <<scopes, tree>> /\ faults' \in 0 .. MaxFaults
           /\ session.wrapped => attempt \in scopes.owed
           /\ faults' = faults \/ (faults' # 0 /\ faults' > 0)
  <2>1. SessionFits' /\ WireFits' /\ ShutdownFits' /\ ScopesFit' /\ TreeFits'
    BY <1>1, <1>2, <1>3 DEF SessionFits, WireFits, ShutdownFits, ScopesFit, TreeFits, Pending
  <2>2. ExitsAreTold'
    BY <1>1, <1>2, <1>3 DEF ExitsAreTold, Pending
  <2>. QED  BY <1>1, <1>2, <1>3, <2>1, <2>2 DEF ProcessRecords
<1>4. CASE /\ session.wrapped /\ tree' = WithoutProvider(tree, TRUE)
           /\ scopes' = Owing(scopes.owed \ {attempt}) /\ UNCHANGED faults
  <2>1. /\ tree' \in TreeRecord
        /\ tree'.super = tree.super /\ tree'.asked = tree.asked /\ tree'.termed = tree.termed
        /\ tree'.guardian = tree.guardian /\ tree'.exit = tree.exit
        /\ tree'.provider = IF tree.provider = "alive" THEN "gone" ELSE tree.provider
        /\ tree'.result = IF tree.provider = "alive" THEN "killed" ELSE tree.result
        /\ tree'.survivor = "none"
    BY <1>4, ProviderStops DEF ProcessRecords
  <2>2. tree.super = "none" => tree' = NoTree
    <3>1. SUFFICES ASSUME tree = NoTree PROVE tree' = NoTree
      BY DEF SessionFits
    <3>. QED  BY <1>4, <3>1 DEF WithoutProvider, NoTree
  <2>3. TreeFits'
    BY <1>4, <2>1 DEF TreeFits, ScriptSettled
  <2>4. SessionFits'
    BY <1>1, <1>2, <2>1, <2>2 DEF SessionFits
  <2>5. WireFits'
    BY <1>1, <1>4, <2>1 DEF WireFits, TreeFits, Pending, ScriptSettled
  <2>6. ShutdownFits'
    BY <1>1, <1>4, <2>1 DEF ShutdownFits, GroupEmpty, SupervisorAlive, ScriptSettled
  <2>7. ExitsAreTold'
    BY <1>1, <1>2, <1>4, <2>1 DEF ExitsAreTold, Pending
  <2>8. scopes' \in ScopesRecord /\ scopes'.live = scopes.live
        /\ scopes'.owed = scopes.owed \ {attempt} /\ scopes'.runOwes = (scopes'.owed # {})
    BY <1>4 DEF Owing, ScopesRecord, ProcessRecords
  <2>9. ~InScope(tree')
    BY <2>1 DEF InScope
  <2>10. ScopesFit'
    BY <1>1, <1>2, <2>8, <2>9 DEF ScopesFit
  <2>. QED  BY <1>1, <1>2, <1>4, <2>1, <2>3, <2>4, <2>5, <2>6, <2>7, <2>8, <2>10 DEF ProcessRecords
<1>5. CASE ~session.wrapped /\ UNCHANGED <<scopes, tree, faults>>
  BY <1>3, <1>5 DEF ProcessRecords
<1>6. CASE /\ session.wrapped /\ faults < MaxFaults /\ faults' = faults + 1
           /\ UNCHANGED <<scopes, tree>>
  <2>1. faults' \in 0 .. MaxFaults /\ faults' # 0 /\ faults' > 0
    BY <1>6, ProcessBounds DEF ProcessRecords
  <2>2. session.wrapped => attempt \in scopes.owed
    BY <1>1 DEF ScopesFit
  <2>. QED  BY <1>3, <1>6, <2>1, <2>2
<1>. QED  BY <1>4, <1>5, <1>6 DEF ConfirmProviderScopeCleanup

(* Before the supervisor is spawned. *)

\* Nothing of the attempt runs and nothing was read.
Unspawned ==
    /\ group = NoGroup /\ shutdown = NoShutdown /\ wire = NoWire /\ tree = NoTree
    /\ queue = <<>> /\ outputs \in 0 .. MaxOutputs /\ report.exit = "none"
    /\ report \in [exit : Results, cancelled : BOOLEAN]
    /\ stalled \in BOOLEAN /\ (stalled => faults > 0)
    /\ attempt \in Attempts /\ faults \in 0 .. MaxFaults

LEMMA UnspawnedFits ==
  ASSUME Unspawned, session \in SessionRecord, scopes \in ScopesRecord, ScopesFit,
         session.at \in {"idle", "probing", "marked", "over", "down", "swept"}
  PROVE  ProcessInv
<1>0. \A m : ~Pending(m)
  BY DEF Unspawned, NoWire, Pending
<1>1. TreeFits
  BY DEF Unspawned, TreeFits, NoTree, ScriptSettled
<1>2. SessionFits
  BY DEF Unspawned, SessionFits, NoTree, NoShutdown
<1>3. WireFits
  BY <1>0 DEF Unspawned, WireFits, NoWire, NoGroup, NoTree
<1>4. ShutdownFits
  BY DEF Unspawned, ShutdownFits, NoShutdown, NoGroup, NoTree
<1>5. ExitsAreTold
  BY DEF Unspawned, ExitsAreTold, NoTree
<1>6. tree \in TreeRecord
  BY DEF Unspawned, NoTree, TreeRecord, Results, SupervisorPlaces
<1>7. group \in GroupRecord /\ shutdown \in ShutdownRecord
  BY DEF Unspawned, NoGroup, NoShutdown, GroupRecord, ShutdownRecord, ShutdownPlaces, Results
<1>8. wire \in WireRecord /\ queue \in Seq(Items)
  BY DEF Unspawned, NoWire, WireRecord
<1>. QED  BY <1>1, <1>2, <1>3, <1>4, <1>5, <1>6, <1>7, <1>8 DEF ProcessInv, ProcessRecords, Unspawned

LEMMA UnspawnedKeeps ==
  ASSUME Unspawned', session' \in SessionRecord, scopes' \in ScopesRecord, ScopesFit',
         session'.at \in {"idle", "probing", "marked", "over", "down", "swept"}
  PROVE  ProcessInv'
<1>0. \A m : ~Pending(m)'
  BY DEF Unspawned, NoWire, Pending
<1>1. TreeFits'
  BY DEF Unspawned, TreeFits, NoTree, ScriptSettled
<1>2. SessionFits'
  BY DEF Unspawned, SessionFits, NoTree, NoShutdown
<1>3. WireFits'
  BY <1>0 DEF Unspawned, WireFits, NoWire, NoGroup, NoTree
<1>4. ShutdownFits'
  BY DEF Unspawned, ShutdownFits, NoShutdown, NoGroup, NoTree
<1>5. ExitsAreTold'
  BY DEF Unspawned, ExitsAreTold, NoTree
<1>6. tree' \in TreeRecord
  BY DEF Unspawned, NoTree, TreeRecord, Results, SupervisorPlaces
<1>7. group' \in GroupRecord /\ shutdown' \in ShutdownRecord
  BY DEF Unspawned, NoGroup, NoShutdown, GroupRecord, ShutdownRecord, ShutdownPlaces, Results
<1>8. wire' \in WireRecord /\ queue' \in Seq(Items)
  BY DEF Unspawned, NoWire, WireRecord
<1>. QED  BY <1>1, <1>2, <1>3, <1>4, <1>5, <1>6, <1>7, <1>8 DEF ProcessInv, ProcessRecords, Unspawned

LEMMA StillUnspawned ==
  ASSUME ProcessInv, session.at \in {"idle", "probing", "marked", "down", "swept"}
  PROVE  Unspawned
<1>. USE DEF ProcessInv
<1>1. tree.super = "none" /\ report.exit = "none"
  BY DEF SessionFits
<1>2. stalled \in BOOLEAN /\ (stalled => faults > 0)
  BY DEF ProcessRecords, ShutdownFits
<1>. QED  BY <1>1, <1>2 DEF Unspawned, SessionFits, ProcessRecords

LEMMA FreshSession ==
  ASSUME NEW adapter \in Adapters, NEW at \in SessionPlaces
  PROVE  LET s == Session(adapter, at)
         IN  s \in SessionRecord /\ s.at = at /\ ~s.wrapped /\ ~s.cancelled /\ s.adapter = adapter
<1>1. (IF adapter = "codex" THEN 1 ELSE Streaming) \in 0 .. Streaming
  BY DEF Streaming
<1>. QED  BY <1>1 DEF Session, SessionRecord

LEMMA RunAttemptKeeps == ProcessInv /\ RunAttempt => ProcessInv'
<1>. SUFFICES ASSUME ProcessInv, RunAttempt PROVE ProcessInv'
  OBVIOUS
<1>1. PICK s \in SessionRecord : s = Session(session.adapter, "probing") /\ s.at = "probing" /\ ~s.wrapped
  BY SessionTypes, FreshSession DEF SessionPlaces
<1>2. session' = [s EXCEPT !.listed = TRUE] /\ session.at = "idle"
  BY <1>1 DEF RunAttempt
<1>3. session' \in SessionRecord /\ session'.at = "probing" /\ ~session'.wrapped
  BY <1>1, <1>2 DEF SessionRecord
<1>4. Unspawned'
  BY <1>2, StillUnspawned DEF RunAttempt, SessionLeaves, Unspawned
<1>5. scopes' \in ScopesRecord /\ ScopesFit'
  BY <1>2, <1>3 DEF RunAttempt, SessionLeaves, ProcessInv, ProcessRecords, ScopesFit
<1>. QED  BY <1>3, <1>4, <1>5, UnspawnedKeeps

LEMMA WrapForProviderScopeKeeps == ProcessInv /\ WrapForProviderScope => ProcessInv'
<1>. SUFFICES ASSUME ProcessInv, WrapForProviderScope PROVE ProcessInv'
  OBVIOUS
<1>. USE DEF ProcessInv
<1>1. Unspawned /\ session.at = "probing"
  BY StillUnspawned DEF WrapForProviderScope
<1>2. UNCHANGED <<attempt, group, outputs, stalled, shutdown, wire, tree, queue, faults>>
  BY DEF WrapForProviderScope, SessionLeaves
<1>3. ~InScope(tree)
  BY <1>1 DEF Unspawned, NoTree, InScope
<1>4. CASE session.cancelled
  <2>1. /\ session' \in SessionRecord /\ session'.at = "over" /\ session'.wrapped = session.wrapped
        /\ UNCHANGED scopes /\ report' = [exit |-> "none", cancelled |-> TRUE]
    BY <1>4 DEF WrapForProviderScope, ProcessRecords, SessionRecord, SessionPlaces
  <2>2. Unspawned'
    BY <1>1, <1>2, <2>1 DEF Unspawned, Results
  <2>3. scopes' \in ScopesRecord /\ ScopesFit'
    BY <1>1, <1>2, <1>3, <2>1 DEF ProcessRecords, ScopesFit
  <2>. QED  BY <2>1, <2>2, <2>3, UnspawnedKeeps
<1>5. CASE ~session.cancelled
  <2>. DEFINE wrapped == session.adapter \in Scoped
  <2>1. wrapped \in BOOLEAN
    OBVIOUS
  <2>2. /\ session' = [session EXCEPT !.at = "marked", !.wrapped = wrapped] /\ UNCHANGED report
        /\ scopes' = IF wrapped THEN Owing(scopes.owed \cup {attempt}) ELSE scopes
    BY <1>5 DEF WrapForProviderScope
  <2>. HIDE DEF wrapped
  <2>3. session' \in SessionRecord /\ session'.at = "marked" /\ session'.wrapped = wrapped
    BY <2>1, <2>2 DEF ProcessRecords, SessionRecord, SessionPlaces
  <2>4. Unspawned'
    BY <1>1, <1>2, <2>2 DEF Unspawned
  <2>5. /\ scopes' \in ScopesRecord /\ scopes'.live = scopes.live
        /\ scopes'.owed \in {scopes.owed, scopes.owed \cup {attempt}}
        /\ scopes'.runOwes = (scopes'.owed # {}) /\ (wrapped => attempt \in scopes'.owed)
    BY <2>2 DEF Owing, ProcessRecords, ScopesRecord, ScopesFit
  <2>6. ScopesFit'
    BY <1>1, <1>2, <2>3, <2>5 DEF ScopesFit
  <2>. QED  BY <2>3, <2>4, <2>5, <2>6, UnspawnedKeeps
<1>. QED  BY <1>4, <1>5

LEMMA SpawnProviderProcessKeeps == ProcessInv /\ SpawnProviderProcess => ProcessInv'
<1>. SUFFICES ASSUME ProcessInv, SpawnProviderProcess PROVE ProcessInv'
  OBVIOUS
<1>. USE DEF ProcessInv
<1>1. Unspawned /\ session.at = "marked"
  BY StillUnspawned DEF SpawnProviderProcess
<1>2. UNCHANGED <<attempt, group, outputs, stalled, scopes, shutdown, wire, queue, report, faults>>
  BY DEF SpawnProviderProcess, SessionLeaves
<1>3. /\ session' \in SessionRecord /\ session'.at = "reading" /\ session'.wrapped = session.wrapped
  BY DEF SpawnProviderProcess, ProcessRecords, SessionRecord, SessionPlaces
<1>4. /\ tree' \in TreeRecord /\ tree'.super = "starting" /\ tree'.guardian = "starting"
      /\ tree'.provider = "none" /\ tree'.result = "none" /\ tree'.exit = "none"
      /\ ~tree'.termed /\ tree'.survivor = "none"
  BY DEF SpawnProviderProcess, NoTree, TreeRecord, SupervisorPlaces, Results
<1>5. \A m : ~Pending(m)'
  BY <1>1, <1>2 DEF Unspawned, NoWire, Pending
<1>6. TreeFits' /\ ~InScope(tree')
  BY <1>4 DEF TreeFits, InScope
<1>7. SessionFits'
  BY <1>1, <1>2, <1>3, <1>4 DEF SessionFits, Unspawned, NoShutdown
<1>8. WireFits'
  BY <1>1, <1>2, <1>5 DEF WireFits, Unspawned, NoWire, NoGroup
<1>9. ShutdownFits'
  BY <1>1, <1>2, <1>4 DEF ShutdownFits, Unspawned, NoShutdown, NoGroup
<1>10. ExitsAreTold'
  BY <1>1, <1>2, <1>3, <1>4 DEF ExitsAreTold, Unspawned
<1>11. ScopesFit'
  BY <1>1, <1>2, <1>3 DEF ScopesFit
<1>. QED  BY <1>2, <1>3, <1>4, <1>6, <1>7, <1>8, <1>9, <1>10, <1>11 DEF ProcessRecords

(* The next attempt, the death of the daemon and the sweep of the scopes. *)

LEMMA ScopesAreOwed ==
  ASSUME ProcessInv
  PROVE  /\ LiveScopes \subseteq scopes.owed /\ LiveScopes \subseteq Attempts
         /\ \A a \in LiveScopes : a <= attempt
<1>. USE DEF ProcessInv
<1>1. scopes.live \subseteq Attempts /\ attempt \in Attempts /\ attempt \in Nat /\ attempt <= attempt
  BY ProcessBounds DEF ProcessRecords, ScopesRecord, Attempts
<1>. QED  BY <1>1 DEF LiveScopes, ScopesFit

LEMMA FreshKeeps ==
  ASSUME ProcessInv, FreshProcesses, NEW at \in {"idle", "down"},
         session' = Session(session.adapter, at), scopes' = [scopes EXCEPT !.live = LiveScopes],
         attempt' \in Attempts, faults' \in 0 .. MaxFaults,
         at = "idle" => attempt' = attempt + 1, attempt' \in {attempt, attempt + 1}
  PROVE  ProcessInv'
<1>. USE DEF ProcessInv
<1>1. session' \in SessionRecord /\ session'.at = at /\ ~session'.wrapped
  BY SessionTypes, FreshSession DEF SessionPlaces
<1>2. /\ scopes' \in ScopesRecord /\ scopes'.live = LiveScopes /\ scopes'.owed = scopes.owed
      /\ scopes'.runOwes = scopes.runOwes
  BY ScopesAreOwed DEF ProcessRecords, ScopesRecord
<1>3. \A a \in scopes'.live : a <= attempt' /\ (at = "idle" => a # attempt')
  <2>1. SUFFICES ASSUME NEW a \in scopes'.live PROVE a <= attempt' /\ (at = "idle" => a # attempt')
    OBVIOUS
  <2>2. a <= attempt /\ a \in Nat /\ attempt \in Nat
    BY <1>2, ScopesAreOwed, ProcessBounds DEF Attempts, ProcessRecords
  <2>. QED  BY <2>2
<1>4. ScopesFit'
  BY <1>1, <1>2, <1>3, ScopesAreOwed DEF ScopesFit
<1>5. outputs' \in 0 .. MaxOutputs /\ report' \in [exit : Results, cancelled : BOOLEAN]
      /\ report'.exit = "none"
  BY ProcessBounds DEF FreshProcesses, Results
<1>6. Unspawned'
  BY <1>5 DEF FreshProcesses, Unspawned
<1>. QED  BY <1>1, <1>2, <1>4, <1>6, UnspawnedKeeps

LEMMA NextAttemptKeeps == ProcessInv /\ NextAttempt => ProcessInv'
<1>. SUFFICES ASSUME ProcessInv, NextAttempt PROVE ProcessInv'
  OBVIOUS
<1>1. attempt' = attempt + 1 /\ attempt' \in Attempts
  BY ProcessBounds DEF NextAttempt, ProcessInv, ProcessRecords, Attempts
<1>2. faults' \in 0 .. MaxFaults
  BY DEF NextAttempt, ProcessInv, ProcessRecords
<1>. QED  BY <1>1, <1>2, FreshKeeps DEF NextAttempt

LEMMA DaemonDiesKeeps == ProcessInv /\ DaemonDies => ProcessInv'
<1>. SUFFICES ASSUME ProcessInv, DaemonDies PROVE ProcessInv'
  OBVIOUS
<1>1. faults' \in 0 .. MaxFaults
  BY ProcessBounds DEF DaemonDies, ProcessInv, ProcessRecords
<1>2. attempt' = attempt /\ attempt' \in Attempts
  BY DEF DaemonDies, ProcessInv, ProcessRecords
<1>. QED  BY <1>1, <1>2, FreshKeeps DEF DaemonDies

LEMMA SweepProviderScopesKeeps == ProcessInv /\ SweepProviderScopes => ProcessInv'
<1>. SUFFICES ASSUME ProcessInv, SweepProviderScopes PROVE ProcessInv'
  OBVIOUS
<1>. USE DEF ProcessInv
<1>1. session' \in SessionRecord /\ session'.at = "swept" /\ session'.wrapped = session.wrapped
  BY DEF SweepProviderScopes, ProcessRecords, SessionRecord, SessionPlaces
<1>2. Unspawned' /\ attempt' = attempt /\ tree' = tree
  BY StillUnspawned DEF SweepProviderScopes, SessionLeaves, Unspawned
<1>3. session.at = "down" /\ ~session.wrapped
  BY DEF SweepProviderScopes, ScopesFit
<1>4. PICK confirmed \in SUBSET scopes.owed :
           scopes' = [live |-> scopes.live \ confirmed, owed |-> scopes.owed \ confirmed,
                      runOwes |-> confirmed # scopes.owed]
  BY DEF SweepProviderScopes
<1>5. /\ scopes' \in ScopesRecord /\ scopes'.live = scopes.live \ confirmed
      /\ scopes'.owed = scopes.owed \ confirmed
      /\ scopes'.runOwes = (scopes'.owed # {})
  BY <1>4 DEF ProcessRecords, ScopesRecord
<1>6. ScopesFit'
  BY <1>1, <1>2, <1>3, <1>5 DEF ScopesFit
<1>. QED  BY <1>1, <1>2, <1>5, <1>6, UnspawnedKeeps

(* The whole Run. *)

LEMMA ProcessStarts == ProcessInit => ProcessInv
<1>. SUFFICES ASSUME ProcessInit PROVE ProcessInv
  OBVIOUS
<1>1. session \in SessionRecord /\ session.at = "idle" /\ ~session.wrapped
  BY FreshSession DEF ProcessInit, SessionPlaces
<1>2. scopes \in ScopesRecord /\ ScopesFit
  BY <1>1 DEF ProcessInit, ScopesRecord, ScopesFit
<1>3. 1 \in Attempts /\ 0 \in 0 .. MaxOutputs /\ 0 \in 0 .. MaxFaults
  BY ProcessBounds DEF Attempts
<1>4. Unspawned
  BY <1>3 DEF ProcessInit, Unspawned, Results
<1>. QED  BY <1>1, <1>2, <1>4, UnspawnedFits

LEMMA ProcessGoesOn == ProcessInv /\ [ProcessNext]_processVars => ProcessInv'
<1>. SUFFICES ASSUME ProcessInv, [ProcessNext]_processVars PROVE ProcessInv'
  OBVIOUS
<1>1. CASE EventLoopStep
  BY <1>1, WrapForProviderScopeKeeps, SpawnProviderProcessKeeps, ReadItemKeeps,
     ShutdownSettledKeeps, ReadExitKeeps, ConfirmProviderScopeCleanupKeeps, DeliverKeeps,
     ExitIsKnownKeeps, ExitEventKeeps, DisconnectKeeps, PreparationTimerKeeps,
     GraceOverKeeps, CloseKeeps
  DEF EventLoopStep
<1>2. CASE SupervisorStep
  BY <1>2, GuardianReadyKeeps, LaunchProviderKeeps, HearPrepareKeeps,
     StopBeforeProviderLaunchKeeps, FinishKeeps, FinishDelayOverKeeps, ReleaseGuardianKeeps,
     SupervisorExitsKeeps, FailClosedKeeps
  DEF SupervisorStep
<1>3. CASE WorldStep
  BY <1>3, ProviderExitsKeeps, ProviderWritesKeeps, SurvivorStartsKeeps, SurvivorEndsKeeps,
     GuardianLostKeeps, LeakedScopeEndsKeeps
  DEF WorldStep
<1>4. CASE RunAttempt \/ Cancel \/ ConsumerFails \/ NextAttempt \/ DaemonDies \/ SweepProviderScopes
  BY <1>4, RunAttemptKeeps, CancelKeeps, ConsumerFailsKeeps, NextAttemptKeeps, DaemonDiesKeeps,
     SweepProviderScopesKeeps
<1>5. CASE UNCHANGED processVars
  <2>. USE DEF ProcessInv
  <2>1. \A m : Pending(m)' <=> Pending(m)
    BY <1>5 DEF processVars, Pending
  <2>2. WireFits' /\ ExitsAreTold'
    BY <1>5, <2>1 DEF processVars, WireFits, ExitsAreTold
  <2>3. TreeFits' /\ SessionFits' /\ ShutdownFits' /\ ScopesFit' /\ ProcessRecords'
    BY <1>5 DEF processVars, TreeFits, SessionFits, ShutdownFits, ScopesFit, ProcessRecords
  <2>. QED  BY <2>2, <2>3
<1>. QED  BY <1>1, <1>2, <1>3, <1>4, <1>5 DEF ProcessNext

LEMMA ProcessInvTells == ProcessInv => ProcessInvariant
<1>. SUFFICES ASSUME ProcessInv PROVE ProcessInvariant
  OBVIOUS
<1>. USE DEF ProcessInv
<1>1. ProcessTypeOK
  BY DEF ProcessTypeOK, ProcessRecords, SessionRecord, ScopesRecord, GroupRecord, ShutdownRecord,
         WireRecord, TreeRecord, SessionPlaces, ShutdownPlaces, SupervisorPlaces
<1>2. LiveScopeIsOwed
  BY ScopesAreOwed DEF LiveScopeIsOwed, ScopesFit
<1>3. ResolvedShutdownIsFinal
  BY DEF ResolvedShutdownIsFinal, ShutdownFits, TreeFits, ScriptSettled
<1>4. OwnExitIsReported
  BY DEF OwnExitIsReported, ExitsAreTold
<1>. QED  BY <1>1, <1>2, <1>3, <1>4 DEF ProcessInvariant

(* Whatever dies, no scope that may hold a process is forgotten, a resolved  *)
(* shutdown is a stopped provider, and a provider that stopped by itself is  *)
(* reported with its own exit.                                             *)
THEOREM ProcessesAreAccountedFor == ProcessSpec => []ProcessInvariant
<1>1. ProcessSpec => []ProcessInv
  BY ProcessStarts, ProcessGoesOn, PTL DEF ProcessSpec
<1>. QED  BY <1>1, ProcessInvTells, PTL

=============================================================================
