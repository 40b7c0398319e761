---------------------------- MODULE ProjectPicker -----------------------------
(***************************************************************************)
(* Weighted round robin across Projects: pickTargetFromCandidates of       *)
(* run-controller.ts and recordProjectDispatchSelection of run-store.ts.   *)
(*                                                                         *)
(* A batch picks without a lock: it reads every Project's stored weight,   *)
(* computes the next ones and keeps them until its claim writes them as    *)
(* absolute values.  Which Projects can be dispatched (candidates, caps,   *)
(* providers, overlap guard) changes from pick to pick.                    *)
(***************************************************************************)
EXTENDS Integers, Sequences, FiniteSetsExt

CONSTANTS
    Order,         \* the Projects in the configuration's order
    Weight,        \* their weights
    Batches,       \* dispatch batches that may overlap
    MaxSelections  \* bound: selections recorded in a behaviour

Projects == {Order[k] : k \in DOMAIN Order}

ASSUME PickerBounds ==
    /\ MaxSelections \in Nat
    /\ Order \in Seq(Projects) /\ Order # <<>>
    /\ \A j, k \in DOMAIN Order : Order[j] = Order[k] => j = k
    /\ Weight \in [Projects -> Nat \ {0}]

VARIABLES
    currentWeight,  \* scheduler_current_weight of project_states
    batchPick,      \* per batch: the pick whose claim is awaited
    overlapping,    \* a batch picked while another one's claim was pending
    passedOver,     \* selections a Project took part in since its own last one
    selections

pickerVars == <<currentWeight, batchPick, overlapping, passedOver, selections>>

Share(S) == SumFunctionOnSet(Weight, S)
NoPick == [among |-> {}, selected |-> Order[1], next |-> [p \in {} |-> 0]]

PickerTypeOK ==
    /\ currentWeight \in [Projects -> Int]
    /\ \A b \in Batches : /\ batchPick[b].among \subseteq Projects
                          /\ batchPick[b].selected \in Projects
                          /\ batchPick[b].next \in [batchPick[b].among -> Int]
    /\ passedOver \in [Projects -> 0 .. MaxSelections] /\ selections \in 0 .. MaxSelections
    /\ overlapping \in BOOLEAN

(* Mutant: the winner keeps what it gained. *)
WinnerPaysNothing(among, weights) ==
    LET raised == [p \in among |-> weights[p] + Weight[p]]
        selected == CHOOSE p \in among : \A q \in among : raised[p] >= raised[q]
    IN  [among |-> among, selected |-> selected, next |-> raised]

(* Every dispatchable Project gains its weight; the first one in order with *)
(* the greatest result wins and pays the total.                             *)
pickTarget(among, weights) ==
    LET raised == [p \in among |-> weights[p] + Weight[p]]
        best == {p \in among : \A q \in among : raised[p] >= raised[q]}
        selected == Order[Min({k \in DOMAIN Order : Order[k] \in best})]
    IN  [among |-> among, selected |-> selected,
         next |-> [raised EXCEPT ![selected] = @ - Share(among)]]

Pick(b, among) ==
    /\ batchPick[b].among = {} /\ among # {} /\ selections < MaxSelections
    /\ batchPick' = [batchPick EXCEPT ![b] = pickTarget(among, currentWeight)]
    /\ overlapping' = (overlapping \/ \E c \in Batches : batchPick[c].among # {})
    /\ UNCHANGED <<currentWeight, passedOver, selections>>

(* The claim refused at its boundary: no weight moves. *)
ClaimRefused(b) ==
    /\ batchPick[b].among # {} /\ batchPick' = [batchPick EXCEPT ![b] = NoPick]
    /\ UNCHANGED <<currentWeight, overlapping, passedOver, selections>>

recordProjectDispatchSelection(b) ==
    LET pick == batchPick[b]
    IN  /\ pick.among # {} /\ selections < MaxSelections
        /\ currentWeight' = [p \in Projects |-> IF p \in pick.among THEN pick.next[p]
                                                ELSE currentWeight[p]]
        /\ passedOver' = [p \in Projects |-> IF p \notin pick.among \/ p = pick.selected THEN 0
                                             ELSE passedOver[p] + 1]
        /\ selections' = selections + 1
        /\ batchPick' = [batchPick EXCEPT ![b] = NoPick]
        /\ UNCHANGED overlapping

PickerInit ==
    /\ currentWeight = [p \in Projects |-> 0] /\ batchPick = [b \in Batches |-> NoPick]
    /\ overlapping = FALSE /\ passedOver = [p \in Projects |-> 0] /\ selections = 0

PickerNext ==
    \E b \in Batches :
        \/ \E among \in SUBSET Projects : Pick(b, among)
        \/ ClaimRefused(b)
        \/ recordProjectDispatchSelection(b)

PickerSpec == PickerInit /\ [][PickerNext]_pickerVars

-----------------------------------------------------------------------------
(* While no batch overlaps another the weights stay balanced, whatever      *)
(* Projects come and go: what one gains another pays, so no Project's      *)
(* standing drifts from its share.                                         *)
WeightsBalance == ~overlapping => SumFunctionOnSet(currentWeight, Projects) = 0

(* While no batch overlaps another, a Project that takes part in every     *)
(* selection wins one before the weight it gained exceeds the total weight *)
(* once per other Project, whichever of the others come and go.            *)
(* Overlapping batches overwrite each other's weights, and no such bound   *)
(* holds for them.                                                         *)
NeverPassedOverForLong ==
    ~overlapping => \A p \in Projects :
        passedOver[p] * Weight[p] <= (Len(Order) - 1) * Share(Projects)

(* The standings add up and nobody is starved.                              *)
PickerInvariant == PickerTypeOK /\ WeightsBalance /\ NeverPassedOverForLong
===============================================================================
