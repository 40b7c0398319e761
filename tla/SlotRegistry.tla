----------------------------- MODULE SlotRegistry -----------------------------
(***************************************************************************)
(* What the InFlightRunRegistry promises, without the lifecycle around it: *)
(* a Run holds a slot for its issue, a Routine Firing holds one for itself,*)
(* and slots are handed out within the global and the Project's cap.       *)
(*                                                                         *)
(* A Run's slot is granted on a capacity check made earlier under          *)
(* dispatchMutex, a Firing's on a check made in the same step without it:  *)
(* a Firing may slip in between, so a Run's grant may find the cap reached *)
(* (never exceeded) and leaves it exceeded by one.                         *)
(***************************************************************************)
EXTENDS Naturals, FiniteSets

CONSTANTS Runs, Issues, Projects, ProjectOf, Firings, FiringProject, GlobalCap,
          ProjectCap

VARIABLES held,     \* [subset of Runs -> Issues]
          firings   \* subset of Firings

slotVars == <<held, firings>>

HeldOf(p) == {r \in DOMAIN held : ProjectOf[held[r]] = p}
FiringsIn(p) == {f \in firings : FiringProject[f] = p}
Used == Cardinality(DOMAIN held) + Cardinality(firings)

Init == held = << >> /\ firings = {}

Reserve(r, i) ==
  LET p == ProjectOf[i] IN
  /\ r \notin DOMAIN held
  /\ \A s \in DOMAIN held : held[s] # i
  /\ Cardinality(DOMAIN held) < GlobalCap /\ Used <= GlobalCap
  /\ Cardinality(HeldOf(p)) < ProjectCap[p]
  /\ Cardinality(HeldOf(p)) + Cardinality(FiringsIn(p)) <= ProjectCap[p]
  /\ held' = [s \in DOMAIN held \cup {r} |-> IF s = r THEN i ELSE held[s]]
  /\ UNCHANGED firings

Unregister(r) ==
  /\ r \in DOMAIN held
  /\ held' = [s \in DOMAIN held \ {r} |-> held[s]]
  /\ UNCHANGED firings

ReserveFiring(f) ==
  LET p == FiringProject[f] IN
  /\ f \notin firings /\ Used < GlobalCap
  /\ Cardinality(HeldOf(p)) + Cardinality(FiringsIn(p)) < ProjectCap[p]
  /\ firings' = firings \cup {f}
  /\ UNCHANGED held

UnregisterFiring(f) ==
  /\ f \in firings
  /\ firings' = firings \ {f}
  /\ UNCHANGED held

ProcessEnds == held' = << >> /\ firings' = {}

Next == \/ \E r \in Runs : Unregister(r) \/ \E i \in Issues : Reserve(r, i)
        \/ \E f \in Firings : ReserveFiring(f) \/ UnregisterFiring(f)
        \/ ProcessEnds

Spec == Init /\ [][Next]_slotVars
=============================================================================
