--------------------------- MODULE SupervisionProofs ---------------------------
(***************************************************************************)
(* The loops that look after Runs from outside: PR Follow-up merges no     *)
(* commit that nobody judged and takes nothing from those that own it; the *)
(* sampled Watchdog condemns an attempt only on that attempt's evidence.   *)
(***************************************************************************)
EXTENDS PullRequestFollowup, WatchdogSampling, FiniteSetTheorems, SequenceTheorems, TLAPS

-----------------------------------------------------------------------------
(* PR Follow-up: what a step may change.                                   *)

\* Rows stay in their order; none changes its parent.
RunsMove ==
  /\ runs' \in Seq(RunRow) /\ Len(runs') >= Len(runs)
  /\ \A q \in Rows : runs'[q].parent = runs[q].parent
  /\ \A q \in 1 .. Len(runs') : q \notin Rows => runs'[q].parent < q

NoneStarts ==
  \A q \in 1 .. Len(runs') :
    runs'[q].state = "running" => q \in Rows /\ runs[q].state = "running"

\* A new Run starts where none ran.
OneStarts ==
  /\ ~isIssueReserved
  /\ \A q \in 1 .. Len(runs') : runs'[q].state = "running" => q = Len(runs')

\* Commits are only added, a pull request does not open again, and the head
\* keeps its judgement.
PullMoves ==
  /\ pr' \in Pull /\ pr'.head >= pr.head
  /\ pr.state # "absent" => pr'.state # "absent"
  /\ pr'.state = "open" /\ pr'.head = pr.head
       => pr.state = "open" /\ (pr.vetted => pr'.vetted)

TrackMoves ==
  /\ track' \in TrackRow
  /\ track.state # "absent" => track'.state # "absent"

LEMMA RowTypes ==
  ASSUME FollowupInv
  PROVE  /\ Len(runs) \in Nat
         /\ \A r \in Rows : /\ runs[r] \in RunRow /\ r \in Nat /\ r >= 1
                            /\ runs[r].parent \in Nat /\ runs[r].parent < r
                            /\ runs[r].state \in RunStates /\ runs[r].tries \in Nat
<1>1. runs \in Seq(RunRow) /\ Len(runs) \in Nat
  BY DEF FollowupInv, FollowupRecords
<1>2. ASSUME NEW r \in Rows
      PROVE  runs[r] \in RunRow /\ r \in Nat /\ r >= 1 /\ runs[r].parent < r
  BY <1>1, <1>2 DEF Rows, FollowupInv, ParentsAreOlder
<1>3. ASSUME NEW q \in RunRow
      PROVE  q.parent \in Nat /\ q.state \in RunStates /\ q.tries \in Nat
  BY DEF RunRow
<1>. QED  BY <1>1, <1>2, <1>3

LEMMA RowEdited ==
  ASSUME FollowupInv, NEW r \in Rows, NEW new \in RunRow, new.parent = runs[r].parent,
         runs' = [runs EXCEPT ![r] = new]
  PROVE  /\ RunsMove /\ Len(runs') = Len(runs)
         /\ (new.state = "running" => runs[r].state = "running") => NoneStarts
<1>1. runs \in Seq(RunRow) /\ r \in 1 .. Len(runs)
  BY DEF FollowupInv, FollowupRecords, Rows
<1>2. runs' \in Seq(RunRow) /\ Len(runs') = Len(runs)
  BY <1>1
<1>3. \A q \in Rows : runs'[q] = IF q = r THEN new ELSE runs[q]
  BY <1>1 DEF Rows
<1>. QED  BY <1>1, <1>2, <1>3 DEF RunsMove, NoneStarts, Rows

LEMMA NewRowType ==
  ASSUME NEW state \in RunStates, NEW parent \in Nat, NEW review \in Nat \X Nat
  PROVE  /\ NewRow(state, parent, review) \in RunRow
         /\ NewRow(state, parent, review).state = state
         /\ NewRow(state, parent, review).parent = parent
BY DEF NewRow, RunRow

\* Retiring a chain counts its rows out and touches nothing else.
LEMMA Retired ==
  ASSUME FollowupInv, NEW r, NEW after, after = retirePullRequestDiscoveryChain(r)
  PROVE  /\ after \in Seq(RunRow) /\ Len(after) = Len(runs)
         /\ \A q \in Rows : /\ after[q].state = runs[q].state
                            /\ after[q].parent = runs[q].parent
                            /\ q \in Chain(r) => after[q].tries >= MaxDiscovery
<1>1. runs \in Seq(RunRow) /\ MaxDiscovery \in Nat
  BY FollowupBounds DEF FollowupInv, FollowupRecords
<1>2. ASSUME NEW q \in Rows
      PROVE  /\ after[q] \in RunRow
             /\ after[q].state = runs[q].state /\ after[q].parent = runs[q].parent
             /\ q \in Chain(r) => after[q].tries >= MaxDiscovery
  <2>. DEFINE new == [runs[q] EXCEPT !.tries = MaxDiscovery]
  <2>1. runs[q] \in RunRow /\ runs[q].tries \in Nat
    BY RowTypes
  <2>2. /\ new \in RunRow /\ new.state = runs[q].state /\ new.parent = runs[q].parent
        /\ new.tries = MaxDiscovery
    BY <1>1, <2>1 DEF RunRow
  <2>. HIDE DEF new
  <2>3. after[q] = IF q \in Chain(r) /\ runs[q].tries < MaxDiscovery THEN new ELSE runs[q]
    BY DEF retirePullRequestDiscoveryChain, new
  <2>. QED  BY <1>1, <2>1, <2>2, <2>3
<1>3. after \in [1 .. Len(runs) -> RunRow]
  BY <1>2 DEF retirePullRequestDiscoveryChain, Rows
<1>4. after \in Seq(RunRow) /\ Len(after) = Len(runs)
  BY <1>1, <1>3
<1>. QED  BY <1>2, <1>4

LEMMA RunningStays ==
  ASSUME FollowupInv, RunsMove, NoneStarts \/ OneStarts
  PROVE  OneRunning'
<1>1. CASE NoneStarts
  BY <1>1 DEF NoneStarts, FollowupInv, OneRunning, Rows
<1>2. CASE OneStarts
  BY <1>2 DEF OneStarts, OneRunning, Rows
<1>. QED  BY <1>1, <1>2

-----------------------------------------------------------------------------
(* Passes.                                                                 *)

\* What fitted a pass still fits it after the step.
LEMMA FitsLater ==
  ASSUME FollowupInv, NEW l \in Round, Fits(l), RunsMove, PullMoves, TrackMoves
  PROVE  Fits(l)'
<1>1. Fits(l) /\ l \in Round /\ pr \in Pull /\ runs \in Seq(RunRow)
  BY DEF FollowupInv, FollowupRecords
<1>2. /\ l.todo \subseteq 1 .. Len(runs) /\ l.run \in Nat /\ l.run <= Len(runs)
      /\ l.row.owner \in Nat /\ l.row.followup \in Nat
      /\ l.row.owner <= Len(runs) /\ l.row.followup <= Len(runs)
  BY <1>1 DEF Fits, Rows, Round, TrackRow
<1>3. Len(runs) \in Nat /\ Len(runs') \in Nat /\ Len(runs') >= Len(runs)
  BY <1>1 DEF RunsMove
<1>4. /\ l.todo \subseteq 1 .. Len(runs') /\ l.run <= Len(runs')
      /\ l.row.owner <= Len(runs') /\ l.row.followup <= Len(runs')
  BY <1>2, <1>3
<1>5. pr.head \in Nat /\ pr'.head \in Nat /\ l.seen.head \in Nat
  BY <1>1, FollowupBounds DEF PullMoves, Pull, Round, SeenPull
<1>6. l.seen.head <= pr'.head
  BY <1>1, <1>5 DEF Fits, PullMoves
<1>7. ASSUME l.at \in {"owner", "merging"}, pullRequestReadyToMerge(l.seen),
             pr'.state = "open", pr'.head = l.seen.head
      PROVE  pr'.vetted
  <2>1. pr.head = l.seen.head /\ pr'.head = pr.head
    BY <1>1, <1>5, <1>7 DEF Fits, PullMoves
  <2>. QED  BY <1>1, <1>7, <2>1 DEF Fits, PullMoves
<1>8. /\ l.at \in {"exhausted", "attending"} => l.run # NoRun
      /\ l.at \in Acting => track'.state # "absent"
      /\ l.at = "owner" => l.seen.state # "absent"
      /\ l.at = "merging" => pullRequestReadyToMerge(l.seen)
  BY <1>1 DEF Fits, TrackMoves
<1>. QED  BY <1>4, <1>6, <1>7, <1>8 DEF Fits, Rows

LEMMA PassStays ==
  ASSUME FollowupInv, NEW p \in Passes, round'[p] = round[p],
         RunsMove, PullMoves, TrackMoves
  PROVE  Fits(round[p])'
<1>1. PICK l \in Round : l = round[p] /\ Fits(l)
  BY DEF FollowupInv, FollowupRecords
<1>2. Fits(l)'
  BY <1>1, FitsLater
<1>. QED  BY <1>1, <1>2 DEF Fits

\* A step that leaves the passes alone, or moves one to a place it fits.
LEMMA StepKeeps ==
  ASSUME FollowupInv, RunsMove, NoneStarts \/ OneStarts, PullMoves, PullFits',
         TrackMoves, TrackFits', workflow' = workflow, claimed' \in BOOLEAN,
         \/ round' = round
         \/ \E p \in Passes : \E new \in Round :
              round' = [round EXCEPT ![p] = new] /\ Fits(new)'
  PROVE  FollowupInv'
<1>1. round \in [Passes -> Round]
  BY DEF FollowupInv, FollowupRecords
<1>2. round' \in [Passes -> Round]
  BY <1>1
<1>3. FollowupRecords'
  BY <1>2 DEF FollowupInv, FollowupRecords, RunsMove, PullMoves, TrackMoves
<1>4. ParentsAreOlder'
  BY DEF FollowupInv, ParentsAreOlder, RunsMove, Rows
<1>5. OneRunning'
  BY RunningStays
<1>6. \A p \in Passes : Fits(round[p])'
  BY <1>1, PassStays
<1>. QED  BY <1>3, <1>4, <1>5, <1>6 DEF FollowupInv

LEMMA RunsKept ==
  ASSUME FollowupInv, runs' = runs
  PROVE  RunsMove /\ NoneStarts
BY DEF FollowupInv, FollowupRecords, RunsMove, NoneStarts, Rows

LEMMA PullKept ==
  ASSUME FollowupInv, pr' = pr
  PROVE  PullMoves /\ PullFits'
<1>1. pr \in Pull /\ pr.head \in Nat
  BY FollowupBounds DEF FollowupInv, FollowupRecords, Pull
<1>. QED  BY <1>1 DEF FollowupInv, PullMoves, PullFits, pullRequestReadyToMerge

LEMMA TrackKept ==
  ASSUME FollowupInv, track' = track, RunsMove, PullMoves
  PROVE  TrackMoves /\ TrackFits'
<1>1. track \in TrackRow /\ TrackFits /\ runs \in Seq(RunRow)
  BY DEF FollowupInv, FollowupRecords
<1>2. track.owner \in Nat /\ track.followup \in Nat
  BY <1>1 DEF TrackRow
<1>3. Len(runs) \in Nat /\ Len(runs') \in Nat /\ Len(runs') >= Len(runs)
  BY <1>1 DEF RunsMove
<1>4. track.owner <= Len(runs') /\ track.followup <= Len(runs')
  BY <1>1, <1>2, <1>3 DEF TrackFits
<1>. QED  BY <1>1, <1>4 DEF TrackMoves, TrackFits, PullMoves

\* Pass p moves to what already fits.
LEMMA PassMovesOn ==
  ASSUME FollowupInv, RunsMove, NoneStarts \/ OneStarts, PullMoves, PullFits',
         TrackMoves, TrackFits', workflow' = workflow, claimed' \in BOOLEAN,
         NEW p \in Passes, NEW new \in Round, round' = [round EXCEPT ![p] = new],
         Fits(new)
  PROVE  FollowupInv'
<1>1. Fits(new)'
  BY FitsLater
<1>. QED
  BY <1>1, StepKeeps

\* Only pass p moves, and perhaps the claim is released.
LEMMA PassMoves ==
  ASSUME FollowupInv, NEW p \in Passes, NEW new \in Round,
         round' = [round EXCEPT ![p] = new], Fits(new),
         runs' = runs, pr' = pr, track' = track, workflow' = workflow,
         claimed' \in BOOLEAN
  PROVE  FollowupInv'
<1>. RunsMove /\ NoneStarts /\ PullMoves /\ PullFits' /\ TrackMoves /\ TrackFits'
  BY RunsKept, PullKept, TrackKept
<1>. QED
  BY PassMovesOn

\* An idle pass, or one that goes to give the claim back, fits everywhere.
LEMMA NothingHeld ==
  ASSUME FollowupInv
  PROVE  /\ NoFollowup \in Round /\ Fits(NoFollowup)
         /\ [NoFollowup EXCEPT !.at = "unclaim"] \in Round
         /\ Fits([NoFollowup EXCEPT !.at = "unclaim"])
<1>1. NoTrack \in TrackRow /\ NoTrack.owner = 0 /\ NoTrack.followup = 0
  BY DEF NoTrack, TrackRow, TrackStates, NoRun, NoReview
<1>2. Seen(NoPull) \in SeenPull /\ Seen(NoPull).head = 0 /\ Seen(NoPull).state = "absent"
  BY FollowupBounds DEF Seen, NoPull, SeenPull, PullStates
<1>3. pr.head \in Nat /\ Len(runs) \in Nat
  BY FollowupBounds DEF FollowupInv, FollowupRecords, Pull
<1>4. ASSUME NEW place \in {"idle", "unclaim"}, NEW new, new = [NoFollowup EXCEPT !.at = place]
      PROVE  new \in Round /\ Fits(new)
  <2>1. /\ new.at = place /\ new.todo = {} /\ new.run = 0 /\ new.row = NoTrack
        /\ new.seen = Seen(NoPull) /\ new.next = "idle"
        /\ new \in Round
    BY <1>1, <1>2, <1>4 DEF NoFollowup, Round, PassPlaces, NoRun
  <2>. QED  BY <1>1, <1>2, <1>3, <2>1 DEF Fits, Acting
<1>5. NoFollowup = [NoFollowup EXCEPT !.at = "idle"]
  BY DEF NoFollowup
<1>. QED  BY <1>4, <1>5

\* A pass that goes elsewhere with what it holds.
LEMMA Entered ==
  ASSUME FollowupInv, NEW p \in Passes, NEW where \in PassPlaces \ Acting,
         NEW new, new = [round[p] EXCEPT !.at = where],
         where = "exhausted" => round[p].run # NoRun
  PROVE  new \in Round /\ Fits(new)
<1>1. round[p] \in Round /\ Fits(round[p])
  BY DEF FollowupInv, FollowupRecords
<1>2. new \in Round /\ new.at = where
  BY <1>1 DEF Round
<1>3. /\ new.todo = round[p].todo /\ new.run = round[p].run /\ new.row = round[p].row
      /\ new.seen = round[p].seen
  BY <1>1 DEF Round
<1>. QED  BY <1>1, <1>2, <1>3 DEF Fits, Acting

-----------------------------------------------------------------------------
(* The steps of a pass.                                                    *)

LEMMA PassStartsKeeps ==
  ASSUME FollowupInv, NEW p \in Passes, PassStarts(p)
  PROVE  FollowupInv'
<1>. DEFINE new == [round[p] EXCEPT !.at = "discover",
                                    !.todo = listRunsAwaitingPullRequestDiscovery]
<1>1. round[p] \in Round /\ Fits(round[p])
  BY DEF FollowupInv, FollowupRecords
<1>2. listRunsAwaitingPullRequestDiscovery \subseteq Rows
  BY DEF listRunsAwaitingPullRequestDiscovery
<1>. listRunsAwaitingPullRequestDiscovery \in SUBSET Nat
  BY <1>2 DEF Rows
<1>. "discover" \in PassPlaces
  BY DEF PassPlaces
<1>3. /\ new \in Round /\ new.at = "discover" /\ new.run = round[p].run
      /\ new.todo = listRunsAwaitingPullRequestDiscovery
      /\ new.row = round[p].row /\ new.seen = round[p].seen
  BY <1>1 DEF Round
<1>4. round' = [round EXCEPT ![p] = new]
  BY DEF PassStarts
<1>. HIDE DEF new
<1>5. Fits(new)
  BY <1>1, <1>2, <1>3 DEF Fits, Acting
<1>. QED  BY <1>3, <1>4, <1>5, PassMoves DEF PassStarts, FollowupInv, FollowupRecords

LEMMA TrackedFits ==
  ASSUME FollowupInv, NEW r \in Nat, r # 0
  PROVE  /\ Tracked(r) \in TrackRow /\ Tracked(r).state = "open"
         /\ Tracked(r).owner \in {r, track.owner} /\ Tracked(r).owner # NoRun
         /\ Tracked(r).followup \in {0, track.followup}
<1>1. track \in TrackRow
  BY DEF FollowupInv, FollowupRecords
<1>2. NoTrack \in TrackRow /\ NoTrack.followup = 0
  BY DEF NoTrack, TrackRow, TrackStates, NoRun, NoReview
<1>3. "open" \in TrackStates
  BY DEF TrackStates
<1>4. ASSUME track.owner = NoRun
      PROVE  Tracked(r) = [NoTrack EXCEPT !.state = "open", !.owner = r]
  BY <1>4 DEF Tracked, Reassigns
<1>5. ASSUME track.owner # NoRun, Reassigns(r)
      PROVE  Tracked(r) = [track EXCEPT !.state = "open", !.owner = r, !.followup = NoRun]
  BY <1>5 DEF Tracked
<1>6. ASSUME track.owner # NoRun, ~Reassigns(r)
      PROVE  Tracked(r) = [track EXCEPT !.state = "open"]
  BY <1>6 DEF Tracked
<1>7. CASE track.owner = NoRun
  BY <1>2, <1>3, <1>4, <1>7 DEF TrackRow, NoRun
<1>8. CASE track.owner # NoRun /\ Reassigns(r)
  <2>. DEFINE new == [track EXCEPT !.state = "open", !.owner = r, !.followup = NoRun]
  <2>1. new \in TrackRow
    BY <1>1, <1>3 DEF TrackRow, NoRun
  <2>2. new.state = "open" /\ new.owner = r /\ new.followup = 0
    BY <1>1 DEF TrackRow, NoRun
  <2>. HIDE DEF new
  <2>3. Tracked(r) = new
    BY <1>5, <1>8 DEF new
  <2>. QED  BY <2>1, <2>2, <2>3 DEF NoRun
<1>9. CASE track.owner # NoRun /\ ~Reassigns(r)
  BY <1>1, <1>3, <1>6, <1>9 DEF TrackRow, NoRun
<1>. QED  BY <1>7, <1>8, <1>9

\* trackPullRequest, for a Run of the table.
LEMMA Tracking ==
  ASSUME FollowupInv, NEW r \in Rows, pr.state = "open", pr' = pr, trackPullRequest(r)
  PROVE  /\ RunsMove /\ NoneStarts /\ Len(runs') = Len(runs)
         /\ TrackMoves /\ TrackFits'
<1>1. RunsMove /\ NoneStarts /\ Len(runs') = Len(runs)
  <2>1. CASE runs' = runs
    BY <2>1, RunsKept
  <2>2. CASE runs' = retirePullRequestDiscoveryChain(track.owner)
    BY <2>2, Retired DEF RunsMove, NoneStarts, Rows
  <2>. QED  BY <2>1, <2>2 DEF trackPullRequest
<1>2. r \in Nat /\ r >= 1 /\ r <= Len(runs) /\ Len(runs) \in Nat
  BY RowTypes DEF Rows
<1>3. track \in TrackRow /\ TrackFits
  BY DEF FollowupInv, FollowupRecords
<1>4. track.owner \in Nat /\ track.followup \in Nat
  BY <1>3 DEF TrackRow
<1>5. /\ track' \in TrackRow /\ track'.state = "open" /\ track'.owner # NoRun
      /\ track'.owner \in {r, track.owner} /\ track'.followup \in {0, track.followup}
  BY <1>2, TrackedFits DEF trackPullRequest
<1>. QED  BY <1>1, <1>2, <1>3, <1>4, <1>5 DEF TrackMoves, TrackFits

LEMMA BranchAnsweredKeeps ==
  ASSUME FollowupInv, NEW p \in Passes, NEW r \in Rows, BranchAnswered(p, r)
  PROVE  FollowupInv'
<1>. DEFINE l == round[p]
            less == [l EXCEPT !.todo = @ \ {r}]
            given == [l EXCEPT !.todo = @ \ {r}, !.run = r, !.at = "exhausted"]
<1>1. l \in Round /\ Fits(l) /\ round \in [Passes -> Round] /\ claimed \in BOOLEAN
  BY DEF FollowupInv, FollowupRecords
<1>2. r \in Nat /\ r >= 1 /\ r <= Len(runs)
  BY RowTypes DEF Rows
<1>3. "exhausted" \in PassPlaces
  BY DEF PassPlaces
<1>4. /\ less \in Round /\ less.at = l.at /\ less.todo = l.todo \ {r}
      /\ less.run = l.run /\ less.row = l.row /\ less.seen = l.seen
  BY <1>1 DEF Round
<1>5. /\ given \in Round /\ given.at = "exhausted" /\ given.todo = l.todo \ {r}
      /\ given.run = r /\ given.row = l.row /\ given.seen = l.seen
  BY <1>1, <1>2, <1>3 DEF Round
<1>6. Fits(less) /\ Fits(given)
  <2>. HIDE DEF less, given
  <2>1. l.todo \ {r} \subseteq Rows
    BY <1>1 DEF Fits
  <2>. QED  BY <1>1, <1>2, <1>4, <1>5, <2>1 DEF Fits, Acting, NoRun
<1>7. round' = [round EXCEPT ![p] = less] \/ round' = [round EXCEPT ![p] = given]
  BY DEF BranchAnswered
<1>8. PullMoves /\ PullFits'
  BY PullKept DEF BranchAnswered
<1>9. RunsMove /\ NoneStarts /\ TrackMoves /\ TrackFits'
  <2>1. CASE pr.state = "open"
    BY <2>1, Tracking DEF BranchAnswered
  <2>2. CASE pr.state # "open"
    <3>. DEFINE tried == [runs[r] EXCEPT !.tries = @ + 1]
    <3>1. runs[r] \in RunRow
      BY RowTypes
    <3>2. /\ tried \in RunRow /\ tried.parent = runs[r].parent
          /\ tried.state = runs[r].state
      BY <3>1 DEF RunRow
    <3>3. runs' = [runs EXCEPT ![r] = tried]
      BY <2>2 DEF BranchAnswered, recordPullRequestDiscoveryAttempt
    <3>4. RunsMove /\ NoneStarts
      <4>. HIDE DEF tried
      <4>. QED  BY <3>2, <3>3, RowEdited
    <3>. QED  BY <1>8, <2>2, <3>4, TrackKept DEF BranchAnswered
  <2>. QED  BY <2>1, <2>2
<1>. HIDE DEF less, given
<1>. QED  BY <1>1, <1>4, <1>5, <1>6, <1>7, <1>8, <1>9, PassMovesOn DEF BranchAnswered

LEMMA PassEnds ==
  ASSUME FollowupInv, RunsMove, NoneStarts \/ OneStarts, PullMoves, PullFits',
         TrackMoves, TrackFits', workflow' = workflow, claimed' \in BOOLEAN,
         NEW p \in Passes, Ends(p) \/ Unclaims(p)
  PROVE  FollowupInv'
BY NothingHeld, PassMovesOn, Zenon DEF Ends, Unclaims

\* A pass that moves on with what it holds, to a place where it does not act.
LEMMA PassEnters ==
  ASSUME FollowupInv, NEW p \in Passes, UNCHANGED <<workflow, runs, claimed, pr, track>>,
         NEW new \in Round, Fits(new), round' = [round EXCEPT ![p] = new]
  PROVE  FollowupInv'
BY PassMoves DEF FollowupInv, FollowupRecords

LEMMA QuietEnds ==
  ASSUME FollowupInv, NEW p \in Passes, UNCHANGED <<workflow, runs, pr, track>>,
         claimed' \in BOOLEAN, Ends(p) \/ Unclaims(p)
  PROVE  FollowupInv'
<1>. RunsMove /\ NoneStarts /\ PullMoves /\ PullFits' /\ TrackMoves /\ TrackFits'
  BY RunsKept, PullKept, TrackKept
<1>. QED  BY PassEnds

LEMMA ExhaustedKeeps ==
  ASSUME FollowupInv, NEW p \in Passes, terminalizePullRequestDiscoveryExhausted(p)
  PROVE  FollowupInv'
<1>. DEFINE l == round[p]
            r == l.run
            given == [runs[r] EXCEPT !.state = "blocked"]
            new == [l EXCEPT !.at = "unclaim", !.next = "discover", !.run = NoRun]
<1>1. l \in Round /\ Fits(l) /\ claimed \in BOOLEAN /\ Len(runs) \in Nat
  BY RowTypes DEF FollowupInv, FollowupRecords
<1>2. r \in Rows
  BY <1>1 DEF terminalizePullRequestDiscoveryExhausted, Fits, Round, Rows, NoRun
<1>3. runs[r] \in RunRow /\ "blocked" \in RunStates /\ "unclaim" \in PassPlaces
  BY <1>2, RowTypes DEF RunStates, Terminal, PassPlaces
<1>4. given \in RunRow /\ given.parent = runs[r].parent /\ given.state = "blocked"
  BY <1>3 DEF RunRow
<1>5. /\ new \in Round /\ new.at = "unclaim" /\ new.run = 0 /\ new.todo = l.todo
      /\ new.row = l.row /\ new.seen = l.seen
  BY <1>1, <1>3 DEF Round, NoRun
<1>6. runs' = [runs EXCEPT ![r] = given] /\ round' = [round EXCEPT ![p] = new]
  BY DEF terminalizePullRequestDiscoveryExhausted
<1>. HIDE DEF given, new
<1>7. RunsMove /\ NoneStarts
  BY <1>2, <1>4, <1>6, RowEdited
<1>8. PullMoves /\ PullFits' /\ TrackMoves /\ TrackFits'
  BY <1>7, PullKept, TrackKept DEF terminalizePullRequestDiscoveryExhausted
<1>9. Fits(new)
  BY <1>1, <1>5 DEF Fits, Acting
<1>. QED  BY <1>1, <1>5, <1>6, <1>7, <1>8, <1>9, PassMovesOn
          DEF terminalizePullRequestDiscoveryExhausted

LEMMA ReleaseKeeps ==
  ASSUME FollowupInv, NEW p \in Passes, ReleaseIssueClaim(p)
  PROVE  FollowupInv'
<1>. DEFINE new == [round[p] EXCEPT !.at = "discover", !.next = "idle"]
<1>1. CASE Ends(p)
  BY <1>1, QuietEnds DEF ReleaseIssueClaim
<1>2. CASE round' = [round EXCEPT ![p] = new]
  <2>1. round[p] \in Round /\ Fits(round[p]) /\ "discover" \in PassPlaces
    BY DEF FollowupInv, FollowupRecords, PassPlaces
  <2>2. /\ new \in Round /\ new.at = "discover" /\ new.run = round[p].run
        /\ new.todo = round[p].todo /\ new.row = round[p].row /\ new.seen = round[p].seen
    BY <2>1 DEF Round
  <2>. HIDE DEF new
  <2>3. Fits(new)
    BY <2>1, <2>2 DEF Fits, Acting
  <2>. QED  BY <1>2, <2>2, <2>3, PassMoves DEF ReleaseIssueClaim
<1>. QED  BY <1>1, <1>2 DEF ReleaseIssueClaim

LEMMA ListTrackedKeeps ==
  ASSUME FollowupInv, NEW p \in Passes, ListTracked(p)
  PROVE  FollowupInv'
<1>. DEFINE new == [round[p] EXCEPT !.at = "fetch", !.row = track]
<1>1. CASE Ends(p)
  BY <1>1, QuietEnds DEF ListTracked, FollowupInv, FollowupRecords
<1>2. CASE track.state = "open" /\ round' = [round EXCEPT ![p] = new]
  <2>1. /\ round[p] \in Round /\ Fits(round[p]) /\ "fetch" \in PassPlaces
        /\ track \in TrackRow /\ TrackFits
    BY DEF FollowupInv, FollowupRecords, PassPlaces
  <2>2. /\ new \in Round /\ new.at = "fetch" /\ new.run = round[p].run
        /\ new.todo = round[p].todo /\ new.row = track /\ new.seen = round[p].seen
    BY <2>1 DEF Round
  <2>. HIDE DEF new
  <2>3. Fits(new)
    BY <1>2, <2>1, <2>2 DEF Fits, TrackFits, Acting
  <2>. QED  BY <1>2, <2>2, <2>3, PassEnters DEF ListTracked
<1>. QED  BY <1>1, <1>2 DEF ListTracked

LEMMA StateAnsweredKeeps ==
  ASSUME FollowupInv, NEW p \in Passes, StateAnswered(p)
  PROVE  FollowupInv'
<1>. DEFINE new == [round[p] EXCEPT !.at = "owner", !.seen = Seen(pr)]
<1>1. /\ round[p] \in Round /\ Fits(round[p]) /\ "owner" \in PassPlaces
      /\ pr \in Pull /\ TrackFits /\ PullFits
  BY DEF FollowupInv, FollowupRecords, PassPlaces
<1>2. /\ Seen(pr) \in SeenPull /\ Seen(pr).state = pr.state /\ Seen(pr).head = pr.head
      /\ Seen(pr).green = pr.green /\ Seen(pr).talk = pr.talk
  BY <1>1 DEF Seen, SeenPull, Pull
<1>3. /\ new \in Round /\ new.at = "owner" /\ new.run = round[p].run
      /\ new.todo = round[p].todo /\ new.row = round[p].row /\ new.seen = Seen(pr)
  BY <1>1, <1>2 DEF Round
<1>4. round' = [round EXCEPT ![p] = new]
  BY DEF StateAnswered
<1>. HIDE DEF new
<1>5. track.state # "absent"
  BY <1>1 DEF StateAnswered, Fits, Acting
<1>6. pr.head <= pr.head
  BY <1>1, FollowupBounds DEF Pull
<1>7. Fits(new)
  BY <1>1, <1>2, <1>3, <1>5, <1>6
  DEF Fits, Acting, TrackFits, PullFits, pullRequestReadyToMerge
<1>. QED  BY <1>3, <1>4, <1>7, PassEnters DEF StateAnswered

LEMMA GitHubFailsKeeps ==
  ASSUME FollowupInv, NEW p \in Passes, GitHubFails(p)
  PROVE  FollowupInv'
<1>1. CASE Ends(p)
  BY <1>1, QuietEnds DEF GitHubFails, FollowupInv, FollowupRecords
<1>2. CASE \E r \in round[p].todo : round' = [round EXCEPT ![p].todo = @ \ {r}]
  <2>. PICK r \in round[p].todo : round' = [round EXCEPT ![p].todo = @ \ {r}]
    BY <1>2
  <2>. DEFINE new == [round[p] EXCEPT !.todo = @ \ {r}]
  <2>1. round[p] \in Round /\ Fits(round[p])
    BY DEF FollowupInv, FollowupRecords
  <2>2. /\ new \in Round /\ new.at = round[p].at /\ new.run = round[p].run
        /\ new.todo = round[p].todo \ {r}
        /\ new.row = round[p].row /\ new.seen = round[p].seen
    BY <2>1 DEF Round
  <2>3. round' = [round EXCEPT ![p] = new]
    OBVIOUS
  <2>. HIDE DEF new
  <2>4. Fits(new)
    BY <2>1, <2>2 DEF Fits
  <2>. QED  BY <2>2, <2>3, <2>4, PassEnters DEF GitHubFails
<1>. QED  BY <1>1, <1>2 DEF GitHubFails

\* What was seen of a pull request that exists is recorded.
LEMMA Observed ==
  ASSUME FollowupInv, NEW p \in Passes, round[p].at = "owner",
         recordPullRequestObservation(round[p].seen), RunsMove, pr' = pr
  PROVE  TrackMoves /\ TrackFits'
<1>1. /\ round[p] \in Round /\ Fits(round[p]) /\ track \in TrackRow /\ TrackFits
      /\ Len(runs) \in Nat
  BY RowTypes DEF FollowupInv, FollowupRecords
<1>2. Observation(round[p].seen) \in TrackStates \ {"absent"}
  <2>1. round[p].seen.state \in PullStates \ {"absent"}
    BY <1>1 DEF Fits, Round, SeenPull
  <2>. QED  BY <2>1 DEF Observation, PullStates, TrackStates
<1>3. /\ track' \in TrackRow /\ track'.state = Observation(round[p].seen)
      /\ track'.owner = track.owner /\ track'.followup = track.followup
  BY <1>1, <1>2 DEF recordPullRequestObservation, TrackRow
<1>4. track.state # "absent"
  BY <1>1 DEF Fits, Acting
<1>5. track.owner \in Nat /\ track.followup \in Nat /\ Len(runs') \in Nat
      /\ Len(runs') >= Len(runs)
  BY <1>1 DEF TrackRow, RunsMove
<1>. QED  BY <1>1, <1>2, <1>3, <1>4, <1>5 DEF TrackMoves, TrackFits

LEMMA OwnerAnsweredKeeps ==
  ASSUME FollowupInv, NEW p \in Passes, OwnerAnswered(p)
  PROVE  FollowupInv'
<1>1. RunsMove /\ NoneStarts /\ PullMoves /\ PullFits' /\ claimed \in BOOLEAN
  BY RunsKept, PullKept DEF OwnerAnswered, FollowupInv, FollowupRecords
<1>2. TrackMoves /\ TrackFits'
  BY <1>1, Observed DEF OwnerAnswered
<1>3. CASE Ends(p) \/ Unclaims(p)
  BY <1>1, <1>2, <1>3, PassEnds DEF OwnerAnswered
<1>4. CASE \/ Enter(p, "followup")
           \/ Enter(p, "merging") /\ pullRequestReadyToMerge(round[p].seen)
  <2>1. PICK where \in {"followup", "merging"} :
          /\ Enter(p, where)
          /\ where = "merging" => pullRequestReadyToMerge(round[p].seen)
    BY <1>4
  <2>. DEFINE new == [round[p] EXCEPT !.at = where]
  <2>2. round[p] \in Round /\ Fits(round[p]) /\ where \in PassPlaces
    BY <2>1 DEF FollowupInv, FollowupRecords, PassPlaces
  <2>3. /\ new \in Round /\ new.at = where /\ new.run = round[p].run
        /\ new.todo = round[p].todo /\ new.row = round[p].row /\ new.seen = round[p].seen
    BY <2>2 DEF Round
  <2>4. round' = [round EXCEPT ![p] = new]
    BY <2>1 DEF Enter
  <2>. HIDE DEF new
  <2>5. round[p].at = "owner"
    BY DEF OwnerAnswered
  <2>6. Fits(new)
    BY <2>1, <2>2, <2>3, <2>5 DEF Fits, Acting
  <2>. QED  BY <1>1, <1>2, <2>3, <2>4, <2>6, PassMovesOn DEF OwnerAnswered
<1>. QED  BY <1>3, <1>4 DEF OwnerAnswered, ActsOnResolved, ActsOnOpen

LEMMA MergeAnsweredKeeps ==
  ASSUME FollowupInv, NEW p \in Passes, MergeAnswered(p)
  PROVE  FollowupInv'
<1>1. /\ round[p] \in Round /\ Fits(round[p]) /\ pr \in Pull /\ claimed \in BOOLEAN
      /\ RunsMove /\ NoneStarts
  BY RunsKept DEF MergeAnswered, FollowupInv, FollowupRecords
<1>2. CASE MergeAllowed(p)
  <2>. DEFINE new == [round[p] EXCEPT !.at = "merged"]
              taken == [pr EXCEPT !.state = "merged", !.by = "loop"]
  <2>1. pr' = taken /\ round' = [round EXCEPT ![p] = new]
    BY <1>2 DEF MergeAnswered, Enter
  <2>2. pr.vetted = TRUE
    <3>1. pr.vetted
      BY <1>1, <1>2 DEF MergeAnswered, MergeAllowed, HeadIsPinned, Fits
    <3>. QED  BY <1>1, <3>1 DEF Pull
  <2>3. /\ taken \in Pull /\ taken.state = "merged" /\ taken.by = "loop"
        /\ taken.head = pr.head /\ taken.vetted = pr.vetted /\ pr.head \in Nat
    <3>1. "merged" \in PullStates
      BY DEF PullStates
    <3>2. taken \in Pull
      BY <1>1, <3>1 DEF Pull
    <3>3. pr.head \in Nat
      BY <1>1, FollowupBounds DEF Pull
    <3>. QED  BY <1>1, <3>2, <3>3 DEF Pull
  <2>4. "merged" \in PassPlaces
    BY DEF PassPlaces
  <2>5. /\ new \in Round /\ new.at = "merged" /\ new.run = round[p].run
        /\ new.todo = round[p].todo /\ new.row = round[p].row /\ new.seen = round[p].seen
    BY <1>1, <2>4 DEF Round
  <2>. HIDE DEF new, taken
  <2>6. PullMoves /\ PullFits'
    BY <2>1, <2>2, <2>3 DEF PullMoves, PullFits, pullRequestReadyToMerge
  <2>7. Fits(new)
    BY <1>1, <2>5 DEF Fits, Acting, MergeAnswered
  <2>8. TrackMoves /\ TrackFits'
    BY <1>1, <2>6, TrackKept DEF MergeAnswered
  <2>. QED  BY <1>1, <2>1, <2>5, <2>6, <2>7, <2>8, PassMovesOn DEF MergeAnswered
<1>3. CASE ~MergeAllowed(p)
  BY <1>1, <1>3, QuietEnds DEF MergeAnswered
<1>. QED  BY <1>2, <1>3

LEMMA MergeRecordedKeeps ==
  ASSUME FollowupInv, NEW p \in Passes, MergeRecorded(p)
  PROVE  FollowupInv'
<1>1. RunsMove /\ NoneStarts /\ PullMoves /\ PullFits' /\ claimed \in BOOLEAN
  BY RunsKept, PullKept DEF MergeRecorded, FollowupInv, FollowupRecords
<1>2. /\ round[p] \in Round /\ Fits(round[p]) /\ track \in TrackRow /\ TrackFits
      /\ "merged" \in TrackStates
  BY DEF FollowupInv, FollowupRecords, TrackStates
<1>3. /\ track' \in TrackRow /\ track'.state = "merged"
      /\ track'.owner = track.owner /\ track'.followup = track.followup
  BY <1>2 DEF MergeRecorded, TrackRow
<1>4. track.state # "absent"
  BY <1>2 DEF Fits, Acting, MergeRecorded
<1>5. TrackMoves /\ TrackFits'
  BY <1>2, <1>3, <1>4 DEF TrackMoves, TrackFits, MergeRecorded
<1>. QED  BY <1>1, <1>5, PassEnds DEF MergeRecorded

LEMMA ReviewRecordedKeeps ==
  ASSUME FollowupInv, NEW p \in Passes, recordPullRequestReviewDispatch(p)
  PROVE  FollowupInv'
<1>. DEFINE seen == round[p].seen
            new == [track EXCEPT !.review = Fingerprint(seen), !.count = @ + 1,
                                 !.followup = round[p].run]
<1>1. RunsMove /\ NoneStarts /\ PullMoves /\ PullFits' /\ claimed \in BOOLEAN
  BY RunsKept, PullKept DEF recordPullRequestReviewDispatch, FollowupInv, FollowupRecords
<1>2. /\ round[p] \in Round /\ Fits(round[p]) /\ track \in TrackRow /\ TrackFits
  BY DEF FollowupInv, FollowupRecords
<1>3. Fingerprint(seen) \in Nat \X Nat
  BY <1>2, FollowupBounds DEF Fingerprint, Round, SeenPull
<1>4. /\ new \in TrackRow /\ new.state = track.state /\ new.owner = track.owner
      /\ new.followup = round[p].run
  <2>. DEFINE Prints == Nat \X Nat
  <2>1. track \in [state : TrackStates, owner : Nat, followup : Nat, count : Nat,
                   review : Prints]
    BY <1>2 DEF TrackRow
  <2>2. round[p].run \in Nat /\ Fingerprint(seen) \in Prints
    BY <1>2, <1>3 DEF Round
  <2>. HIDE DEF Prints
  <2>. DEFINE print == Fingerprint(seen)
  <2>. HIDE DEF print
  <2>5. track.count + 1 \in Nat
    BY <2>1
  <2>6. new = [track EXCEPT !.review = print, !.count = track.count + 1,
                            !.followup = round[p].run]
    BY DEF print
  <2>7. print \in Prints
    BY <2>2 DEF print
  <2>3. new \in [state : TrackStates, owner : Nat, followup : Nat, count : Nat,
                 review : Prints]
    BY <2>1, <2>2, <2>5, <2>6, <2>7
  <2>4. new.state = track.state /\ new.owner = track.owner /\ new.followup = round[p].run
    BY <2>1
  <2>. QED  BY <2>3, <2>4 DEF TrackRow, Prints
<1>5. track' = new
  BY DEF recordPullRequestReviewDispatch
<1>. HIDE DEF new
<1>6. TrackMoves /\ TrackFits'
  BY <1>2, <1>4, <1>5 DEF TrackMoves, TrackFits, Fits, recordPullRequestReviewDispatch
<1>. QED  BY <1>1, <1>6, PassEnds DEF recordPullRequestReviewDispatch

\* A new Run begins where none was in flight.
LEMMA RunAdded ==
  ASSUME FollowupInv, NEW rs \in Seq(RunRow), Len(rs) = Len(runs),
         \A q \in Rows : rs[q].parent = runs[q].parent,
         \A q \in Rows : rs[q].state = "running" => runs[q].state = "running",
         NEW new \in RunRow, new.parent <= Len(runs), runs' = Append(rs, new)
  PROVE  /\ RunsMove /\ Len(runs') = Len(runs) + 1
         /\ ~isIssueReserved => OneStarts
         /\ new.state # "running" => NoneStarts
<1>1. Len(runs) \in Nat /\ new.parent \in Nat
  BY RowTypes DEF RunRow
<1>2. runs' \in Seq(RunRow) /\ Len(runs') = Len(runs) + 1
  BY <1>1
<1>3. /\ \A q \in 1 .. Len(runs') : q \in Rows \/ q = Len(runs) + 1
      /\ \A q \in Rows : runs'[q] = rs[q]
      /\ runs'[Len(runs) + 1] = new
  BY <1>1, <1>2 DEF Rows
<1>4. Len(runs) + 1 \notin Rows
  BY <1>1 DEF Rows
<1>5. RunsMove
  <2>1. \A q \in 1 .. Len(runs') : q \notin Rows => runs'[q].parent < q
    BY <1>1, <1>3
  <2>2. Len(runs') >= Len(runs)
    BY <1>1, <1>2
  <2>3. \A q \in Rows : runs'[q].parent = runs[q].parent
    BY <1>3
  <2>. QED  BY <1>2, <2>1, <2>2, <2>3 DEF RunsMove
<1>6. ~isIssueReserved => OneStarts
  BY <1>2, <1>3 DEF OneStarts, isIssueReserved
<1>7. new.state # "running" => NoneStarts
  BY <1>2, <1>3 DEF NoneStarts
<1>. QED  BY <1>2, <1>5, <1>6, <1>7

LEMMA ReviewDispatchedKeeps ==
  ASSUME FollowupInv, NEW p \in Passes, ReviewDispatched(p)
  PROVE  FollowupInv'
<1>1. CASE ClaimRefused
  BY <1>1, QuietEnds DEF ReviewDispatched, FollowupInv, FollowupRecords
<1>2. CASE ~ClaimRefused
  <2>. DEFINE l == round[p]
              born == NewRow("running", FollowupParent(l.row), Fingerprint(l.seen))
              moved == [l EXCEPT !.at = "attending", !.run = Len(runs) + 1]
  <2>1. /\ l \in Round /\ Fits(l) /\ runs \in Seq(RunRow) /\ Len(runs) \in Nat
        /\ l.row \in TrackRow /\ l.seen \in SeenPull
    BY RowTypes DEF FollowupInv, FollowupRecords, Round
  <2>2. FollowupParent(l.row) \in Nat /\ FollowupParent(l.row) <= Len(runs)
    BY <2>1 DEF FollowupParent, TrackRow, Fits
  <2>3. Fingerprint(l.seen) \in Nat \X Nat
    BY <2>1, FollowupBounds DEF Fingerprint, SeenPull
  <2>4. "running" \in RunStates /\ "attending" \in PassPlaces
    BY DEF RunStates, PassPlaces
  <2>5. born \in RunRow /\ born.parent <= Len(runs)
    BY <2>2, <2>3, <2>4, NewRowType
  <2>6. /\ moved \in Round /\ moved.at = "attending" /\ moved.run = Len(runs) + 1
        /\ moved.todo = l.todo /\ moved.row = l.row /\ moved.seen = l.seen
    <3>1. Len(runs) + 1 \in Nat
      BY <2>1
    <3>. QED  BY <2>1, <2>4, <3>1 DEF Round
  <2>7. runs' = Append(runs, born) /\ round' = [round EXCEPT ![p] = moved]
    BY <1>2 DEF ReviewDispatched
  <2>. HIDE DEF moved
  <2>. PICK new \in Round, k \in Round :
         /\ new.at = "attending" /\ new.run = Len(runs) + 1 /\ new.todo = k.todo
         /\ new.row = k.row /\ new.seen = k.seen /\ k = l
         /\ round' = [round EXCEPT ![p] = new]
    BY <2>1, <2>6, <2>7
  <2>8. ~isIssueReserved
    BY <1>2 DEF ClaimRefused
  <2>. HIDE DEF born
  <2>9. RunsMove /\ OneStarts /\ Len(runs') = Len(runs) + 1
    BY <2>1, <2>5, <2>7, <2>8, RunAdded
  <2>10. PullMoves /\ PullFits' /\ TrackMoves /\ TrackFits'
    BY <2>9, PullKept, TrackKept DEF ReviewDispatched
  <2>11. Fits(new)'
    <3>1. Fits(k)'
      BY <2>1, <2>9, <2>10, FitsLater
    <3>2. track'.state # "absent"
      BY <2>1 DEF Fits, Acting, ReviewDispatched
    <3>3. new.run <= Len(runs') /\ new.run # 0
      BY <2>1, <2>9
    <3>. QED  BY <3>1, <3>2, <3>3 DEF Fits, NoRun
  <2>12. workflow' = workflow /\ claimed' \in BOOLEAN
    BY <1>2 DEF ReviewDispatched
  <2>. QED  BY <2>9, <2>10, <2>11, <2>12, StepKeeps
<1>. QED  BY <1>1, <1>2

-----------------------------------------------------------------------------
(* The Runs.                                                               *)

\* A step of the Runs that leaves the pull request and its row alone.
LEMMA RunsAlone ==
  ASSUME FollowupInv, RunsMove, NoneStarts \/ OneStarts,
         UNCHANGED <<workflow, pr, track, round>>, claimed' \in BOOLEAN
  PROVE  FollowupInv'
<1>. PullMoves /\ PullFits' /\ TrackMoves /\ TrackFits'
  BY PullKept, TrackKept
<1>. QED  BY StepKeeps

\* A row whose Run goes to another state, and the row with a merge refused.
LEMMA StateSet ==
  ASSUME FollowupInv, NEW r \in Rows, NEW state \in RunStates
  PROVE  /\ [runs[r] EXCEPT !.state = state] \in RunRow
         /\ [runs[r] EXCEPT !.state = state].state = state
         /\ [runs[r] EXCEPT !.state = state].parent = runs[r].parent
         /\ [runs[r] EXCEPT !.state = state, !.refused = TRUE] \in RunRow
         /\ [runs[r] EXCEPT !.state = state, !.refused = TRUE].state = state
         /\ [runs[r] EXCEPT !.state = state, !.refused = TRUE].parent = runs[r].parent
<1>1. runs[r] \in RunRow
  BY RowTypes
<1>2. [runs[r] EXCEPT !.state = state] \in RunRow
  BY <1>1 DEF RunRow
<1>3. /\ [runs[r] EXCEPT !.state = state].state = state
      /\ [runs[r] EXCEPT !.state = state].parent = runs[r].parent
  BY <1>1 DEF RunRow
<1>4. [runs[r] EXCEPT !.state = state, !.refused = TRUE] \in RunRow
  BY <1>1 DEF RunRow
<1>5. /\ [runs[r] EXCEPT !.state = state, !.refused = TRUE].state = state
      /\ [runs[r] EXCEPT !.state = state, !.refused = TRUE].parent = runs[r].parent
  BY <1>1 DEF RunRow
<1>. QED  BY <1>2, <1>3, <1>4, <1>5

LEMMA RunEnds ==
  ASSUME FollowupInv, NEW r \in Rows, NEW state \in RunStates \ {"running"},
         \/ runs' = [runs EXCEPT ![r].state = state]
         \/ runs' = [runs EXCEPT ![r].state = state, ![r].refused = TRUE]
  PROVE  RunsMove /\ NoneStarts
<1>1. \E new \in RunRow : /\ new.parent = runs[r].parent /\ new.state = state
                          /\ runs' = [runs EXCEPT ![r] = new]
  <2>1. CASE runs' = [runs EXCEPT ![r].state = state]
    <3>. DEFINE new == [runs[r] EXCEPT !.state = state]
    <3>1. new \in RunRow /\ new.parent = runs[r].parent /\ new.state = state
      BY StateSet
    <3>2. runs' = [runs EXCEPT ![r] = new]
      BY <2>1
    <3>. HIDE DEF new
    <3>. QED  BY <3>1, <3>2
  <2>2. CASE runs' = [runs EXCEPT ![r].state = state, ![r].refused = TRUE]
    <3>. DEFINE new == [runs[r] EXCEPT !.state = state, !.refused = TRUE]
    <3>1. new \in RunRow /\ new.parent = runs[r].parent /\ new.state = state
      BY StateSet
    <3>2. runs \in Seq(RunRow) /\ r \in DOMAIN runs
      BY DEF FollowupInv, FollowupRecords, Rows
    <3>3. runs' = [runs EXCEPT ![r] = new]
      BY <2>2, <3>2
    <3>. HIDE DEF new
    <3>. QED  BY <3>1, <3>3
  <2>. QED  BY <2>1, <2>2
<1>. QED  BY <1>1, RowEdited

LEMMA RunStepKeeps ==
  ASSUME FollowupInv, NEW r \in Rows, RunStep(r) \/ WalkEnds(r)
  PROVE  FollowupInv'
<1>1. \E state \in {"settling", "succeeded", "failed", "waiting", "cancelled", "blocked"} :
        \/ runs' = [runs EXCEPT ![r].state = state]
        \/ runs' = [runs EXCEPT ![r].state = state, ![r].refused = TRUE]
  BY DEF RunStep, RunReturns, RunSettles, WalkEnds
<1>2. {"settling", "succeeded", "failed", "waiting", "cancelled", "blocked"}
        \subseteq RunStates \ {"running"}
  BY DEF RunStates, Terminal
<1>3. RunsMove /\ NoneStarts
  BY <1>1, <1>2, RunEnds
<1>4. UNCHANGED <<workflow, pr, track, round>> /\ claimed' \in BOOLEAN
  BY DEF RunStep, RunReturns, RunSettles, WalkEnds, FollowupInv, FollowupRecords
<1>. QED  BY <1>3, <1>4, RunsAlone

LEMMA WalkAdvancesKeeps ==
  ASSUME FollowupInv, NEW r \in Rows, WalkAdvances(r)
  PROVE  FollowupInv'
<1>. DEFINE rs == [runs EXCEPT ![r].state = "succeeded"]
            done == [runs[r] EXCEPT !.state = "succeeded"]
            born == NewRow("running", r, NoReview)
<1>1. runs \in Seq(RunRow) /\ r \in Nat /\ r <= Len(runs) /\ Len(runs) \in Nat
  BY RowTypes DEF FollowupInv, FollowupRecords, Rows
<1>2. "succeeded" \in RunStates /\ "running" \in RunStates
  BY DEF RunStates, Terminal
<1>3. done \in RunRow /\ done.parent = runs[r].parent /\ done.state = "succeeded"
  BY <1>2, StateSet
<1>4. born \in RunRow /\ born.parent = r
  BY <1>1, <1>2, NewRowType DEF NoReview
<1>5. rs = [runs EXCEPT ![r] = done]
  OBVIOUS
<1>6. runs' = Append(rs, born) /\ ~isIssueReserved
  BY DEF WalkAdvances
<1>. HIDE DEF rs, done, born
<1>7. /\ rs \in Seq(RunRow) /\ Len(rs) = Len(runs)
      /\ \A q \in Rows : rs[q] = IF q = r THEN done ELSE runs[q]
  BY <1>1, <1>3, <1>5 DEF Rows
<1>8. RunsMove /\ OneStarts
  BY <1>1, <1>3, <1>4, <1>6, <1>7, RunAdded
<1>. QED  BY <1>8, RunsAlone DEF WalkAdvances, FollowupInv, FollowupRecords

LEMMA FreshDispatchKeeps ==
  ASSUME FollowupInv, FreshDispatch
  PROVE  FollowupInv'
<1>. DEFINE born == NewRow("running", NoRun, NoReview)
<1>1. born \in RunRow /\ born.parent = 0
  BY NewRowType DEF NoReview, NoRun, RunStates
<1>2. runs \in Seq(RunRow) /\ Len(runs) \in Nat
  BY DEF FollowupInv, FollowupRecords
<1>3. runs' = Append(runs, born) /\ ~isIssueReserved
  BY DEF FreshDispatch
<1>. HIDE DEF born
<1>4. RunsMove /\ OneStarts
  BY <1>1, <1>2, <1>3, RunAdded
<1>. QED  BY <1>4, RunsAlone DEF FreshDispatch

LEMMA AdoptKeeps ==
  ASSUME FollowupInv, AdoptPullRequest
  PROVE  FollowupInv'
<1>. DEFINE r == Len(runs) + 1
            rs == IF Reassigns(r) THEN retirePullRequestDiscoveryChain(track.owner) ELSE runs
            born == NewRow("waiting", NoRun, NoReview)
            row == [Tracked(r) EXCEPT !.owner = r, !.followup = NoRun]
<1>1. born \in RunRow /\ born.parent = 0 /\ born.state = "waiting"
  BY NewRowType DEF NoReview, NoRun, RunStates
<1>2. runs \in Seq(RunRow) /\ Len(runs) \in Nat /\ r \in Nat /\ r # 0
  BY DEF FollowupInv, FollowupRecords
<1>3. /\ rs \in Seq(RunRow) /\ Len(rs) = Len(runs)
      /\ \A q \in Rows : rs[q].parent = runs[q].parent /\ rs[q].state = runs[q].state
  BY <1>2, Retired
<1>4. runs' = Append(rs, born) /\ track' = row
  BY DEF AdoptPullRequest
<1>5. Tracked(r) \in TrackRow /\ Tracked(r).state = "open"
  BY <1>2, TrackedFits
<1>6. row \in TrackRow /\ row.state = "open" /\ row.owner = r /\ row.followup = 0
  BY <1>2, <1>5 DEF TrackRow, NoRun
<1>. HIDE DEF rs, born, row
<1>7. RunsMove /\ NoneStarts /\ Len(runs') = r
  BY <1>1, <1>2, <1>3, <1>4, RunAdded
<1>8. PullMoves /\ PullFits' /\ pr.state = "open" /\ pr' = pr
  BY PullKept DEF AdoptPullRequest
<1>9. TrackMoves /\ TrackFits'
  BY <1>2, <1>4, <1>6, <1>7, <1>8 DEF TrackMoves, TrackFits, NoRun
<1>. QED  BY <1>7, <1>8, <1>9, StepKeeps DEF AdoptPullRequest

LEMMA CrashKeeps ==
  ASSUME FollowupInv, Crash
  PROVE  FollowupInv'
<1>1. runs \in Seq(RunRow) /\ Len(runs) \in Nat /\ "stale" \in RunStates
  BY DEF FollowupInv, FollowupRecords, RunStates, Terminal
<1>2. ASSUME NEW q \in Rows
      PROVE  /\ runs'[q] \in RunRow /\ runs'[q].parent = runs[q].parent
             /\ runs'[q].state # "running"
  <2>1. CASE runs[q].state \in {"running", "settling"}
    <3>. DEFINE new == [runs[q] EXCEPT !.state = "stale"]
    <3>1. new \in RunRow /\ new.parent = runs[q].parent /\ new.state = "stale"
      BY <1>1, StateSet
    <3>2. runs'[q] = new
      BY <2>1 DEF Crash
    <3>. HIDE DEF new
    <3>. QED  BY <3>1, <3>2
  <2>2. CASE runs[q].state \notin {"running", "settling"}
    <3>1. runs'[q] = runs[q]
      BY <2>2 DEF Crash
    <3>. QED  BY <2>2, <3>1, RowTypes
  <2>. QED  BY <2>1, <2>2
<1>3. runs' \in [1 .. Len(runs) -> RunRow]
  BY <1>2 DEF Crash, Rows
<1>4. runs' \in Seq(RunRow) /\ Len(runs') = Len(runs)
  BY <1>1, <1>3
<1>5. RunsMove /\ NoneStarts
  BY <1>1, <1>2, <1>4 DEF RunsMove, NoneStarts, Rows
<1>6. PullMoves /\ PullFits' /\ TrackMoves /\ TrackFits'
  BY <1>5, PullKept, TrackKept DEF Crash
<1>7. round' \in [Passes -> Round] /\ \A p \in Passes : round'[p] = NoFollowup
  BY NothingHeld DEF Crash
<1>8. Fits(NoFollowup)'
  <2>1. PICK k \in Round : k = NoFollowup /\ Fits(k)
    BY NothingHeld
  <2>2. Fits(k)'
    BY <1>5, <1>6, <2>1, FitsLater
  <2>. QED  BY <2>1, <2>2
<1>9. \A p \in Passes : Fits(round[p])'
  BY <1>7, <1>8 DEF Fits
<1>10. ParentsAreOlder'
  BY <1>5, <1>4 DEF FollowupInv, ParentsAreOlder, RunsMove, Rows
<1>11. OneRunning'
  BY <1>5, RunningStays
<1>12. FollowupRecords'
  BY <1>5, <1>6, <1>7
  DEF Crash, FollowupInv, FollowupRecords, RunsMove, PullMoves, TrackMoves
<1>. QED  BY <1>6, <1>9, <1>10, <1>11, <1>12 DEF FollowupInv

-----------------------------------------------------------------------------
(* GitHub, and a walk that merges.                                         *)

\* A step of the pull request alone.
LEMMA PullAlone ==
  ASSUME FollowupInv, PullMoves, PullFits', UNCHANGED <<workflow, runs, claimed, track, round>>
  PROVE  FollowupInv'
<1>. RunsMove /\ NoneStarts
  BY RunsKept
<1>. TrackMoves /\ TrackFits'
  BY TrackKept
<1>. QED  BY StepKeeps DEF FollowupInv, FollowupRecords

LEMMA Vetted ==
  ASSUME NEW q \in Pull
  PROVE  /\ Vet(q) \in Pull /\ Vet(q).state = q.state /\ Vet(q).head = q.head
         /\ Vet(q).by = q.by /\ (q.vetted => Vet(q).vetted)
         /\ pullRequestReadyToMerge(Vet(q)) => Vet(q).vetted
<1>. DEFINE ready == pullRequestReadyToMerge(q)
            seen == q.vetted \/ ready
<1>1. seen \in BOOLEAN
  OBVIOUS
<1>2. Vet(q) = [q EXCEPT !.vetted = seen]
  BY DEF Vet
<1>. HIDE DEF seen
<1>3. /\ Vet(q) \in Pull /\ Vet(q).state = q.state /\ Vet(q).head = q.head
      /\ Vet(q).by = q.by /\ Vet(q).green = q.green /\ Vet(q).talk = q.talk
      /\ Vet(q).vetted = seen
  BY <1>1, <1>2 DEF Pull
<1>. QED  BY <1>3 DEF seen, pullRequestReadyToMerge

LEMMA ReviewKeeps ==
  ASSUME FollowupInv, ChecksReport \/ ReviewerActs \/ ReviewerResolves
  PROVE  FollowupInv'
<1>1. pr \in Pull /\ PullFits /\ pr.state = "open"
  BY DEF FollowupInv, FollowupRecords, ChecksReport, ReviewerActs, ReviewerResolves
<1>2. pr.head \in Nat /\ pr.by # "loop"
  BY <1>1, FollowupBounds DEF Pull, PullFits
<1>3. CASE \E q \in Pull : /\ q.state = "open" /\ q.head = pr.head /\ q.by = pr.by
                           /\ q.vetted = pr.vetted /\ pr' = Vet(q)
  <2>1. PICK q \in Pull : /\ q.state = "open" /\ q.head = pr.head /\ q.by = pr.by
                          /\ q.vetted = pr.vetted /\ pr' = Vet(q)
    BY <1>3
  <2>2. PullMoves /\ PullFits'
    BY <1>1, <1>2, <2>1, Vetted DEF PullMoves, PullFits
  <2>. QED  BY <2>2, PullAlone DEF ChecksReport, ReviewerActs, ReviewerResolves
<1>4. CASE ChecksReport
  <2>. DEFINE q == [pr EXCEPT !.green = TRUE]
  <2>1. /\ q \in Pull /\ q.state = pr.state /\ q.head = pr.head /\ q.by = pr.by
        /\ q.vetted = pr.vetted
    BY <1>1 DEF Pull
  <2>2. pr' = Vet(q)
    BY <1>4 DEF ChecksReport
  <2>. HIDE DEF q
  <2>. QED  BY <1>1, <1>3, <2>1, <2>2
<1>5. CASE ReviewerResolves
  <2>. DEFINE q == [pr EXCEPT !.talk = 0]
  <2>1. /\ q \in Pull /\ q.state = pr.state /\ q.head = pr.head /\ q.by = pr.by
        /\ q.vetted = pr.vetted
    BY <1>1 DEF Pull
  <2>2. pr' = Vet(q)
    BY <1>5 DEF ReviewerResolves
  <2>. HIDE DEF q
  <2>. QED  BY <1>1, <1>3, <2>1, <2>2
<1>6. CASE ReviewerActs
  <2>. DEFINE more == pr.said + 1
              new == [pr EXCEPT !.talk = more, !.said = more]
  <2>1. more \in Nat /\ more # 0
    BY <1>1 DEF Pull
  <2>2. pr' = new
    BY <1>1, <1>6 DEF ReviewerActs, Pull
  <2>. HIDE DEF more
  <2>3. new \in Pull
    BY <1>1, <2>1 DEF Pull
  <2>4. /\ new.state = pr.state /\ new.head = pr.head /\ new.by = pr.by
        /\ new.vetted = pr.vetted /\ new.talk = more
    BY <1>1 DEF Pull
  <2>. HIDE DEF new
  <2>5. PullMoves /\ PullFits'
    BY <1>1, <1>2, <2>1, <2>2, <2>3, <2>4
    DEF PullMoves, PullFits, pullRequestReadyToMerge
  <2>. QED  BY <1>6, <2>5, PullAlone DEF ReviewerActs
<1>. QED  BY <1>4, <1>5, <1>6

LEMMA ResolvesKeeps ==
  ASSUME FollowupInv, PullRequestResolves
  PROVE  FollowupInv'
<1>1. pr \in Pull /\ PullFits /\ pr.state = "open"
  BY DEF FollowupInv, FollowupRecords, PullRequestResolves
<1>2. pr.head \in Nat
  BY <1>1, FollowupBounds DEF Pull
<1>3. PICK s \in {"merged", "closed", "gone"} : pr' = [pr EXCEPT !.state = s, !.by = "human"]
  BY DEF PullRequestResolves
<1>4. s \in PullStates
  BY DEF PullStates
<1>5. pr' \in Pull
  BY <1>1, <1>3, <1>4 DEF Pull
<1>6. pr'.state = s /\ pr'.by = "human" /\ pr'.head = pr.head
  BY <1>1, <1>3 DEF Pull
<1>7. PullMoves /\ PullFits'
  BY <1>2, <1>5, <1>6 DEF PullMoves, PullFits, pullRequestReadyToMerge
<1>. QED  BY <1>7, PullAlone DEF PullRequestResolves

LEMMA PushKeeps ==
  ASSUME FollowupInv, AgentPushes
  PROVE  FollowupInv'
<1>1. pr \in Pull /\ PullFits /\ pr.head \in Nat /\ pr.head < MaxHead /\ MaxHead \in Nat
  BY FollowupBounds DEF FollowupInv, FollowupRecords, Pull, AgentPushes
<1>2. /\ pr' \in Pull /\ pr'.state = "open" /\ pr'.head = pr.head + 1 /\ ~pr'.green
      /\ pr'.by # "loop"
  <2>1. CASE pr.state = "absent"
    <3>1. pr = NoPull /\ pr' = [NoPull EXCEPT !.state = "open", !.head = 1]
      BY <1>1, <2>1 DEF AgentPushes, PullFits
    <3>2. NoPull \in Pull /\ NoPull.head = 0 /\ ~NoPull.green /\ NoPull.by = "nobody"
      BY <1>1, <3>1 DEF NoPull
    <3>3. "open" \in PullStates /\ 1 \in 0 .. MaxHead
      BY <1>1 DEF PullStates
    <3>4. pr' \in Pull
      BY <3>1, <3>2, <3>3 DEF Pull
    <3>5. pr'.state = "open" /\ pr'.head = 1 /\ pr'.green = FALSE /\ pr'.by = "nobody"
      BY <3>1 DEF NoPull
    <3>. QED  BY <3>1, <3>2, <3>4, <3>5
  <2>2. CASE pr.state = "open"
    <3>. DEFINE more == pr.head + 1
    <3>1. more \in 0 .. MaxHead
      BY <1>1
    <3>2. pr' = [pr EXCEPT !.head = more, !.green = FALSE, !.vetted = FALSE]
      BY <2>2 DEF AgentPushes
    <3>. HIDE DEF more
    <3>3. pr' \in Pull
      BY <1>1, <3>1, <3>2 DEF Pull
    <3>4. pr'.state = "open" /\ pr'.head = more /\ pr'.green = FALSE /\ pr'.by = pr.by
      BY <1>1, <2>2, <3>2 DEF Pull
    <3>. QED  BY <1>1, <2>2, <3>3, <3>4 DEF more, PullFits
  <2>. QED  BY <2>1, <2>2 DEF AgentPushes
<1>3. PullMoves /\ PullFits'
  BY <1>1, <1>2 DEF PullMoves, PullFits, pullRequestReadyToMerge
<1>. QED  BY <1>3, PullAlone DEF AgentPushes

LEMMA WalkMergesKeeps ==
  ASSUME FollowupInv, NEW r \in Rows, WalkMerges(r)
  PROVE  FollowupInv'
<1>1. /\ pr \in Pull /\ PullFits /\ track \in TrackRow /\ TrackFits
      /\ RunsMove /\ NoneStarts
  BY RunsKept DEF WalkMerges, FollowupInv, FollowupRecords
<1>2. pr.head \in Nat /\ "merged" \in PullStates /\ "merged" \in TrackStates
  BY <1>1, FollowupBounds DEF Pull, PullStates, TrackStates
<1>3. pr' \in Pull
  BY <1>1, <1>2 DEF Pull, WalkMerges
<1>4. pr'.state = "merged" /\ pr'.by = "walk" /\ pr'.head = pr.head
  BY <1>1 DEF Pull, WalkMerges
<1>5. /\ track' \in TrackRow /\ track'.state = "merged"
      /\ track'.owner = track.owner /\ track'.followup = track.followup
  BY <1>1, <1>2 DEF TrackRow, WalkMerges
<1>6. PullMoves /\ PullFits'
  BY <1>2, <1>3, <1>4 DEF PullMoves, PullFits, pullRequestReadyToMerge
<1>7. TrackMoves /\ TrackFits'
  BY <1>1, <1>4, <1>5 DEF TrackMoves, TrackFits, WalkMerges
<1>. QED  BY <1>1, <1>6, <1>7, StepKeeps DEF WalkMerges, FollowupInv, FollowupRecords

-----------------------------------------------------------------------------
(* The theorems of PR Follow-up.                                           *)

LEMMA FollowupBegins == FollowupInit => FollowupInv
<1>. SUFFICES ASSUME FollowupInit PROVE FollowupInv
  OBVIOUS
<1>1. runs = <<>> /\ Len(runs) = 0 /\ runs \in Seq(RunRow)
  BY DEF FollowupInit
<1>2. NoPull \in Pull /\ NoPull.state = "absent" /\ NoPull.by = "nobody" /\ NoPull.head = 0
  BY FollowupBounds DEF NoPull, Pull, PullStates
<1>3. /\ NoTrack \in TrackRow /\ NoTrack.state = "absent" /\ NoTrack.owner = 0
      /\ NoTrack.followup = 0
  BY DEF NoTrack, TrackRow, TrackStates, NoRun, NoReview
<1>4. /\ NoFollowup.at = "idle" /\ NoFollowup.todo = {} /\ NoFollowup.run = 0
      /\ NoFollowup.row = NoTrack /\ NoFollowup.seen = Seen(NoPull)
      /\ NoFollowup.next = "idle"
  BY DEF NoFollowup, NoRun
<1>5. Seen(NoPull) \in SeenPull /\ Seen(NoPull).head = 0
  BY FollowupBounds DEF Seen, NoPull, SeenPull, PullStates
<1>6. NoFollowup \in Round
  BY <1>3, <1>5 DEF NoFollowup, Round, PassPlaces, NoRun
<1>7. \A p \in Passes : Fits(round[p])
  BY <1>1, <1>2, <1>3, <1>4, <1>5 DEF FollowupInit, Fits, Acting
<1>8. FollowupRecords
  BY <1>1, <1>2, <1>3, <1>6 DEF FollowupInit, FollowupRecords
<1>9. ParentsAreOlder /\ OneRunning
  BY <1>1 DEF ParentsAreOlder, OneRunning, Rows
<1>10. TrackFits /\ PullFits
  BY <1>1, <1>2, <1>3
  DEF FollowupInit, TrackFits, PullFits, NoRun, pullRequestReadyToMerge
<1>. QED  BY <1>7, <1>8, <1>9, <1>10 DEF FollowupInv

LEMMA FollowupGoesOn == FollowupInv /\ [FollowupNext]_followupVars => FollowupInv'
<1>. SUFFICES ASSUME FollowupInv, [FollowupNext]_followupVars PROVE FollowupInv'
  OBVIOUS
<1>1. CASE UNCHANGED followupVars
  BY <1>1, RunsKept, RunsAlone DEF followupVars, FollowupInv, FollowupRecords
<1>2. ASSUME NEW p \in Passes, PassStarts(p) \/ PassStep(p) \/ GitHubFails(p)
      PROVE  FollowupInv'
  BY <1>2, PassStartsKeeps, BranchAnsweredKeeps, ExhaustedKeeps, ReleaseKeeps,
     ListTrackedKeeps, StateAnsweredKeeps, OwnerAnsweredKeeps, MergeAnsweredKeeps,
     MergeRecordedKeeps, ReviewDispatchedKeeps, ReviewRecordedKeeps, GitHubFailsKeeps
  DEF PassStep
<1>3. ASSUME NEW r \in Rows, RunStep(r) \/ WalkAdvances(r) \/ WalkEnds(r) \/ WalkMerges(r)
      PROVE  FollowupInv'
  BY <1>3, RunStepKeeps, WalkAdvancesKeeps, WalkMergesKeeps
<1>4. CASE FreshDispatch \/ AgentPushes \/ AdoptPullRequest \/ Crash
  BY <1>4, FreshDispatchKeeps, PushKeeps, AdoptKeeps, CrashKeeps
<1>5. CASE ChecksReport \/ ReviewerActs \/ ReviewerResolves \/ PullRequestResolves
  BY <1>5, ReviewKeeps, ResolvesKeeps
<1>. QED  BY <1>1, <1>2, <1>3, <1>4, <1>5 DEF FollowupNext

LEMMA FollowupInvHolds == FollowupSpec => []FollowupInv
BY FollowupBegins, FollowupGoesOn, PTL DEF FollowupSpec

LEMMA AtMostOne ==
  ASSUME FollowupInv
  PROVE  Cardinality({r \in Rows : runs[r].state = "running"}) <= 1
<1>. DEFINE S == {r \in Rows : runs[r].state = "running"}
<1>1. CASE S = {}
  <2>1. Cardinality(S) = 0
    BY <1>1, FS_EmptySet
  <2>. QED  BY <2>1
<1>2. CASE S # {}
  <2>1. PICK r : r \in S
    BY <1>2
  <2>2. S = {r}
    BY <2>1 DEF FollowupInv, OneRunning
  <2>3. Cardinality(S) = 1
    BY <2>2, FS_Singleton
  <2>. QED  BY <2>3
<1>. QED  BY <1>1, <1>2

\* For any number of overlapping passes, Runs, commits, reviews, failed reads and
\* crashes: the Issue has one Run in flight, and the loop merges no commit that
\* was not seen ready, whatever lands between its reading and its merge call.
THEOREM MergesOnlyWhatWasJudged == FollowupSpec => []FollowupInvariant
<1>1. FollowupInv => FollowupTypeOK
  <2>. SUFFICES ASSUME FollowupInv PROVE FollowupTypeOK
    OBVIOUS
  <2>1. workflow \in {"raw_fsm", "markdown"} /\ claimed \in BOOLEAN
    BY DEF FollowupInv, FollowupRecords
  <2>2. ASSUME NEW r \in Rows
        PROVE  /\ runs[r].state \in Terminal \cup {"running", "settling", "waiting"}
               /\ runs[r].parent \in 0 .. r - 1 /\ runs[r].tries \in Nat
    BY RowTypes DEF RunStates
  <2>3. ASSUME NEW r \in Rows
        PROVE  runs[r].refused \in BOOLEAN
    BY RowTypes DEF RunRow
  <2>4. pr.state \in PullStates /\ pr.head \in 0 .. MaxHead
    BY DEF FollowupInv, FollowupRecords, Pull
  <2>5. track.owner \in 0 .. Len(runs) /\ track.state \in TrackStates
    BY RowTypes DEF FollowupInv, FollowupRecords, TrackFits, TrackRow
  <2>6. (track.state = "absent") = (track.owner = NoRun)
    BY DEF FollowupInv, TrackFits
  <2>7. \A p \in Passes : round[p].at \in PassPlaces
    BY DEF FollowupInv, FollowupRecords, Round
  <2>. QED  BY <2>1, <2>2, <2>3, <2>4, <2>5, <2>6, <2>7
            DEF FollowupTypeOK, PullStates, TrackStates, PassPlaces
<1>2. FollowupInv => MergedCommitWasVetted /\ OneRunInFlight
  BY AtMostOne DEF FollowupInv, PullFits, MergedCommitWasVetted, OneRunInFlight
<1>. QED  BY <1>1, <1>2, FollowupInvHolds, PTL DEF FollowupInvariant

-----------------------------------------------------------------------------
(* What the loop takes, and from whom *)

LEMMA DiscoveryDisplaces ==
  ASSUME FollowupInv, NEW r \in Rows, trackPullRequest(r),
         track.owner # NoRun, track'.owner # track.owner
  PROVE  /\ isRunChainFullyTerminal(track.owner)
         /\ \A q \in Chain(track.owner) : runs'[q].tries >= MaxDiscovery
<1>1. track \in TrackRow
  BY DEF FollowupInv, FollowupRecords
<1>2. Reassigns(r)
  <2>1. SUFFICES ASSUME ~Reassigns(r) PROVE FALSE
    OBVIOUS
  <2>2. track' = [track EXCEPT !.state = "open"]
    BY <2>1 DEF trackPullRequest, Tracked
  <2>. QED  BY <1>1, <2>2 DEF TrackRow
<1>3. runs' = retirePullRequestDiscoveryChain(track.owner)
  BY <1>2 DEF trackPullRequest
<1>4. ASSUME NEW q \in Chain(track.owner) PROVE runs'[q].tries >= MaxDiscovery
  <2>1. q \in Rows /\ runs[q] \in RunRow /\ runs[q].tries \in Nat
    BY <1>4, RowTypes DEF Chain, RunRow
  <2>2. CASE runs[q].tries < MaxDiscovery
    <3>1. runs'[q] = [runs[q] EXCEPT !.tries = MaxDiscovery]
      BY <1>3, <1>4, <2>1, <2>2 DEF retirePullRequestDiscoveryChain
    <3>2. runs'[q].tries = MaxDiscovery
      BY <2>1, <3>1 DEF RunRow
    <3>. QED  BY <3>2, FollowupBounds
  <2>3. CASE ~(runs[q].tries < MaxDiscovery)
    <3>1. runs'[q] = runs[q]
      BY <1>3, <1>4, <2>1, <2>3 DEF retirePullRequestDiscoveryChain
    <3>. QED  BY <2>1, <2>3, <3>1, FollowupBounds
  <2>. QED  BY <2>2, <2>3
<1>. QED  BY <1>2, <1>4 DEF Reassigns

(* Discovery and adopt-pr are all that hand the row to another Run.        *)
LEMMA OwnerChangesHands ==
  ASSUME FollowupInv, [FollowupNext]_followupVars, track'.owner # track.owner
  PROVE  \/ AdoptPullRequest
         \/ \E r \in Rows : trackPullRequest(r)
<1>0. track \in TrackRow
  BY DEF FollowupInv, FollowupRecords
<1>1. CASE UNCHANGED followupVars
  BY <1>1 DEF followupVars
<1>2. ASSUME NEW p \in Passes, PassStarts(p) \/ PassStep(p) \/ GitHubFails(p)
      PROVE  \E r \in Rows : trackPullRequest(r)
  <2>1. ASSUME NEW r \in Rows, BranchAnswered(p, r)
        PROVE  trackPullRequest(r)
    BY <2>1 DEF BranchAnswered
  <2>2. CASE OwnerAnswered(p)
    BY <1>0, <2>2 DEF OwnerAnswered, recordPullRequestObservation, TrackRow
  <2>3. CASE MergeRecorded(p)
    BY <1>0, <2>3 DEF MergeRecorded, TrackRow
  <2>4. CASE recordPullRequestReviewDispatch(p)
    BY <1>0, <2>4 DEF recordPullRequestReviewDispatch, TrackRow
  <2>5. CASE \/ PassStarts(p) \/ GitHubFails(p) \/ ReleaseIssueClaim(p) \/ ListTracked(p)
             \/ terminalizePullRequestDiscoveryExhausted(p) \/ StateAnswered(p)
             \/ MergeAnswered(p) \/ ReviewDispatched(p)
    BY <2>5 DEF PassStarts, GitHubFails, ReleaseIssueClaim, ListTracked, StateAnswered,
                terminalizePullRequestDiscoveryExhausted, MergeAnswered, ReviewDispatched
  <2>. QED  BY <1>2, <2>1, <2>2, <2>3, <2>4, <2>5 DEF PassStep
<1>3. ASSUME NEW r \in Rows, RunStep(r) \/ WalkAdvances(r) \/ WalkEnds(r) \/ WalkMerges(r)
      PROVE  FALSE
  BY <1>0, <1>3 DEF RunStep, RunReturns, RunSettles, WalkAdvances, WalkEnds, WalkMerges, TrackRow
<1>4. CASE \/ FreshDispatch \/ AgentPushes \/ Crash \/ ChecksReport \/ ReviewerActs
           \/ ReviewerResolves \/ PullRequestResolves
  BY <1>4 DEF FreshDispatch, AgentPushes, Crash, ChecksReport, ReviewerActs,
              ReviewerResolves, PullRequestResolves
<1>. QED  BY <1>1, <1>2, <1>3, <1>4 DEF FollowupNext

(* Only the reading of the owner leads a pass to its merge call.           *)
LEMMA OwnerLeadsToMerge ==
  ASSUME FollowupInv, [FollowupNext]_followupVars, NEW p \in Passes,
         round'[p].at = "merging", round[p].at # "merging"
  PROVE  OwnerAnswered(p)
<1>0. round \in [Passes -> Round]
  BY DEF FollowupInv, FollowupRecords
<1>1. ASSUME UNCHANGED round PROVE FALSE
  BY <1>1
<1>2. ASSUME NEW o \in Passes, PassStarts(o) \/ PassStep(o) \/ GitHubFails(o)
      PROVE  OwnerAnswered(p)
  <2>1. CASE o # p
    <3>1. round'[p] = round[p]
      BY <1>0, <1>2, <2>1
      DEF PassStarts, PassStep, GitHubFails, BranchAnswered, ReleaseIssueClaim, ListTracked,
          terminalizePullRequestDiscoveryExhausted, StateAnswered, OwnerAnswered,
          ActsOnResolved, ActsOnOpen, MergeAnswered, MergeRecorded, ReviewDispatched,
          recordPullRequestReviewDispatch, Enter, Unclaims, Ends
    <3>. QED  BY <3>1
  <2>2. CASE o = p
    <3>0. CASE \E r \in Rows : BranchAnswered(p, r)
      <4>1. PICK r \in Rows : BranchAnswered(p, r)
        BY <3>0
      <4>2. round'[p].at \in {round[p].at, "exhausted"}
        BY <1>0, <4>1 DEF BranchAnswered, Round
      <4>. QED  BY <4>2
    <3>1. CASE PassStarts(p) \/ GitHubFails(p)
      BY <1>0, <3>1 DEF PassStarts, GitHubFails, Ends, NoFollowup, Round
    <3>2. CASE \/ terminalizePullRequestDiscoveryExhausted(p) \/ ReleaseIssueClaim(p)
               \/ ListTracked(p) \/ StateAnswered(p)
      BY <1>0, <3>2 DEF terminalizePullRequestDiscoveryExhausted, ReleaseIssueClaim,
                        ListTracked, StateAnswered, Ends, NoFollowup, Round
    <3>3. CASE \/ MergeAnswered(p) \/ MergeRecorded(p) \/ ReviewDispatched(p)
               \/ recordPullRequestReviewDispatch(p)
      BY <1>0, <3>3 DEF MergeAnswered, MergeRecorded, ReviewDispatched,
                        recordPullRequestReviewDispatch, Enter, Ends, Unclaims, NoFollowup, Round
    <3>. QED  BY <1>2, <2>2, <3>0, <3>1, <3>2, <3>3 DEF PassStep
  <2>. QED  BY <2>1, <2>2
<1>3. CASE \E r \in Rows : RunStep(r) \/ WalkAdvances(r) \/ WalkEnds(r) \/ WalkMerges(r)
  BY <1>1, <1>3 DEF RunStep, RunReturns, RunSettles, WalkAdvances, WalkEnds, WalkMerges
<1>4. CASE \/ FreshDispatch \/ AgentPushes \/ AdoptPullRequest \/ ChecksReport
           \/ ReviewerActs \/ ReviewerResolves \/ PullRequestResolves
  BY <1>1, <1>4 DEF FreshDispatch, AgentPushes, AdoptPullRequest, ChecksReport, ReviewerActs,
                    ReviewerResolves, PullRequestResolves
<1>5. CASE Crash
  BY <1>5 DEF Crash, NoFollowup
<1>6. CASE UNCHANGED followupVars
  BY <1>1, <1>6 DEF followupVars
<1>. QED  BY <1>2, <1>3, <1>4, <1>5, <1>6 DEF FollowupNext

LEMMA MergesAreUnowned ==
  ASSUME FollowupInv, NEW p \in Passes, OwnerAnswered(p), round'[p].at = "merging"
  PROVE  ~isIssueMergeRefused /\ ~isIssueOwnedByWorkflow
<1>0. round \in [Passes -> Round]
  BY DEF FollowupInv, FollowupRecords
<1>1. ~ActsOnResolved(p, isIssueOwnedByWorkflow)
  BY <1>0 DEF ActsOnResolved, Ends, Unclaims, NoFollowup, Round
<1>2. ActsOnOpen(p, isIssueOwnedByWorkflow)
  BY <1>1 DEF OwnerAnswered
<1>3. ~Ends(p) /\ ~Enter(p, "followup")
  BY <1>0 DEF Ends, Enter, NoFollowup, Round
<1>4. ~isIssueOwnedByWorkflow
  BY <1>2, <1>3 DEF ActsOnOpen
<1>. QED  BY <1>2, <1>3, <1>4 DEF ActsOnOpen

\* For any number of passes, Runs and crashes: the loop sends no merge for an
\* Issue a workflow runs or parks or had its merge refused, takes no pull
\* request from a chain that still has a live Run, and a chain it took one
\* from never discovers it again.
THEOREM LoopRespectsOwners == FollowupSpec => FollowupRespectsOwners
<1>1. FollowupInv /\ [FollowupNext]_followupVars =>
        [\A p \in Passes : round'[p].at = "merging" /\ round[p].at # "merging"
           => /\ ~isIssueMergeRefused
              /\ workflow = "raw_fsm" => ~isIssueReserved /\ ~isIssueParkedAtRawFsmState]_followupVars
  BY OwnerLeadsToMerge, MergesAreUnowned DEF isIssueOwnedByWorkflow
<1>2. FollowupInv /\ [FollowupNext]_followupVars =>
        [track.owner # NoRun /\ track'.owner # track.owner
           => isRunChainFullyTerminal(track.owner) \/ AdoptPullRequest]_followupVars
  BY OwnerChangesHands, DiscoveryDisplaces
<1>3. FollowupInv /\ [FollowupNext]_followupVars =>
        [track.owner # NoRun /\ track'.owner # track.owner /\ ~AdoptPullRequest
           => \A q \in Chain(track.owner) : runs'[q].tries >= MaxDiscovery]_followupVars
  BY OwnerChangesHands, DiscoveryDisplaces
<1>. QED  BY <1>1, <1>2, <1>3, FollowupInvHolds, PTL
          DEF FollowupSpec, FollowupRespectsOwners, MergeLeavesWorkflowAlone,
              LiveOwnerKeepsPullRequest, DisplacedChainStaysOut

-----------------------------------------------------------------------------
(* The sampled Watchdog: WatchdogSampling *)

LEMMA Spans == AgeCap \in Nat /\ MaxPass <= AgeCap /\ Grace \in Nat /\ Grace >= 1 /\ MaxPass \in Nat
BY SamplingBounds DEF AgeCap

LEMMA SubjectTypes ==
  ASSUME SamplingRecords
  PROVE  /\ subject.state \in SubjectStates /\ subject.gen \in 1 .. MaxAttempts
         /\ subject.reason \in Verdicts \cup {"none"}
         /\ subject.cancel \in Verdicts \cup {"none", "operator"}
         /\ subject.cancelled \in BOOLEAN /\ subject.slot \in BOOLEAN
         /\ subject.capped \in BOOLEAN /\ subject.totals \in BOOLEAN
         /\ subject.age \in 0 .. MaxRun /\ subject.churn \in 0 .. MaxChurn
         /\ subject.heard \in 0 .. AgeCap
BY DEF SamplingRecords, SubjectRow

LEMMA EvidenceTypes ==
  ASSUME SamplingRecords
  PROVE  /\ evidence.log \in Seq(Nat) /\ evidence.used \in 0 .. MaxUsage /\ evidence.used \in Nat
         /\ evidence.shape \in Shapes /\ evidence.silence \in 0 .. AgeCap
         /\ sample.gen \in Nat /\ sample.idle \in -1 .. AgeCap /\ sample.tokens \in Nat
         /\ sample.shape \in Shapes \cup {Unreadable}
BY SamplingBounds DEF SamplingRecords, Evidence, SampleRow

LEMMA PassTypes ==
  ASSUME SamplingRecords
  PROVE  /\ pass.at \in {"idle", "listed", "read", "walk"} /\ pass.gen \in Nat
         /\ pass.age \in 0 .. MaxPass /\ pass.age \in Nat /\ pass.prev \in SampleRow
         /\ pass.size \in Nat /\ pass.seen \in BOOLEAN /\ pass.used \in Nat
         /\ pass.silence \in 0 .. AgeCap
BY SamplingBounds DEF SamplingRecords, PassLocals

LEMMA RestOfLog ==
  ASSUME NEW log \in Seq(Nat), NEW k \in Nat, k <= Len(log)
  PROVE  LET rest == SubSeq(log, k + 1, Len(log))
         IN  /\ rest \in Seq(Nat) /\ Len(rest) = Len(log) - k
             /\ \A i \in 1 .. Len(rest) : rest[i] = log[k + i]
             /\ k = 0 => rest = log
<1>. DEFINE rest == SubSeq(log, k + 1, Len(log))
<1>1. rest \in Seq(Nat) /\ Len(rest) = Len(log) - k /\ \A i \in 1 .. Len(rest) : rest[i] = log[k + i]
  BY SubSeqProperties
<1>2. k = 0 => rest = log
  <2>1. SUFFICES ASSUME k = 0 PROVE rest = log
    OBVIOUS
  <2>2. Len(rest) = Len(log) /\ \A i \in 1 .. Len(log) : rest[i] = log[i]
    BY <1>1, <2>1
  <2>. QED  BY <1>1, <2>2, SeqEqual
<1>. QED  BY <1>1, <1>2

(* Of l events the first z are dropped, and m are left. *)
LEMMA Shifted ==
  ASSUME NEW l \in Nat, NEW z \in Nat, NEW m \in Nat, m = l - z, NEW i \in Nat, NEW j \in Nat,
         i <= j, j <= m
  PROVE  z + i \in 0 .. l /\ z + j \in (z + i) .. l /\ (z + j) - (z + i) = j - i
OBVIOUS

LEMMA Dropped ==
  ASSUME NEW l \in Nat, NEW z \in Nat, NEW m \in Nat, m = l - z, NEW u \in Nat,
         NEW a \in Nat, NEW b \in Nat, a - b >= z, m - (u - a) <= 0
  PROVE  l - (u - b) <= 0
OBVIOUS

(* What lies ahead of the offset depends on the log and the use alone. *)
LEMMA SameLog ==
  ASSUME evidence'.log = evidence.log, evidence'.used = evidence.used
  PROVE  /\ \A i \in Nat : UsedAt(i)' = UsedAt(i)
         /\ TokensAhead' = TokensAhead /\ MessagesAhead' = MessagesAhead
         /\ LogFits' = LogFits
BY DEF UsedAt, TokensAhead, MessagesAhead, LogFits

LEMMA UsedAtFits ==
  ASSUME SamplingInv
  PROVE  /\ Len(evidence.log) \in Nat /\ UsedAt(Len(evidence.log)) = evidence.used
         /\ \A i \in 0 .. Len(evidence.log) :
              /\ UsedAt(i) \in Nat /\ UsedAt(i) <= evidence.used
              /\ evidence.used <= UsedAt(i) + (Len(evidence.log) - i)
<1>. USE DEF SamplingInv
<1>1. evidence.log \in Seq(Nat) /\ evidence.used \in Nat
  BY EvidenceTypes
<1>2. Len(evidence.log) \in Nat /\ UsedAt(Len(evidence.log)) = evidence.used
  BY <1>1 DEF UsedAt
<1>3. ASSUME NEW i \in 0 .. Len(evidence.log)
      PROVE  /\ UsedAt(i) \in Nat /\ UsedAt(i) <= evidence.used
             /\ evidence.used <= UsedAt(i) + (Len(evidence.log) - i)
  <2>1. UsedAt(i) \in Nat
    BY <1>1, <1>2 DEF UsedAt
  <2>2. Len(evidence.log) \in i .. Len(evidence.log)
    BY <1>2
  <2>. QED  BY <1>2, <2>1, <2>2 DEF LogFits
<1>. QED  BY <1>2, <1>3

LEMMA AheadOfOffset ==
  ASSUME SamplingInv
  PROVE  /\ TokensAhead \in Nat /\ MessagesAhead \in Nat
         /\ TokensAhead = evidence.used - UsedAt(0)
         /\ MessagesAhead = Len(evidence.log) - (evidence.used - UsedAt(0))
<1>1. Len(evidence.log) \in Nat /\ evidence.used \in Nat
  BY UsedAtFits, EvidenceTypes DEF SamplingInv
<1>2. UsedAt(0) \in Nat /\ UsedAt(0) <= evidence.used /\ evidence.used <= UsedAt(0) + Len(evidence.log)
  BY <1>1, UsedAtFits
<1>. QED  BY <1>1, <1>2 DEF TokensAhead, MessagesAhead

(* The agent *)

LEMMA EmitKeeps ==
  ASSUME SamplingInv, NEW kind \in {"usage", "message"}, Emit(kind)
  PROVE  SamplingInv'
<1>. USE DEF SamplingInv
<1>. DEFINE log == evidence.log
            used == evidence.used
            now == IF kind = "usage" THEN used + 1 ELSE used
<1>1. log \in Seq(Nat) /\ used \in Nat /\ used <= MaxUsage
  BY EvidenceTypes
<1>2. now \in 0 .. MaxUsage /\ now \in Nat /\ now >= used
  BY <1>1, SamplingBounds DEF Emit
<1>14. now <= used + 1
  BY <1>1
<1>3. evidence' = [log |-> Append(log, used), used |-> now, shape |-> evidence.shape,
                   silence |-> 0]
  BY DEF Emit, SamplingRecords, Evidence
<1>4. /\ evidence'.log = Append(log, used) /\ evidence'.used = now
      /\ evidence'.shape = evidence.shape /\ evidence'.silence = 0
  BY <1>3
<1>5. evidence' \in Evidence
  <2>1. Append(log, used) \in Seq(Nat)
    BY <1>1
  <2>2. 0 \in 0 .. AgeCap
    BY Spans
  <2>. QED  BY <1>2, <1>3, <2>1, <2>2, EvidenceTypes DEF Evidence
<1>6. UNCHANGED <<subject, sample, pass>> /\ Len(log) < MaxUnread
  BY DEF Emit
<1>7. /\ Len(Append(log, used)) = Len(log) + 1 /\ Append(log, used) # <<>>
      /\ \A i \in 1 .. Len(log) : Append(log, used)[i] = log[i]
      /\ Append(log, used)[Len(log) + 1] = used
  BY <1>1
<1>8. Len(log) \in Nat /\ \A i \in 1 .. Len(log) : log[i] \in Nat
  BY <1>1
<1>. HIDE DEF now
<1>9. /\ \A i \in 0 .. Len(log) : UsedAt(i)' = UsedAt(i)
      /\ \A i \in Nat : i = Len(log) + 1 => UsedAt(i)' = now
  <2>1. ASSUME NEW i \in 0 .. Len(log) PROVE UsedAt(i)' = UsedAt(i)
    <3>1. CASE i < Len(log)
      BY <1>4, <1>7, <1>8, <3>1 DEF UsedAt
    <3>2. CASE i = Len(log)
      BY <1>4, <1>7, <1>8, <3>2 DEF UsedAt
    <3>. QED  BY <1>8, <3>1, <3>2
  <2>2. \A i \in Nat : i = Len(log) + 1 => UsedAt(i)' = now
    BY <1>4, <1>7, <1>8 DEF UsedAt
  <2>. QED  BY <2>1, <2>2
<1>13. LogFits'
  <2>1. Len(log) + 1 <= MaxUnread
    BY <1>6, <1>8, SamplingBounds
  <2>2. ASSUME NEW i \in 0 .. Len(log) + 1, NEW j \in i .. Len(log) + 1
        PROVE  UsedAt(i)' <= UsedAt(j)' /\ UsedAt(j)' <= UsedAt(i)' + (j - i)
    <3>1. i \in Nat /\ j \in Nat /\ i <= j /\ j <= Len(log) + 1
      BY <1>8, <2>2
    <3>2. CASE j # Len(log) + 1
      <4>1. i \in 0 .. Len(log) /\ j \in i .. Len(log) /\ j \in 0 .. Len(log)
        BY <1>8, <3>1, <3>2
      <4>2. UsedAt(i)' = UsedAt(i) /\ UsedAt(j)' = UsedAt(j)
        BY <1>9, <4>1
      <4>. QED  BY <4>1, <4>2 DEF LogFits
    <3>3. CASE i = Len(log) + 1
      <4>1. j = Len(log) + 1
        BY <1>8, <3>1, <3>3
      <4>2. UsedAt(i)' = now /\ UsedAt(j)' = now
        BY <1>9, <3>1, <3>3, <4>1
      <4>. QED  BY <1>2, <1>8, <3>3, <4>1, <4>2
    <3>4. CASE j = Len(log) + 1 /\ i # Len(log) + 1
      <4>1. i \in 0 .. Len(log)
        BY <1>8, <3>1, <3>4
      <4>2. /\ UsedAt(i) \in Nat /\ UsedAt(i) <= used
            /\ used <= UsedAt(i) + (Len(log) - i)
        BY <4>1, UsedAtFits
      <4>3. UsedAt(i)' = UsedAt(i) /\ UsedAt(j)' = now
        BY <1>9, <3>1, <3>4, <4>1
      <4>. QED  BY <1>1, <1>2, <1>8, <1>14, <3>1, <3>4, <4>2, <4>3
    <3>. QED  BY <3>2, <3>3, <3>4
  <2>. QED  BY <1>4, <1>7, <2>1, <2>2 DEF LogFits
<1>10. SubjectFits'
  <2>1. now \in Nat /\ Budget \in Nat
    BY <1>2, SamplingBounds
  <2>2. subject.totals /\ subject.reason = "no_convergence" => now >= Budget
    BY <1>1, <1>2, <2>1 DEF SubjectFits
  <2>. QED  BY <1>4, <1>6, <2>2 DEF SubjectFits
<1>11. SampleFits'
  <2>1. /\ UsedAt(0)' = UsedAt(0) /\ UsedAt(0) \in Nat /\ sample.tokens \in Nat
        /\ used <= UsedAt(0) + Len(log)
    BY <1>8, <1>9, UsedAtFits, EvidenceTypes
  <2>2. sample.tokens <= used => sample.tokens <= now
    BY <1>1, <1>2, <2>1
  <2>3. ~NothingNew'
    <3>1. ~subject'.totals => ~NothingNew'
      BY <1>4, <1>7 DEF NothingNew
    <3>2. ASSUME subject'.totals, NothingNew' PROVE FALSE
      <4>1. MessagesAhead' = Len(log) + 1 - (now - UsedAt(0))
        BY <1>1, <1>2, <1>4, <1>7, <1>8, <2>1 DEF MessagesAhead, TokensAhead
      <4>2. now <= sample.tokens /\ sample.tokens <= used
        BY <1>4, <1>6, <3>2 DEF NothingNew, SampleFits
      <4>3. MessagesAhead' <= 0
        BY <3>2 DEF NothingNew
      <4>. QED  BY <1>1, <1>2, <1>8, <2>1, <4>1, <4>2, <4>3
    <3>. QED  BY <3>1, <3>2
  <2>. QED  BY <1>4, <1>6, <2>1, <2>2, <2>3 DEF SampleFits
<1>12. PassFits'
  <2>1. /\ PassIsCurrent' = PassIsCurrent /\ outputTokensTotal' = outputTokensTotal
        /\ NothingRead' = NothingRead /\ HeardWithinPass' = HeardWithinPass
    BY <1>6 DEF PassIsCurrent, outputTokensTotal, NothingRead, HeardWithinPass
  <2>2. ASSUME PassIsCurrent
        PROVE  /\ UsedAt(pass.size)' = UsedAt(pass.size) /\ UsedAt(0)' = UsedAt(0)
               /\ pass.size <= Len(log) + 1
    <3>1. pass.size <= Len(log) /\ pass.size \in Nat
      BY <2>2, PassTypes DEF PassFits
    <3>2. pass.size \in 0 .. Len(log) /\ 0 \in 0 .. Len(log)
      BY <1>8, <3>1
    <3>3. ASSUME NEW k \in 0 .. Len(log), k = pass.size PROVE UsedAt(pass.size)' = UsedAt(pass.size)
      BY <1>6, <1>9, <3>3
    <3>. QED  BY <1>8, <1>9, <3>1, <3>2, <3>3
  <2>3. pass.used <= used => pass.used <= now
    BY <1>1, <1>2, PassTypes
  <2>. QED  BY <1>4, <1>6, <1>7, <2>1, <2>2, <2>3 DEF PassFits
<1>. QED  BY <1>5, <1>6, <1>10, <1>11, <1>12, <1>13 DEF SamplingRecords

LEMMA TouchKeeps ==
  ASSUME SamplingInv, NEW shape \in Shapes, TouchWorkspace(shape)
  PROVE  SamplingInv'
<1>. USE DEF SamplingInv
<1>1. /\ evidence'.log = evidence.log /\ evidence'.used = evidence.used
      /\ evidence'.silence = evidence.silence /\ evidence' \in Evidence
  BY DEF TouchWorkspace, SamplingRecords, Evidence
<1>2. subject.churn + 1 \in 0 .. MaxChurn
  BY SubjectTypes, SamplingBounds DEF TouchWorkspace
<1>3. /\ subject' \in SubjectRow
      /\ \A f \in {"state", "gen", "reason", "cancelled", "slot", "cancel", "totals", "heard"} :
           subject'[f] = subject[f]
  BY <1>2 DEF TouchWorkspace, SamplingRecords, SubjectRow
<1>4. UNCHANGED <<sample, pass>>
  BY DEF TouchWorkspace
<1>5. SubjectFits' /\ LogFits' /\ SampleFits'
  BY <1>1, <1>3, <1>4, SameLog DEF SubjectFits, SampleFits, NothingNew
<1>6. PassFits'
  BY <1>1, <1>3, <1>4
     DEF PassFits, PassIsCurrent, UsedAt, outputTokensTotal, NothingRead, HeardWithinPass
<1>. QED  BY <1>1, <1>3, <1>4, <1>5, <1>6 DEF SamplingRecords

(* A pass *)

LEMMA PassTurns ==
  ASSUME SamplingInv, UNCHANGED <<subject, evidence, sample>>, pass' \in PassLocals, PassFits'
  PROVE  SamplingInv'
<1>1. SubjectFits' /\ LogFits' /\ SampleFits'
  BY SameLog DEF SamplingInv, SubjectFits, SampleFits, NothingNew
<1>. QED  BY <1>1 DEF SamplingInv, SamplingRecords

LEMMA BeginPassKeeps == SamplingInv /\ BeginPass => SamplingInv'
<1>. SUFFICES ASSUME SamplingInv, BeginPass PROVE SamplingInv'
  OBVIOUS
<1>. USE DEF SamplingInv
<1>1. subject.gen \in Nat /\ NoSample \in SampleRow /\ 0 \in 0 .. MaxPass /\ 0 \in 0 .. AgeCap
  BY SubjectTypes, SamplingBounds, Spans DEF NoSample, SampleRow
<1>2. /\ pass' \in PassLocals /\ pass'.at = "listed" /\ pass'.gen = subject.gen
      /\ pass'.seen = FALSE /\ pass'.used = 0
  BY <1>1 DEF BeginPass, NoPass, PassLocals
<1>3. UNCHANGED <<subject, evidence, sample>>
  BY DEF BeginPass
<1>4. PassFits'
  BY <1>1, <1>2, <1>3 DEF PassFits, PassIsCurrent
<1>. QED  BY <1>2, <1>3, <1>4, PassTurns

LEMMA NoPassFits ==
  ASSUME SamplingRecords
  PROVE  /\ NoPass \in PassLocals /\ NoPass.at = "idle" /\ NoPass.seen = FALSE /\ NoPass.used = 0
         /\ pass' = NoPass => PassFits'
<1>1. NoSample \in SampleRow /\ 0 \in 0 .. MaxPass /\ 0 \in 0 .. AgeCap
  BY SamplingBounds, Spans DEF NoSample, SampleRow
<1>2. /\ NoPass \in PassLocals /\ NoPass.at = "idle" /\ NoPass.seen = FALSE /\ NoPass.used = 0
  BY <1>1 DEF NoPass, PassLocals
<1>3. pass' = NoPass => PassFits'
  BY <1>2 DEF PassFits, PassIsCurrent
<1>. QED  BY <1>2, <1>3

LEMMA StatLogKeeps == SamplingInv /\ StatLog => SamplingInv'
<1>. SUFFICES ASSUME SamplingInv, StatLog PROVE SamplingInv'
  OBVIOUS
<1>. USE DEF SamplingInv
<1>1. /\ Len(evidence.log) \in Nat /\ evidence.silence \in 0 .. AgeCap
      /\ evidence.log \in Seq(Nat) /\ evidence.used \in Nat
  BY EvidenceTypes
<1>2. pass' = [pass EXCEPT !.at = "read", !.prev = sample, !.size = Len(evidence.log),
                           !.silence = evidence.silence]
  BY DEF StatLog
<1>3. UNCHANGED <<subject, evidence, sample>> /\ pass.at = "listed"
  BY DEF StatLog
<1>4. /\ pass'.at = "read" /\ pass'.gen = pass.gen /\ pass'.prev = sample
      /\ pass'.size = Len(evidence.log) /\ pass'.silence = evidence.silence
      /\ pass'.age = pass.age /\ pass'.seen = FALSE /\ pass'.used = 0
  BY <1>2, <1>3, PassTypes DEF SamplingRecords, PassLocals, PassFits
<1>5. pass' \in PassLocals
  BY <1>1, <1>2 DEF SamplingRecords, PassLocals
<1>6. Len(evidence.log) = 0 => HeardWithinPass'
  <2>1. SUFFICES ASSUME Len(evidence.log) = 0 PROVE HeardWithinPass'
    OBVIOUS
  <2>2. UsedAt(0) = evidence.used /\ evidence.log = <<>>
    BY <1>1, <2>1 DEF UsedAt
  <2>3. MessagesAhead = 0 /\ evidence.used <= sample.tokens
    BY <1>1, <2>1, <2>2 DEF MessagesAhead, TokensAhead, SampleFits
  <2>4. NothingNew
    BY <2>2, <2>3 DEF NothingNew
  <2>5. sample.idle # -1 => evidence.silence >= sample.idle - MaxPass
    BY <2>4 DEF SampleFits
  <2>6. sample.idle # -1 => evidence.silence >= sample.idle - pass.age - MaxPass
    BY <2>5, PassTypes, EvidenceTypes, Spans
  <2>. QED  BY <1>3, <1>4, <2>6 DEF HeardWithinPass
<1>7. PassFits'
  BY <1>1, <1>3, <1>4, <1>6 DEF PassFits, PassIsCurrent
<1>. QED  BY <1>3, <1>5, <1>7, PassTurns

(* What a pass reads beyond a stat that saw something new. *)
LEMMA ReadFits ==
  ASSUME SamplingInv, PassIsCurrent, pass.at = "read", pass.size # 0,
         NEW read \in PassLocals, read.seen = (MessagesAhead > 0),
         read.used = IF subject.totals THEN evidence.used ELSE TokensAhead,
         NEW total \in Nat,
         total = IF subject.totals
                 THEN IF read.used > sample.tokens THEN read.used ELSE sample.tokens
                 ELSE sample.tokens + read.used
  PROVE  /\ total >= UsedAt(pass.size)
         /\ subject.totals => read.used <= evidence.used
         /\ ~read.seen /\ total <= sample.tokens =>
              /\ NothingNew /\ subject.totals
              /\ UsedAt(pass.size) - UsedAt(0) >= pass.size
<1>. USE DEF SamplingInv
<1>1. /\ pass.size \in Nat /\ pass.size <= Len(evidence.log) /\ Len(evidence.log) \in Nat
      /\ evidence.used \in Nat /\ sample.tokens \in Nat
  BY PassTypes, EvidenceTypes, UsedAtFits DEF PassFits
<1>2. /\ UsedAt(pass.size) \in Nat /\ UsedAt(0) \in Nat /\ UsedAt(pass.size) <= evidence.used
      /\ evidence.used <= UsedAt(pass.size) + (Len(evidence.log) - pass.size)
  <2>1. pass.size \in 0 .. Len(evidence.log) /\ 0 \in 0 .. Len(evidence.log)
    BY <1>1
  <2>. QED  BY <2>1, UsedAtFits
<1>3. /\ TokensAhead \in Nat /\ TokensAhead = evidence.used - UsedAt(0)
      /\ MessagesAhead \in Nat /\ MessagesAhead = Len(evidence.log) - (evidence.used - UsedAt(0))
  BY AheadOfOffset
<1>4. sample.tokens >= UsedAt(0)
  BY DEF SampleFits
<1>5. total >= evidence.used
  BY <1>1, <1>2, <1>3, <1>4
<1>6. SUFFICES ASSUME ~read.seen, total <= sample.tokens
               PROVE  NothingNew /\ subject.totals /\ UsedAt(pass.size) - UsedAt(0) >= pass.size
  BY <1>1, <1>2, <1>5
<1>7. MessagesAhead <= 0 /\ evidence.used - UsedAt(0) >= Len(evidence.log)
  <2>1. ~(MessagesAhead > 0)
    BY <1>6
  <2>. QED  BY <1>1, <1>2, <1>3, <2>1
<1>8. subject.totals
  BY <1>1, <1>3, <1>6, <1>7
<1>9. evidence.used <= sample.tokens
  BY <1>1, <1>5, <1>6
<1>. QED  BY <1>1, <1>2, <1>7, <1>8, <1>9 DEF NothingNew

LEMMA ReadLogKeeps == SamplingInv /\ ReadLog => SamplingInv'
<1>. SUFFICES ASSUME SamplingInv, ReadLog PROVE SamplingInv'
  OBVIOUS
<1>. USE DEF SamplingInv
<1>1. UNCHANGED <<subject, evidence, sample>> /\ pass.at = "read"
  BY DEF ReadLog
<1>2. CASE pass' = NoPass
  BY <1>1, <1>2, NoPassFits, PassTurns
<1>3. CASE isCurrentWatchdogGeneration(pass.gen)
  <2>1. PassIsCurrent /\ pass.gen = subject.gen
    BY <1>1, <1>3 DEF PassIsCurrent, isCurrentWatchdogGeneration
  <2>2. /\ pass.size \in Nat /\ pass.size <= Len(evidence.log) /\ Len(evidence.log) \in Nat
        /\ evidence.used \in Nat /\ sample.tokens \in Nat /\ pass.prev.tokens = sample.tokens
        /\ (pass.prev.idle = -1) = (sample.idle = -1)
    BY <2>1, PassTypes, EvidenceTypes, UsedAtFits DEF PassFits
  <2>3. pass' = [NormalizedEventsSince EXCEPT !.at = "walk"]
    BY <1>3 DEF ReadLog
  <2>4. UsedAt(pass.size)' = UsedAt(pass.size) \/ pass'.size # pass.size
    BY <1>1 DEF UsedAt
  <2>5. UsedAt(0)' = UsedAt(0)
    BY <1>1 DEF UsedAt
  <2>6. CASE pass.size = 0
    <3>1. /\ pass' \in PassLocals /\ pass'.at = "walk"
          /\ \A f \in {"gen", "age", "prev", "size", "seen", "used", "silence"} : pass'[f] = pass[f]
      BY <2>3, <2>6 DEF NormalizedEventsSince, SamplingRecords, PassLocals
    <3>2. HeardWithinPass'
      BY <1>1, <2>1, <2>6, <3>1 DEF PassFits, HeardWithinPass
    <3>3. outputTokensTotal' = sample.tokens /\ pass'.used = 0
      BY <1>1, <2>2, <3>1 DEF PassFits, outputTokensTotal
    <3>4. UsedAt(pass.size)' = UsedAt(0) /\ sample.tokens >= UsedAt(0)
      BY <2>6, <3>1, <1>1 DEF UsedAt, SampleFits
    <3>5. PassFits'
      BY <1>1, <2>1, <2>2, <2>6, <3>1, <3>2, <3>3, <3>4 DEF PassFits, PassIsCurrent
    <3>. QED  BY <1>1, <3>1, <3>5, PassTurns
  <2>7. CASE pass.size # 0
    <3>. DEFINE tokens == IF subject.totals THEN evidence.used ELSE TokensAhead
                seen == MessagesAhead > 0
    <3>1. tokens \in Nat /\ evidence.silence \in 0 .. AgeCap /\ seen \in BOOLEAN
      BY <2>2, AheadOfOffset, EvidenceTypes
    <3>2. pass' = [pass EXCEPT !.at = "walk", !.seen = seen, !.used = tokens,
                               !.silence = evidence.silence]
      BY <2>3, <2>7 DEF NormalizedEventsSince, SamplingRecords, PassLocals
    <3>. HIDE DEF tokens, seen
    <3>3. /\ pass' \in PassLocals /\ pass'.at = "walk" /\ pass'.used = tokens
          /\ pass'.seen = seen /\ pass'.silence = evidence.silence
          /\ \A f \in {"gen", "age", "prev", "size"} : pass'[f] = pass[f]
      BY <3>1, <3>2 DEF SamplingRecords, PassLocals
    <3>4. /\ outputTokensTotal' \in Nat
          /\ outputTokensTotal' = IF subject.totals
                                 THEN IF pass'.used > sample.tokens THEN pass'.used ELSE sample.tokens
                                 ELSE sample.tokens + pass'.used
      BY <1>1, <2>2, <3>1, <3>3 DEF outputTokensTotal
    <3>5. /\ outputTokensTotal' >= UsedAt(pass.size)
          /\ subject.totals => pass'.used <= evidence.used
          /\ ~pass'.seen /\ outputTokensTotal' <= sample.tokens =>
               /\ NothingNew /\ subject.totals
               /\ UsedAt(pass.size) - UsedAt(0) >= pass.size
      BY <1>1, <2>1, <2>7, <3>3, <3>4, ReadFits DEF tokens, seen
    <3>6. NothingNew => HeardWithinPass'
      <4>1. pass.age \in Nat /\ sample.idle \in Int /\ evidence.silence \in Int /\ MaxPass \in Nat
        BY PassTypes, EvidenceTypes, Spans
      <4>2. NothingNew /\ sample.idle # -1 => evidence.silence >= sample.idle - pass.age - MaxPass
        BY <4>1 DEF SampleFits
      <4>. QED  BY <1>1, <3>3, <4>2 DEF HeardWithinPass
    <3>7. NothingRead' => ~pass'.seen /\ outputTokensTotal' <= sample.tokens
      BY <2>2, <3>3 DEF NothingRead
    <3>8. PassFits'
      BY <1>1, <2>1, <2>2, <2>4, <2>5, <3>3, <3>5, <3>6, <3>7 DEF PassFits, PassIsCurrent
    <3>. QED  BY <1>1, <3>3, <3>8, PassTurns
  <2>. QED  BY <2>6, <2>7
<1>. QED  BY <1>2, <1>3 DEF ReadLog

(* Both a verdict's writers: the row is condemned once, and its cancel told. *)
LEMMA VerdictFits ==
  ASSUME SamplingInv, NEW reason \in Verdicts, VerdictLands, NEW new,
         new.state = "stale", new.reason = reason, new.slot = subject.slot,
         new.cancel = IF subject.cancel = "none" /\ subject.slot THEN reason ELSE subject.cancel
  PROVE  /\ new.state \in {"preparing", "running"} => new.slot
         /\ ~new.slot => new.cancel = "none"
         /\ new.state = "failed" => ~new.slot /\ new.reason = "none"
         /\ new.cancel \in Verdicts => new.reason = new.cancel
         /\ new.slot /\ new.reason # "none" => new.cancel # "none"
BY SubjectTypes DEF SamplingInv, SubjectFits, VerdictLands, Verdicts

LEMMA JudgeKeeps ==
  ASSUME SamplingInv, NEW shape \in Shapes \cup {Unreadable}, Judge(shape)
  PROVE  SamplingInv'
<1>. USE DEF SamplingInv
<1>. DEFINE log == evidence.log
            used == evidence.used
            rest == UnreadAfterPersist
            progress == watchdogProgressObserved(shape)
            idle == watchdogIdleClock(progress)
            reason == watchdogTerminalReason(idle, progress)
            churn == IF shape = Unreadable THEN subject.churn + 1 ELSE subject.churn
<1>1. pass' = NoPass /\ pass.at = "walk"
  BY DEF Judge
<1>2. PassFits'
  BY <1>1, NoPassFits
<1>3. CASE ~isCurrentWatchdogGeneration(pass.gen)
  <2>1. UNCHANGED <<subject, evidence, sample>>
    BY <1>3 DEF Judge
  <2>. QED  BY <1>1, <1>2, <2>1, NoPassFits, PassTurns
<1>4. CASE isCurrentWatchdogGeneration(pass.gen)
  <2>1. /\ PassIsCurrent /\ pass.gen = subject.gen /\ subject.state = "running"
        /\ subject.slot
    BY <1>1, <1>4 DEF PassIsCurrent, isCurrentWatchdogGeneration, SubjectFits
  <2>2. /\ pass.size \in Nat /\ pass.size <= Len(log) /\ log \in Seq(Nat) /\ Len(log) \in Nat
        /\ used \in Nat /\ pass.used \in Nat /\ sample.tokens \in Nat /\ outputTokensTotal \in Nat
        /\ pass.prev.tokens = sample.tokens
    <3>1. /\ pass.size \in Nat /\ log \in Seq(Nat) /\ used \in Nat /\ pass.used \in Nat
          /\ sample.tokens \in Nat
      BY PassTypes, EvidenceTypes
    <3>2. pass.size <= Len(log) /\ pass.prev.tokens = sample.tokens
      BY <2>1 DEF PassFits
    <3>3. outputTokensTotal \in Nat
      BY <3>1, <3>2 DEF outputTokensTotal
    <3>. QED  BY <3>1, <3>2, <3>3
  <2>3. idle \in -1 .. AgeCap /\ pass.age \in Nat /\ pass.age \in -1 .. AgeCap
    BY EvidenceTypes, PassTypes, Spans DEF watchdogIdleClock
  <2>4. /\ rest \in Seq(Nat) /\ Len(rest) = Len(log) - pass.size
        /\ \A i \in 1 .. Len(rest) : rest[i] = log[pass.size + i]
        /\ pass.size = 0 => rest = log
    BY <2>2, RestOfLog DEF UnreadAfterPersist
  <2>5. sample' = [gen |-> pass.gen, idle |-> idle, tokens |-> outputTokensTotal, shape |-> shape]
    BY <1>4 DEF Judge
  <2>6. /\ sample' \in SampleRow /\ sample'.gen = subject.gen /\ sample'.idle = idle
        /\ sample'.tokens = outputTokensTotal
    BY <2>1, <2>2, <2>3, <2>5, PassTypes DEF SampleRow
  <2>7. /\ evidence' \in Evidence /\ evidence'.log = rest /\ evidence'.used = used
        /\ evidence'.silence = evidence.silence
    <3>1. evidence' = [evidence EXCEPT !.log = rest]
      BY <1>4 DEF Judge
    <3>. QED  BY <2>4, <3>1 DEF SamplingRecords, Evidence
  <2>22. subject'.totals = subject.totals /\ subject'.gen = subject.gen
    BY <1>4 DEF Judge, Condemned, SamplingRecords, SubjectRow
  <2>. HIDE DEF idle, rest
  <2>23. /\ \A i \in Nat : \A k \in Nat : k = pass.size + i => UsedAt(i)' = UsedAt(k)
         /\ UsedAt(0)' = UsedAt(pass.size)
    <3>1. ASSUME NEW i \in Nat, NEW k \in Nat, k = pass.size + i PROVE UsedAt(i)' = UsedAt(k)
      <4>1. CASE k < Len(log)
        <5>1. i < Len(rest) /\ i + 1 \in 1 .. Len(rest)
          BY <2>2, <2>4, <3>1, <4>1
        <5>2. rest[i + 1] = log[pass.size + (i + 1)]
          BY <2>4, <5>1
        <5>3. pass.size + (i + 1) = k + 1
          BY <2>2, <3>1
        <5>4. rest[i + 1] = log[k + 1]
          BY <5>2, <5>3
        <5>. QED  BY <2>7, <4>1, <5>1, <5>4 DEF UsedAt
      <4>2. CASE ~(k < Len(log))
        BY <2>2, <2>4, <2>7, <3>1, <4>2 DEF UsedAt
      <4>. QED  BY <4>1, <4>2
    <3>2. 0 \in Nat /\ pass.size = pass.size + 0
      BY <2>2
    <3>. QED  BY <2>2, <3>1, <3>2
  <2>8. LogFits'
    <3>1. Len(rest) \in Nat /\ Len(rest) <= MaxUnread
      <4>1. MaxUnread \in Nat /\ Len(log) <= MaxUnread
        BY SamplingBounds DEF LogFits
      <4>. QED  BY <2>2, <2>4, <4>1
    <3>2. ASSUME NEW i \in 0 .. Len(rest), NEW j \in i .. Len(rest)
          PROVE  UsedAt(i)' <= UsedAt(j)' /\ UsedAt(j)' <= UsedAt(i)' + (j - i)
      <4>1. i \in Nat /\ j \in Nat /\ i <= j /\ j <= Len(rest)
        BY <3>1, <3>2
      <4>. DEFINE k == pass.size + i
                  n == pass.size + j
      <4>2. k \in Nat /\ n \in Nat /\ k = pass.size + i /\ n = pass.size + j
        BY <2>2, <4>1
      <4>. HIDE DEF k, n
      <4>3. k \in 0 .. Len(log) /\ n \in k .. Len(log) /\ n - k = j - i
        BY <2>2, <2>4, <3>1, <4>1, Shifted DEF k, n
      <4>4. UsedAt(i)' = UsedAt(k) /\ UsedAt(j)' = UsedAt(n)
        BY <2>23, <4>1, <4>2
      <4>. QED  BY <4>3, <4>4 DEF LogFits
    <3>. QED  BY <2>7, <3>1, <3>2 DEF LogFits
  <2>9. UsedAt(pass.size) \in Nat /\ UsedAt(0) \in Nat
    BY <2>2, UsedAtFits
  <2>10. outputTokensTotal >= UsedAt(pass.size)
    BY <1>1, <2>1 DEF PassFits
  <2>11. subject.totals => outputTokensTotal <= used
    BY <1>1, <2>1, <2>2 DEF outputTokensTotal, PassFits, SampleFits
  <2>12. sample.idle # -1 /\ ~progress => NothingRead
    <3>1. sample.idle # -1 => pass.prev # NoSample
      BY <2>1 DEF PassFits, NoSample
    <3>. QED  BY <2>2, <3>1 DEF watchdogProgressObserved, NothingRead
  <2>24. NothingRead /\ NothingNew' => NothingNew
    <3>1. SUFFICES ASSUME NothingRead, NothingNew' PROVE NothingNew
      OBVIOUS
    <3>2. /\ Len(rest) - (used - UsedAt(pass.size)) <= 0
          /\ IF subject.totals THEN used <= outputTokensTotal ELSE rest = <<>>
      BY <2>6, <2>7, <2>22, <2>23, <3>1 DEF NothingNew, MessagesAhead, TokensAhead
    <3>3. outputTokensTotal <= sample.tokens
      BY <2>2, <3>1 DEF NothingRead
    <3>4. CASE pass.size = 0
      <4>1. rest = log /\ UsedAt(pass.size) = UsedAt(0)
        BY <2>4, <3>4
      <4>. QED  BY <2>2, <2>9, <3>2, <3>3, <4>1 DEF NothingNew, MessagesAhead, TokensAhead
    <3>5. CASE pass.size # 0
      <4>1. subject.totals /\ UsedAt(pass.size) - UsedAt(0) >= pass.size
        BY <1>1, <2>1, <2>2, <3>1, <3>5 DEF PassFits
      <4>2. MessagesAhead <= 0
        <5>1. Len(rest) = Len(log) - pass.size /\ Len(rest) - (used - UsedAt(pass.size)) <= 0
          BY <2>4, <3>2
        <5>2. Len(log) - (used - UsedAt(0)) <= 0
          <6>1. Len(rest) \in Nat
            BY <2>4
          <6>. QED  BY <2>2, <2>9, <4>1, <5>1, <6>1, Dropped
        <5>. QED  BY <5>2 DEF MessagesAhead, TokensAhead
      <4>. QED  BY <2>2, <3>2, <3>3, <4>1, <4>2 DEF NothingNew
    <3>. QED  BY <3>4, <3>5
  <2>13. NothingNew' /\ idle # -1 => evidence.silence >= idle - MaxPass
    <3>1. SUFFICES ASSUME NothingNew', idle # -1 PROVE evidence.silence >= idle - MaxPass
      OBVIOUS
    <3>2. ~progress
      BY <3>1 DEF idle, watchdogIdleClock
    <3>3. CASE sample.idle = -1
      <4>1. idle = pass.age
        BY <3>2, <3>3 DEF idle, watchdogIdleClock
      <4>. QED  BY <4>1, EvidenceTypes, PassTypes, Spans
    <3>4. CASE sample.idle # -1
      <4>1. idle = sample.idle
        BY <3>2, <3>4 DEF idle, watchdogIdleClock
      <4>2. NothingNew
        BY <2>12, <2>24, <3>1, <3>2, <3>4
      <4>. QED  BY <3>4, <4>1, <4>2 DEF SampleFits
    <3>. QED  BY <3>3, <3>4
  <2>14. SampleFits'
    BY <2>6, <2>7, <2>10, <2>11, <2>13, <2>22, <2>23 DEF SampleFits
  <2>15. reason \in Verdicts \cup {"none"}
    BY DEF watchdogTerminalReason, Verdicts
  <2>16. reason = "no_progress" => pass.silence >= Grace - MaxPass
    <3>1. SUFFICES ASSUME reason = "no_progress" PROVE pass.silence >= Grace - MaxPass
      OBVIOUS
    <3>2. ~progress /\ idle # -1 /\ idle - pass.age >= Grace
      BY <3>1 DEF watchdogTerminalReason
    <3>3. sample.idle # -1 /\ idle = sample.idle
      BY <2>3, <3>2, Spans DEF idle, watchdogIdleClock
    <3>4. pass.silence >= sample.idle - pass.age - MaxPass
      BY <1>1, <2>1, <2>12, <3>2, <3>3 DEF PassFits, HeardWithinPass
    <3>. QED  BY <3>2, <3>3, <3>4, <2>3, EvidenceTypes, PassTypes, Spans
  <2>17. subject.totals /\ reason = "no_convergence" => used >= Budget
    <3>1. reason = "no_convergence" => outputTokensTotal >= Budget
      BY DEF watchdogTerminalReason
    <3>. QED  BY <2>2, <2>11, <3>1, SamplingBounds
  <2>18. churn \in 0 .. MaxChurn
    BY SubjectTypes, SamplingBounds DEF Judge
  <2>. DEFINE lands == reason # "none" /\ VerdictLands
              told == [Condemned(reason) EXCEPT !.churn = churn, !.heard = pass.silence]
  <2>19. subject' = IF lands THEN told ELSE [subject EXCEPT !.churn = churn]
    <3>1. [subject EXCEPT !.churn = IF shape = Unreadable THEN @ + 1 ELSE @].churn = churn
      BY DEF SamplingRecords, SubjectRow
    <3>2. [subject EXCEPT !.churn = IF shape = Unreadable THEN @ + 1 ELSE @]
            = [subject EXCEPT !.churn = churn]
      BY DEF SamplingRecords, SubjectRow
    <3>. QED  BY <1>4, <3>1, <3>2 DEF Judge, idle
  <2>. HIDE DEF reason, churn
  <2>20. CASE lands
    <3>1. /\ told.state = "stale" /\ told.reason = reason /\ told.slot = subject.slot
          /\ told.cancel = IF subject.cancel = "none" /\ subject.slot THEN reason ELSE subject.cancel
          /\ told.gen = subject.gen /\ told.totals = subject.totals /\ told.heard = pass.silence
      BY DEF Condemned, SamplingRecords, SubjectRow
    <3>2. told \in SubjectRow
      <4>1. pass.silence \in 0 .. AgeCap
        BY PassTypes
      <4>2. Condemned(reason) \in SubjectRow
        BY <2>15 DEF Condemned, SamplingRecords, SubjectRow, SubjectStates
      <4>. HIDE DEF Condemned
      <4>. QED  BY <2>18, <4>1, <4>2 DEF SubjectRow
    <3>. HIDE DEF told
    <3>3. SubjectFits'
      <4>1. reason \in Verdicts /\ VerdictLands
        BY <2>15, <2>20
      <4>2. /\ told.state \in {"preparing", "running"} => told.slot
            /\ ~told.slot => told.cancel = "none"
            /\ told.state = "failed" => ~told.slot /\ told.reason = "none"
            /\ told.cancel \in Verdicts => told.reason = told.cancel
            /\ told.slot /\ told.reason # "none" => told.cancel # "none"
        BY <3>1, <4>1, VerdictFits
      <4>. QED  BY <2>7, <2>16, <2>17, <2>19, <2>20, <3>1, <4>2 DEF SubjectFits
    <3>. QED  BY <1>1, <1>2, <2>6, <2>7, <2>8, <2>14, <2>19, <2>20, <3>1, <3>2, <3>3, NoPassFits
              DEF SamplingRecords
  <2>21. CASE ~lands
    <3>1. /\ subject' \in SubjectRow
          /\ \A f \in {"state", "gen", "reason", "cancelled", "slot", "cancel", "totals", "heard"} :
               subject'[f] = subject[f]
      BY <2>18, <2>19, <2>21 DEF SamplingRecords, SubjectRow
    <3>2. SubjectFits'
      BY <2>7, <3>1 DEF SubjectFits
    <3>. QED  BY <1>1, <1>2, <2>6, <2>7, <2>8, <2>14, <3>1, <3>2, NoPassFits DEF SamplingRecords
  <2>. QED  BY <2>20, <2>21
<1>. QED  BY <1>3, <1>4

(* The clock, the deadline, the operator and the attempts *)

LEMMA Ages ==
  ASSUME NEW cap \in Nat, NEW a \in 0 .. cap
  PROVE  Older(a, cap) \in 0 .. cap /\ Older(a, cap) >= a /\ Older(a, cap) <= a + 1
BY DEF Older

LEMMA AgesTogether ==
  ASSUME NEW cap \in Nat, NEW a \in 0 .. cap, NEW b \in 0 .. cap, NEW k \in Nat, a >= b - k
  PROVE  Older(a, cap) >= Older(b, cap) - k
BY DEF Older

LEMMA ClockTickKeeps == SamplingInv /\ ClockTick => SamplingInv'
<1>. SUFFICES ASSUME SamplingInv, ClockTick PROVE SamplingInv'
  OBVIOUS
<1>. USE DEF SamplingInv
<1>. DEFINE older == IF sample.idle = -1 THEN -1 ELSE Older(sample.idle, AgeCap)
            quiet == Older(evidence.silence, AgeCap)
            age == IF subject.capped THEN Older(subject.age, MaxRun) ELSE subject.age
            len == IF pass.at = "idle" THEN pass.age ELSE pass.age + 1
<1>1. /\ older \in -1 .. AgeCap /\ quiet \in 0 .. AgeCap /\ age \in 0 .. MaxRun
      /\ (older = -1) = (sample.idle = -1)
  <2>1. AgeCap \in Nat /\ MaxRun \in Nat
    BY Spans, SamplingBounds
  <2>2. quiet \in 0 .. AgeCap
    BY <2>1, Ages, EvidenceTypes
  <2>3. age \in 0 .. MaxRun
    BY <2>1, Ages, SubjectTypes
  <2>4. CASE sample.idle = -1
    BY <2>1, <2>2, <2>3, <2>4
  <2>5. CASE sample.idle # -1
    <3>1. sample.idle \in 0 .. AgeCap
      BY <2>1, <2>5, EvidenceTypes
    <3>2. older \in 0 .. AgeCap
      BY <2>1, <2>5, <3>1, Ages
    <3>. QED  BY <2>1, <2>2, <2>3, <2>5, <3>2
  <2>. QED  BY <2>4, <2>5
<1>2. len \in 0 .. MaxPass
  BY PassTypes, Spans DEF ClockTick
<1>3. sample.idle # -1 /\ evidence.silence >= sample.idle - MaxPass => quiet >= older - MaxPass
  <2>1. sample.idle # -1 => sample.idle \in 0 .. AgeCap
    BY Spans, EvidenceTypes
  <2>. QED  BY <2>1, AgesTogether, Spans, EvidenceTypes
<1>4. pass.at # "idle" /\ sample.idle # -1 /\ pass.silence >= sample.idle - pass.age - MaxPass
        => pass.silence >= older - len - MaxPass
  <2>1. SUFFICES ASSUME pass.at # "idle", sample.idle # -1,
                        pass.silence >= sample.idle - pass.age - MaxPass
                 PROVE  pass.silence >= older - len - MaxPass
    OBVIOUS
  <2>2. sample.idle \in 0 .. AgeCap /\ AgeCap \in Nat
    BY <2>1, Spans, EvidenceTypes
  <2>3. older \in 0 .. AgeCap /\ older <= sample.idle + 1
    BY <2>1, <2>2, Ages
  <2>4. len = pass.age + 1
    BY <2>1
  <2>. HIDE DEF older, len
  <2>. QED  BY <2>1, <2>2, <2>3, <2>4, PassTypes, Spans
<1>5. /\ sample' = [sample EXCEPT !.idle = older] /\ evidence' = [evidence EXCEPT !.silence = quiet]
      /\ subject' = [subject EXCEPT !.age = age]
  BY DEF ClockTick, SamplingRecords, SubjectRow, Evidence, SampleRow
<1>6. pass' = [pass EXCEPT !.age = len]
  <2>1. [pass EXCEPT !.age = pass.age] = pass
    BY DEF SamplingRecords, PassLocals
  <2>2. CASE pass.at = "idle"
    BY <2>1, <2>2 DEF ClockTick
  <2>3. CASE pass.at # "idle"
    BY <2>3 DEF ClockTick, SamplingRecords, PassLocals
  <2>. QED  BY <2>2, <2>3
<1>. HIDE DEF older, quiet, age, len
<1>7. /\ sample' \in SampleRow /\ sample'.gen = sample.gen /\ sample'.tokens = sample.tokens
      /\ sample'.idle = older /\ (sample' = NoSample) = (sample = NoSample)
  <2>1. /\ sample' \in SampleRow /\ sample'.gen = sample.gen /\ sample'.tokens = sample.tokens
        /\ sample'.idle = older /\ sample'.shape = sample.shape
    BY <1>1, <1>5 DEF SamplingRecords, SampleRow
  <2>2. ASSUME NEW x \in SampleRow
        PROVE  (x = NoSample) = (x.gen = 0 /\ x.idle = -1 /\ x.tokens = 0 /\ x.shape = Unreadable)
    BY DEF SampleRow, NoSample
  <2>3. (sample.idle = -1) = (sample'.idle = -1)
    BY <1>1, <2>1
  <2>. QED  BY <2>1, <2>2, <2>3 DEF SamplingRecords
<1>8. /\ evidence' \in Evidence /\ evidence'.log = evidence.log /\ evidence'.used = evidence.used
      /\ evidence'.silence = quiet
  BY <1>1, <1>5 DEF SamplingRecords, Evidence
<1>9. /\ subject' \in SubjectRow
      /\ \A f \in {"state", "gen", "reason", "cancelled", "slot", "cancel", "totals", "heard"} :
           subject'[f] = subject[f]
  BY <1>1, <1>5 DEF SamplingRecords, SubjectRow
<1>10. /\ pass' \in PassLocals /\ pass'.age = len
       /\ \A f \in {"at", "gen", "prev", "size", "seen", "used", "silence"} : pass'[f] = pass[f]
  BY <1>2, <1>6 DEF SamplingRecords, PassLocals
<1>11. SubjectFits' /\ LogFits'
  BY <1>8, <1>9, SameLog DEF SubjectFits
<1>12. SampleFits'
  <2>1. NothingNew' = NothingNew /\ UsedAt(0)' = UsedAt(0)
    BY <1>7, <1>8, <1>9, SameLog DEF NothingNew
  <2>2. NothingNew /\ older # -1 => quiet >= older - MaxPass
    BY <1>1, <1>3, Spans DEF SampleFits
  <2>. QED  BY <1>7, <1>8, <1>9, <2>1, <2>2 DEF SampleFits
<1>13. PassFits'
  <2>1. /\ PassIsCurrent' = PassIsCurrent /\ outputTokensTotal' = outputTokensTotal
        /\ NothingRead' = NothingRead
    BY <1>9, <1>10 DEF PassIsCurrent, outputTokensTotal, NothingRead
  <2>2. UsedAt(pass.size)' = UsedAt(pass.size) /\ UsedAt(0)' = UsedAt(0)
    BY <1>8, <1>10 DEF UsedAt
  <2>3. pass.at # "idle" /\ HeardWithinPass => HeardWithinPass'
    BY <1>1, <1>4, <1>7, <1>10 DEF HeardWithinPass
  <2>4. /\ PassIsCurrent /\ pass.at = "read" /\ pass.size = 0 => HeardWithinPass'
        /\ PassIsCurrent /\ pass.at = "walk" /\ NothingRead => HeardWithinPass'
    BY <2>3 DEF PassFits
  <2>. QED  BY <1>1, <1>7, <1>8, <1>9, <1>10, <2>1, <2>2, <2>4 DEF PassFits
<1>. QED  BY <1>7, <1>8, <1>9, <1>10, <1>11, <1>12, <1>13 DEF SamplingRecords

(* Steps of the subject alone that keep its attempt. *)
LEMMA SubjectMoves ==
  ASSUME SamplingInv, subject' \in SubjectRow, UNCHANGED <<evidence, sample, pass>>,
         subject'.gen = subject.gen, subject'.totals = subject.totals, SubjectFits'
  PROVE  SamplingInv'
<1>1. LogFits' /\ SampleFits'
  BY SameLog DEF SamplingInv, SampleFits, NothingNew
<1>2. PassFits'
  BY DEF SamplingInv, PassFits, PassIsCurrent, UsedAt, outputTokensTotal, NothingRead, HeardWithinPass
<1>. QED  BY <1>1, <1>2 DEF SamplingInv, SamplingRecords

LEMMA SlotDeadlineKeeps == SamplingInv /\ SlotDeadline => SamplingInv'
<1>. SUFFICES ASSUME SamplingInv, SlotDeadline PROVE SamplingInv'
  OBVIOUS
<1>. DEFINE told == Condemned("run_timeout")
<1>1. /\ subject' = told /\ VerdictLands /\ UNCHANGED <<evidence, sample, pass>>
  BY DEF SlotDeadline
<1>2. /\ told.state = "stale" /\ told.reason = "run_timeout" /\ told.slot = subject.slot
      /\ told.cancel = IF subject.cancel = "none" /\ subject.slot THEN "run_timeout" ELSE subject.cancel
      /\ told.gen = subject.gen /\ told.totals = subject.totals /\ told.heard = subject.heard
  BY DEF Condemned, SamplingInv, SamplingRecords, SubjectRow
<1>3. told \in SubjectRow
  BY DEF Condemned, SamplingInv, SamplingRecords, SubjectRow, SubjectStates, Verdicts
<1>. HIDE DEF told
<1>4. "run_timeout" \in Verdicts
  BY DEF Verdicts
<1>5. /\ told.state \in {"preparing", "running"} => told.slot
      /\ ~told.slot => told.cancel = "none"
      /\ told.state = "failed" => ~told.slot /\ told.reason = "none"
      /\ told.cancel \in Verdicts => told.reason = told.cancel
      /\ told.slot /\ told.reason # "none" => told.cancel # "none"
  BY <1>1, <1>2, <1>4, VerdictFits
<1>6. SubjectFits'
  BY <1>1, <1>2, <1>5 DEF SubjectFits
<1>. QED  BY <1>1, <1>2, <1>3, <1>6, SubjectMoves

LEMMA OperatorCancelsKeeps == SamplingInv /\ OperatorCancels => SamplingInv'
<1>. SUFFICES ASSUME SamplingInv, OperatorCancels PROVE SamplingInv'
  OBVIOUS
<1>1. /\ subject' \in SubjectRow
      /\ \A f \in {"state", "gen", "reason", "slot", "totals", "heard"} : subject'[f] = subject[f]
      /\ subject'.cancel = IF subject.cancel = "none" THEN "operator" ELSE subject.cancel
      /\ UNCHANGED <<evidence, sample, pass>> /\ subject.state \in {"preparing", "running"}
  BY DEF OperatorCancels, SamplingInv, SamplingRecords, SubjectRow
<1>2. SubjectFits'
  BY <1>1 DEF SamplingInv, SubjectFits, Verdicts
<1>. QED  BY <1>1, <1>2, SubjectMoves

LEMMA FinishPreparingKeeps == SamplingInv /\ FinishPreparing => SamplingInv'
<1>. SUFFICES ASSUME SamplingInv, FinishPreparing PROVE SamplingInv'
  OBVIOUS
<1>1. /\ subject' \in SubjectRow /\ subject'.state = "running"
      /\ \A f \in {"gen", "reason", "slot", "cancel", "totals", "heard"} : subject'[f] = subject[f]
      /\ UNCHANGED <<evidence, sample, pass>> /\ subject.state = "preparing"
  BY DEF FinishPreparing, SamplingInv, SamplingRecords, SubjectRow, SubjectStates
<1>2. SubjectFits'
  BY <1>1 DEF SamplingInv, SubjectFits
<1>. QED  BY <1>1, <1>2, SubjectMoves

LEMMA SettleKeeps ==
  ASSUME SamplingInv, NEW outcome \in {"failed", "succeeded"}, SettleAttempt(outcome)
  PROVE  SamplingInv'
<1>. DEFINE state == IF subject.reason # "none" /\ ~subject.cancelled THEN "stale"
                     ELSE IF subject.cancelled THEN "cancelled" ELSE outcome
<1>1. state \in SubjectStates /\ state \notin {"preparing", "running"}
  BY DEF SubjectStates
<1>2. state = "failed" => subject.reason = "none"
  OBVIOUS
<1>3. subject' = [subject EXCEPT !.slot = FALSE, !.cancel = "none", !.state = state]
  BY DEF SettleAttempt
<1>. HIDE DEF state
<1>4. /\ subject' \in SubjectRow /\ subject'.state = state /\ subject'.slot = FALSE
      /\ subject'.cancel = "none"
      /\ \A f \in {"gen", "reason", "totals", "heard"} : subject'[f] = subject[f]
      /\ UNCHANGED <<evidence, sample, pass>>
  BY <1>1, <1>3 DEF SettleAttempt, SamplingInv, SamplingRecords, SubjectRow
<1>5. SubjectFits'
  BY <1>1, <1>2, <1>4 DEF SamplingInv, SubjectFits, Verdicts
<1>. QED  BY <1>4, <1>5, SubjectMoves

LEMMA RetryStartsKeeps == SamplingInv /\ RetryStarts => SamplingInv'
<1>. SUFFICES ASSUME SamplingInv, RetryStarts PROVE SamplingInv'
  OBVIOUS
<1>. USE DEF SamplingInv
<1>1. subject.gen + 1 \in 1 .. MaxAttempts /\ subject.gen \in Nat /\ pass.gen \in Nat
  BY SubjectTypes, PassTypes, SamplingBounds DEF RetryStarts
<1>2. /\ subject' \in SubjectRow /\ subject'.state = "preparing" /\ subject'.gen = subject.gen + 1
      /\ subject'.slot = TRUE
      /\ \A f \in {"reason", "cancel", "totals", "heard"} : subject'[f] = subject[f]
      /\ subject.state = "failed"
  BY <1>1 DEF RetryStarts, SamplingRecords, SubjectRow, SubjectStates
<1>3. sample' = NoSample /\ UNCHANGED pass /\ evidence' = FreshEvidence
  BY DEF RetryStarts, SampleOfNewAttempt
<1>4. /\ FreshEvidence \in Evidence /\ FreshEvidence.log = <<>> /\ FreshEvidence.used = 0
  BY SamplingBounds, Spans DEF FreshEvidence, Evidence, Shapes
<1>5. NoSample \in SampleRow /\ NoSample.tokens = 0 /\ NoSample.idle = -1
  BY Spans DEF NoSample, SampleRow
<1>6. LogFits' /\ \A i \in Nat : UsedAt(i)' = 0
  <2>1. Len(evidence'.log) = 0 /\ MaxUnread >= 0 /\ evidence'.used = 0
    BY <1>3, <1>4, SamplingBounds
  <2>2. \A i \in Nat : UsedAt(i)' = 0
    BY <2>1 DEF UsedAt
  <2>3. \A i \in 0 .. 0 : i \in Nat /\ i = 0 /\ \A j \in i .. 0 : j = 0
    OBVIOUS
  <2>. QED  BY <2>1, <2>2, <2>3 DEF LogFits
<1>7. SubjectFits'
  BY <1>2 DEF SubjectFits, Verdicts
<1>8. SampleFits'
  BY <1>3, <1>4, <1>5, <1>6 DEF SampleFits
<1>9. PassFits'
  BY <1>1, <1>2, <1>3 DEF PassFits, PassIsCurrent
<1>. QED  BY <1>2, <1>3, <1>4, <1>5, <1>6, <1>7, <1>8, <1>9 DEF SamplingRecords

LEMMA SamplingBegins == SamplingInit => SamplingInv
<1>. SUFFICES ASSUME SamplingInit PROVE SamplingInv
  OBVIOUS
<1>1. PICK capped, totals \in BOOLEAN : subject = FirstAttempt(capped, totals)
  BY DEF SamplingInit
<1>2. /\ subject \in SubjectRow /\ subject.state = "preparing" /\ subject.slot = TRUE
      /\ subject.reason = "none" /\ subject.cancel = "none"
  <2>1. 1 \in 1 .. MaxAttempts /\ 0 \in 0 .. MaxRun /\ 0 \in 0 .. MaxChurn /\ 0 \in 0 .. AgeCap
    BY SamplingBounds, Spans
  <2>. QED  BY <1>1, <2>1 DEF FirstAttempt, SubjectRow, SubjectStates
<1>3. evidence = FreshEvidence /\ sample = NoSample /\ pass = NoPass
  BY DEF SamplingInit
<1>4. /\ FreshEvidence \in Evidence /\ FreshEvidence.log = <<>> /\ FreshEvidence.used = 0
  BY SamplingBounds, Spans DEF FreshEvidence, Evidence, Shapes
<1>5. NoSample \in SampleRow /\ NoSample.tokens = 0 /\ NoSample.idle = -1
  BY Spans DEF NoSample, SampleRow
<1>6. NoPass \in PassLocals /\ NoPass.at = "idle" /\ NoPass.seen = FALSE /\ NoPass.used = 0
  BY <1>5, Spans DEF NoPass, PassLocals
<1>7. LogFits /\ \A i \in Nat : UsedAt(i) = 0
  <2>1. Len(evidence.log) = 0 /\ MaxUnread >= 0 /\ evidence.used = 0
    BY <1>3, <1>4, SamplingBounds
  <2>2. \A i \in Nat : UsedAt(i) = 0
    BY <2>1 DEF UsedAt
  <2>3. \A i \in 0 .. 0 : i \in Nat /\ i = 0 /\ \A j \in i .. 0 : j = 0
    OBVIOUS
  <2>. QED  BY <2>1, <2>2, <2>3 DEF LogFits
<1>8. SubjectFits
  BY <1>2 DEF SubjectFits, Verdicts
<1>9. SampleFits
  BY <1>3, <1>4, <1>5, <1>7 DEF SampleFits
<1>. QED  BY <1>2, <1>3, <1>4, <1>5, <1>6, <1>7, <1>8, <1>9
          DEF SamplingInv, SamplingRecords, PassFits, PassIsCurrent

LEMMA SamplingGoesOn == SamplingInv /\ [SamplingNext]_samplingVars => SamplingInv'
<1>. SUFFICES ASSUME SamplingInv, [SamplingNext]_samplingVars PROVE SamplingInv'
  OBVIOUS
<1>1. CASE UNCHANGED samplingVars
  <2>1. UNCHANGED <<subject, evidence, sample, pass>>
    BY <1>1 DEF samplingVars
  <2>2. PassFits'
    BY <2>1 DEF SamplingInv, PassFits, PassIsCurrent, UsedAt, outputTokensTotal, NothingRead,
                HeardWithinPass
  <2>. QED  BY <2>1, <2>2, PassTurns DEF SamplingInv, SamplingRecords
<1>2. CASE PassSteps
  BY <1>2, StatLogKeeps, ReadLogKeeps, JudgeKeeps DEF PassSteps
<1>3. CASE SamplingNext /\ ~PassSteps
  BY <1>3, EmitKeeps, TouchKeeps, BeginPassKeeps, ClockTickKeeps, SlotDeadlineKeeps,
     OperatorCancelsKeeps, FinishPreparingKeeps, SettleKeeps, RetryStartsKeeps DEF SamplingNext
<1>. QED  BY <1>1, <1>2, <1>3

LEMMA SamplingInvHolds == SamplingSpec => []SamplingInv
BY SamplingBegins, SamplingGoesOn, PTL DEF SamplingSpec

\* For any grace, budget and cap, any length of a pass and any number of attempts:
\* a Run condemned as silent was silent, no token escapes the budget and none that
\* was not used is charged where totals are reported, a pass that outlives its
\* attempt leaves nothing to the next, and one verdict lands and is told.
THEOREM VerdictsRestOnEvidence == SamplingSpec => []SamplingInvariant
<1>1. SamplingInv => SamplingTypeOK
  <2>. SUFFICES ASSUME SamplingInv PROVE SamplingTypeOK
    OBVIOUS
  <2>. USE DEF SamplingInv
  <2>. QED  BY SubjectTypes, EvidenceTypes, PassTypes
            DEF SamplingTypeOK, SubjectFits, LogFits, SubjectStates
<1>2. SamplingInv => QuietWholeGrace /\ SampleOfThisAttempt /\ OneVerdictIsTold /\ BudgetOfRealTotals
  BY DEF SamplingInv, SubjectFits, SampleFits, QuietWholeGrace, SampleOfThisAttempt,
         OneVerdictIsTold, BudgetOfRealTotals
<1>3. SamplingInv => EveryTokenCounted
  <2>1. SUFFICES ASSUME SamplingInv PROVE EveryTokenCounted
    OBVIOUS
  <2>2. sample.tokens \in Nat /\ evidence.used \in Nat /\ sample.tokens >= UsedAt(0)
    BY <2>1, EvidenceTypes DEF SamplingInv, SampleFits
  <2>3. UsedAt(0) \in Nat
    BY <2>1, UsedAtFits
  <2>. QED  BY <2>2, <2>3 DEF EveryTokenCounted, TokensAhead
<1>. QED  BY <1>1, <1>2, <1>3, SamplingInvHolds, PTL DEF SamplingInvariant

=============================================================================
