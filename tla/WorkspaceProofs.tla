--------------------------- MODULE WorkspaceProofs ----------------------------
(***************************************************************************)
(* Git worktrees: what holds for any number of issues, Runs, commits and   *)
(* failing commands.  The turns at the repository cache are taken in the   *)
(* order of the Runs; a preparation that still works belongs to the one    *)
(* Run of its issue that is live.  Configuration reload has a part of its   *)
(* own at the end.                                                         *)
(***************************************************************************)
EXTENDS IssueWorkspaces, ConfigReload, FiniteSetTheorems, SequenceTheorems,
        WellFoundedInduction, TLAPS

RunPlaces == Live \cup Terminal \cup {"none", "refused"}
PrepPlaces == Tracked \cup FileAwaits \cup Ended \cup {"none", "queued"}
Turns == {"none", "waiting", "open", "over"}
Kinds == {"issue", "adopted"}
Trees == {"none", "listed", "whole"}
RetentionPlaces == {"idle", "next", "removing", "refused"}
RunRow == [issue : Issues, kind : Kinds, at : RunPlaces, path : BOOLEAN, pruned : BOOLEAN]
PrepRow == [at : PrepPlaces, aborted : BOOLEAN, settled : BOOLEAN, turn : Turns,
            after : RunIds \cup {NoRun}, wasListed : BOOLEAN, expected : SUBSET Commits]
BranchRow == [ref : BOOLEAN, tip : SUBSET Commits, dirty : BOOLEAN, tree : Trees]
RemoteRow == [tip : SUBSET Commits, fetched : SUBSET Commits]
RetentionRow == [at : RetentionPlaces, todo : SUBSET RunIds, now : RunIds \cup {NoRun},
                 seen : SUBSET RunIds]

WorkspaceRecords ==
    /\ run \in [RunIds -> RunRow] /\ prep \in [RunIds -> PrepRow]
    /\ tail \in RunIds \cup {NoRun} /\ cache \in BOOLEAN
    /\ branch \in [Issues -> BranchRow] /\ remote \in [Issues -> RemoteRow]
    /\ retention \in RetentionRow
    /\ commits \in 0 .. MaxCommits /\ troubles \in 0 .. MaxTroubles

Pending(r) == prep[r].turn \in {"waiting", "open"}
Working(r) == prep[r].at \notin Ended \cup {"none"} /\ ~ prep[r].settled

\* Rows are created in order, and a row that was not has no preparation.
RowsInOrder ==
    \A r \in RunIds :
        /\ run[r].at # "none" => \A q \in RunIds : q < r => run[q].at # "none"
        /\ run[r].at = "none" => /\ prep[r].at = "none" /\ prep[r].turn = "none"
                                 /\ ~ prep[r].settled /\ ~ prep[r].aborted

\* The promises of fetchLocks form one chain that ends at the map's entry, and
\* only its head may be open.
TurnsInOrder ==
    /\ \A r, q \in RunIds : q < r /\ Pending(q) =>
           /\ prep[r].turn # "open"
           /\ prep[r].turn = "waiting" =>
                  prep[r].after # NoRun /\ q <= prep[r].after /\ Pending(prep[r].after)
    /\ tail # NoRun => Pending(tail)
    /\ \A q \in RunIds : Pending(q) => tail # NoRun /\ q <= tail

\* The awaits of the cache are those of an open turn; who waits for a turn is
\* in the queue or has left it by an abort.
TurnsAreHeld ==
    \A r \in RunIds :
        /\ prep[r].at \in CacheTurn <=> prep[r].turn = "open"
        /\ prep[r].turn = "waiting" =>
               prep[r].at = "queued" \/ (prep[r].at = "failed" /\ prep[r].aborted)

\* One live Run of an issue; a preparation that works belongs to a live Run,
\* and an attempt begins after its preparation is done.
OneLiveRun ==
    /\ \A r, q \in RunIds :
           run[r].issue = run[q].issue /\ run[r].at \in Live /\ run[q].at \in Live => r = q
    /\ \A r \in RunIds : Working(r) => run[r].at \in Live
    /\ \A r \in RunIds : run[r].at \in {"prepared", "running", "waiting"} => prep[r].at = "done"

SettledIsAborted == \A r \in RunIds : prep[r].settled => prep[r].aborted

\* What a preparation learned of its worktree and branch still holds when it
\* acts on it, as long as its cleanup has not settled.
PastConflict == {"force", "mkdir", "listed", "canon", "add"}
WhatWasSeenHolds ==
    /\ \A r \in RunIds :
           /\ ~ prep[r].wasListed
           /\ Working(r) /\ prep[r].at \in PastConflict => branch[run[r].issue].tree = "none"
           /\ prep[r].at = "reset" /\ ~ prep[r].settled =>
                  branch[run[r].issue].tip \subseteq remote[run[r].issue].fetched
           /\ prep[r].at = "fetchHead" => run[r].kind = "adopted"
           /\ prep[r].at \in {"mkdir", "listed", "canon", "add"} => branch[run[r].issue].ref
           /\ prep[r].at \in {"statTree", "conflict"} /\ run[r].kind = "issue" =>
                  branch[run[r].issue].ref
    /\ \A i \in Issues : /\ ~ branch[i].ref => branch[i].tip = {}
                         /\ branch[i].tree = "whole" => branch[i].ref

\* The candidates of a retention pass are of other issues than the live Runs
\* whose workspace the rows named when the pass read them.
CandidatesAreApart ==
    /\ retention.at \in {"removing", "refused"} => retention.now # NoRun
    /\ \A r \in retention.seen :
           /\ run[r].at # "none"
           /\ \A c \in RunIds : c \in retention.todo \/ c = retention.now =>
                  run[c].issue # run[r].issue
    /\ \A c \in RunIds : c \in retention.todo \/ c = retention.now => run[c].at # "none"

PreparationsFit ==
    /\ RowsInOrder /\ OneLiveRun /\ SettledIsAborted /\ SettledCleanupIsQuiet
    /\ WhatWasSeenHolds /\ HalfWorktreeIsReported
TurnsInv == TurnsInOrder /\ TurnsAreHeld
WorkspaceInv == WorkspaceRecords /\ TurnsInv /\ PreparationsFit /\ CandidatesAreApart

LEMMA WorkspaceWords ==
  /\ Live \subseteq RunPlaces /\ Terminal \subseteq RunPlaces /\ {"none", "refused"} \subseteq RunPlaces
  /\ CacheTurn \subseteq PrepPlaces /\ GitCommands \subseteq PrepPlaces
  /\ FileAwaits \subseteq PrepPlaces /\ Ended \subseteq PrepPlaces
  /\ {"none", "queued", "undo", "drop", "dropFailed"} \subseteq PrepPlaces
  /\ {"none", "waiting", "open", "over"} \subseteq Turns
  /\ {"issue", "adopted"} \subseteq Kinds
  /\ {"none", "listed", "whole"} \subseteq Trees
  /\ {"idle", "next", "removing", "refused"} \subseteq RetentionPlaces
  /\ {"preparing", "prepared", "running", "unwinding", "waiting"} \subseteq RunPlaces
  /\ {"succeeded", "failed"} \subseteq RunPlaces
BY DEF Live, Terminal, RunPlaces, CacheTurn, GitCommands, FileAwaits, Ended, PrepPlaces, Tracked,
   Turns, Kinds, Trees, RetentionPlaces

-----------------------------------------------------------------------------
(* Steps, by what they change.                                             *)

PlacesKept == branch' = branch /\ remote' = remote

\* The preparation of r goes on to another await; leaving the cache turn ends it.
MovesTo(r, at) ==
    /\ \A q \in RunIds \ {r} : prep'[q] = prep[q]
    /\ prep'[r].at = at /\ prep'[r].aborted = prep[r].aborted
    /\ prep'[r].settled = prep[r].settled /\ prep'[r].after = prep[r].after
    /\ prep[r].wasListed = FALSE => prep'[r].wasListed = FALSE
    /\ \/ /\ prep[r].turn = "open" /\ at \notin CacheTurn /\ prep'[r].turn = "over"
          /\ tail' = IF tail = r THEN NoRun ELSE tail
       \/ /\ prep[r].turn # "open" \/ at \in CacheTurn
          /\ prep'[r].turn = prep[r].turn /\ tail' = tail

LEMMA GotoMoves ==
  ASSUME WorkspaceRecords, NEW r \in RunIds, NEW at \in PrepPlaces, Goto(r, at)
  PROVE  prep' \in [RunIds -> PrepRow] /\ tail' \in RunIds \cup {NoRun} /\ MovesTo(r, at)
<1>. DEFINE leaves == prep[r].turn = "open" /\ at \notin CacheTurn
            turned == IF leaves THEN "over" ELSE prep[r].turn
            expected == IF at \in Ended THEN {} ELSE prep[r].expected
            listed == prep[r].wasListed /\ at \notin Ended
            next == [prep[r] EXCEPT !.at = at, !.turn = turned, !.expected = expected,
                                    !.wasListed = listed]
<1>1. prep[r] \in PrepRow /\ prep \in [RunIds -> PrepRow] /\ tail \in RunIds \cup {NoRun}
  BY DEF WorkspaceRecords
<1>2. turned \in Turns /\ listed \in BOOLEAN /\ expected \in SUBSET Commits
  <2>1. turned \in Turns
    BY <1>1, WorkspaceWords DEF PrepRow
  <2>2. listed \in BOOLEAN
    OBVIOUS
  <2>3. expected \in SUBSET Commits
    BY <1>1 DEF PrepRow
  <2>. QED
    BY <2>1, <2>2, <2>3
<1>3. prep' = [prep EXCEPT ![r] = next] /\ tail' = (IF leaves /\ tail = r THEN NoRun ELSE tail)
  BY <1>1 DEF Goto, PrepRow
<1>4. listed = FALSE \/ prep[r].wasListed # FALSE
  OBVIOUS
<1>. HIDE DEF turned, expected, listed
<1>5. next \in PrepRow
  BY <1>1, <1>2 DEF PrepRow
<1>6. /\ next.at = at /\ next.turn = turned /\ next.wasListed = listed
      /\ next.aborted = prep[r].aborted /\ next.settled = prep[r].settled
      /\ next.after = prep[r].after
  BY <1>1 DEF PrepRow
<1>. HIDE DEF next
<1>7. prep' \in [RunIds -> PrepRow] /\ prep'[r] = next /\ \A q \in RunIds \ {r} : prep'[q] = prep[q]
  BY <1>1, <1>3, <1>5
<1>8. tail' \in RunIds \cup {NoRun}
  BY <1>1, <1>3
<1>9. MovesTo(r, at)
  BY <1>3, <1>4, <1>6, <1>7 DEF MovesTo, turned
<1>. QED
  BY <1>7, <1>8, <1>9

-----------------------------------------------------------------------------
(* The turns at the repository cache.                                      *)

LEMMA SameTurns ==
  ASSUME WorkspaceRecords, TurnsInOrder, tail' = tail,
         \A q \in RunIds : prep'[q].turn = prep[q].turn /\ prep'[q].after = prep[q].after
  PROVE  TurnsInOrder'
<1>0. NoRun \notin RunIds /\ tail \in RunIds \cup {NoRun}
  BY WorkspaceBounds DEF RunIds, NoRun, WorkspaceRecords
<1>1. \A q \in RunIds : prep[q].after \in RunIds \cup {NoRun}
  BY DEF WorkspaceRecords, PrepRow
<1>2. \A q \in RunIds : prep'[q].turn \in {"waiting", "open"} <=> prep[q].turn \in {"waiting", "open"}
  OBVIOUS
<1>3. \A r, q \in RunIds : q < r /\ prep'[q].turn \in {"waiting", "open"} =>
         /\ prep'[r].turn # "open"
         /\ prep'[r].turn = "waiting" =>
               /\ prep'[r].after # NoRun /\ q <= prep'[r].after
               /\ prep'[prep'[r].after].turn \in {"waiting", "open"}
  <2>. SUFFICES ASSUME NEW r \in RunIds, NEW q \in RunIds, q < r, Pending(q),
                       prep[r].turn = "waiting"
                PROVE  /\ prep[r].after # NoRun /\ q <= prep[r].after
                       /\ prep'[prep[r].after].turn \in {"waiting", "open"}
    BY <1>2 DEF Pending, TurnsInOrder
  <2>1. prep[r].after # NoRun /\ q <= prep[r].after /\ Pending(prep[r].after)
    BY DEF TurnsInOrder
  <2>2. prep[r].after \in RunIds
    BY <1>1, <2>1
  <2>. QED
    BY <1>2, <2>1, <2>2 DEF Pending
<1>4. tail' # NoRun => prep'[tail'].turn \in {"waiting", "open"}
  BY <1>0, <1>2 DEF Pending, TurnsInOrder
<1>5. \A q \in RunIds : prep'[q].turn \in {"waiting", "open"} => tail' # NoRun /\ q <= tail'
  BY <1>2 DEF Pending, TurnsInOrder
<1>. QED
  BY <1>3, <1>4, <1>5 DEF TurnsInOrder, Pending

\* A preparation moves on in its turn, which may end with that, or without one.
LEMMA TurnsMove ==
  ASSUME WorkspaceRecords, TurnsInv, NEW r \in RunIds, NEW at, MovesTo(r, at),
         at \in CacheTurn => prep[r].at \in CacheTurn, prep[r].turn # "waiting"
  PROVE  TurnsInv'
<1>. USE DEF TurnsInv, TurnsInOrder, TurnsAreHeld, Pending, MovesTo
<1>0. RunIds \subseteq Nat /\ NoRun = 0 /\ 0 \notin RunIds /\ tail \in RunIds \cup {NoRun}
  BY WorkspaceBounds DEF RunIds, NoRun, WorkspaceRecords
<1>1. \A q \in RunIds : prep[q].turn \in Turns /\ prep[q].after \in RunIds \cup {NoRun}
  BY DEF WorkspaceRecords, PrepRow
<1>2. TurnsAreHeld'
  BY <1>1
<1>3. CASE prep[r].turn = "open" /\ at \notin CacheTurn
  <2>1. \A q \in RunIds : Pending(q)' <=> (Pending(q) /\ q # r)
    BY <1>3
  <2>2. \A q \in RunIds : q < r => ~ Pending(q)
    BY <1>3
  <2>3. \A s, q \in RunIds : q < s /\ Pending(q)' =>
           /\ prep'[s].turn # "open"
           /\ prep'[s].turn = "waiting" =>
                  prep'[s].after # NoRun /\ q <= prep'[s].after /\ Pending(prep[s].after)'
    <3>. SUFFICES ASSUME NEW s \in RunIds, NEW q \in RunIds, q < s, Pending(q), q # r, s # r
                  PROVE  /\ prep[s].turn # "open"
                         /\ prep[s].turn = "waiting" =>
                               prep[s].after # NoRun /\ q <= prep[s].after
                               /\ Pending(prep[s].after) /\ prep[s].after # r
      BY <1>3, <2>1, <2>2, <1>1
    <3>. QED
      BY <1>0, <1>1, <2>2
  <2>4. /\ tail' # NoRun => Pending(tail)'
        /\ \A q \in RunIds : Pending(q)' => tail' # NoRun /\ q <= tail'
    BY <1>0, <1>3, <2>1, <2>2
  <2>5. \A s \in RunIds : prep'[s].after = prep[s].after
    OBVIOUS
  <2>6. TurnsInOrder'
    BY <2>3, <2>4, <2>5
  <2>. QED
    BY <1>2, <2>6
<1>4. CASE ~ (prep[r].turn = "open" /\ at \notin CacheTurn)
  <2>1. tail' = tail /\ \A q \in RunIds : prep'[q].turn = prep[q].turn /\ prep'[q].after = prep[q].after
    BY <1>4
  <2>2. TurnsInOrder'
    BY <1>0, <1>1, <2>1, SameTurns
  <2>. QED
    BY <1>2, <2>2
<1>. QED
  BY <1>3, <1>4

\* Neither turns nor places change, or only the abort of a queued preparation.
LEMMA TurnsKept ==
  ASSUME WorkspaceRecords, TurnsInv, tail' = tail,
         \A q \in RunIds :
            /\ prep'[q].turn = prep[q].turn /\ prep'[q].after = prep[q].after
            /\ prep[q].aborted => prep'[q].aborted
            /\ prep'[q].at = prep[q].at
               \/ (prep[q].at = "queued" /\ prep'[q].at = "failed" /\ prep'[q].aborted)
  PROVE  TurnsInv'
<1>. USE DEF TurnsInv, TurnsInOrder, TurnsAreHeld, Pending
<1>0. RunIds \subseteq Nat /\ NoRun = 0 /\ 0 \notin RunIds /\ tail \in RunIds \cup {NoRun}
  BY WorkspaceBounds DEF RunIds, NoRun, WorkspaceRecords
<1>1. \A q \in RunIds : prep[q].turn \in Turns /\ prep[q].after \in RunIds \cup {NoRun}
  BY DEF WorkspaceRecords, PrepRow
<1>2. TurnsAreHeld'
  BY DEF CacheTurn
<1>3. TurnsInOrder'
  BY <1>0, <1>1, SameTurns
<1>. QED
  BY <1>2, <1>3

\* A new preparation chains itself behind the map's entry and replaces it.
LEMMA TurnsJoined ==
  ASSUME WorkspaceRecords, RowsInOrder, TurnsInv, NEW r \in RunIds, Fresh(r),
         \A q \in RunIds \ {r} : prep'[q] = prep[q],
         prep'[r].at = "queued", prep'[r].turn = "waiting", prep'[r].after = tail, tail' = r
  PROVE  TurnsInv'
<1>. USE DEF TurnsInv, TurnsInOrder, TurnsAreHeld, Pending
<1>0. RunIds \subseteq Nat /\ NoRun = 0 /\ 0 \notin RunIds /\ tail \in RunIds \cup {NoRun}
  BY WorkspaceBounds DEF RunIds, NoRun, WorkspaceRecords
<1>1. \A q \in RunIds : prep[q].turn \in Turns /\ prep[q].after \in RunIds \cup {NoRun}
  BY DEF WorkspaceRecords, PrepRow
<1>2. ~ Pending(r) /\ \A q \in RunIds : Pending(q) => q < r
  BY <1>0 DEF RowsInOrder, Fresh
<1>3. TurnsAreHeld'
  BY DEF CacheTurn
<1>4. \A q \in RunIds : Pending(q)' <=> Pending(q) \/ q = r
  OBVIOUS
<1>5. \A s, q \in RunIds : q < s /\ Pending(q)' =>
           /\ prep'[s].turn # "open"
           /\ prep'[s].turn = "waiting" /\ s # r =>
                  prep'[s].after # NoRun /\ q <= prep'[s].after /\ Pending(prep[s].after)'
  <2>. SUFFICES ASSUME NEW s \in RunIds, NEW q \in RunIds, q < s, Pending(q) \/ q = r
                PROVE  /\ prep'[s].turn # "open"
                       /\ prep'[s].turn = "waiting" /\ s # r =>
                              /\ prep'[s].after # NoRun /\ q <= prep'[s].after
                              /\ Pending(prep[s].after)'
    BY <1>4
  <2>1. CASE s = r
    BY <2>1
  <2>2. CASE s # r /\ ~ Pending(s)
    BY <2>2
  <2>3. CASE s # r /\ Pending(s)
    <3>1. s < r /\ q # r /\ Pending(q) /\ prep'[s] = prep[s]
      BY <1>0, <1>2, <2>3
    <3>2. prep[s].turn # "open" /\ prep[s].after # NoRun /\ q <= prep[s].after
          /\ Pending(prep[s].after) /\ prep[s].turn = "waiting"
      BY <2>3, <3>1
    <3>. QED
      BY <1>1, <1>4, <3>1, <3>2
  <2>. QED
    BY <2>1, <2>2, <2>3
<1>6. \A q \in RunIds : q < r /\ Pending(q)' =>
         prep'[r].after # NoRun /\ q <= prep'[r].after /\ prep'[prep'[r].after].turn \in {"waiting", "open"}
  BY <1>0, <1>1, <1>2, <1>4
<1>7. \A q \in RunIds : Pending(q)' => q <= r
  <2>1. \A q \in RunIds : q < r => q <= r
    BY <1>0
  <2>2. r <= r
    BY <1>0
  <2>. QED
    BY <1>2, <1>4, <2>1, <2>2
<1>8. TurnsInOrder'
  <2>1. \A s, q \in RunIds : q < s /\ Pending(q)' =>
           /\ prep'[s].turn # "open"
           /\ prep'[s].turn = "waiting" =>
                  prep'[s].after # NoRun /\ q <= prep'[s].after
                  /\ prep'[prep'[s].after].turn \in {"waiting", "open"}
    BY <1>0, <1>1, <1>2, <1>4, <1>5, <1>6
  <2>. QED
    BY <2>1, <1>0, <1>7
<1>. QED
  BY <1>3, <1>8

\* The predecessor's promise has settled: the turn begins, or is over at once.
LEMMA TurnsPassOn ==
  ASSUME WorkspaceRecords, RowsInOrder, TurnsInv, NEW r \in RunIds, TurnStarts(r),
         NEW q0 \in {"open", "over"}, prep'[r].turn = q0, prep'[r].after = NoRun,
         prep'[r].aborted = prep[r].aborted,
         \A q \in RunIds \ {r} : prep'[q] = prep[q],
         (q0 = "open") => (prep'[r].at = "statCache" /\ tail' = tail),
         (q0 = "over") => (prep'[r].at = prep[r].at /\ tail' = IF tail = r THEN NoRun ELSE tail)
  PROVE  TurnsInv'
<1>. USE DEF TurnsInv, TurnsInOrder, TurnsAreHeld, Pending
<1>0. RunIds \subseteq Nat /\ NoRun = 0 /\ 0 \notin RunIds /\ tail \in RunIds \cup {NoRun}
  BY WorkspaceBounds DEF RunIds, NoRun, WorkspaceRecords
<1>1. \A q \in RunIds : prep[q].turn \in Turns /\ prep[q].after \in RunIds \cup {NoRun}
  BY DEF WorkspaceRecords, PrepRow
<1>2. prep[r].turn = "waiting" /\ (prep[r].after # NoRun => prep[prep[r].after].turn = "over")
  BY DEF TurnStarts
<1>3. \A q \in RunIds : q < r => ~ Pending(q)
  BY <1>1, <1>2
<1>4. TurnsAreHeld'
  BY <1>2 DEF CacheTurn
<1>5. \A q \in RunIds : Pending(q)' <=> (Pending(q) /\ (q # r \/ q0 = "open"))
  BY <1>2
<1>6. \A s, q \in RunIds : q < s /\ Pending(q)' =>
           /\ prep'[s].turn # "open"
           /\ prep'[s].turn = "waiting" =>
                  prep'[s].after # NoRun /\ q <= prep'[s].after
                  /\ prep'[prep'[s].after].turn \in {"waiting", "open"}
  <2>. SUFFICES ASSUME NEW s \in RunIds, NEW q \in RunIds, q < s, Pending(q), s # r,
                       q # r \/ q0 = "open"
                PROVE  /\ prep[s].turn # "open"
                       /\ prep[s].turn = "waiting" =>
                              prep[s].after # NoRun /\ q <= prep[s].after
                              /\ prep'[prep[s].after].turn \in {"waiting", "open"}
    BY <1>3, <1>5
  <2>1. prep[s].turn = "waiting" =>
           prep[s].after # NoRun /\ q <= prep[s].after /\ Pending(prep[s].after)
    OBVIOUS
  <2>2. q0 = "over" /\ prep[s].turn = "waiting" => prep[s].after # r
    BY <1>0, <1>1, <1>3, <2>1
  <2>. QED
    BY <1>1, <2>1, <2>2
<1>7. /\ tail' # NoRun => prep'[tail'].turn \in {"waiting", "open"}
      /\ \A q \in RunIds : Pending(q)' => tail' # NoRun /\ q <= tail'
  <2>1. CASE q0 = "open"
    BY <1>0, <1>2, <1>5, <2>1
  <2>2. CASE q0 = "over" /\ tail = r
    <3>1. \A q \in RunIds : Pending(q) => q = r
      BY <1>0, <1>3, <2>2
    <3>. QED
      BY <1>5, <2>2, <3>1
  <2>3. CASE q0 = "over" /\ tail # r
    BY <1>0, <1>5, <2>3
  <2>. QED
    BY <2>1, <2>2, <2>3
<1>. QED
  BY <1>4, <1>6, <1>7

LEMMA OneTurn ==
  ASSUME WorkspaceRecords, TurnsInv
  PROVE  CacheTurnIsExclusive
<1>. DEFINE S == {r \in RunIds : prep[r].at \in CacheTurn}
<1>1. \A r, q \in S : r = q
  <2>1. \A r, q \in S : ~ (q < r)
    BY DEF TurnsInv, TurnsInOrder, TurnsAreHeld, Pending
  <2>2. \A r, q \in S : r \in Nat /\ q \in Nat
    BY WorkspaceBounds DEF RunIds
  <2>. HIDE DEF S
  <2>. QED
    BY <2>1, <2>2
<1>2. S = {} \/ \E x : S = {x}
  <2>. HIDE DEF S
  <2>. QED
    BY <1>1
<1>3. Cardinality(S) \in {0, 1}
  BY <1>2, FS_EmptySet, FS_Singleton
<1>. HIDE DEF S
<1>4. Cardinality(S) <= 1
  BY <1>3
<1>. QED
  BY <1>4 DEF CacheTurnIsExclusive, S

-----------------------------------------------------------------------------
(* Rows, preparations and places.                                          *)

\* A row moves on: it stops being live only when its preparation has ended or
\* its cleanup has settled.
LEMMA RowMoves ==
  ASSUME WorkspaceRecords, PreparationsFit, NEW r \in RunIds, prep' = prep, PlacesKept,
         run' \in [RunIds -> RunRow], \A q \in RunIds \ {r} : run'[q] = run[q],
         run'[r].issue = run[r].issue, run'[r].kind = run[r].kind,
         run'[r].at # "none", run[r].at # "none",
         run'[r].at \in Live => run[r].at \in Live,
         run'[r].at \notin Live => ~ Working(r),
         run'[r].at \in {"prepared", "running", "waiting"} => prep[r].at = "done"
  PROVE  PreparationsFit'
<1>. USE DEF PreparationsFit, PlacesKept
<1>1. /\ \A q \in RunIds : run'[q].issue = run[q].issue /\ run'[q].kind = run[q].kind
      /\ \A q \in RunIds : run'[q].at = "none" <=> run[q].at = "none"
      /\ \A q \in RunIds : run'[q].at \in Live => run[q].at \in Live
  OBVIOUS
<1>2. RowsInOrder'
  BY <1>1 DEF RowsInOrder
<1>3. OneLiveRun'
  BY <1>1 DEF OneLiveRun, Working
<1>4. SettledIsAborted' /\ SettledCleanupIsQuiet'
  BY DEF SettledIsAborted, SettledCleanupIsQuiet
<1>5. WhatWasSeenHolds'
  <2>1. \A q \in RunIds : Working(q)' <=> Working(q)
    BY DEF Working
  <2>. HIDE DEF PlacesKept
  <2>2. branch' = branch /\ remote' = remote
    BY DEF PlacesKept
  <2>. QED
    BY ONLY <1>1, <2>1, <2>2, WhatWasSeenHolds, prep' = prep DEF WhatWasSeenHolds
<1>6. HalfWorktreeIsReported'
  BY <1>1 DEF HalfWorktreeIsReported
<1>. QED
  BY <1>2, <1>3, <1>4, <1>5, <1>6

\* What a preparation of r that moves on to `at` may do to the places of its
\* issue, and what it must have seen of them.
PlacesFit(r, at) ==
    LET i == run[r].issue IN
    /\ prep[r].at \notin Ended \cup {"none"} /\ at \notin {"none", "queued"}
    /\ prep[r].settled => at \notin GitCommands \cup {"undo"} /\ PlacesKept
    /\ \A j \in Issues \ {i} : branch'[j] = branch[j] /\ remote'[j] = remote[j]
    /\ at \in PastConflict /\ ~ prep[r].settled => branch'[i].tree = "none"
    /\ at = "reset" /\ ~ prep[r].settled => branch'[i].tip \subseteq remote'[i].fetched
    /\ at = "fetchHead" => run[r].kind = "adopted"
    /\ at \in {"mkdir", "listed", "canon", "add"} => branch'[i].ref
    /\ at \in {"statTree", "conflict"} /\ run[r].kind = "issue" => branch'[i].ref
    /\ branch[i].ref => branch'[i].ref
    /\ ~ branch'[i].ref => branch'[i].tip = {}
    /\ branch'[i].tree = "whole" => branch'[i].ref
    /\ branch'[i].tree = "listed" =>
           at \in {"undo", "unclean"} \/ (branch[i].tree = "listed" /\ prep[r].at # "undo")

\* The preparation of r moves on, and with it the places of its issue.
LEMMA PreparationMoves ==
  ASSUME WorkspaceRecords, PreparationsFit, NEW r \in RunIds, NEW at \in PrepPlaces,
         MovesTo(r, at), run' = run, PlacesFit(r, at)
  PROVE  PreparationsFit'
<1>. USE DEF PreparationsFit, MovesTo, PlacesFit
<1>0. \A q \in RunIds : run[q].issue \in Issues
  BY DEF WorkspaceRecords, RunRow
<1>1. \A q \in RunIds \ {r} : Working(q) /\ ~ prep[r].settled => run[q].issue # run[r].issue
  BY DEF OneLiveRun, Working
<1>2. RowsInOrder'
  BY DEF RowsInOrder
<1>3. OneLiveRun'
  BY DEF OneLiveRun, Working, Ended
<1>4. SettledIsAborted' /\ SettledCleanupIsQuiet'
  BY DEF SettledIsAborted, SettledCleanupIsQuiet
<1>5. WhatWasSeenHolds'
  <2>1. \A i \in Issues : /\ ~ branch'[i].ref => branch'[i].tip = {}
                          /\ branch'[i].tree = "whole" => branch'[i].ref
                          /\ branch[i].ref => branch'[i].ref
    BY DEF WhatWasSeenHolds
  <2>2. \A q \in RunIds : ~ prep'[q].wasListed
    BY DEF WhatWasSeenHolds
  <2>3. \A q \in RunIds \ {r} : Working(q) =>
           branch'[run[q].issue] = branch[run[q].issue] /\ remote'[run[q].issue] = remote[run[q].issue]
    BY <1>0, <1>1 DEF PlacesKept
  <2>4. \A q \in RunIds \ {r} :
           /\ Working(q)' /\ prep'[q].at \in PastConflict => branch'[run[q].issue].tree = "none"
           /\ prep'[q].at = "reset" /\ ~ prep'[q].settled =>
                  branch'[run[q].issue].tip \subseteq remote'[run[q].issue].fetched
    <3>. TAKE q \in RunIds \ {r}
    <3>1. prep'[q] = prep[q]
      OBVIOUS
    <3>2. prep[q].at = "reset" /\ ~ prep[q].settled => Working(q)
      BY DEF Working, Ended
    <3>3. Working(q)' <=> Working(q)
      BY <3>1 DEF Working
    <3>. QED
      BY <2>3, <3>1, <3>2, <3>3 DEF WhatWasSeenHolds
  <2>5. /\ Working(r)' /\ prep'[r].at \in PastConflict => branch'[run[r].issue].tree = "none"
        /\ prep'[r].at = "reset" /\ ~ prep'[r].settled =>
               branch'[run[r].issue].tip \subseteq remote'[run[r].issue].fetched
    BY DEF Working
  <2>6. \A q \in RunIds :
           /\ prep'[q].at = "fetchHead" => run[q].kind = "adopted"
           /\ prep'[q].at \in {"mkdir", "listed", "canon", "add"} => branch'[run[q].issue].ref
           /\ prep'[q].at \in {"statTree", "conflict"} /\ run[q].kind = "issue" =>
                  branch'[run[q].issue].ref
    BY <1>0, <2>1 DEF WhatWasSeenHolds
  <2>. QED
    BY <2>1, <2>2, <2>4, <2>5, <2>6 DEF WhatWasSeenHolds
<1>6. HalfWorktreeIsReported'
  <2>. SUFFICES ASSUME NEW i \in Issues, branch'[i].tree = "listed"
                PROVE  \E q \in RunIds : run[q].issue = i /\ prep'[q].at \in {"undo", "unclean"}
    BY DEF HalfWorktreeIsReported
  <2>1. CASE at \in {"undo", "unclean"} /\ i = run[r].issue
    BY <2>1
  <2>2. CASE ~ (at \in {"undo", "unclean"} /\ i = run[r].issue)
    <3>1. branch[i].tree = "listed" /\ (i = run[r].issue => prep[r].at # "undo")
      BY <2>2
    <3>2. PICK q \in RunIds : run[q].issue = i /\ prep[q].at \in {"undo", "unclean"}
      BY <3>1 DEF HalfWorktreeIsReported
    <3>3. q # r
      BY <3>1, <3>2 DEF Ended
    <3>. QED
      BY <3>2, <3>3
  <2>. QED
    BY <2>1, <2>2
<1>. QED
  BY <1>2, <1>3, <1>4, <1>5, <1>6

\* No preparation of the issue works, or nothing it saw of the branch changes.
LEMMA PlacesMove ==
  ASSUME WorkspaceRecords, PreparationsFit, NEW i \in Issues, prep' = prep,
         \A q \in RunIds : run'[q].issue = run[q].issue /\ run'[q].at = run[q].at
                           /\ run'[q].kind = run[q].kind,
         \A j \in Issues \ {i} : branch'[j] = branch[j] /\ remote'[j] = remote[j],
         branch'[i].tree \in {branch[i].tree, "none"}, branch'[i].ref = branch[i].ref,
         remote'[i].fetched = remote[i].fetched,
         \/ branch'[i].tip = branch[i].tip
         \/ branch[i].ref /\ \A q \in RunIds : Working(q) => run[q].issue # i
  PROVE  PreparationsFit'
<1>. USE DEF PreparationsFit
<1>1. RowsInOrder'
  BY DEF RowsInOrder
<1>2. OneLiveRun'
  BY DEF OneLiveRun, Working
<1>3. SettledIsAborted' /\ SettledCleanupIsQuiet'
  BY DEF SettledIsAborted, SettledCleanupIsQuiet
<1>4. WhatWasSeenHolds'
  <2>1. \A j \in Issues : /\ branch'[j].tree \in {branch[j].tree, "none"}
                          /\ branch'[j].ref = branch[j].ref
                          /\ remote'[j].fetched = remote[j].fetched
                          /\ \/ branch'[j].tip = branch[j].tip
                             \/ branch[j].ref /\ \A q \in RunIds : Working(q) => run[q].issue # j
    OBVIOUS
  <2>2. \A q \in RunIds : prep[q].at = "reset" /\ ~ prep[q].settled => Working(q)
    BY DEF Working, Ended
  <2>3. \A q \in RunIds : run[q].issue \in Issues
    BY DEF WorkspaceRecords, RunRow
  <2>4. \A j \in Issues : /\ ~ branch'[j].ref => branch'[j].tip = {}
                          /\ branch'[j].tree = "whole" => branch'[j].ref
    BY <2>1 DEF WhatWasSeenHolds
  <2>5. \A q \in RunIds :
           /\ ~ prep'[q].wasListed
           /\ Working(q)' /\ prep'[q].at \in PastConflict => branch'[run'[q].issue].tree = "none"
    BY <2>1, <2>3 DEF WhatWasSeenHolds, Working
  <2>6. \A q \in RunIds :
           prep'[q].at = "reset" /\ ~ prep'[q].settled =>
              branch'[run'[q].issue].tip \subseteq remote'[run'[q].issue].fetched
    BY <2>1, <2>2, <2>3 DEF WhatWasSeenHolds
  <2>7. \A q \in RunIds :
           \/ prep'[q].at \in {"mkdir", "listed", "canon", "add"}
           \/ prep'[q].at \in {"statTree", "conflict"} /\ run'[q].kind = "issue"
           => branch'[run'[q].issue].ref
    BY <2>1, <2>3 DEF WhatWasSeenHolds
  <2>. QED
    BY <2>4, <2>5, <2>6, <2>7 DEF WhatWasSeenHolds
<1>5. HalfWorktreeIsReported'
  <2>1. \A j \in Issues : branch'[j].tree = "listed" => branch[j].tree = "listed"
    OBVIOUS
  <2>. QED
    BY <2>1 DEF HalfWorktreeIsReported
<1>. QED
  BY <1>1, <1>2, <1>3, <1>4, <1>5

LEMMA ApartKept ==
  ASSUME CandidatesAreApart, retention' = retention,
         \A q \in RunIds : (run'[q].issue = run[q].issue \/ run[q].at = "none")
                           /\ (run[q].at # "none" => run'[q].at # "none"),
         WorkspaceRecords
  PROVE  CandidatesAreApart'
<1>1. retention.seen \subseteq RunIds
  BY DEF WorkspaceRecords, RetentionRow
<1>. QED
  BY <1>1 DEF CandidatesAreApart

-----------------------------------------------------------------------------
(* The actions of a Run.                                                   *)

LEMMA WorkspaceBegins == WorkspacesInit => WorkspaceInv
<1>. SUFFICES ASSUME WorkspacesInit PROVE WorkspaceInv
  OBVIOUS
<1>1. PICK i \in Issues :
         run = [r \in RunIds |-> [issue |-> i, kind |-> "issue", at |-> "none",
                                 path |-> FALSE, pruned |-> FALSE]]
  BY DEF WorkspacesInit
<1>2. WorkspaceRecords
  <2>1. [issue |-> i, kind |-> "issue", at |-> "none", path |-> FALSE, pruned |-> FALSE] \in RunRow
    BY WorkspaceWords DEF RunRow
  <2>2. NoPrep \in PrepRow
    BY WorkspaceWords DEF NoPrep, PrepRow
  <2>3. [ref |-> FALSE, tip |-> {}, dirty |-> FALSE, tree |-> "none"] \in BranchRow
    BY WorkspaceWords DEF BranchRow
  <2>4. [tip |-> {}, fetched |-> {}] \in RemoteRow
    BY DEF RemoteRow
  <2>5. [at |-> "idle", todo |-> {}, now |-> NoRun, seen |-> {}] \in RetentionRow
    BY WorkspaceWords DEF RetentionRow
  <2>6. 0 \in 0 .. MaxCommits /\ 0 \in 0 .. MaxTroubles
    BY WorkspaceBounds
  <2>7. run \in [RunIds -> RunRow] /\ prep \in [RunIds -> PrepRow]
    BY <1>1, <2>1, <2>2 DEF WorkspacesInit
  <2>8. branch \in [Issues -> BranchRow] /\ remote \in [Issues -> RemoteRow]
        /\ retention \in RetentionRow
    BY <2>3, <2>4, <2>5 DEF WorkspacesInit
  <2>9. tail \in RunIds \cup {NoRun} /\ cache \in BOOLEAN
        /\ commits \in 0 .. MaxCommits /\ troubles \in 0 .. MaxTroubles
    BY <2>6 DEF WorkspacesInit
  <2>. QED
    BY <2>7, <2>8, <2>9 DEF WorkspaceRecords
<1>3. \A r \in RunIds : /\ run[r].at = "none" /\ prep[r].at = "none" /\ prep[r].turn = "none"
                        /\ ~ prep[r].settled /\ ~ prep[r].wasListed /\ ~ prep[r].aborted
  BY <1>1 DEF WorkspacesInit, NoPrep
<1>4. TurnsInv
  BY <1>3 DEF TurnsInv, TurnsInOrder, TurnsAreHeld, Pending, CacheTurn, WorkspacesInit
<1>5. PreparationsFit
  <2>1. RowsInOrder /\ SettledIsAborted /\ SettledCleanupIsQuiet
    BY <1>3 DEF RowsInOrder, SettledIsAborted, SettledCleanupIsQuiet
  <2>2. OneLiveRun
    BY <1>3 DEF OneLiveRun, Live, Working
  <2>3. WhatWasSeenHolds
    BY <1>3 DEF WhatWasSeenHolds, Working, WorkspacesInit
  <2>4. HalfWorktreeIsReported
    BY DEF HalfWorktreeIsReported, WorkspacesInit
  <2>. QED
    BY <2>1, <2>2, <2>3, <2>4 DEF PreparationsFit
<1>6. CandidatesAreApart
  BY WorkspaceBounds DEF CandidatesAreApart, WorkspacesInit, RunIds, NoRun
<1>. QED
  BY <1>2, <1>4, <1>5, <1>6 DEF WorkspaceInv

LEMMA BeginKeeps ==
  ASSUME WorkspaceInv, NEW r \in RunIds, NEW i \in Issues, NEW kind \in Kinds,
         NEW path \in BOOLEAN, Fresh(r), LiveOf(i) = {}, Begin(r, i, kind, path)
  PROVE  WorkspaceInv'
<1>. USE DEF WorkspaceInv
<1>. DEFINE newRow == [issue |-> i, kind |-> kind, at |-> "preparing", path |-> path,
                    pruned |-> FALSE]
            expected == IF kind = "adopted" THEN remote[i].tip ELSE {}
            new == [NoPrep EXCEPT !.at = "queued", !.turn = "waiting", !.after = tail,
                                  !.expected = expected]
<1>1. newRow \in RunRow /\ new \in PrepRow
  <2>1. expected \in SUBSET Commits
    BY DEF WorkspaceRecords, RemoteRow
  <2>2. tail \in RunIds \cup {NoRun}
    BY DEF WorkspaceRecords
  <2>. HIDE DEF expected
  <2>3. newRow \in RunRow
    BY WorkspaceWords DEF RunRow
  <2>4. new \in PrepRow
    BY <2>1, <2>2, WorkspaceWords DEF NoPrep, PrepRow
  <2>. QED
    BY <2>3, <2>4
<1>2. /\ new.at = "queued" /\ new.turn = "waiting" /\ new.after = tail
      /\ ~ new.settled /\ ~ new.wasListed /\ newRow.at = "preparing" /\ newRow.issue = i
  BY DEF NoPrep
<1>3. run' = [run EXCEPT ![r] = newRow] /\ prep' = [prep EXCEPT ![r] = new] /\ tail' = r
      /\ UNCHANGED <<cache, branch, remote, retention, commits, troubles>>
  BY DEF Begin
<1>. HIDE DEF newRow, new
<1>4. /\ run' \in [RunIds -> RunRow] /\ prep' \in [RunIds -> PrepRow]
      /\ run'[r] = newRow /\ prep'[r] = new
      /\ \A q \in RunIds \ {r} : run'[q] = run[q] /\ prep'[q] = prep[q]
  BY <1>1, <1>3 DEF WorkspaceRecords
<1>5. WorkspaceRecords'
  BY <1>3, <1>4 DEF WorkspaceRecords
<1>6. TurnsInv'
  BY <1>2, <1>3, <1>4, TurnsJoined DEF PreparationsFit
<1>7. run[r].at = "none" /\ prep[r].at = "none" /\ ~ prep[r].settled
  BY DEF PreparationsFit, RowsInOrder, Fresh
<1>8. RowsInOrder'
  <2>1. \A q \in RunIds : q < r => run[q].at # "none"
    <3>. SUFFICES ASSUME NEW q \in RunIds, q < r PROVE run[q].at # "none"
      OBVIOUS
    <3>1. r \in Nat /\ q \in Nat /\ 1 <= q /\ r - 1 \in RunIds /\ (q = r - 1 \/ q < r - 1) /\ r > 1
      BY WorkspaceBounds DEF RunIds
    <3>2. run[r - 1].at # "none"
      BY <3>1 DEF Fresh
    <3>. QED
      BY <3>1, <3>2 DEF PreparationsFit, RowsInOrder
  <2>. QED
    BY <1>2, <1>4, <2>1 DEF PreparationsFit, RowsInOrder
<1>9. OneLiveRun'
  <2>1. \A q \in RunIds : run[q].issue = i => run[q].at \notin Live
    BY DEF LiveOf, Of, Live
  <2>2. \A q, s \in RunIds :
           run'[q].issue = run'[s].issue /\ run'[q].at \in Live /\ run'[s].at \in Live => q = s
    <3>. SUFFICES ASSUME NEW q \in RunIds, NEW s \in RunIds, run'[q].issue = run'[s].issue,
                         run'[q].at \in Live, run'[s].at \in Live
                  PROVE  q = s
      OBVIOUS
    <3>1. CASE q = r \/ s = r
      BY ONLY <1>2, <1>4, <2>1, <3>1, run'[q].issue = run'[s].issue, r \in RunIds,
              q \in RunIds, s \in RunIds, run'[q].at \in Live, run'[s].at \in Live
    <3>2. CASE q # r /\ s # r
      BY <1>4, <3>2 DEF PreparationsFit, OneLiveRun
    <3>. QED
      BY <3>1, <3>2
  <2>3. \A q \in RunIds : Working(q)' => run'[q].at \in Live
    BY <1>2, <1>4 DEF PreparationsFit, OneLiveRun, Working, Live
  <2>4. \A q \in RunIds : run'[q].at \in {"prepared", "running", "waiting"} => prep'[q].at = "done"
    BY <1>2, <1>4 DEF PreparationsFit, OneLiveRun
  <2>. QED
    BY <2>2, <2>3, <2>4 DEF OneLiveRun
<1>10. SettledIsAborted' /\ SettledCleanupIsQuiet'
  BY <1>2, <1>4 DEF PreparationsFit, SettledIsAborted, SettledCleanupIsQuiet
<1>11. WhatWasSeenHolds'
  <2>1. \A q \in RunIds \ {r} : Working(q)' <=> Working(q)
    BY <1>4 DEF Working
  <2>2. prep'[r].at \notin PastConflict \cup {"reset", "statTree"}
    BY <1>2, <1>4 DEF PastConflict
  <2>3. \A j \in Issues : (~ branch[j].ref => branch[j].tip = {})
                          /\ (branch[j].tree = "whole" => branch[j].ref)
    BY DEF PreparationsFit, WhatWasSeenHolds
  <2>4. \A q \in RunIds \ {r} :
           /\ ~ prep'[q].wasListed
           /\ Working(q)' /\ prep'[q].at \in PastConflict => branch[run'[q].issue].tree = "none"
           /\ prep'[q].at = "reset" /\ ~ prep'[q].settled =>
                  branch[run'[q].issue].tip \subseteq remote[run'[q].issue].fetched
           /\ prep'[q].at = "fetchHead" => run'[q].kind = "adopted"
           /\ prep'[q].at \in {"mkdir", "listed", "canon", "add"} => branch[run'[q].issue].ref
           /\ prep'[q].at \in {"statTree", "conflict"} /\ run'[q].kind = "issue" =>
                  branch[run'[q].issue].ref
    BY <1>4, <2>1 DEF PreparationsFit, WhatWasSeenHolds
  <2>5. /\ ~ prep'[r].wasListed /\ prep'[r].at \notin PastConflict
        /\ prep'[r].at \notin {"fetchHead", "reset", "statTree", "conflict", "mkdir", "listed",
                              "canon", "add"}
    BY <1>2, <1>4 DEF PastConflict
  <2>. QED
    BY <1>3, <2>3, <2>4, <2>5 DEF WhatWasSeenHolds
<1>12. HalfWorktreeIsReported'
  <2>1. \A q \in RunIds : prep[q].at \in {"undo", "unclean"} =>
           prep'[q].at = prep[q].at /\ run'[q].issue = run[q].issue
    BY <1>4, <1>7
  <2>. QED
    BY <1>3, <2>1 DEF PreparationsFit, HalfWorktreeIsReported
<1>13. CandidatesAreApart'
  BY <1>2, <1>3, <1>4, <1>7, ApartKept
<1>. QED
  BY <1>5, <1>6, <1>8, <1>9, <1>10, <1>11, <1>12, <1>13 DEF PreparationsFit

\* A row of a live Run is written.
LEMMA RowWritten ==
  ASSUME WorkspaceInv, NEW r \in RunIds, NEW newRow \in RunRow, run' = [run EXCEPT ![r] = newRow],
         UNCHANGED <<prep, tail, cache, branch, remote, retention, commits, troubles>>,
         run[r].at # "none", newRow.issue = run[r].issue, newRow.kind = run[r].kind, newRow.at # "none",
         newRow.at \in Live => run[r].at \in Live,
         newRow.at \notin Live => ~ Working(r),
         newRow.at \in {"prepared", "running", "waiting"} => prep[r].at = "done"
  PROVE  WorkspaceInv'
<1>. USE DEF WorkspaceInv
<1>1. /\ run' \in [RunIds -> RunRow] /\ run'[r] = newRow
      /\ \A q \in RunIds \ {r} : run'[q] = run[q]
  BY DEF WorkspaceRecords
<1>2. WorkspaceRecords'
  BY <1>1 DEF WorkspaceRecords
<1>3. TurnsInv'
  BY TurnsKept
<1>4. PreparationsFit'
  BY <1>1, RowMoves DEF PlacesKept
<1>5. CandidatesAreApart'
  BY <1>1, ApartKept
<1>. QED
  BY <1>2, <1>3, <1>4, <1>5

LEMMA RowStep ==
  ASSUME WorkspaceInv, NEW r \in RunIds, NEW at \in RunPlaces, NEW path \in BOOLEAN,
         run' = [run EXCEPT ![r] = [run[r] EXCEPT !.at = at, !.path = path]],
         UNCHANGED <<prep, tail, cache, branch, remote, retention, commits, troubles>>,
         run[r].at \in Live, at # "none",
         at \notin Live => ~ Working(r),
         at \in {"prepared", "running", "waiting"} => prep[r].at = "done"
  PROVE  WorkspaceInv'
<1>. DEFINE new == [run[r] EXCEPT !.at = at, !.path = path]
<1>1. run[r] \in RunRow
  BY DEF WorkspaceInv, WorkspaceRecords
<1>2. /\ new \in RunRow /\ new.at = at /\ new.issue = run[r].issue /\ new.kind = run[r].kind
  BY <1>1 DEF RunRow
<1>3. run[r].at # "none" /\ run' = [run EXCEPT ![r] = new]
  BY DEF Live
<1>. HIDE DEF new
<1>. QED
  BY <1>2, <1>3, RowWritten

LEMMA RunActs ==
  ASSUME WorkspaceInv, NEW r \in RunIds,
         Prepared(r) \/ StartAttempt(r) \/ PreparationFails(r) \/ ReleaseSlot(r) \/ RunEnds(r)
  PROVE  WorkspaceInv'
<1>1. run[r] \in RunRow /\ run \in [RunIds -> RunRow] /\ run[r].path \in BOOLEAN
  BY DEF WorkspaceInv, WorkspaceRecords, RunRow
<1>2. \A at : [run EXCEPT ![r].at = at] =
                [run EXCEPT ![r] = [run[r] EXCEPT !.at = at, !.path = run[r].path]]
  BY <1>1 DEF RunRow
<1>3. \A at : [run EXCEPT ![r].at = at, ![r].path = TRUE] =
                [run EXCEPT ![r] = [run[r] EXCEPT !.at = at, !.path = TRUE]]
  BY <1>1
<1>4. "waiting" \in RunPlaces /\ "prepared" \in RunPlaces /\ "running" \in RunPlaces
      /\ "refused" \in RunPlaces /\ "failed" \in RunPlaces /\ Terminal \subseteq RunPlaces
      /\ {"waiting", "prepared", "running"} \subseteq Live /\ "none" \notin Terminal
      /\ {"preparing", "unwinding"} \subseteq Live
  BY WorkspaceWords DEF Live, Terminal
<1>5. CASE Prepared(r)
  <2>1. CASE run[r].kind = "adopted"
    BY <1>3, <1>4, <1>5, <2>1, RowStep DEF Prepared
  <2>2. CASE run[r].kind # "adopted"
    BY <1>1, <1>2, <1>4, <1>5, <2>2, RowStep DEF Prepared, SetRun
  <2>. QED
    BY <2>1, <2>2
<1>6. CASE StartAttempt(r)
  <2>1. /\ prep[r].at = "done" /\ run[r].at \in Live
        /\ run' = [run EXCEPT ![r] = [run[r] EXCEPT !.at = "running", !.path = TRUE]]
        /\ UNCHANGED <<prep, tail, cache, branch, remote, retention, commits, troubles>>
    BY <1>3, <1>4, <1>6 DEF StartAttempt, WorkspaceInv, PreparationsFit, OneLiveRun
  <2>. QED
    BY <1>4, <2>1, RowStep
<1>7. CASE PreparationFails(r)
  <2>1. ~ Working(r)
    BY <1>7 DEF PreparationFails, Working, Ended
  <2>2. CASE run[r].kind = "adopted"
    BY <1>1, <1>2, <1>4, <1>7, <2>1, <2>2, RowStep DEF PreparationFails, SetRun
  <2>3. CASE run[r].kind # "adopted"
    BY <1>1, <1>2, <1>4, <1>7, <2>1, <2>3, RowStep DEF PreparationFails, SetRun
  <2>. QED
    BY <2>2, <2>3
<1>8. CASE ReleaseSlot(r)
  <2>1. ~ Working(r)
    BY <1>8 DEF ReleaseSlot, Working
  <2>. QED
    BY <1>1, <1>2, <1>4, <1>8, <2>1, RowStep DEF ReleaseSlot, SetRun
<1>9. CASE RunEnds(r)
  <2>1. ~ Working(r)
    BY <1>9 DEF RunEnds, Working, Ended, WorkspaceInv, PreparationsFit, OneLiveRun
  <2>2. PICK at \in Terminal : run' = [run EXCEPT ![r].at = at]
    BY <1>9 DEF RunEnds, SetRun
  <2>3. at \in RunPlaces /\ at # "none" /\ at \notin {"prepared", "running", "waiting"}
    BY <1>4 DEF Terminal
  <2>. QED
    <3>1. /\ run' = [run EXCEPT ![r] = [run[r] EXCEPT !.at = at, !.path = run[r].path]]
          /\ UNCHANGED <<prep, tail, cache, branch, remote, retention, commits, troubles>>
          /\ run[r].at \in Live
      BY <1>2, <1>4, <1>9, <2>2 DEF RunEnds
    <3>. QED
      BY <1>1, <2>1, <2>3, <3>1, RowStep
<1>. QED
  BY <1>5, <1>6, <1>7, <1>8, <1>9

\* The deadline: only a preparation in the queue leaves it, the others are told.
LEMMA AbortKeeps ==
  ASSUME WorkspaceInv, NEW r \in RunIds, Abort(r)
  PROVE  WorkspaceInv'
<1>. USE DEF WorkspaceInv
<1>. DEFINE at == IF prep[r].at = "queued" THEN "failed" ELSE prep[r].at
            new == [prep[r] EXCEPT !.aborted = TRUE, !.at = at]
            place == IF run[r].kind = "adopted" THEN run[r].at ELSE "unwinding"
            newRow == [run[r] EXCEPT !.at = place, !.path = run[r].path]
<1>1. /\ prep[r] \in PrepRow /\ run[r] \in RunRow /\ run[r].path \in BOOLEAN
      /\ run[r].at \in RunPlaces /\ prep[r].at \in PrepPlaces
  BY DEF WorkspaceRecords, RunRow, PrepRow
<1>2. at \in PrepPlaces /\ place \in RunPlaces
  BY <1>1, WorkspaceWords DEF Ended
<1>3. /\ new \in PrepRow /\ new.aborted = TRUE /\ new.at = at
      /\ new.turn = prep[r].turn /\ new.after = prep[r].after /\ new.settled = prep[r].settled
      /\ new.wasListed = prep[r].wasListed
  BY <1>1, <1>2 DEF PrepRow
<1>4. newRow \in RunRow /\ newRow.at = place /\ newRow.issue = run[r].issue /\ newRow.kind = run[r].kind
  <2>. HIDE DEF place
  <2>. QED
    BY <1>1, <1>2 DEF RunRow
<1>5. prep' = [prep EXCEPT ![r] = new] /\ run' = [run EXCEPT ![r] = newRow]
  <2>1. prep' = [prep EXCEPT ![r] = new]
    BY DEF Abort
  <2>2. run[r] = [run[r] EXCEPT !.at = run[r].at, !.path = run[r].path]
    BY <1>1 DEF RunRow
  <2>3. \A a : [run EXCEPT ![r].at = a] = [run EXCEPT ![r] = [run[r] EXCEPT !.at = a, !.path = run[r].path]]
    BY <1>1 DEF RunRow
  <2>4. run = [run EXCEPT ![r] = run[r]]
    BY DEF WorkspaceRecords
  <2>5. run' = [run EXCEPT ![r] = newRow]
    BY <2>2, <2>3, <2>4 DEF Abort, SetRun
  <2>. QED
    BY <2>1, <2>5
<1>6. /\ run[r].at \in Live /\ place \in Live /\ run[r].at # "none" /\ place # "none"
      /\ UNCHANGED <<tail, cache, branch, remote, retention, commits, troubles>>
      /\ prep[r].aborted = FALSE /\ run[r].at \in {"preparing", "prepared"}
      /\ place \in {"prepared", "running", "waiting"} => prep[r].at = "done"
  BY DEF Abort, Live, PreparationsFit, OneLiveRun
<1>7. ~ prep[r].settled
  BY <1>6 DEF PreparationsFit, SettledIsAborted
<1>8. at = prep[r].at \/ (prep[r].at = "queued" /\ at = "failed")
  OBVIOUS
<1>. HIDE DEF at, new, place, newRow
<1>9. /\ run' \in [RunIds -> RunRow] /\ prep' \in [RunIds -> PrepRow]
      /\ run'[r] = newRow /\ prep'[r] = new
      /\ \A q \in RunIds \ {r} : run'[q] = run[q] /\ prep'[q] = prep[q]
  BY <1>3, <1>4, <1>5 DEF WorkspaceRecords
<1>10. WorkspaceRecords'
  BY <1>6, <1>9 DEF WorkspaceRecords
<1>11. TurnsInv'
  BY <1>3, <1>6, <1>8, <1>9, TurnsKept
<1>12. \A q \in RunIds :
         /\ run'[q].issue = run[q].issue /\ run'[q].kind = run[q].kind
         /\ run'[q].at \in Live <=> run[q].at \in Live
         /\ run'[q].at = "none" <=> run[q].at = "none"
         /\ prep'[q].settled = prep[q].settled /\ prep'[q].wasListed = prep[q].wasListed
         /\ prep[q].aborted => prep'[q].aborted /\ prep'[q].turn = prep[q].turn
         /\ \/ prep'[q].at = prep[q].at /\ (Working(q)' <=> Working(q))
            \/ prep[q].at = "queued" /\ prep'[q].at = "failed" /\ ~ Working(q)'
  BY <1>3, <1>4, <1>6, <1>7, <1>8, <1>9 DEF Working, Ended
<1>13. PreparationsFit'
  <2>1. RowsInOrder'
    BY <1>3, <1>4, <1>6, <1>9, <1>12 DEF PreparationsFit, RowsInOrder
  <2>2. OneLiveRun'
    BY <1>3, <1>4, <1>6, <1>9, <1>12 DEF PreparationsFit, OneLiveRun
  <2>3. SettledIsAborted' /\ SettledCleanupIsQuiet'
    BY <1>12, <1>7, <1>9 DEF PreparationsFit, SettledIsAborted, SettledCleanupIsQuiet, GitCommands
  <2>4. WhatWasSeenHolds'
    BY <1>6, <1>12 DEF PreparationsFit, WhatWasSeenHolds, PastConflict
  <2>5. HalfWorktreeIsReported'
    BY <1>6, <1>12 DEF PreparationsFit, HalfWorktreeIsReported
  <2>. QED
    BY <2>1, <2>2, <2>3, <2>4, <2>5 DEF PreparationsFit
<1>14. CandidatesAreApart'
  BY <1>6, <1>12, ApartKept
<1>. QED
  BY <1>10, <1>11, <1>13, <1>14

-----------------------------------------------------------------------------
(* The actions of a preparation.                                           *)

LEMMA PreparationKeeps ==
  ASSUME WorkspaceInv, NEW r \in RunIds, NEW at \in PrepPlaces, Goto(r, at), PlacesFit(r, at),
         prep[r].at # "queued", at \in CacheTurn => prep[r].at \in CacheTurn,
         cache' \in BOOLEAN, branch' \in [Issues -> BranchRow], remote' \in [Issues -> RemoteRow],
         troubles' \in 0 .. MaxTroubles, UNCHANGED <<run, retention, commits>>
  PROVE  WorkspaceInv'
<1>. USE DEF WorkspaceInv
<1>1. prep' \in [RunIds -> PrepRow] /\ tail' \in RunIds \cup {NoRun} /\ MovesTo(r, at)
  BY GotoMoves
<1>2. WorkspaceRecords'
  BY <1>1 DEF WorkspaceRecords
<1>3. prep[r].turn # "waiting"
  BY DEF PlacesFit, TurnsInv, TurnsAreHeld, Ended
<1>4. TurnsInv'
  BY <1>1, <1>3, TurnsMove
<1>5. PreparationsFit'
  BY <1>1, PreparationMoves
<1>6. CandidatesAreApart'
  BY ApartKept
<1>. QED
  BY <1>2, <1>4, <1>5, <1>6

\* An await that touches neither the branch nor the remote.
LEMMA QuietKeeps ==
  ASSUME WorkspaceInv, NEW r \in RunIds, NEW at \in PrepPlaces, Goto(r, at), PlacesKept,
         prep[r].at \notin Ended \cup {"none", "queued"}, at \notin {"none", "queued"},
         at \in CacheTurn => prep[r].at \in CacheTurn,
         prep[r].settled => at \notin GitCommands \cup {"undo"},
         at \in PastConflict /\ ~ prep[r].settled => branch[run[r].issue].tree = "none",
         at = "reset" => branch[run[r].issue].tip \subseteq remote[run[r].issue].fetched,
         at = "fetchHead" => run[r].kind = "adopted",
         at \in {"mkdir", "listed", "canon", "add"} => branch[run[r].issue].ref,
         at \in {"statTree", "conflict"} /\ run[r].kind = "issue" => branch[run[r].issue].ref,
         prep[r].at = "undo" => at = "unclean" \/ branch[run[r].issue].tree # "listed",
         cache' \in BOOLEAN, troubles' \in 0 .. MaxTroubles, UNCHANGED <<run, retention, commits>>
  PROVE  WorkspaceInv'
<1>1. run[r].issue \in Issues
  BY DEF WorkspaceInv, WorkspaceRecords, RunRow
<1>2. \A i \in Issues : (~ branch[i].ref => branch[i].tip = {})
                        /\ (branch[i].tree = "whole" => branch[i].ref)
  BY DEF WorkspaceInv, PreparationsFit, WhatWasSeenHolds
<1>3. PlacesFit(r, at)
  BY <1>1, <1>2 DEF PlacesFit, PlacesKept
<1>4. branch' \in [Issues -> BranchRow] /\ remote' \in [Issues -> RemoteRow]
  BY DEF PlacesKept, WorkspaceInv, WorkspaceRecords
<1>. QED
  BY <1>3, <1>4, PreparationKeeps

LEMMA FileNext ==
  ASSUME NEW r \in RunIds, prep[r].at \in FileAwaits
  PROVE  /\ prep[r].aborted => AfterFile(r) \in {"failed", "dropFailed"}
         /\ AfterFile(r) = "dropFailed" => prep[r].at \in CacheTurn
         /\ ~ prep[r].aborted =>
               \/ prep[r].at = "statCache" /\ AfterFile(r) \in {"origin", "stage"}
               \/ prep[r].at = "stage" /\ AfterFile(r) = "clone"
               \/ prep[r].at = "publish" /\ AfterFile(r) = "drop"
               \/ prep[r].at = "statTree" /\ AfterFile(r) \in {"validate", "conflict"}
               \/ prep[r].at = "mkdir" /\ AfterFile(r) = "listed"
               \/ prep[r].at = "canon" /\ AfterFile(r) = "add"
BY DEF AfterFile, NextOfFile, Rejected, FileAwaits, CacheTurn

LEMMA FileKeeps ==
  ASSUME WorkspaceInv, NEW r \in RunIds, FileStep(r)
  PROVE  WorkspaceInv'
<1>. DEFINE at == AfterFile(r)
<1>1. prep[r].at \in FileAwaits /\ Goto(r, at) /\ PlacesKept /\ UNCHANGED <<run, retention, commits>>
  BY DEF FileStep, PlacesKept
<1>2. cache' \in BOOLEAN /\ troubles' \in 0 .. MaxTroubles
  BY DEF FileStep, WorkspaceInv, WorkspaceRecords
<1>3. prep[r].settled => prep[r].aborted
  BY DEF WorkspaceInv, PreparationsFit, SettledIsAborted
<1>4. prep[r].at \notin Ended \cup {"none", "queued", "undo"}
  BY <1>1 DEF FileAwaits, Ended
<1>5. CASE prep[r].aborted
  <2>1. at \in {"failed", "dropFailed"} /\ (at = "dropFailed" => prep[r].at \in CacheTurn)
    BY <1>1, <1>5, FileNext
  <2>2. /\ at \in PrepPlaces /\ at \notin GitCommands \cup {"undo"} /\ at \notin {"none", "queued"}
        /\ at \notin PastConflict
        /\ at \notin {"reset", "fetchHead", "mkdir", "listed", "canon", "add", "statTree", "conflict"}
    BY <2>1, WorkspaceWords DEF GitCommands, PastConflict, Ended
  <2>3. at \in CacheTurn => prep[r].at \in CacheTurn
    BY <2>1 DEF CacheTurn
  <2>. HIDE DEF at
  <2>. QED
    BY <1>1, <1>2, <1>4, <2>2, <2>3, QuietKeeps
<1>6. CASE ~ prep[r].aborted
  <2>1. \/ prep[r].at = "statCache" /\ at \in {"origin", "stage"}
        \/ prep[r].at = "stage" /\ at = "clone"
        \/ prep[r].at = "publish" /\ at = "drop"
        \/ prep[r].at = "statTree" /\ at \in {"validate", "conflict"}
        \/ prep[r].at = "mkdir" /\ at = "listed"
        \/ prep[r].at = "canon" /\ at = "add"
    BY <1>1, <1>6, FileNext
  <2>. HIDE DEF at
  <2>2. at \in PrepPlaces /\ at \notin {"none", "queued", "reset", "fetchHead", "mkdir", "canon", "statTree"}
    BY <2>1 DEF PrepPlaces, Tracked, GitCommands, FileAwaits
  <2>3. at \in CacheTurn => prep[r].at \in CacheTurn
    BY <2>1 DEF CacheTurn
  <2>4. ~ prep[r].settled
    BY <1>3, <1>6
  <2>5. at \in PastConflict => branch[run[r].issue].tree = "none"
    BY <1>4, <2>1, <2>4 DEF PastConflict, WorkspaceInv, PreparationsFit, WhatWasSeenHolds, Working
  <2>6. /\ at \in {"mkdir", "listed", "canon", "add"} => branch[run[r].issue].ref
        /\ at \in {"statTree", "conflict"} /\ run[r].kind = "issue" => branch[run[r].issue].ref
    BY <2>1 DEF WorkspaceInv, PreparationsFit, WhatWasSeenHolds
  <2>. QED
    BY <1>1, <1>2, <1>4, <2>2, <2>3, <2>4, <2>5, <2>6, QuietKeeps
<1>. QED
  BY <1>5, <1>6

LEMMA DropKeeps ==
  ASSUME WorkspaceInv, NEW r \in RunIds, Drop(r)
  PROVE  WorkspaceInv'
<1>1. PICK at \in {"fetchBase", "failed", "unclean"} : Goto(r, at) /\ (at = "fetchBase" => ~ prep[r].aborted)
  BY DEF Drop
<1>2. /\ prep[r].at \in {"drop", "dropFailed"} /\ PlacesKept /\ UNCHANGED <<run, retention, commits, cache>>
      /\ troubles' = troubles \/ Trouble
  BY DEF Drop, PlacesKept
<1>3. cache' \in BOOLEAN /\ troubles' \in 0 .. MaxTroubles
  BY <1>2, WorkspaceBounds DEF WorkspaceInv, WorkspaceRecords, Trouble
<1>4. prep[r].settled => prep[r].aborted
  BY DEF WorkspaceInv, PreparationsFit, SettledIsAborted
<1>5. /\ at \in PrepPlaces /\ at \notin {"none", "queued"} /\ at \notin PastConflict
      /\ at \notin {"reset", "fetchHead", "mkdir", "listed", "canon", "add", "statTree", "conflict"}
      /\ prep[r].settled => at \notin GitCommands \cup {"undo"}
      /\ prep[r].at \in CacheTurn /\ prep[r].at \notin Ended \cup {"none", "queued", "undo"}
  BY <1>1, <1>2, <1>4 DEF PrepPlaces, Tracked, GitCommands, PastConflict, Ended, CacheTurn
<1>. QED
  BY <1>1, <1>2, <1>3, <1>5, QuietKeeps

LEMMA GitFailsKeeps ==
  ASSUME WorkspaceInv, NEW r \in RunIds, GitFails(r)
  PROVE  WorkspaceInv'
<1>. DEFINE at == Rejected(prep[r].at)
<1>1. /\ prep[r].at \in GitCommands /\ Goto(r, at) /\ PlacesKept /\ UNCHANGED <<run, retention, commits>>
      /\ cache' = cache /\ Trouble
  BY DEF GitFails, PlacesKept
<1>2. cache' \in BOOLEAN /\ troubles' \in 0 .. MaxTroubles
  BY <1>1, WorkspaceBounds DEF WorkspaceInv, WorkspaceRecords, Trouble
<1>3. at \in {"failed", "dropFailed"} /\ (at = "dropFailed" => prep[r].at \in CacheTurn)
  BY DEF Rejected, CacheTurn
<1>. HIDE DEF at
<1>4. /\ at \in PrepPlaces /\ at \notin {"none", "queued"} /\ at \notin PastConflict
      /\ at \notin {"reset", "fetchHead", "mkdir", "listed", "canon", "add", "statTree", "conflict"}
      /\ at \notin GitCommands \cup {"undo"} /\ (at \in CacheTurn => prep[r].at \in CacheTurn)
      /\ prep[r].at \notin Ended \cup {"none", "queued", "undo"}
  BY <1>1, <1>3 DEF PrepPlaces, Tracked, GitCommands, PastConflict, Ended, CacheTurn
<1>. QED
  BY <1>1, <1>2, <1>4, QuietKeeps

LEMMA GitNotSettled ==
  ASSUME WorkspaceInv, NEW r \in RunIds, prep[r].at \in GitCommands
  PROVE  /\ ~ prep[r].settled /\ Working(r) /\ prep[r].at \in PrepPlaces
         /\ prep[r].at \notin Ended \cup {"none", "queued", "undo"}
BY DEF WorkspaceInv, PreparationsFit, SettledCleanupIsQuiet, Working, Ended, GitCommands,
   PrepPlaces, Tracked

\* What a Git command does to the branch and the remote of its issue.
LEMMA EffectChanges ==
  ASSUME WorkspaceInv, NEW r \in RunIds, Effect(r),
         prep[r].at = "add" => branch[run[r].issue].tree = "none"
  PROVE  LET i == run[r].issue IN
         /\ i \in Issues
         /\ branch' \in [Issues -> BranchRow] /\ remote' \in [Issues -> RemoteRow]
         /\ \A j \in Issues \ {i} : branch'[j] = branch[j] /\ remote'[j] = remote[j]
         /\ branch[i].ref => branch'[i].ref
         /\ prep[r].at \in {"branch", "force", "reset"} => branch'[i].ref
         /\ ~ branch'[i].ref => branch'[i].tip = {}
         /\ branch'[i].tree = IF prep[r].at = "add" THEN "whole" ELSE branch[i].tree
         /\ branch'[i].tree = "whole" => branch'[i].ref
         /\ prep[r].at = "inspect" => branch' = branch /\ remote' = remote
         /\ branch[i].tip \subseteq branch'[i].tip \/ prep[r].at = "force"
<1>. DEFINE i == run[r].issue
            b == branch[i]
            pulled == [b EXCEPT !.ref = TRUE, !.tip = remote[i].fetched]
            clean == [pulled EXCEPT !.dirty = FALSE]
            created == [b EXCEPT !.ref = TRUE, !.tip = {}]
            added == [b EXCEPT !.tree = "whole"]
            fetched == [remote[i] EXCEPT !.fetched = remote[i].tip]
<1>1. /\ i \in Issues /\ b \in BranchRow /\ remote[i] \in RemoteRow
      /\ branch \in [Issues -> BranchRow] /\ remote \in [Issues -> RemoteRow]
  BY DEF WorkspaceInv, WorkspaceRecords, RunRow
<1>2. /\ ~ b.ref => b.tip = {}
      /\ b.tree = "whole" => b.ref
      /\ prep[r].at = "add" => b.ref
  BY <1>1 DEF WorkspaceInv, PreparationsFit, WhatWasSeenHolds
<1>3. /\ pulled \in BranchRow /\ pulled.ref = TRUE /\ pulled.tip = remote[i].fetched
      /\ pulled.tree = b.tree
  BY <1>1 DEF BranchRow, RemoteRow
<1>4. /\ clean \in BranchRow /\ clean.ref = TRUE /\ clean.tip = remote[i].fetched
      /\ clean.tree = b.tree
  BY <1>1 DEF BranchRow, RemoteRow
<1>5. /\ created \in BranchRow /\ created.ref = TRUE /\ created.tip = {} /\ created.tree = b.tree
  BY <1>1 DEF BranchRow
<1>6. /\ added \in BranchRow /\ added.ref = b.ref /\ added.tip = b.tip /\ added.tree = "whole"
  BY <1>1, WorkspaceWords DEF BranchRow
<1>7. fetched \in RemoteRow
  BY <1>1 DEF RemoteRow
<1>8. \/ prep[r].at = "branch" /\ ~ b.ref /\ branch' = [branch EXCEPT ![i] = created]
      \/ prep[r].at = "branch" /\ b.ref /\ branch' = [branch EXCEPT ![i] = b]
      \/ prep[r].at = "force" /\ branch' = [branch EXCEPT ![i] = pulled]
      \/ prep[r].at = "reset" /\ branch' = [branch EXCEPT ![i] = clean]
      \/ prep[r].at = "add" /\ branch' = [branch EXCEPT ![i] = added]
      \/ prep[r].at \notin {"branch", "force", "reset", "add"} /\ branch' = [branch EXCEPT ![i] = b]
  BY DEF Effect
<1>9. \/ prep[r].at = "fetchHead" /\ remote' = [remote EXCEPT ![i] = fetched]
      \/ prep[r].at # "fetchHead" /\ remote' = remote
  BY DEF Effect
<1>. HIDE DEF pulled, clean, created, added, fetched
<1>10. remote' \in [Issues -> RemoteRow] /\ \A j \in Issues \ {i} : remote'[j] = remote[j]
  BY <1>1, <1>7, <1>9
<1>11. branch' \in [Issues -> BranchRow] /\ \A j \in Issues \ {i} : branch'[j] = branch[j]
  BY <1>1, <1>3, <1>4, <1>5, <1>6, <1>8
<1>12. prep[r].at = "inspect" => branch' = branch /\ remote' = remote
  BY <1>1, <1>8, <1>9
<1>13. \/ prep[r].at = "branch" /\ ~ b.ref /\ branch'[i] = created
       \/ prep[r].at = "branch" /\ b.ref /\ branch'[i] = b
       \/ prep[r].at = "force" /\ branch'[i] = pulled
       \/ prep[r].at = "reset" /\ branch'[i] = clean
       \/ prep[r].at = "add" /\ branch'[i] = added
       \/ prep[r].at \notin {"branch", "force", "reset", "add"} /\ branch'[i] = b
  BY <1>1, <1>8
<1>14. /\ b.ref => branch'[i].ref
       /\ prep[r].at \in {"branch", "force", "reset"} => branch'[i].ref
       /\ ~ branch'[i].ref => branch'[i].tip = {}
       /\ branch'[i].tree = IF prep[r].at = "add" THEN "whole" ELSE b.tree
       /\ branch'[i].tree = "whole" => branch'[i].ref
  BY <1>2, <1>3, <1>4, <1>5, <1>6, <1>13
<1>15. b.tip \subseteq branch'[i].tip \/ prep[r].at = "force"
  <2>1. CASE prep[r].at = "branch" /\ ~ b.ref /\ branch'[i] = created
    <3>1. b.tip = {}
      BY <1>2, <2>1
    <3>. QED
      BY <3>1
  <2>2. CASE branch'[i] = b \/ prep[r].at = "force"
    BY <2>2
  <2>3. CASE prep[r].at = "reset" /\ branch'[i] = clean
    <3>1. b.tip \subseteq remote[i].fetched
      BY <2>3, GitNotSettled DEF GitCommands, WorkspaceInv, PreparationsFit, WhatWasSeenHolds
    <3>. QED
      BY <1>4, <2>3, <3>1
  <2>4. CASE prep[r].at = "add" /\ branch'[i] = added
    BY <1>6, <2>4
  <2>. QED
    BY <1>13, <2>1, <2>2, <2>3, <2>4
<1>. QED
  BY <1>1, <1>10, <1>11, <1>12, <1>14, <1>15

\* The order of the commands.
LEMMA GitNext ==
  ASSUME NEW r \in RunIds, prep[r].at \in GitCommands \ {"listed"}
  PROVE  \/ prep[r].at = "clone" /\ NextOfGit(r) = "publish"
         \/ prep[r].at = "origin" /\ NextOfGit(r) = "fetchBase"
         \/ /\ prep[r].at = "fetchBase"
            /\ \/ run[r].kind = "adopted" /\ NextOfGit(r) = "fetchHead"
               \/ run[r].kind # "adopted" /\ NextOfGit(r) = "branch"
         \/ prep[r].at \in {"branch", "fetchHead"} /\ NextOfGit(r) = "statTree"
         \/ prep[r].at = "validate" /\ NextOfGit(r) \in {"inspect", "done"}
         \/ prep[r].at = "inspect" /\ NextOfGit(r) = "reset"
         \/ /\ prep[r].at = "conflict"
            /\ \/ run[r].kind = "adopted" /\ NextOfGit(r) = "force"
               \/ run[r].kind # "adopted" /\ NextOfGit(r) = "mkdir"
         \/ prep[r].at = "force" /\ NextOfGit(r) = "mkdir"
         \/ prep[r].at \in {"reset", "add"} /\ NextOfGit(r) = "done"
BY DEF NextOfGit, GitCommands

LEMMA GitStepKeeps ==
  ASSUME WorkspaceInv, NEW r \in RunIds, GitStep(r)
  PROVE  WorkspaceInv'
<1>. DEFINE i == run[r].issue
            at == NextOfGit(r)
<1>1. /\ prep[r].at \in GitCommands \ {"listed"} /\ ~ prep[r].settled /\ Working(r)
      /\ prep[r].at \notin Ended \cup {"none", "queued", "undo"}
      /\ UNCHANGED <<run, cache, retention, commits, troubles>>
  BY GitNotSettled DEF GitStep
<1>2. cache' \in BOOLEAN /\ troubles' \in 0 .. MaxTroubles
  BY <1>1 DEF WorkspaceInv, WorkspaceRecords
<1>3. /\ i \in Issues /\ remote[i] \in RemoteRow /\ branch \in [Issues -> BranchRow]
      /\ remote \in [Issues -> RemoteRow] /\ run[r].kind \in Kinds
  BY DEF WorkspaceInv, WorkspaceRecords, RunRow
<1>4. \A j \in Issues : (~ branch[j].ref => branch[j].tip = {})
                       /\ (branch[j].tree = "whole" => branch[j].ref)
  BY DEF WorkspaceInv, PreparationsFit, WhatWasSeenHolds
<1>5. CASE Accepted(r)
  <2>1. Goto(r, at) /\ Effect(r)
    BY <1>5 DEF GitStep
  <2>2. /\ prep[r].at = "inspect" => branch[i].tip \subseteq remote[i].fetched
        /\ prep[r].at \in {"conflict", "add"} => branch[i].tree = "none"
    BY <1>5 DEF Accepted
  <2>3. /\ prep[r].at = "force" => branch[i].tree = "none"
        /\ prep[r].at = "conflict" /\ run[r].kind = "issue" => branch[i].ref
        /\ prep[r].at = "fetchHead" => run[r].kind = "adopted"
    BY <1>1 DEF WorkspaceInv, PreparationsFit, WhatWasSeenHolds, PastConflict
  <2>4. /\ branch' \in [Issues -> BranchRow] /\ remote' \in [Issues -> RemoteRow]
        /\ \A j \in Issues \ {i} : branch'[j] = branch[j] /\ remote'[j] = remote[j]
        /\ branch[i].ref => branch'[i].ref
        /\ prep[r].at \in {"branch", "force", "reset"} => branch'[i].ref
        /\ ~ branch'[i].ref => branch'[i].tip = {}
        /\ branch'[i].tree = IF prep[r].at = "add" THEN "whole" ELSE branch[i].tree
        /\ branch'[i].tree = "whole" => branch'[i].ref
        /\ prep[r].at = "inspect" => branch' = branch /\ remote' = remote
    BY <2>1, <2>2, EffectChanges
  <2>5. \/ prep[r].at = "clone" /\ at = "publish"
        \/ prep[r].at = "origin" /\ at = "fetchBase"
        \/ /\ prep[r].at = "fetchBase"
           /\ \/ run[r].kind = "adopted" /\ at = "fetchHead"
              \/ run[r].kind # "adopted" /\ at = "branch"
        \/ prep[r].at \in {"branch", "fetchHead"} /\ at = "statTree"
        \/ prep[r].at = "validate" /\ at \in {"inspect", "done"}
        \/ prep[r].at = "inspect" /\ at = "reset"
        \/ /\ prep[r].at = "conflict"
           /\ \/ run[r].kind = "adopted" /\ at = "force"
              \/ run[r].kind # "adopted" /\ at = "mkdir"
        \/ prep[r].at = "force" /\ at = "mkdir"
        \/ prep[r].at \in {"reset", "add"} /\ at = "done"
    BY <1>1, GitNext
  <2>. HIDE DEF at, i
  <2>6. at \in PrepPlaces /\ at \notin {"none", "queued", "conflict", "listed", "canon", "add"}
    BY <2>5 DEF PrepPlaces, Tracked, GitCommands, FileAwaits, Ended
  <2>7. at \in CacheTurn => prep[r].at \in CacheTurn
    BY <2>5 DEF CacheTurn
  <2>8. at \in PastConflict => branch'[i].tree = "none"
    BY <2>2, <2>3, <2>4, <2>5 DEF PastConflict
  <2>9. at = "reset" => branch'[i].tip \subseteq remote'[i].fetched
    BY <2>2, <2>4, <2>5
  <2>10. /\ at = "fetchHead" => run[r].kind = "adopted"
         /\ at = "mkdir" => branch'[i].ref
         /\ at = "statTree" /\ run[r].kind = "issue" => branch'[i].ref
    BY <1>3, <2>3, <2>4, <2>5 DEF Kinds
  <2>11. branch'[i].tree = "listed" => branch[i].tree = "listed" /\ prep[r].at # "undo"
    BY <1>1, <2>4
  <2>12. PlacesFit(r, at)
    BY <1>1, <2>4, <2>6, <2>8, <2>9, <2>10, <2>11 DEF PlacesFit, i
  <2>. QED
    BY <1>1, <1>2, <2>1, <2>4, <2>6, <2>7, <2>12, PreparationKeeps
<1>6. CASE ~ Accepted(r)
  <2>1. /\ Goto(r, "failed") /\ branch' = branch
        /\ \/ remote' = remote
           \/ remote' = [remote EXCEPT ![i] = [remote[i] EXCEPT !.fetched = remote[i].tip]]
    BY <1>6 DEF GitStep
  <2>2. [remote[i] EXCEPT !.fetched = remote[i].tip] \in RemoteRow
    BY <1>3 DEF RemoteRow
  <2>3. /\ remote' \in [Issues -> RemoteRow]
        /\ \A j \in Issues \ {i} : remote'[j] = remote[j]
    BY <1>3, <2>1, <2>2
  <2>4. /\ "failed" \in PrepPlaces /\ "failed" \notin CacheTurn \cup GitCommands \cup {"undo"}
        /\ "failed" \notin PastConflict
    BY DEF PrepPlaces, Ended, CacheTurn, GitCommands, PastConflict
  <2>5. PlacesFit(r, "failed")
    BY <1>1, <1>3, <1>4, <2>1, <2>3, <2>4 DEF PlacesFit
  <2>. QED
    BY <1>1, <1>2, <1>3, <2>1, <2>3, <2>4, <2>5, PreparationKeeps
<1>. QED
  BY <1>5, <1>6

\* Not registered before: isWorktreeRegistered answers no, as the conflict check
\* before it saw.
LEMMA ListedKeeps ==
  ASSUME WorkspaceInv, NEW r \in RunIds, Listed(r)
  PROVE  WorkspaceInv'
<1>. DEFINE new == [prep[r] EXCEPT !.at = "canon", !.wasListed = FALSE]
<1>1. /\ prep[r].at = "listed" /\ ~ prep[r].settled /\ Working(r)
      /\ UNCHANGED <<run, tail, cache, branch, remote, retention, commits, troubles>>
  BY GitNotSettled DEF Listed, GitCommands
<1>2. branch[run[r].issue].tree = "none" /\ branch[run[r].issue].ref
  BY <1>1 DEF WorkspaceInv, PreparationsFit, WhatWasSeenHolds, PastConflict
<1>3. prep[r] \in PrepRow /\ prep \in [RunIds -> PrepRow]
  BY DEF WorkspaceInv, WorkspaceRecords
<1>4. prep' = [prep EXCEPT ![r] = new]
  <2>1. (branch[run[r].issue].tree # "none") = FALSE
    BY <1>2
  <2>2. prep' = [prep EXCEPT ![r].at = "canon", ![r].wasListed = (branch[run[r].issue].tree # "none")]
    BY DEF Listed
  <2>. QED
    BY ONLY <2>1, <2>2
<1>5. /\ new \in PrepRow /\ new.at = "canon" /\ new.wasListed = FALSE
      /\ new.aborted = prep[r].aborted /\ new.settled = prep[r].settled
      /\ new.turn = prep[r].turn /\ new.after = prep[r].after
  BY <1>3 DEF PrepRow, PrepPlaces, FileAwaits
<1>. HIDE DEF new
<1>6. /\ prep' \in [RunIds -> PrepRow] /\ prep'[r] = new
      /\ \A q \in RunIds \ {r} : prep'[q] = prep[q]
  BY <1>3, <1>4, <1>5
<1>7. MovesTo(r, "canon")
  <2>1. prep[r].turn # "open"
    BY <1>1 DEF WorkspaceInv, TurnsInv, TurnsAreHeld, CacheTurn
  <2>. QED
    BY <1>1, <1>5, <1>6, <2>1 DEF MovesTo
<1>8. PlacesFit(r, "canon")
  <2>1. \A j \in Issues : (~ branch[j].ref => branch[j].tip = {})
                         /\ (branch[j].tree = "whole" => branch[j].ref)
    BY DEF WorkspaceInv, PreparationsFit, WhatWasSeenHolds
  <2>2. run[r].issue \in Issues
    BY DEF WorkspaceInv, WorkspaceRecords, RunRow
  <2>. QED
    BY <1>1, <1>2, <2>1, <2>2 DEF PlacesFit, Ended
<1>9. "canon" \in PrepPlaces /\ "canon" \notin CacheTurn
  BY DEF PrepPlaces, FileAwaits, CacheTurn
<1>10. WorkspaceRecords'
  BY <1>1, <1>6 DEF WorkspaceInv, WorkspaceRecords
<1>11. TurnsInv'
  <2>1. prep[r].turn # "waiting"
    BY <1>1 DEF WorkspaceInv, TurnsInv, TurnsAreHeld
  <2>. QED
    BY <1>7, <1>9, <2>1, TurnsMove DEF WorkspaceInv
<1>12. PreparationsFit'
  BY <1>1, <1>7, <1>8, <1>9, PreparationMoves DEF WorkspaceInv
<1>13. CandidatesAreApart'
  BY <1>1, ApartKept DEF WorkspaceInv
<1>. QED
  BY <1>10, <1>11, <1>12, <1>13 DEF WorkspaceInv

LEMMA GitKilledKeeps ==
  ASSUME WorkspaceInv, NEW r \in RunIds, GitKilled(r)
  PROVE  WorkspaceInv'
<1>. DEFINE i == run[r].issue
            at == AfterAbortedGit(r)
<1>1. /\ prep[r].at \in GitCommands /\ ~ prep[r].settled /\ Working(r)
      /\ prep[r].at \notin Ended \cup {"none", "queued", "undo"}
      /\ Goto(r, at) /\ UNCHANGED <<run, cache, retention, commits, troubles>>
  BY GitNotSettled DEF GitKilled
<1>2. cache' \in BOOLEAN /\ troubles' \in 0 .. MaxTroubles
  BY <1>1 DEF WorkspaceInv, WorkspaceRecords
<1>3. /\ i \in Issues /\ branch \in [Issues -> BranchRow] /\ remote \in [Issues -> RemoteRow]
  BY DEF WorkspaceInv, WorkspaceRecords, RunRow
<1>4. /\ \A j \in Issues : (~ branch[j].ref => branch[j].tip = {})
                          /\ (branch[j].tree = "whole" => branch[j].ref)
      /\ ~ prep[r].wasListed /\ (prep[r].at = "add" => branch[i].ref)
  BY DEF WorkspaceInv, PreparationsFit, WhatWasSeenHolds
<1>5. /\ at \in {"undo", "failed", "dropFailed"} /\ (prep[r].at = "add" => at = "undo")
      /\ at = "dropFailed" => prep[r].at \in CacheTurn
  BY <1>4 DEF AfterAbortedGit, Rejected, CacheTurn
<1>6. /\ branch' \in [Issues -> BranchRow] /\ remote' \in [Issues -> RemoteRow]
      /\ \A j \in Issues \ {i} : branch'[j] = branch[j] /\ remote'[j] = remote[j]
      /\ branch[i].ref => branch'[i].ref
      /\ ~ branch'[i].ref => branch'[i].tip = {}
      /\ branch'[i].tree = "whole" => branch'[i].ref
      /\ branch'[i].tree = "listed" => branch[i].tree = "listed" \/ prep[r].at = "add"
  <2>1. CASE UNCHANGED <<branch, remote>>
    BY <1>3, <1>4, <2>1
  <2>2. CASE Accepted(r) /\ Effect(r)
    <3>1. prep[r].at = "add" => branch[i].tree = "none"
      BY <2>2 DEF Accepted
    <3>. HIDE DEF at
    <3>. QED
      BY <1>3, <2>2, <3>1, EffectChanges
  <2>3. CASE /\ prep[r].at = "add" /\ branch[i].tree = "none"
             /\ branch' = [branch EXCEPT ![i].tree = "listed"] /\ UNCHANGED remote
    <3>1. /\ [branch[i] EXCEPT !.tree = "listed"] \in BranchRow
          /\ [branch[i] EXCEPT !.tree = "listed"].ref = branch[i].ref
          /\ [branch[i] EXCEPT !.tree = "listed"].tree = "listed"
      BY <1>3, WorkspaceWords DEF BranchRow
    <3>2. /\ branch' \in [Issues -> BranchRow]
          /\ branch'[i] = [branch[i] EXCEPT !.tree = "listed"]
          /\ \A j \in Issues \ {i} : branch'[j] = branch[j]
      BY <1>3, <2>3, <3>1
    <3>. QED
      BY <1>3, <1>4, <2>3, <3>1, <3>2
  <2>. QED
    BY <2>1, <2>2, <2>3 DEF GitKilled
<1>. HIDE DEF at, i
<1>7. /\ at \in PrepPlaces /\ at \notin {"none", "queued"} /\ at \notin PastConflict
      /\ at \notin {"reset", "fetchHead", "mkdir", "listed", "canon", "add", "statTree", "conflict"}
      /\ at \in CacheTurn => prep[r].at \in CacheTurn
  BY <1>5 DEF PrepPlaces, Tracked, Ended, PastConflict, CacheTurn
<1>8. PlacesFit(r, at)
  BY <1>1, <1>5, <1>6, <1>7 DEF PlacesFit, i
<1>. QED
  BY <1>1, <1>2, <1>6, <1>7, <1>8, PreparationKeeps

LEMMA UndoKeeps ==
  ASSUME WorkspaceInv, NEW r \in RunIds, Undo(r)
  PROVE  WorkspaceInv'
<1>. DEFINE i == run[r].issue
            gone == [branch[i] EXCEPT !.tree = "none", !.dirty = FALSE]
            half == [branch[i] EXCEPT !.tree = "listed", !.dirty = FALSE]
<1>1. /\ prep[r].at = "undo" /\ UNCHANGED <<run, cache, remote, retention, commits>>
      /\ \/ branch' = [branch EXCEPT ![i] = gone] /\ Goto(r, "failed") /\ troubles' = troubles
         \/ branch' = [branch EXCEPT ![i] = half] /\ Goto(r, "unclean") /\ Trouble
  BY DEF Undo
<1>2. cache' \in BOOLEAN /\ troubles' \in 0 .. MaxTroubles
  BY <1>1, WorkspaceBounds DEF WorkspaceInv, WorkspaceRecords, Trouble
<1>3. /\ i \in Issues /\ branch \in [Issues -> BranchRow] /\ remote \in [Issues -> RemoteRow]
  BY DEF WorkspaceInv, WorkspaceRecords, RunRow
<1>4. /\ gone \in BranchRow /\ gone.tree = "none" /\ gone.ref = branch[i].ref /\ gone.tip = branch[i].tip
      /\ half \in BranchRow /\ half.tree = "listed" /\ half.ref = branch[i].ref
      /\ half.tip = branch[i].tip
  BY <1>3, WorkspaceWords DEF BranchRow
<1>5. ~ branch[i].ref => branch[i].tip = {}
  BY <1>3 DEF WorkspaceInv, PreparationsFit, WhatWasSeenHolds
<1>6. ~ prep[r].settled
  BY <1>1 DEF WorkspaceInv, PreparationsFit, SettledCleanupIsQuiet
<1>. HIDE DEF gone, half
<1>7. /\ branch' \in [Issues -> BranchRow] /\ remote' \in [Issues -> RemoteRow]
      /\ \A j \in Issues \ {i} : branch'[j] = branch[j] /\ remote'[j] = remote[j]
      /\ \/ branch'[i] = gone /\ Goto(r, "failed")
         \/ branch'[i] = half /\ Goto(r, "unclean")
  BY <1>1, <1>3, <1>4
<1>8. PICK at \in {"failed", "unclean"} :
         Goto(r, at) /\ branch'[i] \in {gone, half} /\ (at = "failed" => branch'[i] = gone)
  BY <1>7
<1>9. /\ at \in PrepPlaces /\ at \notin CacheTurn \cup PastConflict \cup {"none", "queued"}
      /\ at \notin {"reset", "fetchHead", "mkdir", "listed", "canon", "add", "statTree", "conflict"}
      /\ prep[r].at \notin Ended \cup {"none", "queued"}
  BY <1>1, <1>8 DEF PrepPlaces, Ended, CacheTurn, PastConflict
<1>10. PlacesFit(r, at)
  BY <1>1, <1>4, <1>5, <1>6, <1>7, <1>8, <1>9 DEF PlacesFit
<1>. QED
  BY <1>1, <1>2, <1>7, <1>8, <1>9, <1>10, PreparationKeeps

LEMMA SettleKeeps ==
  ASSUME WorkspaceInv, NEW r \in RunIds, Settle(r)
  PROVE  WorkspaceInv'
<1>. USE DEF WorkspaceInv
<1>. DEFINE new == [prep[r] EXCEPT !.settled = TRUE]
<1>1. /\ prep[r].aborted /\ prep[r].at \notin Tracked
      /\ prep' = [prep EXCEPT ![r] = new]
      /\ UNCHANGED <<run, tail, cache, branch, remote, retention, commits, troubles>>
  BY DEF Settle
<1>2. prep[r] \in PrepRow /\ prep \in [RunIds -> PrepRow]
  BY DEF WorkspaceRecords
<1>3. /\ new \in PrepRow /\ new.at = prep[r].at /\ new.turn = prep[r].turn
      /\ new.after = prep[r].after /\ new.aborted = prep[r].aborted
      /\ new.wasListed = prep[r].wasListed /\ new.settled = TRUE
  BY <1>2 DEF PrepRow
<1>. HIDE DEF new
<1>4. /\ prep' \in [RunIds -> PrepRow]
      /\ \A q \in RunIds : /\ prep'[q].at = prep[q].at /\ prep'[q].turn = prep[q].turn
                           /\ prep'[q].after = prep[q].after
                           /\ prep'[q].aborted = prep[q].aborted
                           /\ prep'[q].wasListed = prep[q].wasListed
                           /\ q # r => prep'[q].settled = prep[q].settled
                           /\ prep[q].settled => prep'[q].settled
      /\ prep'[r].settled = TRUE
  BY <1>1, <1>2, <1>3
<1>5. WorkspaceRecords'
  BY <1>1, <1>4 DEF WorkspaceRecords
<1>6. TurnsInv'
  BY <1>1, <1>4, TurnsKept
<1>7. \A q \in RunIds : Working(q)' => Working(q)
  BY <1>4 DEF Working
<1>8. RowsInOrder'
  <2>1. run[r].at # "none"
    BY <1>1 DEF PreparationsFit, RowsInOrder
  <2>. QED
    BY <1>1, <1>4, <2>1 DEF PreparationsFit, RowsInOrder
<1>9. OneLiveRun' /\ SettledIsAborted'
  BY <1>1, <1>4, <1>7 DEF PreparationsFit, OneLiveRun, SettledIsAborted
<1>10. SettledCleanupIsQuiet'
  BY <1>1, <1>4 DEF PreparationsFit, SettledCleanupIsQuiet, Tracked
<1>11. WhatWasSeenHolds'
  BY <1>1, <1>4, <1>7 DEF PreparationsFit, WhatWasSeenHolds
<1>12. HalfWorktreeIsReported'
  BY <1>1, <1>4 DEF PreparationsFit, HalfWorktreeIsReported
<1>13. CandidatesAreApart'
  BY <1>1, ApartKept
<1>. QED
  BY <1>5, <1>6, <1>8, <1>9, <1>10, <1>11, <1>12, <1>13 DEF PreparationsFit

LEMMA TurnStartsKeeps ==
  ASSUME WorkspaceInv, NEW r \in RunIds, TurnStarts(r)
  PROVE  WorkspaceInv'
<1>. USE DEF WorkspaceInv
<1>0. prep[r] \in PrepRow /\ prep \in [RunIds -> PrepRow] /\ tail \in RunIds \cup {NoRun}
  BY DEF WorkspaceRecords
<1>1. PICK turned \in {"open", "over"} :
         /\ prep' = [prep EXCEPT ![r] = [prep[r] EXCEPT !.turn = turned, !.after = NoRun,
                         !.at = IF turned = "open" THEN "statCache" ELSE prep[r].at]]
         /\ turned = "open" => ~ prep[r].aborted /\ tail' = tail
         /\ turned = "over" => prep[r].aborted /\ tail' = IF tail = r THEN NoRun ELSE tail
  <2>1. CASE prep[r].aborted
    <3>1. prep' = [prep EXCEPT ![r] = [prep[r] EXCEPT !.turn = "over", !.after = NoRun,
                                                       !.at = prep[r].at]]
      BY <1>0, <2>1 DEF TurnStarts, PrepRow
    <3>. QED
      BY <2>1, <3>1 DEF TurnStarts
  <2>2. CASE ~ prep[r].aborted
    <3>1. prep' = [prep EXCEPT ![r] = [prep[r] EXCEPT !.turn = "open", !.after = NoRun,
                                                       !.at = "statCache"]]
      BY <1>0, <2>2 DEF TurnStarts, PrepRow
    <3>. QED
      BY <2>2, <3>1 DEF TurnStarts
  <2>. QED
    BY <2>1, <2>2
<1>. DEFINE at == IF turned = "open" THEN "statCache" ELSE prep[r].at
            new == [prep[r] EXCEPT !.turn = turned, !.after = NoRun, !.at = at]
<1>2. /\ prep[r].turn = "waiting"
      /\ UNCHANGED <<run, cache, branch, remote, retention, commits, troubles>>
  BY DEF TurnStarts
<1>3. at \in PrepPlaces /\ (turned = "open" => at = "statCache") /\ (turned = "over" => at = prep[r].at)
  BY <1>0 DEF PrepRow, PrepPlaces, FileAwaits
<1>4. prep' = [prep EXCEPT ![r] = new]
  BY <1>1
<1>. HIDE DEF at
<1>5. /\ new \in PrepRow /\ new.at = at /\ new.turn = turned /\ new.after = NoRun
      /\ new.aborted = prep[r].aborted /\ new.settled = prep[r].settled
      /\ new.wasListed = prep[r].wasListed
  BY <1>0, <1>3, WorkspaceWords DEF PrepRow
<1>. HIDE DEF new
<1>6. /\ prep' \in [RunIds -> PrepRow] /\ prep'[r] = new
      /\ \A q \in RunIds \ {r} : prep'[q] = prep[q]
  BY <1>0, <1>4, <1>5
<1>7. tail' \in RunIds \cup {NoRun}
  BY <1>0, <1>1
<1>8. WorkspaceRecords'
  BY <1>2, <1>6, <1>7 DEF WorkspaceRecords
<1>9. TurnsInv'
  BY <1>1, <1>3, <1>5, <1>6, TurnsPassOn DEF PreparationsFit
<1>10. prep[r].at = "queued" \/ (prep[r].at = "failed" /\ prep[r].aborted)
  BY <1>2 DEF TurnsInv, TurnsAreHeld
<1>11. turned = "open" => prep[r].at = "queued" /\ ~ prep[r].settled
  BY <1>1, <1>10 DEF PreparationsFit, SettledIsAborted
<1>12. \A q \in RunIds :
         /\ prep'[q].settled = prep[q].settled /\ prep'[q].aborted = prep[q].aborted
         /\ prep'[q].wasListed = prep[q].wasListed /\ (Working(q)' <=> Working(q))
         /\ \/ prep'[q].at = prep[q].at
            \/ prep[q].at = "queued" /\ prep'[q].at = "statCache" /\ ~ prep[q].settled
  BY <1>1, <1>3, <1>5, <1>6, <1>11 DEF Working, Ended
<1>13. PreparationsFit'
  <2>1. RowsInOrder'
    <3>1. run[r].at # "none"
      BY <1>2 DEF PreparationsFit, RowsInOrder
    <3>. QED
      BY <1>2, <1>6, <3>1 DEF PreparationsFit, RowsInOrder
  <2>2. OneLiveRun'
    BY <1>2, <1>12 DEF PreparationsFit, OneLiveRun
  <2>3. SettledIsAborted' /\ SettledCleanupIsQuiet'
    BY <1>12 DEF PreparationsFit, SettledIsAborted, SettledCleanupIsQuiet
  <2>4. WhatWasSeenHolds'
    BY <1>2, <1>12 DEF PreparationsFit, WhatWasSeenHolds, PastConflict
  <2>5. HalfWorktreeIsReported'
    BY <1>2, <1>12 DEF PreparationsFit, HalfWorktreeIsReported
  <2>. QED
    BY <2>1, <2>2, <2>3, <2>4, <2>5 DEF PreparationsFit
<1>14. CandidatesAreApart'
  BY <1>2, ApartKept
<1>. QED
  BY <1>8, <1>9, <1>13, <1>14

-----------------------------------------------------------------------------
(* Agents, people and retention.                                           *)

LEMMA AgentKeeps ==
  ASSUME WorkspaceInv, NEW r \in RunIds, AgentWorks(r)
  PROVE  WorkspaceInv'
<1>. USE DEF WorkspaceInv
<1>. DEFINE i == run[r].issue
            committed == [branch[i] EXCEPT !.tip = branch[i].tip \cup {commits + 1}, !.dirty = FALSE]
            edited == [branch[i] EXCEPT !.dirty = TRUE]
            pushed == [remote[i] EXCEPT !.tip = branch[i].tip]
<1>1. /\ run[r].at = "running" /\ branch[i].tree = "whole"
      /\ UNCHANGED <<run, prep, tail, cache, retention, troubles>>
      /\ \/ /\ commits < MaxCommits /\ commits' = commits + 1
            /\ branch' = [branch EXCEPT ![i] = committed] /\ remote' = remote
         \/ branch' = [branch EXCEPT ![i] = edited] /\ remote' = remote /\ commits' = commits
         \/ remote' = [remote EXCEPT ![i] = pushed] /\ branch' = branch /\ commits' = commits
  BY DEF AgentWorks
<1>2. /\ i \in Issues /\ branch \in [Issues -> BranchRow] /\ remote \in [Issues -> RemoteRow]
      /\ commits \in 0 .. MaxCommits
  BY DEF WorkspaceRecords, RunRow
<1>3. commits < MaxCommits => commits + 1 \in Commits /\ commits + 1 \in 0 .. MaxCommits
  BY <1>2, WorkspaceBounds DEF Commits
<1>4. branch[i].ref
  BY <1>1, <1>2 DEF PreparationsFit, WhatWasSeenHolds
<1>5. /\ commits < MaxCommits => committed \in BranchRow
      /\ committed.tree = branch[i].tree /\ committed.ref = branch[i].ref
      /\ edited \in BranchRow /\ edited.tree = branch[i].tree /\ edited.ref = branch[i].ref
      /\ edited.tip = branch[i].tip
      /\ pushed \in RemoteRow /\ pushed.fetched = remote[i].fetched
  BY <1>2, <1>3 DEF BranchRow, RemoteRow
<1>. HIDE DEF committed, edited, pushed
<1>6. /\ branch' \in [Issues -> BranchRow] /\ remote' \in [Issues -> RemoteRow]
      /\ \A j \in Issues \ {i} : branch'[j] = branch[j] /\ remote'[j] = remote[j]
      /\ branch'[i].tree = branch[i].tree /\ branch'[i].ref = branch[i].ref
      /\ remote'[i].fetched = remote[i].fetched
  BY <1>1, <1>2, <1>5
<1>7. commits' \in 0 .. MaxCommits
  BY <1>1, <1>2, <1>3
<1>8. \A q \in RunIds : Working(q) => run[q].issue # i
  BY <1>1 DEF PreparationsFit, OneLiveRun, Working, Ended, Live
<1>9. PreparationsFit'
  BY <1>1, <1>2, <1>4, <1>6, <1>8, PlacesMove
<1>10. WorkspaceRecords'
  BY <1>1, <1>6, <1>7 DEF WorkspaceRecords
<1>11. TurnsInv'
  BY <1>1, TurnsKept
<1>12. CandidatesAreApart'
  BY <1>1, ApartKept
<1>. QED
  BY <1>9, <1>10, <1>11, <1>12

LEMMA PersonKeeps ==
  ASSUME WorkspaceInv, NEW i \in Issues, PersonPushes(i)
  PROVE  WorkspaceInv'
<1>. USE DEF WorkspaceInv
<1>. DEFINE pushed == [remote[i] EXCEPT !.tip = remote[i].tip \cup {commits + 1}]
<1>1. /\ commits < MaxCommits /\ commits' = commits + 1 /\ remote' = [remote EXCEPT ![i] = pushed]
      /\ UNCHANGED <<run, prep, tail, cache, branch, retention, troubles>>
  BY DEF PersonPushes
<1>2. remote \in [Issues -> RemoteRow] /\ commits \in 0 .. MaxCommits
  BY DEF WorkspaceRecords
<1>3. commits + 1 \in Commits /\ commits' \in 0 .. MaxCommits
  BY <1>1, <1>2, WorkspaceBounds DEF Commits
<1>4. pushed \in RemoteRow /\ pushed.fetched = remote[i].fetched
  BY <1>2, <1>3 DEF RemoteRow
<1>. HIDE DEF pushed
<1>5. /\ remote' \in [Issues -> RemoteRow] /\ remote'[i].fetched = remote[i].fetched
      /\ \A j \in Issues \ {i} : remote'[j] = remote[j]
  BY <1>1, <1>2, <1>4
<1>6. PreparationsFit'
  BY <1>1, <1>5, PlacesMove
<1>7. WorkspaceRecords'
  BY <1>1, <1>3, <1>5 DEF WorkspaceRecords
<1>8. TurnsInv'
  BY <1>1, TurnsKept
<1>9. CandidatesAreApart'
  BY <1>1, ApartKept
<1>. QED
  BY <1>6, <1>7, <1>8, <1>9

\* A pass of the retention changes itself, and of rows and branches no more than
\* a mark and a checkout.
LEMMA RetentionKeeps ==
  ASSUME WorkspaceInv, NEW i \in Issues, UNCHANGED <<prep, tail, cache, remote, commits>>,
         run' \in [RunIds -> RunRow], branch' \in [Issues -> BranchRow],
         troubles' \in 0 .. MaxTroubles, retention' \in RetentionRow,
         \A q \in RunIds : run'[q].issue = run[q].issue /\ run'[q].at = run[q].at
                           /\ run'[q].kind = run[q].kind,
         \A j \in Issues \ {i} : branch'[j] = branch[j],
         branch'[i].tree \in {branch[i].tree, "none"}, branch'[i].ref = branch[i].ref,
         branch'[i].tip = branch[i].tip,
         retention'.at \in {"removing", "refused"} => retention'.now # NoRun,
         retention'.seen \subseteq retention.seen,
         retention'.todo \subseteq retention.todo,
         retention'.now \in retention.todo \cup {retention.now, NoRun}
  PROVE  WorkspaceInv'
<1>. USE DEF WorkspaceInv
<1>1. WorkspaceRecords'
  BY DEF WorkspaceRecords
<1>2. TurnsInv'
  BY TurnsKept
<1>3. PreparationsFit'
  BY PlacesMove
<1>4. CandidatesAreApart'
  <2>1. NoRun \notin RunIds /\ retention.seen \subseteq RunIds
    BY WorkspaceBounds DEF RunIds, NoRun, WorkspaceRecords, RetentionRow
  <2>. QED
    BY <2>1 DEF CandidatesAreApart
<1>. QED
  BY <1>1, <1>2, <1>3, <1>4

LEMMA ListKeeps ==
  ASSUME WorkspaceInv, ListCandidates
  PROVE  WorkspaceInv'
<1>. USE DEF WorkspaceInv
<1>1. PICK aged \in BOOLEAN :
         retention' = [at |-> "next", todo |-> Candidates(aged), now |-> NoRun,
                       seen |-> {r \in RunIds : run[r].at \in Live /\ run[r].path}]
  BY DEF ListCandidates
<1>2. UNCHANGED <<run, prep, tail, cache, branch, remote, commits, troubles>>
  BY DEF ListCandidates
<1>. DEFINE seen == {r \in RunIds : run[r].at \in Live /\ run[r].path}
<1>3. /\ Candidates(aged) \in SUBSET RunIds /\ seen \in SUBSET RunIds
      /\ retention'.at = "next" /\ retention'.todo = Candidates(aged) /\ retention'.now = NoRun
      /\ retention'.seen = seen
  BY <1>1 DEF Candidates
<1>4. retention' \in RetentionRow
  BY <1>1, <1>3, WorkspaceWords DEF RetentionRow
<1>5. NoRun \notin RunIds
  BY WorkspaceBounds DEF RunIds, NoRun
<1>6. \A c \in Candidates(aged) :
         /\ run[c].at \in Terminal
         /\ \A q \in Named(run[c].issue) : run[q].at \notin Live
  BY DEF Candidates, Terminal
<1>7. \A r \in seen : r \in Named(run[r].issue) /\ run[r].at \in Live /\ run[r].at # "none"
  BY DEF Named, Of, Live
<1>. HIDE DEF seen
<1>8. \A r \in seen, c \in Candidates(aged) : run[c].issue # run[r].issue
  BY <1>6, <1>7
<1>9. CandidatesAreApart'
  BY <1>2, <1>3, <1>5, <1>6, <1>7, <1>8 DEF CandidatesAreApart, Terminal
<1>10. WorkspaceRecords'
  BY <1>2, <1>4 DEF WorkspaceRecords
<1>11. TurnsInv'
  BY <1>2, TurnsKept
<1>12. PreparationsFit'
  BY <1>2 DEF PreparationsFit, RowsInOrder, OneLiveRun, SettledIsAborted, SettledCleanupIsQuiet,
              WhatWasSeenHolds, HalfWorktreeIsReported, Working
<1>. QED
  BY <1>9, <1>10, <1>11, <1>12

LEMMA SameWorktrees ==
  ASSUME WorkspaceInv, UNCHANGED <<branch, remote>>, NEW r \in RunIds
  PROVE  /\ run[r].issue \in Issues /\ branch' \in [Issues -> BranchRow]
         /\ \A j \in Issues : /\ branch'[j] = branch[j] /\ branch'[j].tree = branch[j].tree
BY DEF WorkspaceInv, WorkspaceRecords, RunRow

LEMMA NextCandidateKeeps ==
  ASSUME WorkspaceInv, NextCandidate
  PROVE  WorkspaceInv'
<1>1. /\ retention \in RetentionRow /\ run \in [RunIds -> RunRow] /\ 1 \in RunIds
      /\ troubles \in 0 .. MaxTroubles /\ NoRun \notin RunIds
  BY WorkspaceBounds DEF WorkspaceInv, WorkspaceRecords, RunIds, NoRun
<1>2. UNCHANGED <<run, prep, tail, cache, branch, remote, commits, troubles>>
  BY DEF NextCandidate
<1>3. \/ retention' = [retention EXCEPT !.at = "idle", !.now = NoRun, !.seen = {}]
      \/ \E r \in retention.todo :
            retention' = [retention EXCEPT !.at = "removing", !.now = r, !.todo = retention.todo \ {r}]
  BY DEF NextCandidate
<1>4. /\ retention' \in RetentionRow
      /\ retention'.at \in {"removing", "refused"} => retention'.now # NoRun
      /\ retention'.seen \subseteq retention.seen
      /\ retention'.todo \subseteq retention.todo
      /\ retention'.now \in retention.todo \cup {retention.now, NoRun}
  <2>1. CASE retention' = [retention EXCEPT !.at = "idle", !.now = NoRun, !.seen = {}]
    BY <1>1, <2>1, WorkspaceWords DEF RetentionRow
  <2>2. CASE \E r \in retention.todo :
            retention' = [retention EXCEPT !.at = "removing", !.now = r, !.todo = retention.todo \ {r}]
    <3>1. PICK r \in retention.todo :
            retention' = [retention EXCEPT !.at = "removing", !.now = r, !.todo = retention.todo \ {r}]
      BY <2>2
    <3>2. r \in RunIds /\ retention.todo \ {r} \in SUBSET RunIds
      BY <1>1 DEF RetentionRow
    <3>. QED
      BY <1>1, <3>1, <3>2, WorkspaceWords DEF RetentionRow
  <2>. QED
    BY <1>3, <2>1, <2>2
<1>5. run[1].issue \in Issues /\ branch' \in [Issues -> BranchRow]
  BY <1>1, <1>2, SameWorktrees
<1>. QED
  BY <1>1, <1>2, <1>4, <1>5, RetentionKeeps

\* The mark of a pruned workspace is all that a pass writes into a row.
LEMMA MarkedRow ==
  ASSUME WorkspaceInv, NEW i \in Issues, retention.now \in RunIds, run' \in {run, Marked}
  PROVE  /\ run' \in [RunIds -> RunRow]
         /\ \A q \in RunIds : run'[q].issue = run[q].issue /\ run'[q].at = run[q].at
                               /\ run'[q].kind = run[q].kind
<1>. DEFINE c == retention.now
            pruned == run[c].pruned \/ run[c].at \in Terminal
            newRow == [run[c] EXCEPT !.pruned = pruned]
<1>1. run \in [RunIds -> RunRow] /\ run[c] \in RunRow
  BY DEF WorkspaceInv, WorkspaceRecords
<1>2. pruned \in BOOLEAN
  OBVIOUS
<1>3. Marked = [run EXCEPT ![c] = newRow]
  BY DEF Marked
<1>. HIDE DEF pruned
<1>4. newRow \in RunRow /\ newRow.issue = run[c].issue /\ newRow.at = run[c].at /\ newRow.kind = run[c].kind
  BY <1>1, <1>2 DEF RunRow
<1>. HIDE DEF newRow
<1>. QED
  BY <1>1, <1>3, <1>4

LEMMA RetentionPlace ==
  ASSUME WorkspaceInv, NEW at \in {"next", "refused"},
         retention' = [retention EXCEPT !.at = at], retention.at \in {"removing", "refused"}
  PROVE  /\ retention' \in RetentionRow /\ retention.now \in RunIds
         /\ retention'.at = at /\ retention'.now = retention.now
         /\ retention'.seen = retention.seen /\ retention'.todo = retention.todo
         /\ run[retention.now].issue \in Issues /\ retention.now # NoRun
<1>1. retention \in RetentionRow /\ run \in [RunIds -> RunRow]
  BY DEF WorkspaceInv, WorkspaceRecords
<1>2. retention.now # NoRun
  BY DEF WorkspaceInv, CandidatesAreApart
<1>3. retention.now \in RunIds
  BY <1>1, <1>2 DEF RetentionRow
<1>. QED
  BY <1>1, <1>2, <1>3, WorkspaceWords DEF RetentionRow, RunRow

LEMMA RemoveKeeps ==
  ASSUME WorkspaceInv, RemoveWorktree \/ ProbeAfterRefusal
  PROVE  WorkspaceInv'
<1>. DEFINE i == run[retention.now].issue
            gone == [branch[i] EXCEPT !.tree = "none", !.dirty = FALSE]
<1>1. PICK at \in {"next", "refused"} : retention' = [retention EXCEPT !.at = at]
  BY DEF RemoveWorktree, ProbeAfterRefusal
<1>2. /\ retention.at \in {"removing", "refused"}
      /\ UNCHANGED <<prep, tail, cache, remote, commits>>
      /\ run' \in {run, Marked} /\ (troubles' = troubles \/ Trouble)
      /\ branch' \in {branch, [branch EXCEPT ![i] = gone]}
  BY DEF RemoveWorktree, ProbeAfterRefusal, Reclaimed
<1>3. /\ retention' \in RetentionRow /\ retention.now \in RunIds /\ retention'.at = at
      /\ retention'.now = retention.now /\ retention'.seen = retention.seen
      /\ retention'.todo = retention.todo /\ i \in Issues /\ retention.now # NoRun
  BY <1>1, <1>2, RetentionPlace
<1>4. /\ run' \in [RunIds -> RunRow]
      /\ \A q \in RunIds : run'[q].issue = run[q].issue /\ run'[q].at = run[q].at
                            /\ run'[q].kind = run[q].kind
  BY <1>2, <1>3, MarkedRow
<1>5. troubles' \in 0 .. MaxTroubles
  BY <1>2, WorkspaceBounds DEF WorkspaceInv, WorkspaceRecords, Trouble
<1>6. branch \in [Issues -> BranchRow]
  BY DEF WorkspaceInv, WorkspaceRecords
<1>7. gone \in BranchRow /\ gone.tree = "none" /\ gone.ref = branch[i].ref /\ gone.tip = branch[i].tip
  BY <1>3, <1>6, WorkspaceWords DEF BranchRow
<1>. HIDE DEF gone, i
<1>8. /\ branch' \in [Issues -> BranchRow] /\ \A j \in Issues \ {i} : branch'[j] = branch[j]
      /\ branch'[i].tree \in {branch[i].tree, "none"} /\ branch'[i].ref = branch[i].ref
      /\ branch'[i].tip = branch[i].tip
  BY <1>2, <1>3, <1>6, <1>7
<1>. QED
  BY <1>2, <1>3, <1>4, <1>5, <1>8, RetentionKeeps

-----------------------------------------------------------------------------
(* The theorems.                                                           *)

LEMMA WorkspaceGoesOn == WorkspaceInv /\ WorkspacesNext => WorkspaceInv'
<1>. SUFFICES ASSUME WorkspaceInv, WorkspacesNext PROVE WorkspaceInv'
  OBVIOUS
<1>1. CASE \E i \in Issues : Dispatch(i) \/ Continue(i) \/ Adopt(i)
  <2>1. PICK i \in Issues : Dispatch(i) \/ Continue(i) \/ Adopt(i)
    BY <1>1
  <2>2. \E r \in RunIds, kind \in Kinds, path \in BOOLEAN :
           Fresh(r) /\ LiveOf(i) = {} /\ Begin(r, i, kind, path)
    <3>1. "issue" \in Kinds /\ "adopted" \in Kinds
      BY DEF Kinds
    <3>2. \A q \in RunIds : run[q].path \in BOOLEAN
      BY DEF WorkspaceInv, WorkspaceRecords, RunRow
    <3>. QED
      BY <2>1, <3>1, <3>2 DEF Dispatch, Continue, Adopt, Of
  <2>. QED
    BY <2>2, BeginKeeps
<1>2. CASE \E i \in Issues : PersonPushes(i)
  BY <1>2, PersonKeeps
<1>3. CASE \E r \in RunIds : RunStep(r)
  BY <1>3, RunActs, AgentKeeps, AbortKeeps DEF RunStep
<1>4. CASE \E r \in RunIds : PreparationStep(r)
  BY <1>4, TurnStartsKeeps, FileKeeps, GitStepKeeps, ListedKeeps, GitFailsKeeps, GitKilledKeeps,
     DropKeeps, UndoKeeps, SettleKeeps DEF PreparationStep
<1>5. CASE RetentionStep
  BY <1>5, ListKeeps, NextCandidateKeeps, RemoveKeeps DEF RetentionStep
<1>. QED
  BY <1>1, <1>2, <1>3, <1>4, <1>5 DEF WorkspacesNext

LEMMA WorkspaceStays == WorkspaceInv /\ UNCHANGED workspaceVars => WorkspaceInv'
BY DEF WorkspaceInv, WorkspaceRecords, TurnsInv, TurnsInOrder, TurnsAreHeld, Pending,
       PreparationsFit, RowsInOrder, OneLiveRun, SettledIsAborted, SettledCleanupIsQuiet,
       WhatWasSeenHolds, HalfWorktreeIsReported, CandidatesAreApart, Working, workspaceVars

LEMMA WorkspaceInvHolds == WorkspacesSpec => []WorkspaceInv
BY WorkspaceBegins, WorkspaceGoesOn, WorkspaceStays, PTL DEF WorkspacesSpec

\* For any number of issues, Runs, commits and failing commands: one preparation
\* at a time works on the repository cache, an abandoned one is quiet once its
\* cleanup has settled, and half a worktree is left only by a cleanup that said so.
THEOREM PreparationsKeepOrder == WorkspacesSpec => []WorkspaceInvariant
<1>1. WorkspaceInv => WorkspaceInvariant
  <2>. SUFFICES ASSUME WorkspaceInv PROVE WorkspaceInvariant
    OBVIOUS
  <2>1. CacheTurnIsExclusive
    BY OneTurn DEF WorkspaceInv
  <2>2. SettledCleanupIsQuiet /\ HalfWorktreeIsReported
    BY DEF WorkspaceInv, PreparationsFit
  <2>3. WorkspaceTypeOK
    BY DEF WorkspaceInv, WorkspaceRecords, WorkspaceTypeOK, RunRow, PrepRow, BranchRow, RemoteRow,
           RetentionRow, RunPlaces, PrepPlaces, Turns, Kinds, Trees, RetentionPlaces
  <2>. QED
    BY <2>1, <2>2, <2>3 DEF WorkspaceInvariant
<1>. QED
  BY <1>1, WorkspaceInvHolds, PTL

\* What a step may do to the branch of an issue and to its worktree.
LEMMA BranchChanges ==
  ASSUME WorkspaceInv, WorkspacesNext, NEW i \in Issues
  PROVE  /\ \/ branch[i].tip \subseteq branch'[i].tip
            \/ \E r \in RunIds : run[r].issue = i /\ prep[r].at = "force"
         /\ branch[i].tree = "whole" /\ branch'[i].tree # "whole" =>
               \/ \E r \in RunIds : run[r].issue = i /\ prep[r].at = "undo"
               \/ retention.at = "removing" /\ run[retention.now].issue = i
<1>0. branch \in [Issues -> BranchRow] /\ \A r \in RunIds : run[r].issue \in Issues
  BY DEF WorkspaceInv, WorkspaceRecords, RunRow
<1>. DEFINE Goal == /\ \/ branch[i].tip \subseteq branch'[i].tip
                       \/ \E r \in RunIds : run[r].issue = i /\ prep[r].at = "force"
                    /\ branch[i].tree = "whole" /\ branch'[i].tree # "whole" =>
                          \/ \E r \in RunIds : run[r].issue = i /\ prep[r].at = "undo"
                          \/ retention.at = "removing" /\ run[retention.now].issue = i
<1>1. ASSUME branch' = branch PROVE Goal
  BY <1>1
<1>2. ASSUME NEW r \in RunIds, Effect(r), Accepted(r) PROVE Goal
  <2>1. prep[r].at = "add" => branch[run[r].issue].tree = "none"
    BY <1>2 DEF Accepted
  <2>2. /\ \A j \in Issues \ {run[r].issue} : branch'[j] = branch[j]
        /\ branch'[run[r].issue].tree =
              IF prep[r].at = "add" THEN "whole" ELSE branch[run[r].issue].tree
        /\ branch[run[r].issue].tip \subseteq branch'[run[r].issue].tip \/ prep[r].at = "force"
    BY <1>2, <2>1, EffectChanges
  <2>. QED
    BY <2>2
<1>3. CASE \E j \in Issues : Dispatch(j) \/ Continue(j) \/ Adopt(j) \/ PersonPushes(j)
  <2>1. branch' = branch
    BY <1>3 DEF Dispatch, Continue, Adopt, Begin, PersonPushes
  <2>. QED
    BY <1>1, <2>1
<1>4. CASE \E r \in RunIds : RunStep(r)
  <2>1. PICK r \in RunIds : RunStep(r)
    BY <1>4
  <2>2. CASE AgentWorks(r)
    <3>1. /\ branch[run[r].issue] \in BranchRow
          /\ \/ branch' = branch
             \/ branch' = [branch EXCEPT ![run[r].issue].tip = @ \cup {commits + 1},
                                         ![run[r].issue].dirty = FALSE]
             \/ branch' = [branch EXCEPT ![run[r].issue].dirty = TRUE]
      BY <1>0, <2>2 DEF AgentWorks
    <3>2. branch[i].tip \subseteq branch'[i].tip /\ branch'[i].tree = branch[i].tree
      BY <1>0, <3>1 DEF BranchRow
    <3>. QED
      BY <3>2
  <2>3. CASE ~ AgentWorks(r)
    <3>1. branch' = branch
      BY <2>1, <2>3 DEF RunStep, Prepared, StartAttempt, PreparationFails, ReleaseSlot, RunEnds, Abort
    <3>. QED
      BY <1>1, <3>1
  <2>. QED
    BY <2>2, <2>3
<1>5. CASE \E r \in RunIds : PreparationStep(r)
  <2>1. PICK r \in RunIds : PreparationStep(r)
    BY <1>5
  <2>2. CASE GitStep(r)
    <3>1. branch' = branch \/ (Effect(r) /\ Accepted(r))
      BY <2>2 DEF GitStep
    <3>. QED
      BY <1>1, <1>2, <3>1
  <2>3. CASE GitKilled(r)
    <3>1. \/ branch' = branch \/ (Effect(r) /\ Accepted(r))
          \/ /\ branch[run[r].issue].tree = "none"
             /\ branch' = [branch EXCEPT ![run[r].issue].tree = "listed"]
      BY <2>3 DEF GitKilled
    <3>2. CASE /\ branch[run[r].issue].tree = "none"
               /\ branch' = [branch EXCEPT ![run[r].issue].tree = "listed"]
      <4>1. branch[i] \in BranchRow
        BY <1>0
      <4>2. branch'[i].tip = branch[i].tip /\ (i # run[r].issue => branch'[i] = branch[i])
        BY <1>0, <3>2, <4>1 DEF BranchRow
      <4>. QED
        BY <3>2, <4>2
    <3>. QED
      BY <1>1, <1>2, <3>1, <3>2
  <2>4. CASE Undo(r)
    <3>1. /\ prep[r].at = "undo"
          /\ \E tree \in {"none", "listed"} :
                branch' = [branch EXCEPT ![run[r].issue].tree = tree, ![run[r].issue].dirty = FALSE]
      BY <2>4 DEF Undo
    <3>2. branch'[i].tip = branch[i].tip /\ (i # run[r].issue => branch'[i] = branch[i])
      BY <1>0, <3>1 DEF BranchRow
    <3>. QED
      BY <3>1, <3>2
  <2>5. CASE TurnStarts(r) \/ FileStep(r) \/ Listed(r) \/ GitFails(r) \/ Drop(r) \/ Settle(r)
    <3>1. branch' = branch
      BY <2>5 DEF TurnStarts, FileStep, Listed, GitFails, Drop, Settle
    <3>. QED
      BY <1>1, <3>1
  <2>. QED
    BY <2>1, <2>2, <2>3, <2>4, <2>5 DEF PreparationStep
<1>6. CASE RetentionStep
  <2>1. \/ branch' = branch
        \/ /\ retention.at = "removing"
           /\ branch' = [branch EXCEPT ![run[retention.now].issue] =
                             [@ EXCEPT !.tree = "none", !.dirty = FALSE]]
    BY <1>6 DEF RetentionStep, ListCandidates, NextCandidate, RemoveWorktree, ProbeAfterRefusal, Reclaimed
  <2>2. CASE /\ retention.at = "removing"
             /\ branch' = [branch EXCEPT ![run[retention.now].issue] =
                               [@ EXCEPT !.tree = "none", !.dirty = FALSE]]
    <3>1. branch'[i].tip = branch[i].tip /\ (i # run[retention.now].issue => branch'[i] = branch[i])
      BY <1>0, <2>2 DEF BranchRow
    <3>. QED
      BY <2>2, <3>1
  <2>. QED
    BY <1>1, <2>1, <2>2
<1>. QED
  BY <1>3, <1>4, <1>5, <1>6 DEF WorkspacesNext

\* Neither an undo nor a fresh candidate of the retention is of the issue of a
\* running Run.
LEMMA WorktreesStayStep ==
  WorkspaceInv /\ [WorkspacesNext]_workspaceVars =>
     [\A r \in RunIds :
          LET i == run[r].issue IN
          run[r].at = "running" /\ branch[i].tree = "whole" /\ branch'[i].tree # "whole" =>
              /\ retention.at = "removing" /\ run[retention.now].issue = i
              /\ r \notin retention.seen]_workspaceVars
<1>. SUFFICES ASSUME WorkspaceInv, WorkspacesNext, NEW r \in RunIds, run[r].at = "running",
                     branch[run[r].issue].tree = "whole", branch'[run[r].issue].tree # "whole"
              PROVE  /\ retention.at = "removing" /\ run[retention.now].issue = run[r].issue
                     /\ r \notin retention.seen
  OBVIOUS
<1>1. run[r].issue \in Issues
  BY DEF WorkspaceInv, WorkspaceRecords, RunRow
<1>2. ~ \E q \in RunIds : run[q].issue = run[r].issue /\ prep[q].at = "undo"
  <2>. SUFFICES ASSUME NEW q \in RunIds, run[q].issue = run[r].issue, prep[q].at = "undo"
                PROVE  FALSE
    OBVIOUS
  <2>1. Working(q)
    BY DEF Working, Ended, WorkspaceInv, PreparationsFit, SettledCleanupIsQuiet
  <2>2. run[q].at \in Live /\ run[r].at \in Live /\ prep[r].at = "done"
    BY <2>1 DEF WorkspaceInv, PreparationsFit, OneLiveRun, Live
  <2>3. q = r
    BY <2>2 DEF WorkspaceInv, PreparationsFit, OneLiveRun
  <2>. QED
    BY <2>2, <2>3
<1>3. retention.at = "removing" /\ run[retention.now].issue = run[r].issue
  BY <1>1, <1>2, BranchChanges
<1>4. retention.now \in RunIds
  BY <1>3 DEF WorkspaceInv, CandidatesAreApart, WorkspaceRecords, RetentionRow
<1>. QED
  BY <1>3, <1>4 DEF WorkspaceInv, CandidatesAreApart

LEMMA CommitsStayStep ==
  WorkspaceInv /\ [WorkspacesNext]_workspaceVars =>
     [\A i \in Issues :
          \/ branch[i].tip \subseteq branch'[i].tip \cup remote[i].tip
          \/ \E r \in RunIds : run[r].issue = i /\ prep[r].at = "force"]_workspaceVars
<1>. SUFFICES ASSUME WorkspaceInv, WorkspacesNext, NEW i \in Issues
              PROVE  \/ branch[i].tip \subseteq branch'[i].tip \cup remote[i].tip
                     \/ \E r \in RunIds : run[r].issue = i /\ prep[r].at = "force"
  OBVIOUS
<1>. QED
  BY BranchChanges

\* No step takes the worktree of a running Run but a retention pass that read its
\* candidates before the row named the workspace, and no step loses commits of a
\* branch but the adoption that finds no worktree of it.
THEOREM WorktreesAndCommitsAreKept == WorkspacesSpec => WorktreesAndCommitsStay
<1>1. WorkspacesSpec => RunningWorktreeStays
  BY WorkspaceInvHolds, WorktreesStayStep, PTL DEF WorkspacesSpec, RunningWorktreeStays
<1>2. WorkspacesSpec => CommitsAreKept
  BY WorkspaceInvHolds, CommitsStayStep, PTL DEF WorkspacesSpec, CommitsAreKept
<1>. QED
  BY <1>1, <1>2 DEF WorktreesAndCommitsStay

-----------------------------------------------------------------------------
(* Configuration reload: what holds for any number of files, Projects,      *)
(* routine names, edits and restarts.  The mutex lets one caller read at a   *)
(* time, so that what it has read is never older than what is in force.     *)

LEMMA SubsetInduction ==
  ASSUME NEW S, IsFiniteSet(S), NEW G,
         \A s \in SUBSET S : (\A u \in SUBSET s : u # s => u \in G) => s \in G
  PROVE  \A s \in SUBSET S : s \in G
<1>. DEFINE T == {s \in SUBSET S : s \notin G}
<1>1. SUFFICES ASSUME T # {} PROVE FALSE
  OBVIOUS
<1>2. T \subseteq SUBSET S /\ SUBSET S = FiniteSubsetsOf(S)
  BY <1>1, FS_FiniteSubsetsOfFinite
<1>3. IsWellFoundedOn(StrictSubsetOrdering(S), SUBSET S)
  BY <1>2, FS_StrictSubsetOrderingWellFounded
<1>4. PICK s \in T : \A u \in T : ~(<<u, s>> \in StrictSubsetOrdering(S))
  <2>. HIDE DEF T
  <2>. QED  BY <1>1, <1>2, <1>3, WFMin
<1>5. \A u \in SUBSET s : u # s => u \in G
  BY <1>1, <1>4 DEF StrictSubsetOrdering
<1>. QED  BY <1>1, <1>4, <1>5

\* The records of a reload.
AnyName == RoutineNames \cup {Nothing}
HostStates == {"on", "off", "twice", "absent"}
Reserved == [host : Hosts, file : Files, name : AnyName]
Snapshots == [readAt : Int, listed : [Files -> SUBSET Hosts], host : [Hosts -> HostStates],
              attached : SUBSET Targeted, trackerless : SUBSET Targeted,
              mismatched : SUBSET Targeted, invalid : SUBSET Reserved,
              broken : SUBSET Files, claims : [Files -> AnyName]]
Hosted(s) == s.attached \cup s.trackerless \cup s.mismatched

\* Routines are at Projects that host some; a file declares one name, and a name is of one file.
SnapshotFits(s) ==
    /\ s \in Snapshots /\ s.readAt >= -1
    /\ \A d \in Hosted(s) : s.host[d.host] \in {"on", "off"}
    /\ \A d, e \in s.attached : d.name = e.name <=> d.file = e.file

Readable(g, content) == \A f \in ListedFiles(g) : content[f] \in Content

LEMMA NoSnapshotFits == SnapshotFits(NoSnapshot) /\ NoSnapshot.readAt = -1
<1>1. /\ [f \in Files |-> {}] \in [Files -> SUBSET Hosts]
      /\ [h \in Hosts |-> "absent"] \in [Hosts -> HostStates]
      /\ [f \in Files |-> Nothing] \in [Files -> AnyName]
  BY DEF HostStates, AnyName
<1>2. NoSnapshot \in Snapshots
  BY <1>1 DEF NoSnapshot, Snapshots
<1>3. Hosted(NoSnapshot) = {} /\ NoSnapshot.attached = {} /\ NoSnapshot.readAt = -1
  BY DEF NoSnapshot, Hosted
<1>. QED  BY <1>2, <1>3 DEF SnapshotFits

\* What a file declares, and the name it claims.
LEMMA FileDeclares ==
  ASSUME NEW f \in Files, NEW c \in Content, NEW previous, SnapshotFits(previous)
  PROVE  /\ Claim(f, c, previous) \in AnyName
         /\ Declares(f, c, previous) =>
              /\ Declaration(f, c, previous).name = Claim(f, c, previous)
              /\ Claim(f, c, previous) \in RoutineNames
              /\ Declaration(f, c, previous).git \in BOOLEAN
              /\ Declaration(f, c, previous).model \in BOOLEAN
         /\ \A d \in previous.attached :
              d.file = f /\ c.form # "valid" => /\ Declares(f, c, previous)
                                                /\ Claim(f, c, previous) = d.name
<1>. DEFINE before == previousBySourcePath(previous, f)
<1>1. \A d \in before : d \in Targeted /\ d.file = f /\ d \in previous.attached
  BY DEF previousBySourcePath, SnapshotFits, Snapshots
<1>2. before # {} => AnyOf(before) \in before
  BY DEF AnyOf
<1>3. c.name \in RoutineNames /\ c.git \in BOOLEAN /\ c.model \in BOOLEAN
  BY DEF Content
<1>. HIDE DEF before
<1>4. before # {} => /\ AnyOf(before).name \in RoutineNames /\ AnyOf(before).git \in BOOLEAN
                     /\ AnyOf(before).model \in BOOLEAN
  BY <1>1, <1>2 DEF Targeted
<1>5. \A d \in previous.attached : d.file = f => before # {} /\ AnyOf(before).name = d.name
  <2>1. ASSUME NEW d \in previous.attached, d.file = f PROVE before # {} /\ AnyOf(before).name = d.name
    <3>1. d \in before
      BY <2>1 DEF before, previousBySourcePath
    <3>2. AnyOf(before) \in previous.attached /\ AnyOf(before).file = f
      BY <1>1, <1>2, <3>1
    <3>. QED  BY <2>1, <3>1, <3>2 DEF SnapshotFits
  <2>. QED  BY <2>1
<1>6. Declares(f, c, previous) <=> (c.form = "valid" \/ before # {})
  BY DEF Declares, before
<1>7. Declaration(f, c, previous) = IF c.form = "valid" THEN c ELSE AnyOf(before)
  BY DEF Declaration, before
<1>8. CASE c.form = "valid"
  BY <1>3, <1>6, <1>7, <1>8 DEF Claim, AnyName
<1>9. CASE c.form # "valid"
  BY <1>3, <1>4, <1>5, <1>6, <1>7, <1>9 DEF Claim, AnyName
<1>. QED  BY <1>8, <1>9

\* The declarations of a reload: those that first claimed their names.
LEMMA DeclarationsRead ==
  ASSUME NEW g \in ServiceConfig, NEW content, Readable(g, content),
         NEW previous, SnapshotFits(previous),
         NEW r, r = readRoutineDeclarations(g, content, previous)
  PROVE  /\ r.claims \in [Files -> AnyName] /\ r.errors \in BOOLEAN
         /\ \A f \in ListedFiles(g) : r.claims[f] = Claim(f, content[f], previous)
         /\ \A d \in r.good : /\ d.file \in ListedFiles(g) /\ d.name \in RoutineNames
                              /\ d.git \in BOOLEAN /\ d.model \in BOOLEAN
                              /\ d.name = r.claims[d.file] /\ ~Taken(r.claims, d.file)
         /\ \A d, e \in r.good : d.file = e.file => d = e
         /\ \A f \in ListedFiles(g) :
              Declares(f, content[f], previous) /\ ~Taken(r.claims, f)
                => \E d \in r.good : d.file = f /\ d.name = r.claims[f]
         /\ \A i \in r.invalid : i.file \in ListedFiles(g) /\ i.name \in AnyName
         /\ ~r.errors => \A f \in ListedFiles(g) : content[f].form = "valid" /\ ~Taken(r.claims, f)
<1>. DEFINE claims == Claims(g, content, previous)
            declaring == {f \in ListedFiles(g) : Declares(f, content[f], previous)}
            Read(f) == Declaration(f, content[f], previous)
            Entry(f) == [file |-> f, name |-> Read(f).name, git |-> Read(f).git, model |-> Read(f).model]
<1>1. /\ r.claims = claims
      /\ r.good = {Entry(f) : f \in {x \in declaring : ~Taken(claims, x)}}
      /\ r.invalid = {[file |-> f, name |-> claims[f]] : f \in ListedFiles(g) \ declaring}
      /\ r.errors = \E f \in ListedFiles(g) : content[f].form # "valid" \/ Taken(claims, f)
  BY DEF readRoutineDeclarations
<1>2. \A f \in ListedFiles(g) : f \in Files /\ content[f] \in Content
  BY DEF Readable, ListedFiles
<1>3. \A f \in ListedFiles(g) : claims[f] = Claim(f, content[f], previous)
  BY <1>2 DEF Claims
<1>4. claims \in [Files -> AnyName]
  <2>1. \A f \in ListedFiles(g) : Claim(f, content[f], previous) \in AnyName
    BY <1>2, FileDeclares
  <2>. QED  BY <2>1 DEF Claims, AnyName
<1>5. ASSUME NEW f \in declaring
      PROVE  /\ f \in ListedFiles(g) /\ Entry(f).file = f /\ Entry(f).name = claims[f]
             /\ claims[f] \in RoutineNames /\ Entry(f).git \in BOOLEAN /\ Entry(f).model \in BOOLEAN
  <2>1. f \in ListedFiles(g) /\ f \in Files /\ content[f] \in Content /\ Declares(f, content[f], previous)
    BY <1>2
  <2>2. /\ Read(f).name = Claim(f, content[f], previous) /\ Claim(f, content[f], previous) \in RoutineNames
        /\ Read(f).git \in BOOLEAN /\ Read(f).model \in BOOLEAN
    BY <2>1, FileDeclares
  <2>3. /\ Entry(f).file = f /\ Entry(f).name = Read(f).name
        /\ Entry(f).git = Read(f).git /\ Entry(f).model = Read(f).model
    OBVIOUS
  <2>. HIDE DEF Entry, Read, claims
  <2>. QED  BY <1>3, <2>1, <2>2, <2>3
<1>. HIDE DEF Entry, claims
<1>6. \A d \in r.good : \E f \in declaring : d = Entry(f) /\ ~Taken(claims, f)
  BY <1>1
<1>7. \A f \in declaring : ~Taken(claims, f) => Entry(f) \in r.good
  BY <1>1
<1>8. \A d \in r.good : /\ d.file \in ListedFiles(g) /\ d.name \in RoutineNames
                        /\ d.git \in BOOLEAN /\ d.model \in BOOLEAN
                        /\ d.name = claims[d.file] /\ ~Taken(claims, d.file)
  <2>. HIDE DEF declaring
  <2>. QED  BY <1>5, <1>6
<1>9. \A d, e \in r.good : d.file = e.file => d = e
  <2>. HIDE DEF declaring
  <2>. QED  BY <1>5, <1>6
<1>10. \A f \in ListedFiles(g) : Declares(f, content[f], previous) /\ ~Taken(claims, f)
          => \E d \in r.good : d.file = f /\ d.name = claims[f]
  <2>1. ASSUME NEW f \in ListedFiles(g), Declares(f, content[f], previous), ~Taken(claims, f)
        PROVE  \E d \in r.good : d.file = f /\ d.name = claims[f]
    <3>1. f \in declaring
      BY <2>1
    <3>2. Entry(f) \in r.good /\ Entry(f).file = f /\ Entry(f).name = claims[f]
      BY <1>5, <1>7, <2>1, <3>1
    <3>. QED  BY <3>2
  <2>. QED  BY <2>1
<1>11. \A i \in r.invalid : i.file \in ListedFiles(g) /\ i.name \in AnyName
  BY <1>1, <1>2, <1>4
<1>. QED  BY <1>1, <1>3, <1>4, <1>8, <1>9, <1>10, <1>11

\* Every declaration at every Project it targets.
LEMMA TargetedAt ==
  ASSUME NEW g \in ServiceConfig, NEW good,
         \A d \in good : /\ d.file \in ListedFiles(g) /\ d.name \in RoutineNames
                         /\ d.git \in BOOLEAN /\ d.model \in BOOLEAN
  PROVE  /\ At(g, good) \subseteq Targeted
         /\ \A t \in At(g, good) : \E d \in good : t.file = d.file /\ t.name = d.name
         /\ \A d \in good : \A h \in g.lists[d.file] :
              \E t \in At(g, good) : t.host = h /\ t.file = d.file /\ t.name = d.name
<1>. DEFINE T(d, h) == [host |-> h, file |-> d.file, name |-> d.name, git |-> d.git,
                        model |-> d.model \/ g.defaults]
<1>1. /\ g.defaults \in BOOLEAN
      /\ \A d \in good : d.file \in Files /\ g.lists[d.file] \subseteq Hosts
  BY DEF ServiceConfig, ListedFiles
<1>2. ASSUME NEW d \in good, NEW h \in g.lists[d.file]
      PROVE  /\ T(d, h) \in Targeted /\ T(d, h) \in At(g, good)
             /\ T(d, h).host = h /\ T(d, h).file = d.file /\ T(d, h).name = d.name
  <2>1. T(d, h) \in Targeted
    <3>1. h \in Hosts /\ d.file \in Files /\ (d.model \/ g.defaults) \in BOOLEAN
      BY <1>1
    <3>. QED  BY <3>1 DEF Targeted
  <2>2. T(d, h) \in At(g, good)
    BY DEF At
  <2>. QED  BY <2>1, <2>2
<1>3. \A t \in At(g, good) : \E d \in good : \E h \in g.lists[d.file] : t = T(d, h)
  BY DEF At
<1>. HIDE DEF T
<1>4. At(g, good) \subseteq Targeted
  BY <1>2, <1>3
<1>5. \A t \in At(g, good) : \E d \in good : t.file = d.file /\ t.name = d.name
  BY <1>2, <1>3
<1>. QED  BY <1>2, <1>4, <1>5

\* What keeps a candidate out.
Refuses(g, previous) ==
  \/ SchemaRejects(g) \/ Fatal(g, previous)
  \/ previous # NoSnapshot /\ \A h \in Hosts : ~Loads(g.project[h])

\* A reload without an error attaches every listed routine at every Project it targets.
Effective(s) ==
  \A f \in Files : \A h \in s.listed[f] : \E d \in s.attached : d.file = f /\ d.host = h

\* A broken file's routine is loaded again unless a file before it claims the name.
KeepsFiring(previous, s) ==
  \A d \in previous.attached :
    (d.file \in s.broken /\ d.host \in s.listed[d.file] /\ s.host[d.host] = "on")
      => \/ \E e \in s.attached \cup s.trackerless \cup s.mismatched :
              e.file = d.file /\ e.host = d.host /\ e.name = d.name
         \/ \E f \in Files : f < d.file /\ s.claims[f] = d.name

ResultFits(r, previous, readAt) ==
  /\ SnapshotFits(r.snapshot) /\ r.snapshot.readAt = readAt
  /\ r.errors \in BOOLEAN /\ r.lastKnownGood = FALSE
  /\ ~r.errors => Effective(r.snapshot)
  /\ KeepsFiring(previous, r.snapshot)

LEMMA LoadedSnapshot ==
  ASSUME NEW g \in ServiceConfig, NEW content, Readable(g, content), NEW readAt \in Nat,
         NEW previous, SnapshotFits(previous)
  PROVE  ResultFits(Loaded(g, content, readAt, previous), previous, readAt)
<1>. DEFINE decls == readRoutineDeclarations(g, content, previous)
            targeted == At(g, decls.good)
            here == {d \in targeted : HostsRoutines(g, d.host)}
            invalid == UNION {{[host |-> h, file |-> i.file, name |-> i.name] : h \in g.lists[i.file]} :
                                i \in decls.invalid}
            r == Loaded(g, content, readAt, previous)
            s == r.snapshot
<1>1. /\ s.readAt = readAt /\ s.listed = g.lists /\ s.host = LoadedProjects(g)
      /\ s.attached = {d \in here : ~Trackerless(g, d) /\ ~Mismatched(g, d)}
      /\ s.trackerless = {d \in here : Trackerless(g, d)}
      /\ s.mismatched = {d \in here : Mismatched(g, d)}
      /\ s.invalid = invalid
      /\ s.broken = {f \in ListedFiles(g) : content[f].form # "valid"}
      /\ s.claims = decls.claims
      /\ s = [readAt |-> s.readAt, listed |-> s.listed, host |-> s.host, attached |-> s.attached,
              trackerless |-> s.trackerless, mismatched |-> s.mismatched, invalid |-> s.invalid,
              broken |-> s.broken, claims |-> s.claims]
      /\ r.errors = (ProjectErrors(g) \/ decls.errors \/ RoutineErrors(g, targeted))
      /\ r.lastKnownGood = FALSE
  BY DEF Loaded
<1>. HIDE DEF s, r
<1>2. /\ decls.claims \in [Files -> AnyName] /\ decls.errors \in BOOLEAN
      /\ \A f \in ListedFiles(g) : decls.claims[f] = Claim(f, content[f], previous)
      /\ \A d \in decls.good : /\ d.file \in ListedFiles(g) /\ d.name \in RoutineNames
                               /\ d.git \in BOOLEAN /\ d.model \in BOOLEAN
                               /\ d.name = decls.claims[d.file] /\ ~Taken(decls.claims, d.file)
      /\ \A f \in ListedFiles(g) :
           Declares(f, content[f], previous) /\ ~Taken(decls.claims, f)
             => \E d \in decls.good : d.file = f /\ d.name = decls.claims[f]
      /\ \A i \in decls.invalid : i.file \in ListedFiles(g) /\ i.name \in AnyName
      /\ ~decls.errors => \A f \in ListedFiles(g) : content[f].form = "valid" /\ ~Taken(decls.claims, f)
  BY DeclarationsRead
<1>. HIDE DEF decls
<1>3. /\ targeted \subseteq Targeted
      /\ \A t \in targeted : \E d \in decls.good : t.file = d.file /\ t.name = d.name
      /\ \A d \in decls.good : \A h \in g.lists[d.file] :
           \E t \in targeted : t.host = h /\ t.file = d.file /\ t.name = d.name
  BY <1>2, TargetedAt
<1>. HIDE DEF targeted
<1>4. g.lists \in [Files -> SUBSET Hosts] /\ g.project \in [Hosts -> ProjectForm]
  BY DEF ServiceConfig
<1>5. /\ LoadedProjects(g) \in [Hosts -> HostStates]
      /\ \A h \in Hosts : HostsRoutines(g, h) <=> LoadedProjects(g)[h] \in {"on", "off"}
  <2>1. ASSUME NEW h \in Hosts
        PROVE  /\ LoadedProjects(g)[h] \in HostStates
               /\ HostsRoutines(g, h) <=> LoadedProjects(g)[h] \in {"on", "off"}
    <3>1. LoadedProjects(g)[h] = CASE g.project[h] \in {"dispatch", "host"} -> "on"
                       [] g.project[h] = "disabled" -> "off"
                       [] g.project[h] = "twice" -> "twice"
                       [] OTHER -> "absent"
      BY DEF LoadedProjects
    <3>2. g.project[h] \in ProjectForm
      BY <1>4
    <3>3. CASE g.project[h] \in {"dispatch", "host"}
      BY <3>1, <3>3 DEF HostsRoutines, Loads, HostStates
    <3>4. CASE g.project[h] = "disabled"
      BY <3>1, <3>4 DEF HostsRoutines, Loads, HostStates
    <3>5. CASE g.project[h] = "twice"
      BY <3>1, <3>5 DEF HostsRoutines, Loads, HostStates
    <3>6. CASE g.project[h] \notin {"dispatch", "host", "disabled", "twice"}
      <4>1. LoadedProjects(g)[h] = "absent"
        BY <3>1, <3>6
      <4>. QED  BY <3>6, <4>1 DEF HostsRoutines, Loads, HostStates
    <3>. QED  BY <3>3, <3>4, <3>5, <3>6
  <2>2. LoadedProjects(g) = [h \in Hosts |-> LoadedProjects(g)[h]]
    BY DEF LoadedProjects
  <2>3. LoadedProjects(g) \in [Hosts -> HostStates]
    BY <2>1, <2>2
  <2>. QED  BY <2>1, <2>3
<1>6. invalid \subseteq Reserved
  <2>1. ASSUME NEW i \in decls.invalid, NEW h \in g.lists[i.file]
        PROVE  [host |-> h, file |-> i.file, name |-> i.name] \in Reserved
    <3>1. i.file \in Files /\ i.name \in AnyName
      BY <1>2 DEF ListedFiles
    <3>2. h \in Hosts
      BY <1>4, <3>1
    <3>. QED  BY <3>1, <3>2 DEF Reserved
  <2>. QED  BY <2>1
<1>7. s \in Snapshots
  <2>1. s.attached \in SUBSET Targeted /\ s.trackerless \in SUBSET Targeted /\ s.mismatched \in SUBSET Targeted
    BY <1>1, <1>3
  <2>2. s.invalid \in SUBSET Reserved /\ s.broken \in SUBSET Files
    BY <1>1, <1>6 DEF ListedFiles
  <2>3. /\ s.readAt \in Int /\ s.listed \in [Files -> SUBSET Hosts]
        /\ s.host \in [Hosts -> HostStates] /\ s.claims \in [Files -> AnyName]
    BY <1>1, <1>2, <1>4, <1>5
  <2>. DEFINE TT == SUBSET Targeted
              RR == SUBSET Reserved
              LL == [Files -> SUBSET Hosts]
              HH == [Hosts -> HostStates]
              NN == [Files -> AnyName]
              BB == SUBSET Files
  <2>4. /\ s.attached \in TT /\ s.trackerless \in TT /\ s.mismatched \in TT /\ s.invalid \in RR
        /\ s.broken \in BB /\ s.listed \in LL /\ s.host \in HH /\ s.claims \in NN /\ s.readAt \in Int
    BY <2>1, <2>2, <2>3
  <2>. HIDE DEF TT, RR, LL, HH, NN, BB
  <2>5. [readAt |-> s.readAt, listed |-> s.listed, host |-> s.host, attached |-> s.attached,
         trackerless |-> s.trackerless, mismatched |-> s.mismatched, invalid |-> s.invalid,
         broken |-> s.broken, claims |-> s.claims]
          \in [readAt : Int, listed : LL, host : HH, attached : TT, trackerless : TT,
               mismatched : TT, invalid : RR, broken : BB, claims : NN]
    BY <2>4
  <2>6. s \in [readAt : Int, listed : LL, host : HH, attached : TT, trackerless : TT,
               mismatched : TT, invalid : RR, broken : BB, claims : NN]
    BY <1>1, <2>5
  <2>. QED  BY <2>6 DEF Snapshots, TT, RR, LL, HH, NN, BB
<1>8. /\ \A d \in Hosted(s) : d \in targeted /\ HostsRoutines(g, d.host)
      /\ \A d \in targeted : HostsRoutines(g, d.host) => d \in Hosted(s)
  BY <1>1 DEF Hosted
<1>9. SnapshotFits(s)
  <2>1. \A d \in Hosted(s) : s.host[d.host] \in {"on", "off"}
    <3>1. \A d \in Hosted(s) : d.host \in Hosts
      BY <1>3, <1>8 DEF Targeted
    <3>. QED  BY <1>1, <1>5, <1>8, <3>1
  <2>2. \A d \in s.attached : /\ d.file \in Files /\ d.name = decls.claims[d.file]
                              /\ d.name \in RoutineNames /\ ~Taken(decls.claims, d.file)
    <3>1. ASSUME NEW d \in s.attached
          PROVE  /\ d.file \in Files /\ d.name = decls.claims[d.file]
                 /\ d.name \in RoutineNames /\ ~Taken(decls.claims, d.file)
      <4>1. PICK e \in decls.good : d.file = e.file /\ d.name = e.name
        BY <1>3, <1>8 DEF Hosted
      <4>2. /\ e.file \in ListedFiles(g) /\ e.name = decls.claims[e.file]
            /\ e.name \in RoutineNames /\ ~Taken(decls.claims, e.file)
        BY <1>2
      <4>. QED  BY <4>1, <4>2 DEF ListedFiles
    <3>. QED  BY <3>1
  <2>3. ASSUME NEW d \in s.attached, NEW e \in s.attached, d.name = e.name, d.file # e.file PROVE FALSE
    <3>1. d.file \in Int /\ e.file \in Int
      BY <2>2 DEF Files
    <3>2. d.name # Nothing
      BY <2>2, ReloadBounds
    <3>3. CASE d.file < e.file
      BY <2>2, <2>3, <3>2, <3>3 DEF Taken
    <3>4. CASE e.file < d.file
      BY <2>2, <2>3, <3>2, <3>4 DEF Taken
    <3>. QED  BY <2>3, <3>1, <3>3, <3>4
  <2>4. \A d, e \in s.attached : d.file = e.file => d.name = e.name
    BY <2>2
  <2>5. s.readAt >= -1
    BY <1>1
  <2>. QED  BY <1>7, <2>1, <2>3, <2>4, <2>5 DEF SnapshotFits
<1>10. ASSUME ~r.errors PROVE Effective(s)
  <2>1. ASSUME NEW f \in Files, NEW h \in s.listed[f]
        PROVE  \E d \in s.attached : d.file = f /\ d.host = h
    <3>1. f \in ListedFiles(g) /\ h \in g.lists[f]
      BY <1>1, <2>1 DEF ListedFiles
    <3>2. /\ ~decls.errors /\ ~RoutineErrors(g, targeted)
          /\ content[f].form = "valid" /\ ~Taken(decls.claims, f)
      <4>1. ~decls.errors /\ ~RoutineErrors(g, targeted)
        BY <1>1, <1>10
      <4>. QED  BY <1>2, <3>1, <4>1
    <3>3. PICK d \in decls.good : d.file = f
      BY <1>2, <3>1, <3>2 DEF Declares
    <3>4. PICK t \in targeted : t.host = h /\ t.file = f
      BY <1>3, <3>1, <3>3
    <3>5. HostsRoutines(g, t.host) /\ ~Trackerless(g, t) /\ ~Mismatched(g, t)
      BY <3>2, <3>4 DEF RoutineErrors
    <3>. QED  BY <1>1, <3>4, <3>5
  <2>. QED  BY <2>1 DEF Effective
<1>11. KeepsFiring(previous, s)
  <2>1. ASSUME NEW d \in previous.attached, d.file \in s.broken, d.host \in s.listed[d.file],
               s.host[d.host] = "on", ~ \E f \in Files : f < d.file /\ s.claims[f] = d.name
        PROVE  \E e \in Hosted(s) : e.file = d.file /\ e.host = d.host /\ e.name = d.name
    <3>1. d.file \in ListedFiles(g) /\ d.file \in Files /\ content[d.file].form # "valid" /\ content[d.file] \in Content
      BY <1>1, <2>1 DEF ListedFiles, Readable
    <3>2. Declares(d.file, content[d.file], previous) /\ Claim(d.file, content[d.file], previous) = d.name
      BY <3>1, FileDeclares
    <3>3. decls.claims[d.file] = d.name
      BY <1>2, <3>1, <3>2
    <3>4. ~Taken(decls.claims, d.file)
      BY <1>1, <2>1, <3>3 DEF Taken
    <3>5. PICK e \in decls.good : e.file = d.file /\ e.name = d.name
      BY <1>2, <3>1, <3>2, <3>3, <3>4
    <3>6. PICK t \in targeted : t.host = d.host /\ t.file = d.file /\ t.name = d.name
      <4>1. d.host \in g.lists[e.file]
        BY <1>1, <2>1, <3>5
      <4>2. \E t \in targeted : t.host = d.host /\ t.file = e.file /\ t.name = e.name
        BY <1>3, <4>1
      <4>. QED  BY <3>5, <4>2
    <3>7. HostsRoutines(g, t.host)
      <4>1. t.host \in Hosts
        BY <1>3 DEF Targeted
      <4>. QED  BY <1>1, <1>5, <2>1, <3>6, <4>1
    <3>. QED  BY <1>8, <3>6, <3>7
  <2>. QED  BY <2>1 DEF KeepsFiring, Hosted
<1>. QED  BY <1>1, <1>9, <1>10, <1>11 DEF s, r, ResultFits

\* What a reload leaves in force.
LEMMA ReloadOutcome ==
  ASSUME NEW g \in ServiceConfig, NEW previous, SnapshotFits(previous), NEW readAt \in Nat,
         NEW content, Refuses(g, previous) \/ Readable(g, content),
         NEW r, r = loadRuntimeConfigSnapshot(g, content, readAt, previous)
  PROVE  /\ SnapshotFits(r.snapshot) /\ r.errors \in BOOLEAN /\ r.lastKnownGood \in BOOLEAN
         /\ r.snapshot = previous \/ r.snapshot.readAt = readAt
         /\ r.lastKnownGood \/ r.snapshot = NoSnapshot \/ r.snapshot.readAt = readAt
         /\ ~r.errors => Effective(r.snapshot)
         /\ r.snapshot # previous => KeepsFiring(previous, r.snapshot)
<1>1. CASE Refuses(g, previous)
  <2>1. r = [snapshot |-> previous, errors |-> TRUE, lastKnownGood |-> previous # NoSnapshot]
    BY <1>1 DEF loadRuntimeConfigSnapshot, Refuses, LastKnownGood
  <2>2. r.snapshot = previous /\ r.errors = TRUE /\ r.lastKnownGood = (previous # NoSnapshot)
    BY <2>1
  <2>. QED  BY <2>2
<1>2. CASE ~Refuses(g, previous)
  <2>1. r = Loaded(g, content, readAt, previous) /\ Readable(g, content)
    BY <1>2 DEF loadRuntimeConfigSnapshot, Refuses
  <2>2. ResultFits(r, previous, readAt)
    BY <2>1, LoadedSnapshot
  <2>. QED  BY <2>2 DEF ResultFits
<1>. QED  BY <1>1, <1>2

\* A configuration that loads without an error on its own.
Clean(g, content) == ~loadRuntimeConfigSnapshot(g, content, 0, NoSnapshot).errors

LEMMA FirstLoadErrors ==
  ASSUME NEW g, NEW content, NEW readAt
  PROVE  loadRuntimeConfigSnapshot(g, content, readAt, NoSnapshot).errors
           <=> \/ SchemaRejects(g) \/ Fatal(g, NoSnapshot) \/ ProjectErrors(g)
               \/ readRoutineDeclarations(g, content, NoSnapshot).errors
               \/ RoutineErrors(g, At(g, readRoutineDeclarations(g, content, NoSnapshot).good))
BY DEF loadRuntimeConfigSnapshot, Loaded, LastKnownGood

\* It loads without an error after anything: what was live before only adds what is kept
\* of broken files, and none is broken.
LEMMA CleanLoads ==
  ASSUME NEW g \in ServiceConfig, NEW content, Readable(g, content), Clean(g, content),
         NEW other, \A f \in ListedFiles(g) : other[f] = content[f],
         NEW previous, NEW readAt
  PROVE  ~loadRuntimeConfigSnapshot(g, other, readAt, previous).errors
<1>. DEFINE first == readRoutineDeclarations(g, content, NoSnapshot)
            decls == readRoutineDeclarations(g, other, previous)
<1>1. /\ ~SchemaRejects(g) /\ ~Fatal(g, NoSnapshot) /\ ~ProjectErrors(g)
      /\ ~first.errors /\ ~RoutineErrors(g, At(g, first.good))
  BY FirstLoadErrors DEF Clean
<1>2. \A f \in ListedFiles(g) : content[f].form = "valid" /\ ~Taken(Claims(g, content, NoSnapshot), f)
  BY <1>1 DEF readRoutineDeclarations
<1>3. \A f \in ListedFiles(g) : /\ Declares(f, content[f], NoSnapshot) /\ Declares(f, other[f], previous)
                                /\ Declaration(f, content[f], NoSnapshot) = content[f]
                                /\ Declaration(f, other[f], previous) = content[f]
                                /\ other[f].form = "valid"
  BY <1>2 DEF Declares, Declaration
<1>4. Claims(g, other, previous) = Claims(g, content, NoSnapshot)
  BY <1>3 DEF Claims, Claim
<1>5. ~decls.errors
  BY <1>2, <1>3, <1>4 DEF readRoutineDeclarations
<1>6. decls.good = first.good
  <2>. DEFINE claims == Claims(g, content, NoSnapshot)
              A == {f \in ListedFiles(g) : Declares(f, content[f], NoSnapshot)}
              B == {f \in ListedFiles(g) : Declares(f, other[f], previous)}
              X(f) == [file |-> f, name |-> Declaration(f, content[f], NoSnapshot).name,
                       git |-> Declaration(f, content[f], NoSnapshot).git,
                       model |-> Declaration(f, content[f], NoSnapshot).model]
              Y(f) == [file |-> f, name |-> Declaration(f, other[f], previous).name,
                       git |-> Declaration(f, other[f], previous).git,
                       model |-> Declaration(f, other[f], previous).model]
  <2>1. first.good = {X(f) : f \in {x \in A : ~Taken(claims, x)}}
    BY DEF readRoutineDeclarations
  <2>2. decls.good = {Y(f) : f \in {x \in B : ~Taken(claims, x)}}
    BY <1>4 DEF readRoutineDeclarations
  <2>3. A = B
    BY <1>3
  <2>4. \A f \in A : X(f) = Y(f)
    BY <1>3
  <2>. HIDE DEF A, B, X, Y, claims, first, decls
  <2>. QED  BY <2>1, <2>2, <2>3, <2>4
<1>7. \A h \in Hosts : g.project[h] \in ProjectForm
  BY DEF ServiceConfig
<1>8. ~Refuses(g, previous)
  <2>1. \A h \in Hosts : g.project[h] \notin {"schema", "detail", "workflow"}
    BY <1>1 DEF ProjectErrors
  <2>2. ~Fatal(g, previous)
    BY <2>1 DEF Fatal
  <2>3. \E h \in Hosts : g.project[h] # "absent"
    BY <1>1 DEF SchemaRejects
  <2>4. \E h \in Hosts : Loads(g.project[h])
    BY <1>7, <2>1, <2>3 DEF Loads, ProjectForm
  <2>. QED  BY <1>1, <2>2, <2>4 DEF Refuses
<1>9. loadRuntimeConfigSnapshot(g, other, readAt, previous) = Loaded(g, other, readAt, previous)
  BY <1>8 DEF loadRuntimeConfigSnapshot, Refuses
<1>10. Loaded(g, other, readAt, previous).errors
         = (ProjectErrors(g) \/ decls.errors \/ RoutineErrors(g, At(g, decls.good)))
  BY DEF Loaded
<1>. HIDE DEF decls, first
<1>. QED  BY <1>1, <1>5, <1>6, <1>9, <1>10

-----------------------------------------------------------------------------
(* The routines table.                                                     *)

Reasons == {"none", "removed", "tracker", "template"}
Rows == [state : RowStates, reason : Reasons, real : BOOLEAN, file : Doc]
RowFits(r) ==
    r \in Rows /\ ((r.state = "disabled") <=> (r.reason # "none")) /\ (r.state = "active" => r.real)
TableFits(t) ==
    /\ t = [h \in Hosts |-> [n \in RoutineNames |-> t[h][n]]]
    /\ \A h \in Hosts, n \in RoutineNames : RowFits(t[h][n])

LEMMA FilesAreDocs == Files \subseteq Doc /\ Files \subseteq Nat /\ 0 \in Doc
BY ReloadBounds DEF Files, Doc

\* The first and the last of some files.
LEMMA LeastAndGreatest ==
  ASSUME NEW k \in Nat, NEW F \in SUBSET (1 .. k), NEW up
  PROVE  F # {} => (CHOOSE x \in F : \A e \in F : IF up THEN x <= e ELSE x >= e) \in F
<1>1. IsFiniteSet(1 .. k)
  BY FS_Interval
<1>. DEFINE Q(S) == S # {} => (\E x \in S : \A e \in S : x <= e) /\ (\E x \in S : \A e \in S : x >= e)
            G == {S \in SUBSET (1 .. k) : Q(S)}
<1>2. ASSUME NEW S \in SUBSET (1 .. k), \A u \in SUBSET S : u # S => u \in G PROVE S \in G
  <2>1. CASE S = {}
    BY <2>1
  <2>2. CASE S # {}
    <3>1. PICK y : y \in S
      BY <2>2
    <3>. DEFINE u == S \ {y}
    <3>2. u \in G /\ y \in Int
      <4>1. u \in SUBSET S /\ u # S
        BY <3>1
      <4>. HIDE DEF u, G
      <4>. QED  BY <1>2, <3>1, <4>1
    <3>3. CASE u = {}
      <4>1. \A e \in S : e = y
        BY <3>3
      <4>2. y \in S /\ \A e \in S : y <= e /\ y >= e
        BY <3>1, <3>2, <4>1
      <4>. QED  BY <4>2
    <3>4. CASE u # {}
      <4>1. PICK a \in u : \A e \in u : a <= e
        BY <3>2, <3>4
      <4>2. PICK b \in u : \A e \in u : b >= e
        BY <3>2, <3>4
      <4>3. a \in S /\ b \in S /\ a \in Int /\ b \in Int /\ \A e \in S : e \in u \/ e = y
        BY <3>2, <4>1, <4>2
      <4>4. \E x \in S : \A e \in S : x <= e
        <5>1. CASE a <= y
          BY <4>1, <4>3, <5>1
        <5>2. CASE ~(a <= y)
          <6>1. \A e \in S : y <= e
            <7>1. \A e \in u : e \in Int
              OBVIOUS
            <7>. QED  BY <3>2, <4>1, <4>3, <5>2, <7>1
          <6>. QED  BY <3>1, <6>1
        <5>. QED  BY <5>1, <5>2
      <4>5. \E x \in S : \A e \in S : x >= e
        <5>1. CASE b >= y
          BY <4>2, <4>3, <5>1
        <5>2. CASE ~(b >= y)
          <6>1. \A e \in S : y >= e
            <7>1. \A e \in u : e \in Int
              OBVIOUS
            <7>. QED  BY <3>2, <4>2, <4>3, <5>2, <7>1
          <6>. QED  BY <3>1, <6>1
        <5>. QED  BY <5>1, <5>2
      <4>. QED  BY <4>4, <4>5
    <3>. QED  BY <3>3, <3>4
  <2>. QED  BY <2>1, <2>2
<1>3. \A S \in SUBSET (1 .. k) : S \in G
  <2>. HIDE DEF G
  <2>. QED  BY <1>1, <1>2, SubsetInduction
<1>4. Q(F)
  BY <1>3
<1>5. CASE up
  BY <1>4, <1>5
<1>6. CASE ~up
  BY <1>4, <1>6
<1>. QED  BY <1>5, <1>6

\* A stub: what it may overwrite.
LEMMA StubsFit ==
  ASSUME NEW t, TableFits(t), NEW s, SnapshotFits(s), NEW u, u = Stubs(t, s)
  PROVE  /\ TableFits(u)
         /\ \A h \in Hosts, n \in RoutineNames : u[h][n] # t[h][n] => n \in Names(InvalidAt(s, h))
<1>. DEFINE fs(h, n) == {i.file : i \in {x \in InvalidAt(s, h) : x.name = n}}
<1>1. u = [h \in Hosts |-> [n \in RoutineNames |-> upsertInvalidRoutineStub(t[h][n], fs(h, n))]]
  BY DEF Stubs
<1>2. ASSUME NEW h \in Hosts, NEW n \in RoutineNames
      PROVE  /\ u[h][n] = upsertInvalidRoutineStub(t[h][n], fs(h, n))
             /\ RowFits(u[h][n]) /\ (u[h][n] # t[h][n] => n \in Names(InvalidAt(s, h)))
  <2>. DEFINE r == t[h][n]
              F == fs(h, n)
              f == CHOOSE x \in F : \A e \in F : IF r.real THEN x <= e ELSE x >= e
  <2>1. RowFits(r)
    BY DEF TableFits
  <2>2. \A i \in InvalidAt(s, h) : i.file \in Files
    BY DEF InvalidAt, SnapshotFits, Snapshots, Reserved
  <2>3. F \subseteq Files /\ (F # {} => n \in Names(InvalidAt(s, h)))
    BY <2>2 DEF Names
  <2>4. u[h][n] = upsertInvalidRoutineStub(r, F)
    BY <1>1
  <2>. HIDE DEF F, r
  <2>5. F # {} => f \in F
    <3>1. F \in SUBSET (1 .. NumFiles) /\ NumFiles \in Nat
      BY <2>3, ReloadBounds DEF Files
    <3>. QED  BY <3>1, LeastAndGreatest
  <2>6. upsertInvalidRoutineStub(r, F) = r \/ (F # {} /\ upsertInvalidRoutineStub(r, F) = StubRow(r, f))
    BY DEF upsertInvalidRoutineStub
  <2>7. ASSUME F # {} PROVE RowFits(StubRow(r, f))
    <3>1. f \in Doc
      BY <2>3, <2>5, <2>7, FilesAreDocs
    <3>. HIDE DEF f
    <3>2. /\ StubRow(r, f) \in Rows /\ StubRow(r, f).state = "invalid" /\ StubRow(r, f).reason = "none"
      BY <2>1, <3>1 DEF RowFits, Rows, StubRow, RowStates, Reasons
    <3>. QED  BY <3>2 DEF RowFits
  <2>8. RowFits(u[h][n]) /\ (u[h][n] # r => n \in Names(InvalidAt(s, h)))
    <3>. HIDE DEF f
    <3>1. CASE upsertInvalidRoutineStub(r, F) = r
      BY <2>1, <2>4, <3>1
    <3>2. CASE F # {} /\ upsertInvalidRoutineStub(r, F) = StubRow(r, f)
      BY <2>3, <2>4, <2>7, <3>2
    <3>. QED  BY <2>6, <3>1, <3>2
  <2>9. u[h][n] = upsertInvalidRoutineStub(t[h][n], fs(h, n))
    BY <1>1
  <2>. QED  BY <2>8, <2>9 DEF r
<1>3. u = [h \in Hosts |-> [n \in RoutineNames |-> u[h][n]]]
  BY <1>1
<1>. QED  BY <1>2, <1>3 DEF TableFits

\* What a synchronized row is, after a row r.
RowFollows(s, h, n, r, x) ==
    /\ RowFits(x)
    /\ n \in Names(Decls(s, h)) /\ s.host[h] = "on" => x.state = "active"
    /\ x.state = "active" => s.host[h] = "on" /\ n \in Names(Decls(s, h)) \cup Protected(s, h)
    /\ RemovedRow(r) /\ x # r => n \in Current(s, h)

\* The rows a synchronization writes.
LEMMA WrittenRows ==
  ASSUME NEW r, RowFits(r), NEW d \in Targeted
  PROVE  /\ RowFits(ActiveRow(d)) /\ ActiveRow(d).state = "active"
         /\ \A reason \in {"tracker", "template"} : RowFits(Insert(r, d, "disabled", reason))
         /\ RowFits(Insert(r, d, "inactive", "none"))
         /\ \A state, reason \in STRING : Insert(r, d, state, reason).state = state
<1>. DEFINE f == IF r.real THEN r.file ELSE d.file
<1>1. d.file \in Doc /\ f \in Doc
  BY FilesAreDocs DEF Targeted, RowFits, Rows
<1>2. \A state, reason : Insert(r, d, state, reason) = [state |-> state, reason |-> reason, real |-> TRUE, file |-> f]
  BY DEF Insert
<1>. HIDE DEF f
<1>3. \A state \in RowStates, reason \in Reasons :
         [state |-> state, reason |-> reason, real |-> TRUE, file |-> f] \in Rows
  BY <1>1 DEF Rows
<1>4. RowFits(ActiveRow(d)) /\ ActiveRow(d).state = "active"
  BY <1>1 DEF ActiveRow, RowFits, Rows, RowStates, Reasons
<1>5. ASSUME NEW reason \in {"tracker", "template"} PROVE RowFits(Insert(r, d, "disabled", reason))
  <2>. DEFINE y == Insert(r, d, "disabled", reason)
  <2>1. y \in Rows
    BY <1>2, <1>3 DEF RowStates, Reasons
  <2>2. y.state = "disabled" /\ y.reason = reason
    BY <1>2
  <2>. HIDE DEF y
  <2>3. RowFits(y)
    BY <2>1, <2>2 DEF RowFits
  <2>. QED  BY <2>3 DEF y
<1>6. RowFits(Insert(r, d, "inactive", "none"))
  <2>. DEFINE y == Insert(r, d, "inactive", "none")
  <2>1. y \in Rows
    BY <1>2, <1>3 DEF RowStates, Reasons
  <2>2. y.state = "inactive" /\ y.reason = "none"
    BY <1>2
  <2>. HIDE DEF y
  <2>3. RowFits(y)
    BY <2>1, <2>2 DEF RowFits
  <2>. QED  BY <2>3 DEF y
<1>. QED  BY <1>2, <1>4, <1>5, <1>6

LEMMA ChangedRows ==
  ASSUME NEW r, RowFits(r)
  PROVE  /\ RowFits(Cascade(r)) /\ Cascade(r).state = "inactive"
         /\ RowFits([r EXCEPT !.state = "disabled", !.reason = "removed"])
         /\ [r EXCEPT !.state = "disabled", !.reason = "removed"].state = "disabled"
         /\ RemovedRow(r) => [r EXCEPT !.state = "disabled", !.reason = "removed"] = r
<1>. DEFINE c == Cascade(r)
            q == [r EXCEPT !.state = "disabled", !.reason = "removed"]
            RS == RowStates
            RE == Reasons
            DD == Doc
<1>1. r \in Rows
  BY DEF RowFits
<1>2. "inactive" \in RS /\ "disabled" \in RS /\ "none" \in RE /\ "removed" \in RE
  BY DEF RowStates, Reasons
<1>. HIDE DEF RS, RE, DD
<1>3. Rows = [state : RS, reason : RE, real : BOOLEAN, file : DD]
  BY DEF Rows, RS, RE, DD
<1>4. c \in Rows /\ c.state = "inactive" /\ c.reason = "none"
  BY <1>1, <1>2, <1>3 DEF Cascade
<1>5. q \in Rows /\ q.state = "disabled" /\ q.reason = "removed"
  BY <1>1, <1>2, <1>3
<1>6. q.real = r.real /\ q.file = r.file
  BY <1>1, <1>3
<1>. HIDE DEF c, q
<1>7. RowFits(c) /\ RowFits(q)
  BY <1>4, <1>5 DEF RowFits
<1>8. RemovedRow(r) => q = r
  <2>1. RemovedRow(r) => q.state = r.state /\ q.reason = r.reason
    BY <1>5 DEF RemovedRow
  <2>. QED  BY <1>1, <1>3, <1>5, <1>6, <2>1
<1>. QED  BY <1>4, <1>5, <1>7, <1>8 DEF c, q

LEMMA SyncedRowFits ==
  ASSUME NEW s, SnapshotFits(s), NEW h \in Hosts, NEW n \in RoutineNames, NEW r, RowFits(r),
         s.host[h] \in {"on", "twice"}
  PROVE  RowFollows(s, h, n, r, SyncedRow(s, h, n, r))
<1>. DEFINE here == {d \in Decls(s, h) : d.name = n}
            refused == {d \in Refused(s, h) : d.name = n}
            x == SyncedRow(s, h, n, r)
<1>1. x = IF here # {} THEN ActiveRow(AnyOf(here))
          ELSE IF refused # {} THEN disableRejectedRoutines(s, r, AnyOf(refused))
          ELSE IF n \in Protected(s, h) \/ r.state = "none" THEN r
          ELSE [r EXCEPT !.state = "disabled", !.reason = "removed"]
  BY DEF SyncedRow
<1>2. /\ \A d \in here : d \in Targeted /\ s.host[h] = "on"
      /\ \A d \in refused : d \in Targeted
  BY DEF Decls, Refused, SnapshotFits, Snapshots, Hosted
<1>3. /\ here # {} => AnyOf(here) \in here
      /\ refused # {} => AnyOf(refused) \in refused
  BY DEF AnyOf
<1>4. /\ here # {} <=> n \in Names(Decls(s, h))
      /\ here # {} \/ refused # {} => n \in Current(s, h)
  BY DEF Names, Current
<1>5. s.host[h] # "on" => n \notin Protected(s, h)
  BY DEF Protected
<1>. HIDE DEF here, refused, x
<1>6. CASE here # {}
  <2>1. x = ActiveRow(AnyOf(here)) /\ RowFits(x) /\ x.state = "active"
    BY <1>1, <1>2, <1>3, <1>6, WrittenRows
  <2>. QED  BY <1>2, <1>3, <1>4, <1>6, <2>1 DEF RowFollows, x
<1>7. CASE here = {} /\ refused # {}
  <2>1. PICK reason \in {"tracker", "template"} : x = Insert(r, AnyOf(refused), "disabled", reason)
    BY <1>1, <1>7 DEF disableRejectedRoutines
  <2>2. AnyOf(refused) \in Targeted
    BY <1>2, <1>3, <1>7
  <2>3. RowFits(x)
    BY <2>1, <2>2, WrittenRows
  <2>4. x.state = "disabled"
    BY <2>1 DEF Insert
  <2>. QED  BY <1>4, <1>7, <2>3, <2>4 DEF RowFollows, x
<1>8. CASE here = {} /\ refused = {} /\ (n \in Protected(s, h) \/ r.state = "none")
  <2>1. x = r
    BY <1>1, <1>8
  <2>. QED  BY <1>4, <1>5, <1>8, <2>1 DEF RowFollows, x
<1>9. CASE here = {} /\ refused = {} /\ ~(n \in Protected(s, h) \/ r.state = "none")
  <2>1. x = [r EXCEPT !.state = "disabled", !.reason = "removed"]
    BY <1>1, <1>9
  <2>2. RowFits(x) /\ x.state = "disabled" /\ (RemovedRow(r) => x = r)
    BY <2>1, ChangedRows
  <2>. QED  BY <1>4, <1>9, <2>2 DEF RowFollows, x
<1>. QED  BY <1>6, <1>7, <1>8, <1>9

LEMMA InactiveRowFits ==
  ASSUME NEW s, SnapshotFits(s), NEW h \in Hosts, NEW n \in RoutineNames, NEW r, RowFits(r),
         s.host[h] = "off"
  PROVE  RowFollows(s, h, n, r, InactiveRow(s, h, n, r))
<1>. DEFINE refused == {d \in Refused(s, h) : d.name = n}
            kept == IF refused # {} /\ ~r.real THEN Insert(r, AnyOf(refused), "inactive", "none") ELSE r
            x == InactiveRow(s, h, n, r)
<1>1. x = IF kept.state = "none" \/ (RemovedRow(kept) /\ n \notin Current(s, h)) THEN kept
          ELSE Cascade(kept)
  BY DEF InactiveRow
<1>2. /\ \A d \in refused : d \in Targeted
      /\ refused # {} => AnyOf(refused) \in refused /\ n \in Current(s, h)
  BY DEF Refused, SnapshotFits, Snapshots, AnyOf, Names, Current
<1>3. RowFits(kept) /\ (kept # r => n \in Current(s, h))
  <2>1. CASE refused # {} /\ ~r.real
    <3>1. kept = Insert(r, AnyOf(refused), "inactive", "none") /\ AnyOf(refused) \in Targeted
      BY <1>2, <2>1
    <3>. HIDE DEF kept, refused
    <3>. QED  BY <1>2, <2>1, <3>1, WrittenRows
  <2>2. CASE ~(refused # {} /\ ~r.real)
    BY <2>2
  <2>. QED  BY <2>1, <2>2
<1>. HIDE DEF kept, x, refused
<1>4. CASE kept.state = "none" \/ (RemovedRow(kept) /\ n \notin Current(s, h))
  <2>1. x = kept /\ x.state # "active"
    BY <1>1, <1>4 DEF RemovedRow
  <2>. QED  BY <1>3, <2>1 DEF RowFollows, x
<1>5. CASE ~(kept.state = "none" \/ (RemovedRow(kept) /\ n \notin Current(s, h)))
  <2>1. x = Cascade(kept) /\ RowFits(x) /\ x.state = "inactive"
    BY <1>1, <1>3, <1>5, ChangedRows
  <2>2. RemovedRow(r) => n \in Current(s, h)
    BY <1>3, <1>5
  <2>. QED  BY <2>1, <2>2 DEF RowFollows, x
<1>. QED  BY <1>4, <1>5

LEMMA PrunedRowFits ==
  ASSUME NEW s, NEW h, NEW n, NEW r, RowFits(r), s.host[h] # "on"
  PROVE  RowFollows(s, h, n, r, PrunedRow(r))
<1>1. CASE r.state = "none" \/ RemovedRow(r)
  <2>1. PrunedRow(r) = r /\ r.state # "active"
    BY <1>1 DEF PrunedRow, RemovedRow
  <2>. QED  BY <2>1 DEF RowFollows
<1>2. CASE ~(r.state = "none" \/ RemovedRow(r))
  <2>1. PrunedRow(r) = Cascade(r)
    BY <1>2 DEF PrunedRow
  <2>. QED  BY <1>2, <2>1, ChangedRows DEF RowFollows
<1>. QED  BY <1>1, <1>2

\* A synchronization: what is active is what the snapshot attaches or a broken file claims,
\* and what was removed stays removed unless something declares it.
LEMMA SyncFits ==
  ASSUME NEW t, TableFits(t), NEW s, SnapshotFits(s), NEW u, u = synchronizeRoutineTargets(t, s)
  PROVE  /\ TableFits(u)
         /\ \A h \in Hosts, n \in RoutineNames : RowFollows(s, h, n, t[h][n], u[h][n])
<1>. DEFINE X(h, n) == CASE s.host[h] \in {"on", "twice"} -> SyncedRow(s, h, n, t[h][n])
                         [] s.host[h] = "off" -> InactiveRow(s, h, n, t[h][n])
                         [] OTHER -> PrunedRow(t[h][n])
<1>1. u = [h \in Hosts |-> [n \in RoutineNames |-> X(h, n)]]
  BY DEF synchronizeRoutineTargets
<1>2. ASSUME NEW h \in Hosts, NEW n \in RoutineNames
      PROVE  RowFollows(s, h, n, t[h][n], X(h, n))
  <2>1. RowFits(t[h][n])
    BY DEF TableFits
  <2>2. CASE s.host[h] \in {"on", "twice"}
    <3>1. X(h, n) = SyncedRow(s, h, n, t[h][n])
      BY <2>2
    <3>. HIDE DEF X
    <3>. QED  BY <2>1, <2>2, <3>1, SyncedRowFits
  <2>3. CASE s.host[h] = "off"
    <3>1. X(h, n) = InactiveRow(s, h, n, t[h][n])
      BY <2>3
    <3>. HIDE DEF X
    <3>. QED  BY <2>1, <2>3, <3>1, InactiveRowFits
  <2>4. CASE s.host[h] \notin {"on", "twice", "off"}
    <3>1. X(h, n) = PrunedRow(t[h][n])
      BY <2>4
    <3>. HIDE DEF X
    <3>. QED  BY <2>1, <2>4, <3>1, PrunedRowFits
  <2>. QED  BY <2>2, <2>3, <2>4
<1>. HIDE DEF X
<1>3. \A h \in Hosts, n \in RoutineNames : u[h][n] = X(h, n)
  BY <1>1
<1>4. u = [h \in Hosts |-> [n \in RoutineNames |-> u[h][n]]]
  BY <1>1
<1>5. \A h \in Hosts, n \in RoutineNames : RowFollows(s, h, n, t[h][n], u[h][n])
  BY <1>2, <1>3
<1>. QED  BY <1>4, <1>5 DEF TableFits, RowFollows

-----------------------------------------------------------------------------
(* The edits.                                                              *)

LEMMA EditsFit ==
  /\ \A c \in Content : FileEdits(c) \subseteq Content
  /\ \A g \in ServiceConfig : ConfigEdits(g) \subseteq ServiceConfig
<1>1. ASSUME NEW c \in Content PROVE FileEdits(c) \subseteq Content
  <2>1. /\ \A n \in RoutineNames : [c EXCEPT !.name = n] \in Content
        /\ [c EXCEPT !.git = ~@] \in Content /\ [c EXCEPT !.model = ~@] \in Content
        /\ \A k \in {"valid", "broken", "garbled"} : [c EXCEPT !.form = k] \in Content
    BY DEF Content
  <2>. QED  BY <2>1 DEF FileEdits
<1>2. ASSUME NEW g \in ServiceConfig PROVE ConfigEdits(g) \subseteq ServiceConfig
  <2>. DEFINE FF == {"valid", "rejected"}
              LL == [Files -> SUBSET Hosts]
              PP == [Hosts -> ProjectForm]
  <2>. HIDE DEF FF, LL, PP
  <2>1. ServiceConfig = [form : FF, lists : LL, project : PP, defaults : BOOLEAN, template : BOOLEAN]
    BY DEF ServiceConfig, FF, LL, PP
  <2>2. g \in [form : FF, lists : LL, project : PP, defaults : BOOLEAN, template : BOOLEAN]
    BY <2>1
  <2>3. ASSUME NEW f \in Files, NEW S \in SUBSET Hosts PROVE [g EXCEPT !.lists[f] = S] \in ServiceConfig
    <3>1. [g.lists EXCEPT ![f] = S] \in LL
      BY <2>2 DEF LL
    <3>. QED  BY <2>1, <2>2, <3>1
  <2>4. ASSUME NEW h \in Hosts, NEW k \in ProjectForm PROVE [g EXCEPT !.project[h] = k] \in ServiceConfig
    <3>1. [g.project EXCEPT ![h] = k] \in PP
      BY <2>2 DEF PP
    <3>. QED  BY <2>1, <2>2, <3>1
  <2>5. /\ \A k \in FF : [g EXCEPT !.form = k] \in ServiceConfig
        /\ [g EXCEPT !.defaults = ~@] \in ServiceConfig /\ [g EXCEPT !.template = ~@] \in ServiceConfig
    BY <2>1, <2>2
  <2>. QED  BY <2>3, <2>4, <2>5 DEF ConfigEdits, FF
<1>. QED  BY <1>1, <1>2

-----------------------------------------------------------------------------
(* The inductive invariant.                                                *)

(* What a reload has read so far: the files before `next` that its           *)
(* configuration lists.                                                     *)
Positions == 1 .. (NumFiles + 1)
Reads == Content \cup {Nothing}
Readings == [next : Positions, config : ServiceConfig, readAt : Nat, content : [Files -> Reads]]
LoadFits(l) ==
    l = NoLoad \/ (l \in Readings /\ \A f \in ListedFiles(l.config) : f < l.next => l.content[f] \in Content)

(* A save or a manual firing.                                               *)
Texts == ServiceConfig \cup Content \cup {Nothing}
RequestAts == {"idle", "open", "write", "reload", "fire"}
Requests == [at : RequestAts, doc : Doc, base : Texts, draft : Texts, checked : Int, stamp : Int]
Fits(doc, new) == IF doc = 0 THEN new \in ServiceConfig ELSE new \in Content

RequestFits ==
    /\ request \in Requests
    /\ request.at = "open" => Fits(request.doc, request.base)
    /\ request.at = "write" => Fits(request.doc, request.draft)

ReloadRecords ==
    /\ config \in ServiceConfig /\ file \in [Files -> Content] /\ edits \in 0 .. MaxEdits
    /\ loader = [c \in Caller |-> loader[c]] /\ \A c \in Caller : LoadFits(loader[c])
    /\ tickAt \in {"idle", "reload", "sync"} /\ RequestFits
    /\ status \in [ok : BOOLEAN, lastKnownGood : BOOLEAN]
    /\ SnapshotFits(snapshot) /\ TableFits(row)
    /\ synced \in BOOLEAN /\ restarts \in 0 .. MaxRestarts

(* Each caller waits for its turn once, and only who has the turn reads.    *)
MutexTurns == {t \in Seq(Caller) : \A i, j \in 1 .. Len(t) : t[i] = t[j] => i = j}
Has(t, c) == \E i \in 1 .. Len(t) : t[i] = c
TurnFits ==
    /\ turn \in MutexTurns
    /\ tickAt = "reload" <=> Has(turn, "tick")
    /\ request.at \in {"reload", "fire"} <=> Has(turn, "request")
    /\ \A c \in Caller : loader[c].next > 0 => Turn(c)

(* What is read is never older than what is in force.                       *)
ReadFits ==
    /\ snapshot.readAt <= edits
    /\ \A c \in Caller : loader[c].next > 0 =>
          snapshot.readAt <= loader[c].readAt /\ loader[c].readAt <= edits

(* A save's reload begins after its write, and while nobody else writes what *)
(* it validated is on disk.                                                 *)
SaveFits ==
    /\ request.at = "write" =>
          /\ request.checked <= edits
          /\ request.doc = 0 /\ request.checked = edits => Clean(request.draft, file)
    /\ request.at = "reload" =>
          /\ request.stamp <= edits
          /\ loader["request"].next > 0 => request.stamp <= loader["request"].readAt
          /\ request.doc = 0 /\ request.stamp = request.checked + 1 /\ edits = request.stamp =>
                /\ Clean(config, file)
                /\ loader["request"].next > 0 =>
                      /\ loader["request"].config = config
                      /\ \A f \in ListedFiles(config) :
                            f < loader["request"].next => loader["request"].content[f] = file[f]

(* The table and the status tell about the snapshot.                        *)
OutcomeFits ==
    /\ synced => \A h \in Hosts, n \in RoutineNames :
          /\ n \in Names(Decls(snapshot, h)) /\ snapshot.host[h] = "on" => row[h][n].state = "active"
          /\ row[h][n].state = "active" =>
                snapshot.host[h] = "on" /\ n \in Names(Decls(snapshot, h)) \cup Protected(snapshot, h)
    /\ status.ok /\ snapshot # NoSnapshot => Effective(snapshot)

ReloadInv == ReloadRecords /\ TurnFits /\ ReadFits /\ SaveFits /\ OutcomeFits

LEMMA MutexMoves ==
  ASSUME NEW t \in MutexTurns
  PROVE  /\ \A c \in Caller : ~Has(t, c) =>
              /\ Append(t, c) \in MutexTurns /\ Has(Append(t, c), c) /\ Append(t, c) # <<>>
              /\ \A d \in Caller : d # c => (Has(Append(t, c), d) <=> Has(t, d))
              /\ t # <<>> => Head(Append(t, c)) = Head(t)
         /\ t # <<>> =>
              /\ Head(t) \in Caller /\ Tail(t) \in MutexTurns
              /\ Has(t, Head(t)) /\ ~Has(Tail(t), Head(t))
              /\ \A d \in Caller : d # Head(t) => (Has(Tail(t), d) <=> Has(t, d))
<1>1. t \in Seq(Caller) /\ \A i, j \in 1 .. Len(t) : t[i] = t[j] => i = j
  BY DEF MutexTurns
<1>2. ASSUME NEW c \in Caller, ~Has(t, c)
      PROVE  /\ Append(t, c) \in MutexTurns /\ Has(Append(t, c), c) /\ Append(t, c) # <<>>
             /\ \A d \in Caller : d # c => (Has(Append(t, c), d) <=> Has(t, d))
             /\ t # <<>> => Head(Append(t, c)) = Head(t)
  <2>. DEFINE u == Append(t, c)
  <2>1. /\ u \in Seq(Caller) /\ Len(u) = Len(t) + 1 /\ u[Len(t) + 1] = c
        /\ \A i \in 1 .. Len(t) : u[i] = t[i]
        /\ Len(t) \in Nat
    BY <1>1
  <2>6. u # <<>>
    BY <1>1, AppendProperties DEF u
  <2>7. t # <<>> => Head(u) = Head(t)
    <3>1. t # <<>> => Len(t) >= 1 /\ Head(t) = t[1]
      BY <1>1
    <3>2. Head(u) = u[1]
      BY <2>1, <2>6
    <3>. QED  BY <2>1, <3>1, <3>2
  <2>. HIDE DEF u
  <2>2. \A i \in 1 .. Len(u) : i = Len(t) + 1 \/ i \in 1 .. Len(t)
    BY <2>1
  <2>3. \A i \in 1 .. Len(t) : t[i] # c /\ i \in 1 .. Len(u)
    BY <1>2, <2>1 DEF Has
  <2>4. \A i, j \in 1 .. Len(u) : u[i] = u[j] => i = j
    BY <1>1, <2>1, <2>2, <2>3
  <2>5. Has(u, c) /\ \A d \in Caller : d # c => (Has(u, d) <=> Has(t, d))
    <3>1. Len(t) + 1 \in 1 .. Len(u)
      BY <2>1
    <3>. QED  BY <2>1, <2>2, <2>3, <3>1 DEF Has
  <2>. QED  BY <2>1, <2>4, <2>5, <2>6, <2>7 DEF u, MutexTurns
<1>3. ASSUME t # <<>>
      PROVE  /\ Head(t) \in Caller /\ Tail(t) \in MutexTurns
             /\ Has(t, Head(t)) /\ ~Has(Tail(t), Head(t))
             /\ \A d \in Caller : d # Head(t) => (Has(Tail(t), d) <=> Has(t, d))
  <2>. DEFINE u == Tail(t)
  <2>1. /\ u \in Seq(Caller) /\ Len(u) = Len(t) - 1 /\ Head(t) = t[1] /\ Head(t) \in Caller
        /\ Len(t) \in Nat /\ Len(t) >= 1
        /\ \A i \in 1 .. Len(t) - 1 : u[i] = t[i + 1]
    BY <1>1, <1>3
  <2>. HIDE DEF u
  <2>2. \A i \in 1 .. Len(u) : i \in Nat /\ i + 1 \in 1 .. Len(t) /\ u[i] = t[i + 1] /\ i + 1 # 1
    BY <2>1
  <2>3. \A i \in 1 .. Len(t) : i # 1 => i - 1 \in 1 .. Len(u) /\ t[i] = u[i - 1]
    BY <2>1
  <2>4. \A i, j \in 1 .. Len(u) : u[i] = u[j] => i = j
    BY <1>1, <2>2
  <2>5. Has(t, Head(t)) /\ ~Has(u, Head(t))
    <3>1. 1 \in 1 .. Len(t)
      BY <2>1
    <3>. QED  BY <1>1, <2>1, <2>2, <3>1 DEF Has
  <2>6. \A d \in Caller : d # Head(t) => (Has(u, d) <=> Has(t, d))
    BY <2>1, <2>2, <2>3 DEF Has
  <2>. QED  BY <2>1, <2>4, <2>5, <2>6 DEF u, MutexTurns
<1>. QED  BY <1>2, <1>3

Opened(doc, new) == [NoRequest EXCEPT !.at = "open", !.doc = doc, !.base = new]

LEMMA NoRequestFits ==
  /\ NoRequest \in Requests /\ NoRequest.at = "idle"
  /\ \A doc \in Doc : \A new \in Texts :
       /\ Opened(doc, new) \in Requests /\ Opened(doc, new).at = "open"
       /\ Opened(doc, new).doc = doc /\ Opened(doc, new).base = new
  /\ [NoRequest EXCEPT !.at = "fire"] \in Requests /\ [NoRequest EXCEPT !.at = "fire"].at = "fire"
<1>1. Nothing \in Texts /\ 0 \in Doc /\ RequestAts = {"idle", "open", "write", "reload", "fire"}
  BY FilesAreDocs DEF Texts, RequestAts
<1>2. NoRequest \in Requests /\ NoRequest.at = "idle"
  BY <1>1 DEF NoRequest, Requests
<1>3. ASSUME NEW doc \in Doc, NEW new \in Texts
      PROVE  /\ Opened(doc, new) \in Requests /\ Opened(doc, new).at = "open"
             /\ Opened(doc, new).doc = doc /\ Opened(doc, new).base = new
  BY <1>1, <1>2 DEF Requests, Opened
<1>4. /\ [NoRequest EXCEPT !.at = "fire"] \in Requests
      /\ [NoRequest EXCEPT !.at = "fire"].at = "fire"
  BY <1>1, <1>2 DEF Requests
<1>. QED  BY <1>2, <1>3, <1>4

LEMMA NoRowFits == RowFits(NoRow)
BY FilesAreDocs DEF NoRow, RowFits, Rows, RowStates, Reasons

LEMMA ReloadStarts == ReloadInit => ReloadInv
<1>. SUFFICES ASSUME ReloadInit PROVE ReloadInv
  OBVIOUS
<1>1. config \in ServiceConfig
  <2>1. [f \in Files |-> Hosts] \in [Files -> SUBSET Hosts]
        /\ [h \in Hosts |-> "dispatch"] \in [Hosts -> ProjectForm]
    BY DEF ProjectForm
  <2>. QED  BY <2>1 DEF ReloadInit, ServiceConfig
<1>2. file \in [Files -> Content]
  <2>. DEFINE names == CHOOSE x \in [Files -> RoutineNames] : Distinct(x)
  <2>1. names \in [Files -> RoutineNames]
    BY ReloadBounds
  <2>2. file = [f \in Files |-> [name |-> names[f], form |-> "valid", git |-> f = 1, model |-> f = 1]]
    BY DEF ReloadInit
  <2>. HIDE DEF names
  <2>3. ASSUME NEW f \in Files
        PROVE  [name |-> names[f], form |-> "valid", git |-> f = 1, model |-> f = 1] \in Content
    BY <2>1 DEF Content
  <2>. QED  BY <2>2, <2>3
<1>3. /\ edits = 0 /\ edits \in 0 .. MaxEdits /\ restarts \in 0 .. MaxRestarts
      /\ loader = [c \in Caller |-> NoLoad] /\ tickAt = "idle" /\ turn = <<>> /\ request = NoRequest
      /\ snapshot = NoSnapshot /\ synced = FALSE
      /\ status = [ok |-> TRUE, lastKnownGood |-> FALSE]
      /\ row = [h \in Hosts |-> [n \in RoutineNames |-> NoRow]]
  BY ReloadBounds DEF ReloadInit
<1>4. ReloadRecords
  <2>1. TableFits(row)
    BY <1>3, NoRowFits DEF TableFits
  <2>2. RequestFits
    BY <1>3, NoRequestFits DEF RequestFits
  <2>3. loader = [c \in Caller |-> loader[c]] /\ \A c \in Caller : LoadFits(loader[c])
    BY <1>3 DEF LoadFits
  <2>. QED  BY <1>1, <1>2, <1>3, <2>1, <2>2, <2>3, NoSnapshotFits DEF ReloadRecords
<1>5. TurnFits
  <2>1. turn \in MutexTurns /\ ~Has(turn, "tick") /\ ~Has(turn, "request")
    <3>1. turn \in Seq(Caller) /\ Len(turn) = 0
      BY <1>3
    <3>. QED  BY <3>1 DEF MutexTurns, Has
  <2>2. \A c \in Caller : loader[c].next = 0
    BY <1>3 DEF NoLoad
  <2>3. request.at \notin {"reload", "fire"} /\ tickAt # "reload"
    BY <1>3, NoRequestFits
  <2>4. \A c \in Caller : ~(loader[c].next > 0)
    BY <2>2
  <2>. QED  BY <2>1, <2>3, <2>4 DEF TurnFits
<1>6. ReadFits
  BY <1>3, NoSnapshotFits DEF ReadFits, NoLoad
<1>7. SaveFits /\ OutcomeFits
  BY <1>3, NoRequestFits DEF SaveFits, OutcomeFits
<1>. QED  BY <1>4, <1>5, <1>6, <1>7 DEF ReloadInv

\* What the invariant says of its numbers.
LEMMA ReloadNumbers ==
  ReloadInv => /\ edits \in Nat /\ MaxEdits \in Nat /\ snapshot.readAt \in Int
               /\ request.checked \in Int /\ request.stamp \in Int /\ "request" \in Caller /\ "tick" \in Caller
               /\ \A c \in Caller : /\ loader[c].next \in Nat
                                    /\ loader[c].next > 0 => loader[c] \in Readings /\ loader[c].readAt \in Nat
                                    /\ loader[c].next = 0 => loader[c] = NoLoad
<1>. SUFFICES ASSUME ReloadInv
     PROVE  /\ edits \in Nat /\ MaxEdits \in Nat /\ snapshot.readAt \in Int
            /\ request.checked \in Int /\ request.stamp \in Int /\ "request" \in Caller /\ "tick" \in Caller
            /\ \A c \in Caller : /\ loader[c].next \in Nat
                                 /\ loader[c].next > 0 => loader[c] \in Readings /\ loader[c].readAt \in Nat
                                 /\ loader[c].next = 0 => loader[c] = NoLoad
  OBVIOUS
<1>1. edits \in Nat /\ MaxEdits \in Nat
  BY ReloadBounds DEF ReloadInv, ReloadRecords
<1>2. snapshot.readAt \in Int
  BY DEF ReloadInv, ReloadRecords, SnapshotFits, Snapshots
<1>3. request.checked \in Int /\ request.stamp \in Int
  BY DEF ReloadInv, ReloadRecords, RequestFits, Requests
<1>4. ASSUME NEW c \in Caller
      PROVE  /\ loader[c].next \in Nat
             /\ loader[c].next > 0 => loader[c] \in Readings /\ loader[c].readAt \in Nat
             /\ loader[c].next = 0 => loader[c] = NoLoad
  <2>1. loader[c] = NoLoad \/ loader[c] \in Readings
    BY DEF ReloadInv, ReloadRecords, LoadFits
  <2>2. NoLoad.next = 0
    BY DEF NoLoad
  <2>3. \A l \in Readings : l.next \in Nat /\ l.next > 0 /\ l.readAt \in Nat
    <3>1. \A l \in Readings : l.next \in Positions /\ l.readAt \in Nat
      BY DEF Readings
    <3>2. \A p \in Positions : p \in Nat /\ p > 0
      BY ReloadBounds DEF Positions
    <3>. QED  BY <3>1, <3>2
  <2>. QED  BY <2>1, <2>2, <2>3
<1>. QED  BY <1>1, <1>2, <1>3, <1>4 DEF Caller

\* A write: one text changes, and it is of its kind.
LEMMA WriteFits ==
  ASSUME ReloadInv, NEW doc \in Doc, NEW new, Fits(doc, new), WriteTo(doc, new)
  PROVE  /\ config' \in ServiceConfig /\ file' \in [Files -> Content]
         /\ edits' = edits + 1 /\ edits' \in 0 .. MaxEdits
         /\ doc = 0 => config' = new /\ file' = file
<1>1. config \in ServiceConfig /\ file \in [Files -> Content] /\ edits < MaxEdits
  BY DEF ReloadInv, ReloadRecords, WriteTo
<1>2. CASE doc = 0
  BY <1>1, <1>2, ReloadNumbers DEF WriteTo, Fits
<1>3. CASE doc # 0
  <2>1. doc \in Files /\ new \in Content
    BY <1>3, ReloadBounds DEF Doc, Files, Fits
  <2>. QED  BY <1>1, <1>3, <2>1, ReloadNumbers DEF WriteTo
<1>. QED  BY <1>2, <1>3

LEMMA DiskFits ==
  ASSUME ReloadInv, NEW doc \in Doc
  PROVE  /\ Fits(doc, OnDisk(doc)) /\ OnDisk(doc) \in Texts
         /\ \A new \in (IF doc = 0 THEN ConfigEdits(config) ELSE FileEdits(file[doc])) : Fits(doc, new)
<1>1. config \in ServiceConfig /\ file \in [Files -> Content]
  BY DEF ReloadInv, ReloadRecords
<1>2. CASE doc = 0
  BY <1>1, <1>2, EditsFit DEF Fits, OnDisk, Texts
<1>3. CASE doc # 0
  <2>1. doc \in Files
    BY <1>3, ReloadBounds DEF Doc, Files
  <2>. QED  BY <1>1, <1>3, <2>1, EditsFit DEF Fits, OnDisk, Texts
<1>. QED  BY <1>2, <1>3

LEMMA DirectEditKeeps ==
  ASSUME ReloadInv, DirectEdit PROVE ReloadInv'
<1>0. PICK doc \in Doc : \E new \in Drafts(doc) : WriteTo(doc, new)
  BY DEF DirectEdit
<1>1. PICK new \in Drafts(doc) : WriteTo(doc, new)
  BY <1>0
<1>2. UNCHANGED <<turn, loader, tickAt, request, snapshot, status, row, synced, restarts>>
  BY DEF DirectEdit
<1>3. Fits(doc, new)
  BY <1>1, DiskFits DEF Drafts
<1>4. /\ config' \in ServiceConfig /\ file' \in [Files -> Content]
      /\ edits' = edits + 1 /\ edits' \in 0 .. MaxEdits
  BY <1>1, <1>3, WriteFits
<1>5. ReloadRecords'
  BY <1>2, <1>4 DEF ReloadInv, ReloadRecords, RequestFits
<1>6. TurnFits'
  BY <1>2 DEF ReloadInv, TurnFits, Turn
<1>7. ReadFits'
  BY <1>2, <1>4, ReloadNumbers DEF ReloadInv, ReadFits
<1>8. SaveFits'
  BY <1>2, <1>4, ReloadNumbers DEF ReloadInv, SaveFits
<1>9. OutcomeFits'
  BY <1>2 DEF ReloadInv, OutcomeFits
<1>. QED  BY <1>5, <1>6, <1>7, <1>8, <1>9 DEF ReloadInv

\* Steps that only begin, answer or drop a request.
RequestStep ==
  /\ RequestFits'
  /\ ~(request'.at \in {"reload", "fire"}) /\ ~(request.at \in {"reload", "fire"})
  /\ UNCHANGED <<config, file, edits, turn, loader, tickAt, snapshot, status, row, synced, restarts>>

LEMMA RequestStepKeeps ==
  ASSUME ReloadInv, RequestStep,
         request'.at = "write" => /\ request'.checked <= edits
                                  /\ request'.doc = 0 /\ request'.checked = edits => Clean(request'.draft, file)
  PROVE  ReloadInv'
<1>1. ReloadRecords'
  BY DEF RequestStep, ReloadInv, ReloadRecords
<1>2. TurnFits'
  BY DEF RequestStep, ReloadInv, TurnFits, Turn
<1>3. ReadFits' /\ OutcomeFits'
  BY DEF RequestStep, ReloadInv, ReadFits, OutcomeFits
<1>4. SaveFits'
  BY DEF RequestStep, SaveFits
<1>. QED  BY <1>1, <1>2, <1>3, <1>4 DEF ReloadInv

LEMMA OpenEditorKeeps ==
  ASSUME ReloadInv, OpenEditor PROVE ReloadInv'
<1>1. PICK doc \in Doc : request' = Opened(doc, OnDisk(doc))
  BY DEF OpenEditor, Opened
<1>2. Fits(doc, OnDisk(doc)) /\ OnDisk(doc) \in Texts
  BY DiskFits
<1>3. request' \in Requests /\ request'.at = "open" /\ request'.doc = doc /\ request'.base = OnDisk(doc)
  BY <1>1, <1>2, NoRequestFits
<1>4. RequestFits'
  BY <1>2, <1>3 DEF RequestFits
<1>5. RequestStep
  BY <1>3, <1>4 DEF RequestStep, OpenEditor
<1>. QED  BY <1>3, <1>5, RequestStepKeeps

LEMMA WriteFailsKeeps ==
  ASSUME ReloadInv, WriteFails PROVE ReloadInv'
<1>1. request' = NoRequest /\ request.at = "write"
  BY DEF WriteFails
<1>2. RequestFits' /\ request'.at = "idle"
  BY <1>1, NoRequestFits DEF RequestFits
<1>3. RequestStep
  BY <1>1, <1>2 DEF RequestStep, WriteFails
<1>. QED  BY <1>2, <1>3, RequestStepKeeps

LEMMA SubmitSaveKeeps ==
  ASSUME ReloadInv, SubmitSave PROVE ReloadInv'
<1>1. PICK new \in (IF request.doc = 0 THEN ConfigEdits(request.base) ELSE FileEdits(request.base)) :
        request' = IF Validates(request.doc, new) /\ OnDisk(request.doc) = request.base
                   THEN [request EXCEPT !.at = "write", !.draft = new, !.checked = edits]
                   ELSE NoRequest
  BY DEF SubmitSave
<1>2. request.at = "open" /\ request \in Requests /\ Fits(request.doc, request.base)
  BY DEF SubmitSave, ReloadInv, ReloadRecords, RequestFits
<1>3. Fits(request.doc, new) /\ new \in Texts
  BY <1>1, <1>2, EditsFit DEF Fits, Texts
<1>4. CASE request' = NoRequest
  <2>1. RequestFits' /\ request'.at = "idle"
    BY <1>4, NoRequestFits DEF RequestFits
  <2>2. RequestStep
    BY <1>2, <2>1 DEF RequestStep, SubmitSave
  <2>. QED  BY <2>1, <2>2, RequestStepKeeps
<1>5. CASE request' # NoRequest
  <2>1. /\ Validates(request.doc, new)
        /\ request' = [request EXCEPT !.at = "write", !.draft = new, !.checked = edits]
    BY <1>1, <1>5
  <2>2. edits \in Int /\ "write" \in RequestAts
    BY ReloadNumbers DEF RequestAts
  <2>3. /\ request' \in Requests /\ request'.at = "write" /\ request'.doc = request.doc
        /\ request'.draft = new /\ request'.checked = edits
    BY <1>2, <1>3, <2>1, <2>2 DEF Requests
  <2>4. RequestFits'
    BY <1>3, <2>3 DEF RequestFits
  <2>5. RequestStep
    BY <1>2, <2>3, <2>4 DEF RequestStep, SubmitSave
  <2>6. request'.doc = 0 => Clean(new, file)
    BY <2>1, <2>3, FirstLoadErrors DEF Validates, ValidateConfig, Clean
  <2>. QED  BY <2>2, <2>3, <2>5, <2>6, RequestStepKeeps
<1>. QED  BY <1>4, <1>5

\* A caller queues up: it waits, and has read nothing.
LEMMA CallerQueues ==
  ASSUME ReloadInv, NEW c \in Caller, ~Has(turn, c), WaitForTurn(c)
  PROVE  /\ turn' \in MutexTurns /\ Has(turn', c)
         /\ \A d \in Caller : d # c => (Has(turn', d) <=> Has(turn, d))
         /\ loader' = loader
         /\ \A d \in Caller : loader[d].next > 0 => Turn(d)'
         /\ loader[c].next = 0
<1>1. turn \in MutexTurns /\ turn' = Append(turn, c) /\ loader' = [loader EXCEPT ![c] = NoLoad]
  BY DEF ReloadInv, TurnFits, WaitForTurn
<1>2. /\ turn' \in MutexTurns /\ Has(turn', c) /\ turn' # <<>>
      /\ \A d \in Caller : d # c => (Has(turn', d) <=> Has(turn, d))
      /\ turn # <<>> => Head(turn') = Head(turn)
  BY <1>1, MutexMoves
<1>3. loader[c].next = 0 /\ loader[c] = NoLoad
  <2>1. loader[c].next > 0 => Has(turn, c)
    <3>1. loader[c].next > 0 => turn # <<>> /\ Head(turn) = c
      BY DEF ReloadInv, TurnFits, Turn
    <3>. QED  BY <1>1, <3>1, MutexMoves
  <2>2. loader[c].next \in Nat
    BY ReloadNumbers
  <2>. QED  BY <2>1, <2>2, ReloadNumbers
<1>4. loader' = loader
  <2>1. loader = [d \in Caller |-> loader[d]]
    BY DEF ReloadInv, ReloadRecords
  <2>. QED  BY <1>1, <1>3, <2>1
<1>5. \A d \in Caller : loader[d].next > 0 => Turn(d)'
  BY <1>2 DEF ReloadInv, TurnFits, Turn
<1>. QED  BY <1>2, <1>3, <1>4, <1>5

LEMMA TickKeeps ==
  ASSUME ReloadInv, Tick PROVE ReloadInv'
<1>1. /\ tickAt = "idle" /\ tickAt' = "reload" /\ WaitForTurn("tick") /\ "tick" \in Caller
      /\ UNCHANGED <<config, file, edits, request, snapshot, status, row, synced, restarts>>
  BY DEF Tick, Caller
<1>2. ~Has(turn, "tick")
  BY <1>1 DEF ReloadInv, TurnFits
<1>3. /\ turn' \in MutexTurns /\ Has(turn', "tick") /\ (Has(turn', "request") <=> Has(turn, "request"))
      /\ loader' = loader /\ \A d \in Caller : loader[d].next > 0 => Turn(d)'
  BY <1>1, <1>2, CallerQueues DEF Caller
<1>4. ReloadRecords'
  BY <1>1, <1>3 DEF ReloadInv, ReloadRecords, RequestFits
<1>5. TurnFits'
  BY <1>1, <1>3 DEF ReloadInv, TurnFits
<1>6. ReadFits' /\ SaveFits' /\ OutcomeFits'
  BY <1>1, <1>3 DEF ReloadInv, ReadFits, SaveFits, OutcomeFits
<1>. QED  BY <1>4, <1>5, <1>6 DEF ReloadInv

LEMMA FireRoutineNowKeeps ==
  ASSUME ReloadInv, FireRoutineNow PROVE ReloadInv'
<1>1. /\ request.at = "idle" /\ request' = [NoRequest EXCEPT !.at = "fire"]
      /\ WaitForTurn("request") /\ "request" \in Caller
      /\ UNCHANGED <<config, file, edits, tickAt, snapshot, status, row, synced, restarts>>
  BY DEF FireRoutineNow, Caller
<1>2. ~Has(turn, "request")
  BY <1>1 DEF ReloadInv, TurnFits
<1>3. /\ turn' \in MutexTurns /\ Has(turn', "request") /\ (Has(turn', "tick") <=> Has(turn, "tick"))
      /\ loader' = loader /\ \A d \in Caller : loader[d].next > 0 => Turn(d)'
  BY <1>1, <1>2, CallerQueues DEF Caller
<1>4. request' \in Requests /\ request'.at = "fire"
  BY <1>1, NoRequestFits
<1>5. ReloadRecords'
  BY <1>1, <1>3, <1>4 DEF ReloadInv, ReloadRecords, RequestFits
<1>6. TurnFits'
  BY <1>1, <1>3, <1>4 DEF ReloadInv, TurnFits
<1>7. ReadFits' /\ OutcomeFits'
  BY <1>1, <1>3 DEF ReloadInv, ReadFits, OutcomeFits
<1>8. SaveFits'
  BY <1>4 DEF SaveFits
<1>. QED  BY <1>5, <1>6, <1>7, <1>8 DEF ReloadInv

LEMMA WriteSaveKeeps ==
  ASSUME ReloadInv, WriteSave PROVE ReloadInv'
<1>. DEFINE q == [request EXCEPT !.at = "reload", !.stamp = edits', !.base = Nothing, !.draft = Nothing]
<1>1. /\ request.at = "write" /\ WriteTo(request.doc, request.draft)
      /\ WaitForTurn("request") /\ "request" \in Caller /\ request' = q
      /\ UNCHANGED <<tickAt, snapshot, status, row, synced, restarts>>
  BY DEF WriteSave, Caller
<1>2. request \in Requests /\ request.doc \in Doc /\ Fits(request.doc, request.draft)
  BY <1>1 DEF ReloadInv, ReloadRecords, RequestFits, Requests
<1>3. /\ config' \in ServiceConfig /\ file' \in [Files -> Content]
      /\ edits' = edits + 1 /\ edits' \in 0 .. MaxEdits
      /\ request.doc = 0 => config' = request.draft /\ file' = file
  BY <1>1, <1>2, WriteFits
<1>4. ~Has(turn, "request")
  BY <1>1 DEF ReloadInv, TurnFits
<1>5. /\ turn' \in MutexTurns /\ Has(turn', "request") /\ (Has(turn', "tick") <=> Has(turn, "tick"))
      /\ loader' = loader /\ \A d \in Caller : loader[d].next > 0 => Turn(d)'
      /\ loader["request"].next = 0
  BY <1>1, <1>4, CallerQueues DEF Caller
<1>6. /\ q \in Requests /\ q.at = "reload" /\ q.stamp = edits' /\ q.doc = request.doc
      /\ q.checked = request.checked
  <2>1. "reload" \in RequestAts /\ edits' \in Int /\ Nothing \in Texts
    BY <1>3 DEF RequestAts, Texts
  <2>. QED  BY <1>2, <2>1 DEF Requests
<1>. HIDE DEF q
<1>7. ReloadRecords'
  BY <1>1, <1>3, <1>5, <1>6 DEF ReloadInv, ReloadRecords, RequestFits
<1>8. TurnFits'
  BY <1>1, <1>5, <1>6 DEF ReloadInv, TurnFits
<1>9. ReadFits'
  BY <1>1, <1>3, <1>5, ReloadNumbers DEF ReloadInv, ReadFits
<1>10. OutcomeFits'
  BY <1>1 DEF ReloadInv, OutcomeFits
<1>11. SaveFits'
  <2>1. q.doc = 0 /\ q.stamp = q.checked + 1 => Clean(config', file')
    <3>1. ASSUME q.doc = 0, q.stamp = q.checked + 1 PROVE Clean(config', file')
      <4>1. request.checked = edits
        BY <1>3, <1>6, <3>1, ReloadNumbers
      <4>2. Clean(request.draft, file)
        BY <1>1, <1>6, <3>1, <4>1 DEF ReloadInv, SaveFits
      <4>. QED  BY <1>3, <1>6, <3>1, <4>2
    <3>. QED  BY <3>1
  <2>2. ~(loader'["request"].next > 0)
    BY <1>5
  <2>3. q.stamp <= edits'
    BY <1>3, <1>6
  <2>. QED  BY <1>1, <1>6, <2>1, <2>2, <2>3 DEF SaveFits, Clean
<1>. QED  BY <1>7, <1>8, <1>9, <1>10, <1>11 DEF ReloadInv

LEMMA ReadConfigKeeps ==
  ASSUME ReloadInv, NEW c \in Caller, ReadConfig(c) PROVE ReloadInv'
<1>. DEFINE l == [next |-> 1, config |-> config, readAt |-> edits, content |-> [f \in Files |-> Nothing]]
<1>1. /\ Turn(c) /\ loader' = [loader EXCEPT ![c] = l]
      /\ UNCHANGED <<config, file, edits, turn, tickAt, request, snapshot, status, row, synced, restarts>>
  BY DEF ReadConfig
<1>2. config \in ServiceConfig /\ edits \in Nat /\ loader = [d \in Caller |-> loader[d]]
  BY ReloadNumbers DEF ReloadInv, ReloadRecords
<1>3. l \in Readings
  <2>1. 1 \in Positions /\ [f \in Files |-> Nothing] \in [Files -> Reads]
    BY ReloadBounds DEF Positions, Reads
  <2>. QED  BY <1>2, <2>1 DEF Readings
<1>4. l.next = 1 /\ l.config = config /\ l.readAt = edits
  OBVIOUS
<1>. HIDE DEF l
<1>5. \A d \in Caller : loader'[d] = IF d = c THEN l ELSE loader[d]
  BY <1>1, <1>2
<1>6. \A f \in ListedFiles(config) : ~(f < 1)
  <2>1. \A f \in ListedFiles(config) : f \in Int /\ f >= 1
    BY DEF ListedFiles, Files
  <2>. QED  BY <2>1
<1>7. LoadFits(l)
  BY <1>3, <1>4, <1>6 DEF LoadFits
<1>8. ReloadRecords'
  <2>1. loader' = [d \in Caller |-> loader'[d]]
    BY <1>1, <1>2
  <2>2. \A d \in Caller : LoadFits(loader'[d])
    BY <1>5, <1>7 DEF ReloadInv, ReloadRecords
  <2>3. \A d \in Caller : LoadFits(loader[d])'
    BY <2>2 DEF LoadFits
  <2>. QED  BY <1>1, <2>1, <2>3 DEF ReloadInv, ReloadRecords, RequestFits
<1>9. TurnFits'
  BY <1>1, <1>5 DEF ReloadInv, TurnFits, Turn
<1>10. ReadFits'
  BY <1>1, <1>4, <1>5, ReloadNumbers DEF ReloadInv, ReadFits
<1>11. OutcomeFits'
  BY <1>1 DEF ReloadInv, OutcomeFits
<1>12. SaveFits'
  <2>1. CASE c = "request"
    <3>1. loader'["request"] = l
      BY <1>5, <2>1
    <3>. QED  BY <1>1, <1>4, <1>6, <3>1 DEF ReloadInv, SaveFits
  <2>2. CASE c # "request"
    <3>1. loader'["request"] = loader["request"]
      BY <1>5, <2>2 DEF Caller
    <3>. QED  BY <1>1, <3>1 DEF ReloadInv, SaveFits
  <2>. QED  BY <2>1, <2>2
<1>. QED  BY <1>8, <1>9, <1>10, <1>11, <1>12 DEF ReloadInv

LEMMA ReadRoutineFileKeeps ==
  ASSUME ReloadInv, NEW c \in Caller, ReadRoutineFile(c) PROVE ReloadInv'
<1>1. PICK f \in ToRead(c) :
        /\ \A e \in ToRead(c) : f <= e
        /\ loader' = [loader EXCEPT ![c].next = f + 1, ![c].content[f] = file[f]]
  BY DEF ReadRoutineFile
<1>2. /\ Turn(c)
      /\ UNCHANGED <<config, file, edits, turn, tickAt, request, snapshot, status, row, synced, restarts>>
  BY DEF ReadRoutineFile
<1>. DEFINE l == loader[c]
            q == [l EXCEPT !.next = f + 1, !.content[f] = file[f]]
<1>3. /\ l.next # 0 /\ f \in ListedFiles(l.config) /\ f >= l.next
      /\ \A e \in ListedFiles(l.config) : e >= l.next => e \in ToRead(c)
  BY DEF ToRead
<1>4. /\ l \in Readings /\ l.next > 0 /\ l.next \in Nat
      /\ \A e \in ListedFiles(l.config) : e < l.next => l.content[e] \in Content
  <2>1. l.next > 0 /\ l.next \in Nat /\ l \in Readings
    BY <1>3, ReloadNumbers
  <2>2. LoadFits(l) /\ l # NoLoad
    BY <2>1 DEF ReloadInv, ReloadRecords, NoLoad
  <2>. QED  BY <2>1, <2>2 DEF LoadFits
<1>5. /\ f \in Files /\ f \in Nat /\ f + 1 \in Positions /\ file[f] \in Content /\ file[f] \in Reads
      /\ \A e \in ListedFiles(l.config) : e \in Int
  BY <1>3, ReloadBounds DEF ListedFiles, Files, Positions, Reads, ReloadInv, ReloadRecords
<1>6. /\ q \in Readings /\ q.next = f + 1 /\ q.config = l.config /\ q.readAt = l.readAt
      /\ q.content = [l.content EXCEPT ![f] = file[f]] /\ l.content \in [Files -> Reads]
  <2>. DEFINE CC == [Files -> Reads]
  <2>1. l.content \in CC /\ [l.content EXCEPT ![f] = file[f]] \in CC
    BY <1>4, <1>5 DEF Readings
  <2>. HIDE DEF CC
  <2>2. Readings = [next : Positions, config : ServiceConfig, readAt : Nat, content : CC]
    BY DEF Readings, CC
  <2>3. l.content \in [Files -> Reads]
    BY <2>1 DEF CC
  <2>. QED  BY <1>4, <1>5, <2>1, <2>2, <2>3
<1>7. /\ loader = [d \in Caller |-> loader[d]]
      /\ loader' = [d \in Caller |-> loader'[d]]
      /\ \A d \in Caller : loader'[d] = IF d = c THEN q ELSE loader[d]
  <2>1. loader = [d \in Caller |-> loader[d]]
    BY DEF ReloadInv, ReloadRecords
  <2>. QED  BY <1>1, <2>1
<1>. HIDE DEF q, l
<1>8. \A e \in ListedFiles(l.config) : e < f + 1 => e < l.next \/ e = f
  BY <1>1, <1>3, <1>4, <1>5
<1>9. \A e \in ListedFiles(l.config) :
         /\ e = f => q.content[e] = file[f]
         /\ e # f => q.content[e] = l.content[e]
  <2>1. \A e \in ListedFiles(l.config) : e \in Files
    BY DEF ListedFiles
  <2>. QED  BY <1>5, <1>6, <2>1
<1>10. LoadFits(q)
  BY <1>4, <1>5, <1>6, <1>8, <1>9 DEF LoadFits
<1>11. ReloadRecords'
  <2>1. \A d \in Caller : LoadFits(loader'[d])
    BY <1>7, <1>10 DEF ReloadInv, ReloadRecords
  <2>2. \A d \in Caller : LoadFits(loader[d])'
    BY <2>1 DEF LoadFits
  <2>. QED  BY <1>2, <1>7, <2>2 DEF ReloadInv, ReloadRecords, RequestFits
<1>12. TurnFits'
  BY <1>2, <1>7 DEF ReloadInv, TurnFits, Turn
<1>13. ReadFits'
  <2>1. snapshot.readAt <= q.readAt /\ q.readAt <= edits
    BY <1>4, <1>6 DEF l, ReloadInv, ReadFits
  <2>. QED  BY <1>2, <1>7, <2>1 DEF ReloadInv, ReadFits
<1>14. OutcomeFits'
  BY <1>2 DEF ReloadInv, OutcomeFits
<1>15. SaveFits'
  <2>1. CASE c = "request"
    <3>1. loader'["request"] = q /\ loader["request"] = l
      BY <1>7, <2>1 DEF l
    <3>2. request.at = "reload" => request.stamp <= q.readAt
      BY <1>4, <1>6, <3>1 DEF ReloadInv, SaveFits
    <3>3. ASSUME request.at = "reload", request.doc = 0, request.stamp = request.checked + 1,
                 edits = request.stamp
          PROVE  /\ Clean(config, file) /\ q.config = config
                 /\ \A e \in ListedFiles(config) : e < q.next => q.content[e] = file[e]
      <4>1. /\ Clean(config, file) /\ l.config = config
            /\ \A e \in ListedFiles(config) : e < l.next => l.content[e] = file[e]
        BY <1>4, <3>1, <3>3 DEF ReloadInv, SaveFits
      <4>. QED  BY <1>6, <1>8, <1>9, <4>1
    <3>. QED  BY <1>2, <3>1, <3>2, <3>3 DEF ReloadInv, SaveFits
  <2>2. CASE c # "request"
    <3>1. loader'["request"] = loader["request"]
      BY <1>7, <2>2 DEF Caller
    <3>. QED  BY <1>2, <3>1 DEF ReloadInv, SaveFits
  <2>. QED  BY <2>1, <2>2
<1>. QED  BY <1>11, <1>12, <1>13, <1>14, <1>15 DEF ReloadInv

\* What a caller installs at the end of a reload.
Outcome(l) == loadRuntimeConfigSnapshot(l.config, l.content, l.readAt, snapshot)

LEMMA InstalledFits ==
  ASSUME ReloadInv, NEW c \in Caller, Turn(c), loader[c].next > 0, ToRead(c) = {},
         NEW l, l = loader[c], NEW r, r = Outcome(l)
  PROVE  /\ SnapshotFits(r.snapshot) /\ r.errors \in BOOLEAN /\ r.lastKnownGood \in BOOLEAN
         /\ r.snapshot.readAt >= snapshot.readAt /\ r.snapshot.readAt <= edits
         /\ r.lastKnownGood \/ r.snapshot = NoSnapshot \/ r.snapshot.readAt = l.readAt
         /\ ~r.errors => Effective(r.snapshot)
         /\ r.snapshot # snapshot => KeepsFiring(snapshot, r.snapshot)
         /\ l.config \in ServiceConfig
         /\ Refuses(l.config, snapshot) \/ \A f \in ListedFiles(l.config) : f < l.next
<1>1. l \in Readings /\ l.config \in ServiceConfig /\ l.readAt \in Nat /\ l.next \in Nat
  BY ReloadNumbers DEF Readings
<1>2. \A f \in ListedFiles(l.config) : f < l.next => l.content[f] \in Content
  <2>1. LoadFits(l) /\ l # NoLoad
    BY DEF ReloadInv, ReloadRecords, NoLoad
  <2>. QED  BY <2>1 DEF LoadFits
<1>3. Refuses(l.config, snapshot) \/ \A f \in ListedFiles(l.config) : f < l.next
  <2>1. CASE SchemaRejects(l.config) \/ Fatal(l.config, snapshot)
    BY <2>1 DEF Refuses
  <2>2. CASE ~(SchemaRejects(l.config) \/ Fatal(l.config, snapshot))
    <3>1. \A f \in ListedFiles(l.config) : ~(f >= l.next)
      BY <2>2 DEF ToRead
    <3>2. \A f \in ListedFiles(l.config) : f \in Int
      BY DEF ListedFiles, Files
    <3>. QED  BY <1>1, <3>1, <3>2
  <2>. QED  BY <2>1, <2>2
<1>4. Refuses(l.config, snapshot) \/ Readable(l.config, l.content)
  BY <1>2, <1>3 DEF Readable
<1>5. SnapshotFits(snapshot)
  BY DEF ReloadInv, ReloadRecords
<1>6. /\ SnapshotFits(r.snapshot) /\ r.errors \in BOOLEAN /\ r.lastKnownGood \in BOOLEAN
      /\ r.snapshot = snapshot \/ r.snapshot.readAt = l.readAt
      /\ r.lastKnownGood \/ r.snapshot = NoSnapshot \/ r.snapshot.readAt = l.readAt
      /\ ~r.errors => Effective(r.snapshot)
      /\ r.snapshot # snapshot => KeepsFiring(snapshot, r.snapshot)
  <2>. DEFINE g == l.config
              t == l.content
              n == l.readAt
  <2>1. g \in ServiceConfig /\ n \in Nat /\ (Refuses(g, snapshot) \/ Readable(g, t))
        /\ r = loadRuntimeConfigSnapshot(g, t, n, snapshot)
    BY <1>1, <1>4 DEF Outcome
  <2>. HIDE DEF g, t, n
  <2>2. /\ SnapshotFits(r.snapshot) /\ r.errors \in BOOLEAN /\ r.lastKnownGood \in BOOLEAN
        /\ r.snapshot = snapshot \/ r.snapshot.readAt = n
        /\ r.lastKnownGood \/ r.snapshot = NoSnapshot \/ r.snapshot.readAt = n
        /\ ~r.errors => Effective(r.snapshot)
        /\ r.snapshot # snapshot => KeepsFiring(snapshot, r.snapshot)
    BY <1>5, <2>1, ReloadOutcome
  <2>. QED  BY <2>2 DEF n
<1>7. snapshot.readAt <= l.readAt /\ l.readAt <= edits /\ snapshot.readAt <= edits
  BY DEF ReloadInv, ReadFits
<1>8. snapshot.readAt \in Int
  BY ReloadNumbers
<1>9. r.snapshot.readAt >= snapshot.readAt /\ r.snapshot.readAt <= edits
  BY <1>1, <1>6, <1>7, <1>8
<1>. QED  BY <1>1, <1>3, <1>6, <1>9

RowsFollow(s, t) == \A h \in Hosts, n \in RoutineNames :
    /\ n \in Names(Decls(s, h)) /\ s.host[h] = "on" => t[h][n].state = "active"
    /\ t[h][n].state = "active" =>
          s.host[h] = "on" /\ n \in Names(Decls(s, h)) \cup Protected(s, h)
HistoryStays(s, t, u) == \A h \in Hosts, n \in RoutineNames :
    RemovedRow(t[h][n]) /\ u[h][n] # t[h][n] => n \in Current(s, h) \cup Names(InvalidAt(s, h))

\* The table after an installation, and after a synchronization.
LEMMA TableMoves ==
  ASSUME NEW t, TableFits(t), NEW s, SnapshotFits(s),
         NEW stubbed, stubbed = Stubs(t, s), NEW u, u = synchronizeRoutineTargets(stubbed, s),
         NEW v, v = synchronizeRoutineTargets(t, s)
  PROVE  /\ TableFits(stubbed) /\ TableFits(u) /\ TableFits(v)
         /\ RowsFollow(s, u) /\ RowsFollow(s, v)
         /\ HistoryStays(s, t, stubbed) /\ HistoryStays(s, t, u) /\ HistoryStays(s, t, v)
<1>1. /\ TableFits(stubbed)
      /\ \A h \in Hosts, n \in RoutineNames :
            stubbed[h][n] # t[h][n] => n \in Names(InvalidAt(s, h))
  BY StubsFit
<1>2. TableFits(u) /\ \A h \in Hosts, n \in RoutineNames : RowFollows(s, h, n, stubbed[h][n], u[h][n])
  BY <1>1, SyncFits
<1>3. TableFits(v) /\ \A h \in Hosts, n \in RoutineNames : RowFollows(s, h, n, t[h][n], v[h][n])
  BY SyncFits
<1>4. RowsFollow(s, u) /\ RowsFollow(s, v)
  BY <1>2, <1>3 DEF RowsFollow, RowFollows
<1>5. HistoryStays(s, t, stubbed)
  BY <1>1 DEF HistoryStays
<1>6. HistoryStays(s, t, v)
  BY <1>3 DEF HistoryStays, RowFollows
<1>7. HistoryStays(s, t, u)
  <2>1. ASSUME NEW h \in Hosts, NEW n \in RoutineNames, RemovedRow(t[h][n]), u[h][n] # t[h][n]
        PROVE  n \in Current(s, h) \cup Names(InvalidAt(s, h))
    <3>1. CASE stubbed[h][n] # t[h][n]
      BY <1>1, <3>1
    <3>2. CASE stubbed[h][n] = t[h][n]
      BY <1>2, <2>1, <3>2 DEF RowFollows
    <3>. QED  BY <3>1, <3>2
  <2>. QED  BY <2>1 DEF HistoryStays
<1>. QED  BY <1>1, <1>2, <1>3, <1>4, <1>5, <1>6, <1>7

\* What an installation changes.
LEMMA Installs ==
  ASSUME ReloadInv, NEW c \in Caller, Install(c),
         NEW r, r = Outcome(loader[c])
  PROVE  /\ Turn(c) /\ loader[c].next > 0 /\ ToRead(c) = {}
         /\ snapshot' = r.snapshot /\ status' = [ok |-> ~r.errors, lastKnownGood |-> r.lastKnownGood]
         /\ synced' \in BOOLEAN /\ TableFits(row') /\ (synced' => RowsFollow(r.snapshot, row'))
         /\ HistoryStays(r.snapshot, row, row')
         /\ turn' = Tail(turn) /\ loader' = [loader EXCEPT ![c] = NoLoad]
         /\ c = "tick" => tickAt' = "sync" /\ request' = request
         /\ c # "tick" => request' = NoRequest /\ tickAt' = tickAt
         /\ UNCHANGED <<config, file, edits, restarts>>
<1>. DEFINE stubbed == Stubs(row, r.snapshot)
            fires == c = "request" /\ request.at = "fire"
            u == synchronizeRoutineTargets(stubbed, r.snapshot)
<1>1. /\ Turn(c) /\ loader[c].next > 0 /\ ToRead(c) = {}
      /\ snapshot' = r.snapshot /\ status' = [ok |-> ~r.errors, lastKnownGood |-> r.lastKnownGood]
      /\ row' = (IF fires THEN u ELSE stubbed) /\ synced' = fires
      /\ turn' = Tail(turn) /\ loader' = [loader EXCEPT ![c] = NoLoad]
      /\ c = "tick" => tickAt' = "sync" /\ request' = request
      /\ c # "tick" => request' = NoRequest /\ tickAt' = tickAt
      /\ UNCHANGED <<config, file, edits, restarts>>
  BY DEF Install, Outcome
<1>2. SnapshotFits(r.snapshot)
  BY <1>1, InstalledFits
<1>3. TableFits(row)
  BY DEF ReloadInv, ReloadRecords
<1>4. /\ TableFits(stubbed) /\ TableFits(u) /\ RowsFollow(r.snapshot, u)
      /\ HistoryStays(r.snapshot, row, stubbed) /\ HistoryStays(r.snapshot, row, u)
  BY <1>2, <1>3, TableMoves
<1>5. synced' \in BOOLEAN
  BY <1>1
<1>. HIDE DEF u, stubbed
<1>6. TableFits(row') /\ (synced' => RowsFollow(r.snapshot, row')) /\ HistoryStays(r.snapshot, row, row')
  <2>1. CASE fires
    BY <1>1, <1>4, <2>1
  <2>2. CASE ~fires
    BY <1>1, <1>4, <2>2
  <2>. QED  BY <2>1, <2>2
<1>. QED  BY <1>1, <1>5, <1>6

LEMMA InstallKeeps ==
  ASSUME ReloadInv, NEW c \in Caller, Install(c) PROVE ReloadInv'
<1>. DEFINE r == Outcome(loader[c])
<1>1. /\ Turn(c) /\ loader[c].next > 0 /\ ToRead(c) = {}
      /\ snapshot' = r.snapshot /\ status' = [ok |-> ~r.errors, lastKnownGood |-> r.lastKnownGood]
      /\ synced' \in BOOLEAN /\ TableFits(row') /\ (synced' => RowsFollow(r.snapshot, row'))
      /\ turn' = Tail(turn) /\ loader' = [loader EXCEPT ![c] = NoLoad]
      /\ c = "tick" => tickAt' = "sync" /\ request' = request
      /\ c # "tick" => request' = NoRequest /\ tickAt' = tickAt
      /\ UNCHANGED <<config, file, edits, restarts>>
  BY Installs
<1>2. /\ SnapshotFits(r.snapshot) /\ r.errors \in BOOLEAN /\ r.lastKnownGood \in BOOLEAN
      /\ r.snapshot.readAt >= snapshot.readAt /\ r.snapshot.readAt <= edits
      /\ ~r.errors => Effective(r.snapshot)
  BY <1>1, InstalledFits
<1>. HIDE DEF r
<1>3. /\ loader = [d \in Caller |-> loader[d]]
      /\ loader' = [d \in Caller |-> loader'[d]]
      /\ \A d \in Caller : loader'[d] = IF d = c THEN NoLoad ELSE loader[d]
  <2>1. loader = [d \in Caller |-> loader[d]]
    BY DEF ReloadInv, ReloadRecords
  <2>. QED  BY <1>1, <2>1
<1>4. /\ turn' \in MutexTurns /\ turn # <<>> /\ Head(turn) = c
      /\ ~Has(turn', c) /\ Has(turn, c)
      /\ \A d \in Caller : d # c => (Has(turn', d) <=> Has(turn, d))
  BY <1>1, MutexMoves DEF Turn, ReloadInv, TurnFits
<1>5. \A d \in Caller : loader'[d].next = 0
  <2>1. ASSUME NEW d \in Caller, d # c PROVE loader[d].next = 0
    <3>1. ~(loader[d].next > 0)
      BY <1>4, <2>1 DEF ReloadInv, TurnFits, Turn
    <3>. QED  BY <3>1, ReloadNumbers
  <2>. QED  BY <1>3, <2>1 DEF NoLoad
<1>6. /\ c = "tick" \/ c = "request"
      /\ tickAt' \in {"idle", "reload", "sync"} /\ RequestFits'
      /\ (tickAt' = "reload") <=> Has(turn', "tick")
      /\ request'.at \in {"reload", "fire"} <=> Has(turn', "request")
  <2>1. /\ tickAt \in {"idle", "reload", "sync"} /\ RequestFits
        /\ (tickAt = "reload") <=> Has(turn, "tick")
        /\ request.at \in {"reload", "fire"} <=> Has(turn, "request")
    BY DEF ReloadInv, ReloadRecords, TurnFits
  <2>2. CASE c = "tick"
    <3>1. RequestFits'
      BY <1>1, <2>1, <2>2 DEF RequestFits
    <3>2. Has(turn', "request") <=> Has(turn, "request")
      BY <1>4, <2>2 DEF Caller
    <3>. QED  BY <1>1, <1>4, <2>1, <2>2, <3>1, <3>2
  <2>3. CASE c = "request"
    <3>1. RequestFits' /\ request'.at = "idle"
      BY <1>1, <2>3, NoRequestFits DEF RequestFits
    <3>2. Has(turn', "tick") <=> Has(turn, "tick")
      BY <1>4, <2>3 DEF Caller
    <3>. QED  BY <1>1, <1>4, <2>1, <2>3, <3>1, <3>2
  <2>. QED  BY <2>2, <2>3 DEF Caller
<1>7. ReloadRecords'
  <2>1. \A d \in Caller : LoadFits(loader[d])'
    BY <1>3 DEF ReloadInv, ReloadRecords, LoadFits
  <2>2. status' \in [ok : BOOLEAN, lastKnownGood : BOOLEAN]
    BY <1>1, <1>2
  <2>3. SnapshotFits(snapshot)' /\ TableFits(row)'
    BY <1>1, <1>2 DEF SnapshotFits, TableFits
  <2>4. /\ config' \in ServiceConfig /\ file' \in [Files -> Content] /\ edits' \in 0 .. MaxEdits
        /\ restarts' \in 0 .. MaxRestarts
    BY <1>1 DEF ReloadInv, ReloadRecords
  <2>. QED  BY <1>1, <1>3, <1>6, <2>1, <2>2, <2>3, <2>4 DEF ReloadRecords
<1>8. TurnFits'
  BY <1>4, <1>5, <1>6 DEF TurnFits
<1>9. ReadFits'
  BY <1>1, <1>2, <1>5 DEF ReadFits
<1>10. SaveFits'
  <2>1. CASE c = "tick"
    <3>1. UNCHANGED <<request, config, file, edits>>
      BY <1>1, <2>1
    <3>2. ~(loader'["request"].next > 0)
      BY <1>5 DEF Caller
    <3>. QED  BY <3>1, <3>2 DEF ReloadInv, SaveFits
  <2>2. CASE c # "tick"
    <3>1. request'.at = "idle"
      BY <1>1, <2>2, NoRequestFits
    <3>. QED  BY <3>1 DEF SaveFits
  <2>. QED  BY <2>1, <2>2
<1>11. OutcomeFits'
  <2>1. status'.ok => Effective(snapshot')
    BY <1>1, <1>2
  <2>2. synced' => RowsFollow(snapshot', row')
    BY <1>1
  <2>. QED  BY <2>1, <2>2 DEF OutcomeFits, RowsFollow, Effective
<1>. QED  BY <1>7, <1>8, <1>9, <1>10, <1>11 DEF ReloadInv

LEMMA SynchronizeKeeps ==
  ASSUME ReloadInv, Synchronize PROVE ReloadInv' /\ HistoryStays(snapshot, row, row')
<1>1. /\ tickAt = "sync" /\ tickAt' = "idle"
      /\ row' = synchronizeRoutineTargets(row, snapshot) /\ synced' = TRUE
      /\ UNCHANGED <<config, file, edits, turn, loader, request, snapshot, status, restarts>>
  BY DEF Synchronize
<1>2. TableFits(row) /\ SnapshotFits(snapshot)
  BY DEF ReloadInv, ReloadRecords
<1>3. TableFits(row') /\ RowsFollow(snapshot, row') /\ HistoryStays(snapshot, row, row')
  BY <1>1, <1>2, TableMoves
<1>4. ReloadRecords'
  <2>1. TableFits(row)'
    BY <1>3 DEF TableFits
  <2>. QED  BY <1>1, <2>1 DEF ReloadInv, ReloadRecords, RequestFits
<1>5. TurnFits'
  BY <1>1 DEF ReloadInv, TurnFits, Turn
<1>6. ReadFits' /\ SaveFits'
  BY <1>1 DEF ReloadInv, ReadFits, SaveFits
<1>7. OutcomeFits'
  BY <1>1, <1>3 DEF ReloadInv, OutcomeFits, RowsFollow
<1>. QED  BY <1>3, <1>4, <1>5, <1>6, <1>7 DEF ReloadInv

LEMMA RestartKeeps ==
  ASSUME ReloadInv, Restart PROVE ReloadInv'
<1>1. /\ restarts < MaxRestarts /\ restarts' = restarts + 1
      /\ turn' = <<>> /\ loader' = [c \in Caller |-> NoLoad]
      /\ tickAt' = "idle" /\ request' = NoRequest
      /\ snapshot' = NoSnapshot /\ status' = [ok |-> TRUE, lastKnownGood |-> FALSE] /\ synced' = FALSE
      /\ UNCHANGED <<config, file, edits, row>>
  BY DEF Restart, Caller
<1>2. RequestFits' /\ request'.at = "idle"
  BY <1>1, NoRequestFits DEF RequestFits
<1>3. ReloadRecords'
  <2>1. loader' = [c \in Caller |-> loader'[c]] /\ \A c \in Caller : LoadFits(loader[c])'
    BY <1>1 DEF LoadFits
  <2>2. restarts' \in 0 .. MaxRestarts
    BY <1>1, ReloadBounds DEF ReloadInv, ReloadRecords
  <2>3. SnapshotFits(snapshot)' /\ TableFits(row)'
    BY <1>1, NoSnapshotFits DEF ReloadInv, ReloadRecords
  <2>4. status' \in [ok : BOOLEAN, lastKnownGood : BOOLEAN]
    BY <1>1
  <2>. QED  BY <1>1, <1>2, <2>1, <2>2, <2>3, <2>4 DEF ReloadInv, ReloadRecords
<1>4. TurnFits'
  <2>1. turn' \in MutexTurns /\ ~Has(turn', "tick") /\ ~Has(turn', "request")
    <3>1. turn' \in Seq(Caller) /\ Len(turn') = 0
      BY <1>1
    <3>. QED  BY <3>1 DEF MutexTurns, Has
  <2>2. \A c \in Caller : ~(loader'[c].next > 0)
    BY <1>1 DEF NoLoad
  <2>3. request'.at \notin {"reload", "fire"} /\ tickAt' # "reload"
    BY <1>1, <1>2
  <2>. QED  BY <2>1, <2>2, <2>3 DEF TurnFits
<1>5. ReadFits'
  <2>1. edits' \in Nat /\ snapshot'.readAt = -1
    BY <1>1, NoSnapshotFits, ReloadNumbers
  <2>2. \A c \in Caller : ~(loader'[c].next > 0)
    BY <1>1 DEF NoLoad
  <2>. QED  BY <2>1, <2>2 DEF ReadFits
<1>6. SaveFits' /\ OutcomeFits'
  BY <1>1, <1>2 DEF SaveFits, OutcomeFits
<1>. QED  BY <1>3, <1>4, <1>5, <1>6 DEF ReloadInv

LEMMA ReloadStep == ReloadInv /\ [ReloadNext]_reloadVars => ReloadInv'
<1>. SUFFICES ASSUME ReloadInv, [ReloadNext]_reloadVars PROVE ReloadInv'
  OBVIOUS
<1>1. CASE DirectEdit \/ OpenEditor \/ SubmitSave \/ WriteSave \/ WriteFails \/ Tick \/ FireRoutineNow
  BY <1>1, DirectEditKeeps, OpenEditorKeeps, SubmitSaveKeeps, WriteSaveKeeps, WriteFailsKeeps,
     TickKeeps, FireRoutineNowKeeps
<1>2. CASE \E c \in Caller : ReadConfig(c) \/ ReadRoutineFile(c) \/ Install(c)
  BY <1>2, ReadConfigKeeps, ReadRoutineFileKeeps, InstallKeeps
<1>3. CASE Synchronize \/ Restart
  BY <1>3, SynchronizeKeeps, RestartKeeps
<1>4. CASE UNCHANGED reloadVars
  BY <1>4 DEF reloadVars, ReloadInv, ReloadRecords, RequestFits, TurnFits, Turn, ReadFits, SaveFits, OutcomeFits
<1>. QED  BY <1>1, <1>2, <1>3, <1>4 DEF ReloadNext

LEMMA ReloadInvariance == ReloadSpec => []ReloadInv
BY ReloadStarts, ReloadStep, PTL DEF ReloadSpec

LEMMA ReloadAgrees == ReloadInv => ReloadInvariant
<1>. SUFFICES ASSUME ReloadInv PROVE ReloadInvariant
  OBVIOUS
<1>1. NamesHaveOneFile
  BY DEF ReloadInv, ReloadRecords, SnapshotFits, NamesHaveOneFile
<1>2. ActiveFollowsSnapshot
  BY DEF ReloadInv, OutcomeFits, ActiveFollowsSnapshot
<1>3. OkMeansEffective
  BY DEF ReloadInv, OutcomeFits, OkMeansEffective, Effective
<1>4. ReloadTypeOK
  <2>1. turn \in Seq({"tick", "request"}) /\ Len(turn) <= 2
    <3>1. turn \in Seq(Caller) /\ \A i, j \in 1 .. Len(turn) : turn[i] = turn[j] => i = j
      BY DEF ReloadInv, TurnFits, MutexTurns
    <3>2. Len(turn) \in Nat /\ \A i \in 1 .. Len(turn) : turn[i] \in Caller
      BY <3>1
    <3>3. ASSUME Len(turn) >= 3 PROVE FALSE
      <4>1. 1 \in 1 .. Len(turn) /\ 2 \in 1 .. Len(turn) /\ 3 \in 1 .. Len(turn)
        BY <3>2, <3>3
      <4>. QED  BY <3>1, <3>2, <4>1 DEF Caller
    <3>. QED  BY <3>1, <3>2, <3>3 DEF Caller
  <2>2. request.at \in {"idle", "open", "write", "reload", "fire"}
    BY DEF ReloadInv, ReloadRecords, RequestFits, Requests, RequestAts
  <2>3. snapshot.attached \cup snapshot.trackerless \cup snapshot.mismatched \subseteq Targeted
    BY DEF ReloadInv, ReloadRecords, SnapshotFits, Snapshots
  <2>4. ASSUME NEW h \in Hosts, NEW n \in RoutineNames
        PROVE  /\ row[h][n].state \in RowStates /\ row[h][n].file \in 0 .. NumFiles
               /\ (row[h][n].state = "disabled") = (row[h][n].reason # "none")
               /\ row[h][n].state = "active" => row[h][n].real
    <3>1. RowFits(row[h][n])
      BY DEF ReloadInv, ReloadRecords, TableFits
    <3>. QED  BY <3>1 DEF RowFits, Rows, Doc
  <2>. QED  BY <2>1, <2>2, <2>3, <2>4 DEF ReloadTypeOK, ReloadInv, ReloadRecords
<1>. QED  BY <1>1, <1>2, <1>3, <1>4 DEF ReloadInvariant

(* Snapshot, status and table agree after every reload.                     *)
THEOREM ReloadsAgree == ReloadSpec => []ReloadInvariant
BY ReloadInvariance, ReloadAgrees, PTL

\* Steps that neither reload nor synchronize.
QuietStep ==
    /\ UNCHANGED <<snapshot, row>>
    /\ request.at = "reload" => request' = request
    /\ request.at = "write" /\ request'.at = "idle" => edits' = edits

LEMMA StepKinds ==
  ASSUME ReloadInv, [ReloadNext]_reloadVars
  PROVE  QuietStep \/ (\E c \in Caller : Install(c)) \/ Synchronize \/ (Restart /\ restarts' # restarts)
<1>1. CASE DirectEdit \/ OpenEditor \/ SubmitSave \/ WriteFails \/ Tick \/ FireRoutineNow
  BY <1>1 DEF QuietStep, DirectEdit, OpenEditor, SubmitSave, WriteFails, Tick, FireRoutineNow
<1>2. CASE WriteSave
  <2>. DEFINE q == [request EXCEPT !.at = "reload", !.stamp = edits', !.base = Nothing, !.draft = Nothing]
  <2>1. request.at = "write" /\ request' = q /\ UNCHANGED <<snapshot, row>>
    BY <1>2 DEF WriteSave
  <2>2. q.at = "reload"
    BY DEF ReloadInv, ReloadRecords, RequestFits, Requests
  <2>. HIDE DEF q
  <2>. QED  BY <2>1, <2>2 DEF QuietStep
<1>3. CASE \E c \in Caller : ReadConfig(c) \/ ReadRoutineFile(c)
  BY <1>3 DEF QuietStep, ReadConfig, ReadRoutineFile
<1>4. CASE Restart
  <2>1. restarts' # restarts
    BY <1>4, ReloadBounds DEF Restart, ReloadInv, ReloadRecords
  <2>. QED  BY <1>4, <2>1
<1>5. CASE UNCHANGED reloadVars
  BY <1>5 DEF QuietStep, reloadVars
<1>. QED  BY <1>1, <1>2, <1>3, <1>4, <1>5 DEF ReloadNext

\* A save or a manual firing that is answered, and what its reload left.
LEMMA Answered ==
  ASSUME ReloadInv, NEW c \in Caller, Install(c), request.at \in {"write", "reload"}, request'.at = "idle",
         NEW l, l = loader["request"], NEW r, r = Outcome(l)
  PROVE  /\ c = "request" /\ request.at = "reload"
         /\ Turn("request") /\ l.next > 0 /\ ToRead("request") = {}
         /\ snapshot' = r.snapshot /\ status'.ok = ~r.errors /\ status'.lastKnownGood = r.lastKnownGood
         /\ UNCHANGED edits
<1>1. c = "request"
  <2>1. c = "tick" => request' = request
    BY Installs
  <2>. QED  BY <2>1 DEF Caller
<1>2. /\ Turn(c) /\ loader[c].next > 0 /\ ToRead(c) = {}
      /\ snapshot' = r.snapshot /\ status' = [ok |-> ~r.errors, lastKnownGood |-> r.lastKnownGood]
      /\ UNCHANGED <<config, file, edits, restarts>>
  BY <1>1, Installs
<1>3. status'.ok = ~r.errors /\ status'.lastKnownGood = r.lastKnownGood
  BY <1>2
<1>4. request.at = "reload"
  <2>1. turn \in MutexTurns /\ turn # <<>> /\ Head(turn) = "request"
    BY <1>1, <1>2 DEF Turn, ReloadInv, TurnFits
  <2>2. Has(turn, "request")
    BY <2>1, MutexMoves
  <2>. QED  BY <2>2 DEF ReloadInv, TurnFits
<1>. QED  BY <1>1, <1>2, <1>3, <1>4

LEMMA NewestStep ==
  ASSUME ReloadInv, [ReloadNext]_reloadVars, restarts' = restarts
  PROVE  snapshot'.readAt >= snapshot.readAt
<1>1. ASSUME NEW c \in Caller, Install(c) PROVE snapshot'.readAt >= snapshot.readAt
  <2>1. Turn(c) /\ loader[c].next > 0 /\ ToRead(c) = {} /\ snapshot' = Outcome(loader[c]).snapshot
    BY <1>1, Installs
  <2>. QED  BY <2>1, InstalledFits
<1>2. UNCHANGED snapshot => snapshot'.readAt >= snapshot.readAt
  BY ReloadNumbers
<1>. QED  BY <1>1, <1>2, StepKinds DEF QuietStep, Synchronize

LEMMA SavedStep ==
  ASSUME ReloadInv, [ReloadNext]_reloadVars, restarts' = restarts,
         request.at \in {"write", "reload"}, request'.at = "idle", request.at = "write" => edits' # edits
  PROVE  /\ request.at = "reload"
         /\ snapshot'.readAt >= request.stamp \/ status'.lastKnownGood \/ snapshot' = NoSnapshot
<1>1. ~QuietStep /\ ~Synchronize
  BY DEF QuietStep, Synchronize
<1>2. PICK c \in Caller : Install(c)
  BY <1>1, StepKinds
<1>. DEFINE l == loader["request"]
            r == Outcome(l)
<1>3. /\ request.at = "reload" /\ Turn("request") /\ l.next > 0 /\ ToRead("request") = {}
      /\ snapshot' = r.snapshot /\ status'.lastKnownGood = r.lastKnownGood
  BY <1>2, Answered
<1>4. r.lastKnownGood \/ r.snapshot = NoSnapshot \/ r.snapshot.readAt = l.readAt
  BY <1>3, InstalledFits DEF Caller
<1>5. request.stamp <= l.readAt /\ l.readAt \in Nat /\ request.stamp \in Int
  BY <1>3, ReloadNumbers DEF ReloadInv, SaveFits
<1>. HIDE DEF l, r
<1>. QED  BY <1>3, <1>4, <1>5

LEMMA ValidatedStep ==
  ASSUME ReloadInv, [ReloadNext]_reloadVars, restarts' = restarts,
         request.at = "reload", request.doc = 0, request'.at = "idle",
         request.stamp = request.checked + 1, edits = request.stamp
  PROVE  status'.ok
<1>1. ~QuietStep /\ ~Synchronize
  BY DEF QuietStep, Synchronize
<1>2. PICK c \in Caller : Install(c)
  BY <1>1, StepKinds
<1>. DEFINE l == loader["request"]
            r == Outcome(l)
<1>3. /\ Turn("request") /\ l.next > 0 /\ ToRead("request") = {}
      /\ status'.ok = ~r.errors
  BY <1>2, Answered
<1>4. Refuses(l.config, snapshot) \/ \A f \in ListedFiles(l.config) : f < l.next
  BY <1>3, InstalledFits DEF Caller
<1>5. /\ Clean(config, file) /\ l.config = config
      /\ \A f \in ListedFiles(config) : f < l.next => l.content[f] = file[f]
  BY <1>3 DEF ReloadInv, SaveFits
<1>6. config \in ServiceConfig /\ Readable(config, file)
  BY DEF ReloadInv, ReloadRecords, Readable, ListedFiles
<1>7. ~Refuses(config, snapshot)
  <2>1. ~loadRuntimeConfigSnapshot(config, file, 0, snapshot).errors
    BY <1>5, <1>6, CleanLoads
  <2>2. Refuses(config, snapshot) => loadRuntimeConfigSnapshot(config, file, 0, snapshot).errors
    BY DEF loadRuntimeConfigSnapshot, Refuses, LastKnownGood
  <2>. QED  BY <2>1, <2>2
<1>8. \A f \in ListedFiles(config) : l.content[f] = file[f]
  BY <1>4, <1>5, <1>7
<1>9. ~loadRuntimeConfigSnapshot(config, l.content, l.readAt, snapshot).errors
  BY <1>5, <1>6, <1>8, CleanLoads
<1>. QED  BY <1>3, <1>5, <1>9 DEF Outcome

LEMMA BrokenStep ==
  ASSUME ReloadInv, [ReloadNext]_reloadVars, restarts' = restarts
  PROVE  KeepsFiring(snapshot, snapshot')
<1>1. ASSUME NEW c \in Caller, Install(c), snapshot' # snapshot PROVE KeepsFiring(snapshot, snapshot')
  <2>1. Turn(c) /\ loader[c].next > 0 /\ ToRead(c) = {} /\ snapshot' = Outcome(loader[c]).snapshot
    BY <1>1, Installs
  <2>. QED  BY <1>1, <2>1, InstalledFits
<1>2. UNCHANGED snapshot => KeepsFiring(snapshot, snapshot')
  BY DEF KeepsFiring
<1>. QED  BY <1>1, <1>2, StepKinds DEF QuietStep, Synchronize

LEMMA HistoryStep ==
  ASSUME ReloadInv, [ReloadNext]_reloadVars PROVE HistoryStays(snapshot', row, row')
<1>1. ASSUME NEW c \in Caller, Install(c) PROVE HistoryStays(snapshot', row, row')
  BY <1>1, Installs
<1>2. Synchronize => HistoryStays(snapshot', row, row')
  BY SynchronizeKeeps DEF Synchronize
<1>3. UNCHANGED row => HistoryStays(snapshot', row, row')
  BY DEF HistoryStays
<1>. QED  BY <1>1, <1>2, <1>3, StepKinds DEF QuietStep, Restart

(* What an edit changes takes effect in the order of the edits: no reload    *)
(* installs what an earlier one read, a save is answered by a reload that    *)
(* saw it, a validated configuration loads, a broken file takes nothing      *)
(* away, and a removed routine stays history until something declares it.   *)
THEOREM EditsKeepOrder == ReloadSpec => EditsTakeEffectInOrder
<1>. DEFINE LaterWins == restarts' = restarts => snapshot'.readAt >= snapshot.readAt
            Saved == LET wrote == IF request.at = "write" THEN edits' ELSE request.stamp
                     IN  (/\ request.at \in {"write", "reload"} /\ request'.at = "idle" /\ restarts' = restarts
                          /\ (request.at = "write" => edits' # edits))
                         => snapshot'.readAt >= wrote \/ status'.lastKnownGood \/ snapshot' = NoSnapshot
            Validated == (/\ request.at = "reload" /\ request.doc = 0 /\ request'.at = "idle" /\ restarts' = restarts
                          /\ request.stamp = request.checked + 1 /\ edits = request.stamp)
                         => status'.ok
            Broken == restarts' = restarts => \A d \in snapshot.attached :
                        LET s == snapshot'
                        IN  (d.file \in s.broken /\ d.host \in s.listed[d.file] /\ s.host[d.host] = "on")
                            => \/ \E e \in s.attached \cup s.trackerless \cup s.mismatched :
                                     e.file = d.file /\ e.host = d.host /\ e.name = d.name
                               \/ \E f \in Files : f < d.file /\ s.claims[f] = d.name
            Removed == \A h \in Hosts, n \in RoutineNames :
                         RemovedRow(row[h][n]) /\ row'[h][n] # row[h][n] =>
                           n \in Current(snapshot', h) \cup Names(InvalidAt(snapshot', h))
<1>1. ReloadInv /\ [ReloadNext]_reloadVars => LaterWins
  BY NewestStep
<1>2. ReloadInv /\ [ReloadNext]_reloadVars => Saved
  BY SavedStep
<1>3. ReloadInv /\ [ReloadNext]_reloadVars => Validated
  BY ValidatedStep
<1>4. ReloadInv /\ [ReloadNext]_reloadVars => Broken
  BY BrokenStep DEF KeepsFiring
<1>5. ReloadInv /\ [ReloadNext]_reloadVars => Removed
  BY HistoryStep DEF HistoryStays
<1>6. ReloadInv /\ [ReloadNext]_reloadVars
        => [LaterWins]_reloadVars /\ [Saved]_reloadVars /\ [Validated]_reloadVars
           /\ [Broken]_reloadVars /\ [Removed]_reloadVars
  BY <1>1, <1>2, <1>3, <1>4, <1>5
<1>7. ReloadSpec => /\ [][LaterWins]_reloadVars /\ [][Saved]_reloadVars /\ [][Validated]_reloadVars
                    /\ [][Broken]_reloadVars /\ [][Removed]_reloadVars
  <2>. HIDE DEF LaterWins, Saved, Validated, Broken, Removed
  <2>. QED  BY <1>6, ReloadInvariance, PTL DEF ReloadSpec
<1>. QED  BY <1>7 DEF EditsTakeEffectInOrder, NewestReloadWins, SavedIsLoaded, ValidatedConfigLoads,
                      BrokenEditKeepsFiring, RemovedStaysHistory
===============================================================================
