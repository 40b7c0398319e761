--------------------------- MODULE IssueWorkspaces ---------------------------
(***************************************************************************)
(* The Git worktrees of one Project's issues: preparation under a Run Slot *)
(* Deadline with its serialized repository cache and its abort cleanup     *)
(* (workspace.ts), adoption of a pull request (daemon.ts) and the          *)
(* outcome-aware retention (issue-workspace-retention.ts,                  *)
(* workspace-reclamation.ts).                                              *)
(*                                                                         *)
(* A preparation is at an await.  It is either tracked (a Git command or   *)
(* an owned removal, which the slot of an aborted Run waits for) or plain  *)
(* file I/O, which the abort signal does not reach and which may stall.    *)
(***************************************************************************)
EXTENDS Naturals, FiniteSets, Sequences

CONSTANTS
    Issues,
    MaxRuns,      \* bound: Runs ever created
    MaxCommits,   \* bound: commits ever made, by agents and by people
    MaxTroubles   \* bound: failing Git commands and removals, and their timeouts

ASSUME WorkspaceBounds ==
    MaxRuns \in Nat \ {0} /\ MaxCommits \in Nat /\ MaxTroubles \in Nat

RunIds == 1 .. MaxRuns
Commits == 1 .. MaxCommits
NoRun == 0

VARIABLES
    run,       \* the rows of table runs, and their slots
    prep,      \* prepareIssueWorkspace / prepareAdoptedPrWorkspace of each Run
    tail,      \* fetchLocks.get(cachePath)
    cache,     \* the bare repository: published or not
    branch,    \* refs/heads/<branch> of each issue and its worktree
    remote,    \* the branch on the remote, and as last fetched
    retention, \* a pruneIssueWorkspaces pass
    commits, troubles

workspaceVars ==
    <<run, prep, tail, cache, branch, remote, retention, commits, troubles>>

Terminal == {"succeeded", "failed"}
Live == {"preparing", "prepared", "running", "unwinding", "waiting"}

\* The awaits that hold the cache turn, in the order they are reached.
CacheTurn == {"statCache", "stage", "clone", "publish", "drop", "dropFailed",
              "origin", "fetchBase"}
GitCommands == {"clone", "origin", "fetchBase", "branch", "fetchHead", "validate",
                "inspect", "reset", "conflict", "force", "listed", "add"}
FileAwaits == {"statCache", "stage", "publish", "statTree", "mkdir", "canon"}
Tracked == GitCommands \cup {"drop", "dropFailed", "undo"}
Ended == {"done", "failed", "unclean"}

NoPrep == [at |-> "none", aborted |-> FALSE, settled |-> FALSE, turn |-> "none",
           after |-> NoRun, wasListed |-> FALSE, expected |-> {}]

WorkspaceTypeOK ==
    /\ run \in [RunIds -> [issue : Issues, kind : {"issue", "adopted"},
                           at : Live \cup Terminal \cup {"none", "refused"},
                           path : BOOLEAN, pruned : BOOLEAN]]
    /\ prep \in [RunIds -> [at : Tracked \cup FileAwaits \cup Ended \cup {"none", "queued"},
                            aborted : BOOLEAN, settled : BOOLEAN,
                            turn : {"none", "waiting", "open", "over"},
                            after : RunIds \cup {NoRun}, wasListed : BOOLEAN,
                            expected : SUBSET Commits]]
    /\ tail \in RunIds \cup {NoRun}
    /\ cache \in BOOLEAN
    /\ branch \in [Issues -> [ref : BOOLEAN, tip : SUBSET Commits, dirty : BOOLEAN,
                              tree : {"none", "listed", "whole"}]]
    /\ remote \in [Issues -> [tip : SUBSET Commits, fetched : SUBSET Commits]]
    /\ retention \in [at : {"idle", "next", "removing", "refused"},
                      todo : SUBSET RunIds, now : RunIds \cup {NoRun},
                      seen : SUBSET RunIds]
    /\ commits \in 0 .. MaxCommits /\ troubles \in 0 .. MaxTroubles

WorkspacesInit ==
    /\ \E i \in Issues :
           run = [r \in RunIds |-> [issue |-> i, kind |-> "issue", at |-> "none",
                                    path |-> FALSE, pruned |-> FALSE]]
    /\ prep = [r \in RunIds |-> NoPrep]
    /\ tail = NoRun /\ cache = FALSE
    /\ branch = [i \in Issues |-> [ref |-> FALSE, tip |-> {}, dirty |-> FALSE,
                                   tree |-> "none"]]
    /\ remote = [i \in Issues |-> [tip |-> {}, fetched |-> {}]]
    /\ retention = [at |-> "idle", todo |-> {}, now |-> NoRun, seen |-> {}]
    /\ commits = 0 /\ troubles = 0

Trouble == troubles < MaxTroubles /\ troubles' = troubles + 1
Of(i) == {r \in RunIds : run[r].issue = i /\ run[r].at \notin {"none", "refused"}}
LiveOf(i) == {r \in Of(i) : run[r].at \in Live}
\* The last Run of an issue whose row names the workspace.
Newest(S) == CHOOSE r \in S : \A q \in S : q <= r

(***************************************************************************)
(* Runs                                                                    *)
(***************************************************************************)

\* ensureRepositoryCacheTracked: the new preparation chains itself behind the
\* map's promise and becomes the map's promise.
Begin(r, i, kind, path) ==
    /\ run' = [run EXCEPT ![r] = [issue |-> i, kind |-> kind, at |-> "preparing",
                                  path |-> path, pruned |-> FALSE]]
    /\ prep' = [prep EXCEPT ![r] =
           [NoPrep EXCEPT !.at = "queued", !.turn = "waiting", !.after = tail,
                          !.expected = IF kind = "adopted" THEN remote[i].tip ELSE {}]]
    /\ tail' = r
    /\ UNCHANGED <<cache, branch, remote, retention, commits, troubles>>

\* The next row, and the dispatch mutex, which an adoption holds to its end.
Fresh(r) ==
    /\ run[r].at = "none" /\ (r > 1 => run[r - 1].at # "none")
    /\ ~ \E q \in RunIds : run[q].kind = "adopted" /\ run[q].at = "preparing"

Dispatch(i) == \E r \in RunIds : Fresh(r) /\ LiveOf(i) = {} /\ Begin(r, i, "issue", FALSE)

\* createContinuationRun inherits the workspace the parent established.
Continue(i) ==
    \E r \in RunIds :
        /\ Fresh(r) /\ LiveOf(i) = {}
        /\ \E parent \in Of(i) :
               /\ run[parent].at = "succeeded" /\ parent = Newest(Of(i))
               /\ Begin(r, i, "issue", run[parent].path)

\* adoptPullRequest: the head is the one of the last poll.
Adopt(i) ==
    \E r \in RunIds :
        /\ Fresh(r) /\ LiveOf(i) = {} /\ remote[i].tip # {}
        /\ Begin(r, i, "adopted", FALSE)

SetRun(r, at) == run' = [run EXCEPT ![r].at = at]

\* runAttempt: the workspace is ready, the evidence of the attempt is not.  An
\* adoption whose timeout comes after its preparation is written all the same.
Prepared(r) ==
    /\ run[r].at = "preparing" /\ prep[r].at = "done"
    /\ IF run[r].kind = "adopted"
       THEN run' = [run EXCEPT ![r].at = "waiting", ![r].path = TRUE]
       ELSE SetRun(r, "prepared")
    /\ UNCHANGED <<prep, tail, cache, branch, remote, retention, commits, troubles>>

\* startAttempt ends with updateRunEvidence, which records the workspace.
StartAttempt(r) ==
    /\ run[r].at = "prepared"
    /\ run' = [run EXCEPT ![r].at = "running", ![r].path = TRUE]
    /\ UNCHANGED <<prep, tail, cache, branch, remote, retention, commits, troubles>>

\* The preparation rejected before the deadline; an adoption has no row then.
PreparationFails(r) ==
    /\ run[r].at = "preparing" /\ prep[r].at \in {"failed", "unclean"}
    /\ SetRun(r, IF run[r].kind = "adopted" THEN "refused" ELSE "failed")
    /\ UNCHANGED <<prep, tail, cache, branch, remote, retention, commits, troubles>>

\* Mutant of Abort: the map entry is cleared by the abort, not by the turn.
AbortForgetsTurn(r) ==
    /\ run[r].at \in {"preparing", "prepared"} /\ ~ prep[r].aborted
    /\ prep' = [prep EXCEPT ![r].aborted = TRUE,
                            ![r].at = IF @ = "queued" THEN "failed" ELSE @]
    /\ IF run[r].kind = "adopted" THEN UNCHANGED run ELSE SetRun(r, "unwinding")
    /\ tail' = NoRun
    /\ UNCHANGED <<cache, branch, remote, retention, commits, troubles>>

\* The deadline: raceAbortSignal lets a queued preparation go at once, the Run
\* stops waiting for any other; adoption has a timeout and no race.
Abort(r) ==
    /\ run[r].at \in {"preparing", "prepared"} /\ ~ prep[r].aborted
    /\ prep' = [prep EXCEPT ![r].aborted = TRUE,
                            ![r].at = IF @ = "queued" THEN "failed" ELSE @]
    /\ IF run[r].kind = "adopted" THEN UNCHANGED run ELSE SetRun(r, "unwinding")
    /\ UNCHANGED <<tail, cache, branch, remote, retention, commits, troubles>>

\* runAttempt's finally: the slot of an aborted Run is held until the abort
\* cleanup settles, whatever the preparation itself still awaits.
ReleaseSlot(r) ==
    /\ run[r].at = "unwinding" /\ prep[r].settled
    /\ SetRun(r, "failed")
    /\ UNCHANGED <<prep, tail, cache, branch, remote, retention, commits, troubles>>

RunEnds(r) ==
    /\ run[r].at \in {"running", "waiting"}
    /\ \E at \in Terminal : SetRun(r, at)
    /\ UNCHANGED <<prep, tail, cache, branch, remote, retention, commits, troubles>>

\* The agent of a running Run commits, pushes, and leaves files uncommitted.
AgentWorks(r) ==
    LET i == run[r].issue IN
    /\ run[r].at = "running" /\ branch[i].tree = "whole"
    /\ \/ /\ commits < MaxCommits /\ commits' = commits + 1
          /\ branch' = [branch EXCEPT ![i].tip = @ \cup {commits + 1}, ![i].dirty = FALSE]
          /\ UNCHANGED remote
       \/ branch' = [branch EXCEPT ![i].dirty = TRUE] /\ UNCHANGED <<remote, commits>>
       \/ /\ remote[i].tip \subseteq branch[i].tip
          /\ remote' = [remote EXCEPT ![i].tip = branch[i].tip]
          /\ UNCHANGED <<branch, commits>>
    /\ UNCHANGED <<run, prep, tail, cache, retention, troubles>>

\* A person pushes to the pull request.
PersonPushes(i) ==
    /\ remote[i].tip # {} /\ commits < MaxCommits /\ commits' = commits + 1
    /\ remote' = [remote EXCEPT ![i].tip = @ \cup {commits + 1}]
    /\ UNCHANGED <<run, prep, tail, cache, branch, retention, troubles>>

(***************************************************************************)
(* Preparation                                                             *)
(***************************************************************************)

\* Leaving the cache turn settles `next`, and clears the map if nobody chained.
Goto(r, at) ==
    LET leaves == prep[r].turn = "open" /\ at \notin CacheTurn IN
    /\ prep' = [prep EXCEPT ![r].at = at,
                            ![r].turn = IF leaves THEN "over" ELSE @,
                            ![r].expected = IF at \in Ended THEN {} ELSE @,
                            ![r].wasListed = @ /\ at \notin Ended]
    /\ tail' = IF leaves /\ tail = r THEN NoRun ELSE tail

\* What is left to do when the operation at an await rejects.
Rejected(at) == IF at \in {"stage", "clone", "publish"} THEN "dropFailed" ELSE "failed"

\* The callback on the predecessor's promise; an aborted one exits before Git.
TurnStarts(r) ==
    /\ prep[r].turn = "waiting"
    /\ prep[r].after # NoRun => prep[prep[r].after].turn = "over"
    /\ IF prep[r].aborted
       THEN /\ prep' = [prep EXCEPT ![r].turn = "over", ![r].after = NoRun]
            /\ tail' = IF tail = r THEN NoRun ELSE tail
       ELSE /\ prep' = [prep EXCEPT ![r].turn = "open", ![r].at = "statCache",
                                 ![r].after = NoRun]
            /\ UNCHANGED tail
    /\ UNCHANGED <<run, cache, branch, remote, retention, commits, troubles>>

\* The await after a plain file operation that came to its end.
NextOfFile(r) ==
    LET i == run[r].issue IN
    CASE prep[r].at = "statCache" -> IF cache THEN "origin" ELSE "stage"
      [] prep[r].at = "stage"     -> "clone"
      [] prep[r].at = "publish"   -> "drop"
      [] prep[r].at = "statTree"  -> IF branch[i].tree = "whole" THEN "validate" ELSE "conflict"
      [] prep[r].at = "mkdir"     -> "listed"
      [] prep[r].at = "canon"     -> "add"

\* An aborted preparation meets throwIfAborted, or git()'s own, after each.
AfterFile(r) == IF prep[r].aborted THEN Rejected(prep[r].at) ELSE NextOfFile(r)

FileStep(r) ==
    /\ prep[r].at \in FileAwaits
    /\ Goto(r, AfterFile(r))
    /\ cache' = (cache \/ prep[r].at = "publish")
    /\ UNCHANGED <<run, branch, remote, retention, commits, troubles>>

\* What the answer of a Git command says: the guards of the preparation.
Accepted(r) ==
    LET i == run[r].issue IN
    CASE prep[r].at = "validate"  -> branch[i].tree = "whole"
      [] prep[r].at = "fetchHead" -> remote[i].tip = prep[r].expected
      [] prep[r].at = "inspect"   -> ~ branch[i].dirty /\ branch[i].tip \subseteq remote[i].fetched
      [] prep[r].at \in {"conflict", "add"} -> branch[i].tree = "none"
      [] OTHER -> TRUE

NextOfGit(r) ==
    LET adopted == run[r].kind = "adopted" IN
    CASE prep[r].at = "clone"     -> "publish"
      [] prep[r].at = "origin"    -> "fetchBase"
      [] prep[r].at = "fetchBase" -> IF adopted THEN "fetchHead" ELSE "branch"
      [] prep[r].at \in {"branch", "fetchHead"} -> "statTree"
      [] prep[r].at = "validate"  -> IF adopted THEN "inspect" ELSE "done"
      [] prep[r].at = "inspect"   -> "reset"
      [] prep[r].at = "conflict"  -> IF adopted THEN "force" ELSE "mkdir"
      [] prep[r].at = "force"     -> "mkdir"
      [] prep[r].at \in {"reset", "add"} -> "done"

\* syncBranchRef, the narrow fetch, `reset --hard` and `worktree add`.
Effect(r) ==
    LET i == run[r].issue
        synced == [branch[i] EXCEPT !.ref = TRUE, !.tip = remote[i].fetched]
    IN
    /\ branch' = [branch EXCEPT ![i] =
           CASE prep[r].at = "branch" /\ ~ @.ref -> [@ EXCEPT !.ref = TRUE, !.tip = {}]
             [] prep[r].at = "force" -> synced
             [] prep[r].at = "reset" -> [synced EXCEPT !.dirty = FALSE]
             [] prep[r].at = "add"   -> [@ EXCEPT !.tree = "whole"]
             [] OTHER -> @]
    /\ remote' = IF prep[r].at = "fetchHead"
                 THEN [remote EXCEPT ![i].fetched = remote[i].tip] ELSE remote

\* The fetch is done before its answer is compared with the expected head.
GitStep(r) ==
    /\ prep[r].at \in GitCommands \ {"listed"} /\ ~ prep[r].aborted
    /\ IF Accepted(r)
       THEN /\ Goto(r, NextOfGit(r)) /\ Effect(r)
       ELSE /\ Goto(r, "failed") /\ UNCHANGED branch
            /\ remote' = IF prep[r].at = "fetchHead"
                         THEN [remote EXCEPT ![run[r].issue].fetched =
                                   remote[run[r].issue].tip]
                         ELSE remote
    /\ UNCHANGED <<run, cache, retention, commits, troubles>>

\* isWorktreeRegistered before the add, kept for the abort that may follow.
Listed(r) ==
    /\ prep[r].at = "listed" /\ ~ prep[r].aborted
    /\ prep' = [prep EXCEPT ![r].at = "canon",
                            ![r].wasListed = branch[run[r].issue].tree # "none"]
    /\ UNCHANGED <<run, tail, cache, branch, remote, retention, commits, troubles>>

GitFails(r) ==
    /\ prep[r].at \in GitCommands /\ ~ prep[r].aborted /\ Trouble
    /\ Goto(r, Rejected(prep[r].at))
    /\ UNCHANGED <<run, cache, branch, remote, retention, commits>>

\* After an aborted add: the worktree it may have left is taken away, unless it
\* was registered before.
AfterAbortedGit(r) ==
    IF prep[r].at = "add" /\ ~ prep[r].wasListed THEN "undo" ELSE Rejected(prep[r].at)

\* terminateGitProcessGroup: the command is gone, with or without its effect; a
\* killed `worktree add` may leave its registration alone.
GitKilled(r) ==
    LET i == run[r].issue IN
    /\ prep[r].at \in GitCommands /\ prep[r].aborted
    /\ Goto(r, AfterAbortedGit(r))
    /\ \/ UNCHANGED <<branch, remote>>
       \/ Accepted(r) /\ Effect(r)
       \/ /\ prep[r].at = "add" /\ branch[i].tree = "none"
          /\ branch' = [branch EXCEPT ![i].tree = "listed"] /\ UNCHANGED remote
    /\ UNCHANGED <<run, cache, retention, commits, troubles>>

\* rm of the staging directory, empty after a rename.
Drop(r) ==
    /\ prep[r].at \in {"drop", "dropFailed"}
    /\ \/ /\ Goto(r, IF prep[r].at = "drop" /\ ~ prep[r].aborted THEN "fetchBase" ELSE "failed")
          /\ UNCHANGED troubles
       \/ Trouble /\ Goto(r, "unclean")
    /\ UNCHANGED <<run, cache, branch, remote, retention, commits>>

\* cleanupAbortedIssueWorktree; its Git has a timeout of its own.
Undo(r) ==
    LET i == run[r].issue IN
    /\ prep[r].at = "undo"
    /\ \/ /\ branch' = [branch EXCEPT ![i].tree = "none", ![i].dirty = FALSE]
          /\ Goto(r, "failed") /\ UNCHANGED troubles
       \/ /\ branch[i].tree # "none" /\ Trouble
          /\ branch' = [branch EXCEPT ![i].tree = "listed", ![i].dirty = FALSE]
          /\ Goto(r, "unclean")
    /\ UNCHANGED <<run, cache, remote, retention, commits>>

\* WorkspaceAbortCleanup: aborted, and nothing tracked is active one turn of the
\* event loop later.  (It settles at a normal end as well, where no one waits.)
Settle(r) ==
    /\ prep[r].aborted /\ ~ prep[r].settled
    /\ prep[r].at \notin Tracked
    /\ prep' = [prep EXCEPT ![r].settled = TRUE]
    /\ UNCHANGED <<run, tail, cache, branch, remote, retention, commits, troubles>>

(***************************************************************************)
(* Retention                                                               *)
(***************************************************************************)

Named(i) == {r \in Of(i) : run[r].path}

\* Mutant of Candidates: any ended Run of the issue, not the newest of an ended chain.
CandidatesAnyEnded(aged) ==
    {r \in RunIds :
        /\ r \in Named(run[r].issue) /\ ~ run[r].pruned
        /\ run[r].at = "succeeded" \/ (run[r].at = "failed" /\ aged)}

\* listIssueWorkspacePruneCandidates; succeeded_days are 0, failed_days may have
\* passed or not.
Candidates(aged) ==
    {r \in RunIds :
        LET rows == Named(run[r].issue) IN
        /\ r \in rows /\ r = Newest(rows) /\ ~ run[r].pruned
        /\ run[r].at = "succeeded" \/ (run[r].at = "failed" /\ aged)
        /\ \A q \in rows : run[q].at \notin Live}

\* pruneIssueWorkspaces reads its candidates once; `seen` is kept for the
\* properties: the live Runs whose workspace the rows named at that moment.
ListCandidates ==
    /\ retention.at = "idle"
    /\ \E aged \in BOOLEAN :
           /\ Candidates(aged) # {}
           /\ retention' = [at |-> "next", todo |-> Candidates(aged), now |-> NoRun,
                            seen |-> {r \in RunIds : run[r].at \in Live /\ run[r].path}]
    /\ UNCHANGED <<run, prep, tail, cache, branch, remote, commits, troubles>>

NextCandidate ==
    /\ retention.at = "next"
    /\ IF retention.todo = {}
       THEN retention' = [retention EXCEPT !.at = "idle", !.now = NoRun, !.seen = {}]
       ELSE \E r \in retention.todo :
                retention' = [retention EXCEPT !.at = "removing", !.now = r,
                                               !.todo = @ \ {r}]
    /\ UNCHANGED <<run, prep, tail, cache, branch, remote, commits, troubles>>

\* markIssueWorkspacePruned
Marked == [run EXCEPT ![retention.now].pruned = @ \/ run[retention.now].at \in Terminal]

\* `git worktree remove --force`: the checkout and its registration go, the
\* branch stays.  A locked worktree is refused.
Reclaimed(b) == [b EXCEPT !.tree = "none", !.dirty = FALSE]

RemoveWorktree ==
    LET i == run[retention.now].issue IN
    /\ retention.at = "removing"
    /\ \/ /\ branch[i].tree # "none"
          /\ branch' = [branch EXCEPT ![i] = Reclaimed(@)]
          /\ run' = Marked /\ retention' = [retention EXCEPT !.at = "next"]
          /\ UNCHANGED troubles
       \/ /\ branch[i].tree = "none"
          /\ retention' = [retention EXCEPT !.at = "refused"]
          /\ UNCHANGED <<run, branch, troubles>>
       \/ /\ Trouble /\ retention' = [retention EXCEPT !.at = "refused"]
          /\ UNCHANGED <<run, branch>>
    /\ UNCHANGED <<prep, tail, cache, remote, commits>>

\* removeRegisteredWorktree's second look: nothing left is as good as removed.
ProbeAfterRefusal ==
    /\ retention.at = "refused" /\ retention' = [retention EXCEPT !.at = "next"]
    /\ run' = IF branch[run[retention.now].issue].tree = "none" THEN Marked ELSE run
    /\ UNCHANGED <<prep, tail, cache, branch, remote, commits, troubles>>

(***************************************************************************)
(* Specification                                                           *)
(***************************************************************************)

RunStep(r) ==
    \/ Prepared(r) \/ StartAttempt(r) \/ PreparationFails(r) \/ ReleaseSlot(r)
    \/ RunEnds(r) \/ AgentWorks(r) \/ Abort(r)
PreparationStep(r) ==
    \/ TurnStarts(r) \/ FileStep(r) \/ GitStep(r) \/ Listed(r) \/ GitFails(r)
    \/ GitKilled(r) \/ Drop(r) \/ Undo(r) \/ Settle(r)
RetentionStep == ListCandidates \/ NextCandidate \/ RemoveWorktree \/ ProbeAfterRefusal

WorkspacesNext ==
    \/ \E i \in Issues : Dispatch(i) \/ Continue(i) \/ Adopt(i) \/ PersonPushes(i)
    \/ \E r \in RunIds : RunStep(r) \/ PreparationStep(r)
    \/ RetentionStep

WorkspacesSpec == WorkspacesInit /\ [][WorkspacesNext]_workspaceVars

(***************************************************************************)
(* Properties                                                              *)
(***************************************************************************)

\* Two preparations never work on the shared cache at once: neither an abort in
\* the queue nor one during the turn lets a third past a predecessor.
CacheTurnIsExclusive ==
    Cardinality({r \in RunIds : prep[r].at \in CacheTurn}) <= 1

\* Once the abort cleanup has settled, and with it the slot is free for a retry,
\* the abandoned preparation runs no Git command and removes no worktree.
SettledCleanupIsQuiet ==
    \A r \in RunIds : prep[r].settled => prep[r].at \notin GitCommands \cup {"undo"}

\* A registration without its checkout refuses every later preparation of the
\* issue; it is left only by a cleanup that reported so.
HalfWorktreeIsReported ==
    \A i \in Issues : branch[i].tree = "listed" =>
        \E r \in RunIds : run[r].issue = i /\ prep[r].at \in {"undo", "unclean"}

\* Nothing takes the worktree from under a running Run but a retention pass
\* whose candidates were read before that Run's row named the workspace.
RunningWorktreeStays ==
    [][\A r \in RunIds :
          LET i == run[r].issue IN
          run[r].at = "running" /\ branch[i].tree = "whole" /\ branch'[i].tree # "whole" =>
              /\ retention.at = "removing" /\ run[retention.now].issue = i
              /\ r \notin retention.seen]_workspaceVars

\* What was committed on an issue's branch stays on it or on the remote; the
\* exception is the adoption that finds no worktree of the branch.
CommitsAreKept ==
    [][\A i \in Issues :
          \/ branch[i].tip \subseteq branch'[i].tip \cup remote[i].tip
          \/ \E r \in RunIds : run[r].issue = i /\ prep[r].at = "force"]_workspaceVars

\* Retention reclaims the checkout and leaves the history recoverable, and no
\* adoption discards commits nobody pushed.
AdoptionKeepsCommits ==
    [][\A i \in Issues : branch[i].tip \subseteq branch'[i].tip \cup remote'[i].tip]_workspaceVars

\* A chain in flight is never reclaimed.
LiveChainIsNotReclaimed ==
    [][\A r \in RunIds :
          LET i == run[r].issue IN
          run[r].at = "running" /\ branch[i].tree = "whole" => branch'[i].tree = "whole"]_workspaceVars

\* One preparation at a time on a cache, and an aborted one leaves nothing
\* behind that is not reported.
WorkspaceInvariant ==
    WorkspaceTypeOK /\ CacheTurnIsExclusive /\ SettledCleanupIsQuiet /\ HalfWorktreeIsReported

\* Retention, adoption and preparation take neither a running Run's worktree
\* nor the commits of a branch.
WorktreesAndCommitsStay == RunningWorktreeStays /\ CommitsAreKept
=============================================================================
