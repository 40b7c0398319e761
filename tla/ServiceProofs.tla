---------------------------- MODULE ServiceProofs ----------------------------
(***************************************************************************)
(* Self update and the execution of a routine firing: their invariants     *)
(* hold for any number of versions, runs, kills and failing renames.       *)
(***************************************************************************)
EXTENDS SelfUpdate, RoutineFiring, TLAPS

-----------------------------------------------------------------------------
(* Self update.                                                            *)

\* From its self-check to its rename, what the cycle is about to install has
\* passed that self-check: nothing else writes below the staging directory.
StagedIsChecked ==
    phase \in {"draining", "unit", "guard", "heal", "aside", "swapOut", "swapIn"}
    => staging[target] = "checked"

\* A generation is on disk under a name that is not the graveyard's.
Kept == install # NoTree \/ previous # NoTree \/ orphan # NoTree

\* `service rollback` renames the install path away only while another one is.
RollbackHasAnother ==
    rollback \in {"clear", "moveAside"}
    => install = NoTree \/ previous # NoTree \/ orphan # NoTree

\* Between its two renames the cycle finds the old build under `previous`,
\* unless a rollback has already brought it back.
BetweenRenames ==
    phase = "swapIn" =>
       \/ install = NoTree /\ previous # NoTree
       \/ install # NoTree /\ previous = NoTree /\ rollback \in {"none", "error"}

\* So the set-aside generation is not the last one when it is dropped.
AfterRenames ==
    phase = "dropOrphan" =>
       \/ previous # NoTree
       \/ install # NoTree /\ rollback \in {"none", "error"}

Answered == phase \in {"finish", "failPrune", "draining", "restart"} => caller # "waiting"

WorkCounted == armed + inFlight <= work

UpdateInv ==
    /\ UpdateTypeOK /\ OnlyCheckedBuildsGoLive /\ EveryExitReports
    /\ StagedIsChecked /\ Kept /\ RollbackHasAnother /\ BetweenRenames /\ AfterRenames
    /\ Answered /\ WorkCounted

USE DEF updateVars, fsVars, workVars, cycleVars

LEMMA BoundsAreNaturals ==
  MaxVersion \in Nat \ {0} /\ MaxWork \in Nat /\ MaxCrashes \in Nat /\ MaxIoFaults \in Nat
BY UpdateBounds

LEMMA UpdateBegins == UpdateInit => UpdateInv
<1>. SUFFICES ASSUME UpdateInit PROVE UpdateInv
  OBVIOUS
<1>. USE BoundsAreNaturals DEF UpdateInit
<1>1. 1 \in Versions /\ install \in Tree
  BY DEF Versions, Tree
<1>2. UpdateTypeOK
  <2>1. 0 \in 0 .. MaxWork /\ 0 \in 0 .. MaxCrashes /\ 0 \in 0 .. MaxIoFaults
    OBVIOUS
  <2>. QED
    BY <1>1, <2>1, Zenon DEF UpdateTypeOK, Phases, MaybeTree
<1>3. Kept
  BY DEF Kept, NoTree
<1>4. OnlyCheckedBuildsGoLive
  BY DEF OnlyCheckedBuildsGoLive
<1>. QED
  BY <1>2, <1>3, <1>4 DEF UpdateInv, EveryExitReports, StagedIsChecked,
     RollbackHasAnother, BetweenRenames, AfterRenames, Answered, WorkCounted

\* The steps that leave the trees alone: the releases, the configuration, a start,
\* the work.
LEMMA UpdateAside ==
  ASSUME UpdateInv, Publish \/ Toggle \/ StartDaemon
  PROVE  UpdateInv'
<1>. USE BoundsAreNaturals DEF UpdateInv, UpdateTypeOK
<1>1. install # NoTree => install.v \in Versions
  BY DEF MaybeTree, Tree
<1>2. UpdateTypeOK'
  <2>1. running' \in Versions
    BY <1>1 DEF Publish, Toggle, StartDaemon
  <2>2. latest' \in Versions
    <3>1. CASE Publish
      BY <3>1 DEF Publish, Versions
    <3>2. CASE Toggle \/ StartDaemon
      BY <3>2 DEF Toggle, StartDaemon
    <3>. QED
      BY <3>1, <3>2
  <2>3. up' \in BOOLEAN /\ enabled' \in BOOLEAN
    BY Zenon DEF Publish, Toggle, StartDaemon
  <2>4. UNCHANGED <<cycleVars, fsVars, gitCheckout, rollback, workVars, crashes, ioFaults>>
    BY DEF Publish, Toggle, StartDaemon
  <2>. QED
    BY <2>1, <2>2, <2>3, <2>4, Zenon
<1>. QED
  BY <1>2 DEF Publish, Toggle, StartDaemon, OnlyCheckedBuildsGoLive, EveryExitReports,
     StagedIsChecked, Kept, RollbackHasAnother, BetweenRenames, AfterRenames,
     Answered, WorkCounted

LEMMA PartsFit ==
  ASSUME NEW a \in Nat, NEW b \in Nat, NEW sum \in Nat, NEW bound \in Nat,
         a + b <= sum, sum <= bound
  PROVE  a \in 0 .. bound /\ b \in 0 .. bound /\ sum \in 0 .. bound
OBVIOUS

LEMMA UpdateWorks == ASSUME UpdateInv, Work PROVE UpdateInv'
<1>. USE BoundsAreNaturals DEF UpdateInv, outsideWork
<1>1. UNCHANGED <<up, outsideWork>>
  BY DEF Work, LaunchWork, BatchClaims, FireRoutineBegins, FireRoutineClaims,
     ReconcileAdmits, TimerFires, RunEnds
<1>2. /\ inFlight \in Nat /\ armed \in Nat /\ work \in Nat
      /\ work <= MaxWork /\ armed + inFlight <= work
  BY DEF UpdateTypeOK, WorkCounted
<1>3. /\ inFlight' \in Nat /\ armed' \in Nat /\ work' \in Nat
      /\ work' <= MaxWork /\ armed' + inFlight' <= work'
  <2>. USE <1>2 DEF Admit
  <2>1. CASE LaunchWork
    BY <2>1 DEF LaunchWork
  <2>2. CASE BatchClaims
    <3>1. (Admit /\ UNCHANGED armed) \/ UNCHANGED <<inFlight, armed, work>>
      BY <2>2, Zenon DEF BatchClaims
    <3>. QED
      BY <3>1
  <2>3. CASE FireRoutineBegins
    BY <2>3 DEF FireRoutineBegins
  <2>4. CASE FireRoutineClaims
    BY <2>4 DEF FireRoutineClaims
  <2>5. CASE ReconcileAdmits
    BY <2>5 DEF ReconcileAdmits
  <2>6. CASE TimerFires
    <3>1. armed > 0 /\ armed' = armed - 1 /\ work' = work
      BY <2>6, Zenon DEF TimerFires
    <3>2. inFlight' = inFlight \/ inFlight' = inFlight + 1
      BY <2>6, Zenon DEF TimerFires
    <3>. QED
      BY <3>1, <3>2
  <2>7. CASE RunEnds
    BY <2>7 DEF RunEnds
  <2>. QED
    BY <2>1, <2>2, <2>3, <2>4, <2>5, <2>6, <2>7 DEF Work
<1>4. batch' \in BOOLEAN /\ firing' \in BOOLEAN
  BY Zenon DEF UpdateTypeOK, Work, LaunchWork, BatchClaims, FireRoutineBegins,
     FireRoutineClaims, ReconcileAdmits, TimerFires, RunEnds
<1>5. UpdateTypeOK' /\ WorkCounted'
  <2>1. /\ WorkCounted' /\ inFlight' \in 0 .. MaxWork /\ armed' \in 0 .. MaxWork
        /\ work' \in 0 .. MaxWork
    BY <1>3, PartsFit, BoundsAreNaturals DEF WorkCounted
  <2>2. UNCHANGED <<up, enabled, running, latest, cycleVars, fsVars, gitCheckout,
                    rollback, crashes, ioFaults>>
    BY <1>1
  <2>. QED
    BY <1>4, <2>1, <2>2, Zenon DEF UpdateTypeOK
<1>. QED
  BY <1>1, <1>5 DEF OnlyCheckedBuildsGoLive, EveryExitReports,
     StagedIsChecked, Kept, RollbackHasAnother, BetweenRenames, AfterRenames, Answered

\* The cycle before and after its renames.
QuietCycle ==
    \/ Tick \/ RunNow \/ GetLatestRelease \/ DownloadAndVerify \/ WipeStaging
    \/ BuildStaging \/ SmokeCheck \/ WaitForDrain \/ CheckUnit \/ GitGuard
    \/ ReportUpdated \/ PruneAfterFailure \/ Finish \/ PruneAfterCutover

LEMMA UpdateQuiet == ASSUME UpdateInv, QuietCycle PROVE UpdateInv'
<1>. USE BoundsAreNaturals DEF UpdateInv, At, outsideCycle, Exit, Fail, Goto, GotoIfEnabled,
     Told, StagedIsChecked, Answered, EveryExitReports
<1>1. /\ UNCHANGED <<install, previous, orphan, failed, rollback, workVars>>
      /\ UNCHANGED <<up, enabled, running, latest, gitCheckout, crashes, ioFaults>>
      /\ phase' \notin {"swapIn", "dropOrphan"}
  BY DEF QuietCycle, Tick, RunNow, GetLatestRelease, DownloadAndVerify, WipeStaging,
     BuildStaging, SmokeCheck, WaitForDrain, CheckUnit, GitGuard, ReportUpdated,
     PruneAfterFailure, Finish, PruneAfterCutover
<1>2. /\ {draining', broken', hadPrevious'} \subseteq BOOLEAN /\ target' \in Versions
      /\ phase' \in Phases
      /\ caller' \in {"none", "waiting", "told"}
      /\ staging' \in [Versions -> {"none", "partial", "built", "checked"}]
      /\ StagedIsChecked' /\ Answered'
  <2>. USE DEF UpdateTypeOK, Phases
  <2>0. 1 \in Versions
    BY DEF Versions
  <2>1. CASE Tick \/ RunNow
    BY <2>1 DEF Tick, RunNow
  <2>2. CASE GetLatestRelease
    BY <2>2 DEF GetLatestRelease, PruneStale
  <2>3. CASE DownloadAndVerify
    BY <2>3 DEF DownloadAndVerify
  <2>4. CASE WipeStaging
    BY <2>4 DEF WipeStaging
  <2>5. CASE BuildStaging
    BY <2>5 DEF BuildStaging
  <2>6. CASE SmokeCheck
    BY <2>6 DEF SmokeCheck
  <2>7. CASE WaitForDrain \/ CheckUnit
    BY <2>7 DEF WaitForDrain, CheckUnit
  <2>8. CASE GitGuard
    BY <2>8 DEF GitGuard
  <2>9. CASE ReportUpdated
    BY <2>9 DEF ReportUpdated
  <2>10. CASE PruneAfterFailure
    BY <2>10 DEF PruneAfterFailure, PruneStale
  <2>11. CASE Finish
    BY <2>0, <2>11 DEF Finish
  <2>12. CASE PruneAfterCutover
    BY <2>12 DEF PruneAfterCutover, PruneStale
  <2>. QED
    BY <2>1, <2>2, <2>3, <2>4, <2>5, <2>6, <2>7, <2>8, <2>9, <2>10, <2>11, <2>12
       DEF QuietCycle
<1>. QED
  BY <1>1, <1>2 DEF UpdateTypeOK, OnlyCheckedBuildsGoLive, Kept, RollbackHasAnother,
     BetweenRenames, AfterRenames, WorkCounted

\* The renames of the cycle, against a rollback in any position.
Renames == HealOrphan \/ MovePreviousAside \/ SwapOut \/ SwapIn \/ DropOrphan

LEMMA UpdateRenames == ASSUME UpdateInv, Renames PROVE UpdateInv'
<1>. USE BoundsAreNaturals DEF UpdateInv, At, outsideCycle, Fail, Goto, Told, RenameFails
<1>1. /\ UNCHANGED <<rollback, workVars, failed, target, draining>>
      /\ UNCHANGED <<up, enabled, running, latest, gitCheckout, crashes>>
  BY DEF Renames, HealOrphan, MovePreviousAside, SwapOut, SwapIn, DropOrphan
<1>2. UpdateTypeOK' /\ Answered' /\ EveryExitReports' /\ StagedIsChecked'
      /\ OnlyCheckedBuildsGoLive'
  <2>0. ioFaults' \in 0 .. MaxIoFaults
    <3>1. ioFaults' = ioFaults \/ (ioFaults < MaxIoFaults /\ ioFaults' = ioFaults + 1)
      BY Zenon DEF Renames, HealOrphan, MovePreviousAside, SwapOut, SwapIn, DropOrphan
    <3>. QED
      BY <3>1 DEF UpdateTypeOK
  <2>1. /\ broken' \in BOOLEAN /\ hadPrevious' \in BOOLEAN
        /\ phase' \in {"aside", "swapOut", "swapIn", "dropOrphan", "prune", "failPrune"}
        /\ caller' \in {caller, "told"}
    BY Zenon DEF UpdateTypeOK, Renames, HealOrphan, MovePreviousAside, SwapOut, SwapIn, DropOrphan
  <2>2. NoTree \in MaybeTree
    BY DEF MaybeTree
  <2>3. /\ {install', previous', orphan'} \subseteq MaybeTree
        /\ staging' \in [Versions -> {"none", "partial", "built", "checked"}]
        /\ StagedIsChecked' /\ OnlyCheckedBuildsGoLive' /\ Answered'
    <3>. USE <2>2 DEF UpdateTypeOK, StagedIsChecked, OnlyCheckedBuildsGoLive, Answered
    <3>1. CASE HealOrphan
      BY <3>1 DEF HealOrphan
    <3>2. CASE MovePreviousAside
      BY <3>2 DEF MovePreviousAside
    <3>3. CASE SwapOut
      BY <3>3 DEF SwapOut, RestoreAside
    <3>4. CASE SwapIn
      <4>1. [v |-> target, quality |-> "checked"] \in MaybeTree
        BY DEF MaybeTree, Tree
      <4>2. staging[target] = "checked"
        BY <3>4 DEF SwapIn
      <4>. QED
        BY <3>4, <4>1, <4>2 DEF SwapIn, RestoreAside
    <3>5. CASE DropOrphan
      BY <3>5 DEF DropOrphan
    <3>. QED
      BY <3>1, <3>2, <3>3, <3>4, <3>5 DEF Renames
  <2>. QED
    BY <1>1, <2>0, <2>1, <2>3 DEF UpdateTypeOK, EveryExitReports, Phases
<1>3. Kept' /\ RollbackHasAnother' /\ BetweenRenames' /\ AfterRenames'
  <2>. USE DEF Kept, RollbackHasAnother, BetweenRenames, AfterRenames
  <2>1. CASE HealOrphan
    BY <2>1 DEF HealOrphan
  <2>2. CASE MovePreviousAside
    BY <2>2 DEF MovePreviousAside
  <2>3. CASE SwapOut
    BY <2>3 DEF SwapOut, RestoreAside
  <2>4. CASE SwapIn
    <3>1. CASE install' = [v |-> target, quality |-> staging[target]] /\ install = NoTree
               /\ phase' = "dropOrphan" /\ UNCHANGED <<previous, orphan>>
      <4>1. install' # NoTree
        BY <2>4, <3>1 DEF NoTree, StagedIsChecked, SwapIn
      <4>. QED
        BY <2>4, <3>1, <4>1 DEF SwapIn
    <3>2. CASE RestoreAside /\ Fail /\ UNCHANGED install
      BY <2>4, <3>2 DEF SwapIn, RestoreAside
    <3>. QED
      BY <2>4, <3>1, <3>2 DEF SwapIn
  <2>5. CASE DropOrphan
    BY <2>5 DEF DropOrphan
  <2>. QED
    BY <2>1, <2>2, <2>3, <2>4, <2>5 DEF Renames
<1>. QED
  BY <1>1, <1>2, <1>3 DEF WorkCounted

\* The operator's rollback, against the cycle in any position.
LEMMA UpdateRollsBack ==
  ASSUME UpdateInv, RollbackBegins \/ Rollback \/ RollbackKilled
  PROVE  UpdateInv'
<1>. USE BoundsAreNaturals DEF UpdateInv, outsideRollback
<1>1. UNCHANGED <<outsideRollback, orphan, ioFaults>>
  BY DEF RollbackBegins, Rollback, RollbackClears, RollbackMovesAside, RollbackRestores,
     RollbackKilled
<1>2. UpdateTypeOK' /\ OnlyCheckedBuildsGoLive'
  BY DEF UpdateTypeOK, OnlyCheckedBuildsGoLive, MaybeTree, RollbackBegins, Rollback,
     RollbackClears, RollbackMovesAside, RollbackRestores, RollbackKilled
<1>3. Kept' /\ RollbackHasAnother' /\ BetweenRenames' /\ AfterRenames'
  <2>. USE DEF Kept, RollbackHasAnother, BetweenRenames, AfterRenames
  <2>1. CASE RollbackBegins
    BY <2>1 DEF RollbackBegins
  <2>2. CASE RollbackClears
    BY <2>2 DEF RollbackClears
  <2>3. CASE RollbackMovesAside
    BY <2>3 DEF RollbackMovesAside
  <2>4. CASE RollbackRestores
    BY <2>4 DEF RollbackRestores
  <2>5. CASE RollbackKilled
    BY <2>5 DEF RollbackKilled
  <2>. QED
    BY <2>1, <2>2, <2>3, <2>4, <2>5 DEF Rollback
<1>. QED
  BY <1>1, <1>2, <1>3 DEF EveryExitReports, StagedIsChecked, Answered, WorkCounted

\* The process dies: killed, or restarted by the cycle itself.
LEMMA UpdateDies == ASSUME UpdateInv, Kill \/ RestartService PROVE UpdateInv'
<1>. USE BoundsAreNaturals DEF UpdateInv
<1>0. 1 \in Versions /\ work \in Nat
  BY DEF Versions, UpdateTypeOK
<1>1. CASE ProcessGone /\ crashes' \in 0 .. MaxCrashes
  <2>1. UpdateTypeOK'
    <3>1. /\ phase' \in Phases /\ target' \in Versions /\ inFlight' \in 0 .. MaxWork
          /\ armed' \in 0 .. MaxWork
      BY <1>0, <1>1 DEF ProcessGone, Phases
    <3>2. UNCHANGED <<enabled, running, latest, fsVars, gitCheckout, rollback, work, ioFaults>>
      BY <1>1 DEF ProcessGone
    <3>. QED
      BY <1>1, <3>1, <3>2 DEF ProcessGone, UpdateTypeOK
  <2>. QED
    BY <1>0, <1>1, <2>1 DEF ProcessGone, OnlyCheckedBuildsGoLive, EveryExitReports,
       StagedIsChecked, Kept, RollbackHasAnother, BetweenRenames, AfterRenames, Answered,
       WorkCounted
<1>2. CASE Exit /\ UNCHANGED <<outsideCycle, fsVars, ioFaults>>
  BY <1>2 DEF Exit, Told, outsideCycle, UpdateTypeOK, Phases, OnlyCheckedBuildsGoLive,
     EveryExitReports, StagedIsChecked, Kept, RollbackHasAnother, BetweenRenames,
     AfterRenames, Answered, WorkCounted
<1>. QED
  BY <1>1, <1>2 DEF Kill, RestartService, UpdateTypeOK

LEMMA UpdateStays == ASSUME UpdateInv, UNCHANGED updateVars PROVE UpdateInv'
BY DEF UpdateInv, UpdateTypeOK, OnlyCheckedBuildsGoLive, EveryExitReports, StagedIsChecked,
   Kept, RollbackHasAnother, BetweenRenames, AfterRenames, Answered, WorkCounted

\* A complete, self-checked build stays on disk whatever is killed, fails or
\* interleaves during a cutover and a rollback, nothing else is ever started or
\* kept, and every caller of `symphonika update` has its answer.
THEOREM UpdateKeepsAGoodBuild == UpdateSpec => []UpdateInvariant
<1>1. UpdateInit => UpdateInv
  BY UpdateBegins
<1>2. UpdateInv /\ [UpdateNext]_updateVars => UpdateInv'
  BY UpdateAside, UpdateWorks, UpdateQuiet, UpdateRenames, UpdateRollsBack, UpdateDies,
     UpdateStays DEF UpdateNext, Cycle, QuietCycle, Renames
<1>3. UpdateInv => UpdateInvariant
  BY DEF UpdateInv, UpdateInvariant, Kept, OnlyCheckedBuildsGoLive, GoodBuildOnDisk,
     Answered, AnsweredWhileDraining
<1>. QED
  BY <1>1, <1>2, <1>3, PTL DEF UpdateSpec
-----------------------------------------------------------------------------
(* The execution of a Routine Firing.                                      *)

Places == {"none", "prepare", "before", "provide", "classify", "enrich", "settle",
           "inspect", "tail", "done"}
States == {"none"} \cup Active \cup Settled
Reasons == {"none", "cancelled", "no_progress", "firing_timeout", "error", "leaked"}
Verdicts == {"none", "succeeded", "error", "cancelled", "no_progress", "firing_timeout"}
Notes == {"none", "owed", "sent", "failed"}
Asked == Cancels \cup {"none"}
Clocks == {"no", "armed", "elapsed"}
Deadlines == {"none", "armed", "expired", "cleared"}
Streams == {"none", "running", "ended"}

FiringRow ==
    [state : States, reason : Reasons, cancelReason : Asked, alert : BOOLEAN,
     scope : BOOLEAN, prs : BOOLEAN, note : Notes]

Execution ==
    [at : Places, cancel : Asked, settling : Clocks, deadline : Deadlines,
     provider : Streams, prepared : BOOLEAN, snapshot : BOOLEAN, verdict : Verdicts,
     heard : Asked, discovering : BOOLEAN]

FiringRecords ==
    /\ row \in FiringRow /\ exec \in Execution /\ daemon \in {"up", "stopping", "down"}
    /\ told \in {0, 1} /\ halts \in 0 .. MaxStops

\* Only an execution that runs has a row to write, and none runs when the daemon
\* is down.
RowFollowsExecution ==
    /\ exec.at = "provide" => exec.provider = "running"
    /\ exec.at \notin {"none", "done"} => row.state \in Active
    /\ exec.at \in {"none", "done"} /\ daemon # "down" => row.state \notin Active
    /\ daemon = "down" => exec.at = "none"

\* The latch of the Watchdog lives in the row until the verdict is written.
LatchHolds == row.alert /\ row.state \in Active => row.cancelReason = "no_progress"

NoProgressFails == row.reason = "no_progress" => row.state = "failed"

\* An expired deadline has ended the try block, and is what the catch block judges.
ExpiryIsJudged ==
    /\ exec.deadline = "expired" => exec.at \in {"none", "settle", "inspect", "tail", "done"}
    /\ exec.at = "tail" /\ exec.deadline = "expired" => exec.verdict = "firing_timeout"

\* A cancel is heard where the failure is judged, and nowhere before.
HearingIsJudged ==
    /\ exec.at \notin {"tail", "done"} => exec.heard = "none"
    /\ exec.at = "tail" /\ exec.heard # "none"
          => exec.verdict \in {"cancelled", "no_progress", "firing_timeout"}

FiringRelations ==
    /\ RowFollowsExecution /\ LatchHolds /\ NoProgressFails /\ ExpiryIsJudged /\ HearingIsJudged
    /\ CondemnedFiringFails /\ DeadlineWins /\ HeardCancelIsTold /\ AlertToldOnce

FiringInv == FiringRecords /\ FiringRelations

FinalVerdict ==
    row.state \in Settled
        => row'.state = row.state /\ row'.reason = row.reason /\ row'.prs = row.prs

LEMMA FiringBegins == FiringInit => FiringInv
BY FiringBounds DEF FiringInit, FiringInv, FiringRecords, FiringRelations, NoRow, NotExecuting, FiringRow,
   Execution, Reasons, Verdicts, States, Places, Notes,
   Asked, Clocks, Deadlines, Streams, Active, Settled, Cancels, RowFollowsExecution, LatchHolds,
   NoProgressFails, ExpiryIsJudged, HearingIsJudged, CondemnedFiringFails, DeadlineWins,
   HeardCancelIsTold, AlertToldOnce

\* The words the records are made of.
LEMMA FiringWords ==
  /\ {"none", "prepare", "before", "provide", "classify", "enrich", "settle", "inspect",
      "tail", "done"} \subseteq Places
  /\ {"none", "preparing_workspace", "running", "succeeded", "failed", "cancelled"}
      \subseteq States
  /\ {"cancelled", "no_progress", "firing_timeout", "error", "leaked", "none"}
      \subseteq Reasons
  /\ Verdicts \ {"succeeded"} \subseteq Reasons
  /\ {"succeeded", "error", "cancelled", "no_progress", "firing_timeout", "none"}
      \subseteq Verdicts
  /\ {"none", "owed", "sent", "failed"} \subseteq Notes
  /\ {"none", "operator", "daemon_shutdown", "no_progress"} \subseteq Asked
  /\ {"no", "armed", "elapsed"} \subseteq Clocks
  /\ {"none", "armed", "expired", "cleared"} \subseteq Deadlines
  /\ {"none", "running", "ended"} \subseteq Streams
BY DEF Places, States, Active, Settled, Reasons, Verdicts, Notes, Asked, Cancels, Clocks,
   Deadlines, Streams

LEMMA FiringKeepsRecords ==
  ASSUME FiringInv, FiringNext
  PROVE  FiringRecords'
<1>. USE FiringBounds, FiringWords DEF FiringInv, FiringRecords, FiringRow, Execution, Execute,
     NoRow, NotExecuting
<1>1. ASSUME NEW b \in BOOLEAN, BeginFiring(b) PROVE FiringRecords'
  BY <1>1 DEF BeginFiring
<1>2. ASSUME NEW b \in BOOLEAN, ProviderEnds(b) PROVE FiringRecords'
  BY <1>2 DEF ProviderEnds
<1>3. ASSUME NEW b \in BOOLEAN, Classify(b) PROVE FiringRecords'
  BY <1>3 DEF Classify
<1>4. ASSUME NEW b \in BOOLEAN, DiscoveryAnswers(b) PROVE FiringRecords'
  BY <1>4 DEF DiscoveryAnswers, firingStillRunning
<1>5. ASSUME NEW b \in BOOLEAN, AwaitFails(b) PROVE FiringRecords'
  BY <1>5 DEF AwaitFails
<1>6. ASSUME NEW b \in BOOLEAN, ExpiredFiringSettles(b) PROVE FiringRecords'
  BY <1>6 DEF ExpiredFiringSettles
<1>7. ASSUME NEW b \in BOOLEAN, NotificationDelivered(b) PROVE FiringRecords'
  BY <1>7 DEF NotificationDelivered
<1>8. ASSUME NEW b \in BOOLEAN, StartAndSweep(b) PROVE FiringRecords'
  BY <1>8 DEF StartAndSweep, markRoutineFiringsFailed
<1>9. ASSUME NEW scoped \in BOOLEAN, NEW snapshot \in BOOLEAN, StartProvider(scoped, snapshot)
     PROVE  FiringRecords'
  <2>1. CASE exec.cancel = "none"
    <3>1. /\ row' = [row EXCEPT !.scope = scoped] /\ UNCHANGED <<daemon, told, halts>>
          /\ exec' = [exec EXCEPT !.at = "provide", !.provider = "running", !.snapshot = snapshot]
          /\ exec.at = "before" /\ daemon # "down"
      BY <1>9, <2>1 DEF StartProvider
    <3>. QED
      BY <1>9, <3>1
  <2>2. CASE exec.cancel # "none"
    BY <1>9, <2>2 DEF StartProvider
  <2>. QED
    BY <2>1, <2>2
<1>10. CASE Prepared
  BY <1>10 DEF Prepared
<1>11. CASE GitHubHangs
  BY <1>11 DEF GitHubHangs
<1>12. CASE CompleteInTry
  BY <1>12 DEF CompleteInTry, completeRoutineFiring, CancelOutcome
<1>13. CASE DeadlineExpires
  BY <1>13 DEF DeadlineExpires
<1>14. CASE SettlementElapses
  BY <1>14 DEF SettlementElapses
<1>15. CASE AbandonCancelled
  BY <1>15 DEF AbandonCancelled, RacedBySettlement
<1>16. CASE JudgeFailure
  BY <1>16 DEF JudgeFailure, FailureVerdict, CancelOutcome
<1>17. CASE CompleteInCatch
  BY <1>17 DEF CompleteInCatch, completeRoutineFiring
<1>18. CASE ReleaseSlot
  BY <1>18 DEF ReleaseSlot
<1>19. CASE cancelViaUi
  BY <1>19 DEF cancelViaUi, MarkedCancel, Requested
<1>20. CASE markRoutineFiringWatchdogNoProgress
  BY <1>20 DEF markRoutineFiringWatchdogNoProgress, Requested
<1>21. CASE claimSettledRoutineWatchdogTerminations
  <2>1. row' = [row EXCEPT !.alert = FALSE] /\ UNCHANGED <<exec, daemon, halts>>
    BY <1>21 DEF claimSettledRoutineWatchdogTerminations
  <2>2. told' \in {0, 1}
    BY <1>21 DEF claimSettledRoutineWatchdogTerminations, FiringRelations, AlertToldOnce
  <2>. QED
    BY <2>1, <2>2
<1>22. CASE StopDaemon
  <2>0. daemon = "up" /\ daemon' = "stopping" /\ halts' \in 0 .. MaxStops /\ told' = told
    BY <1>22, FiringBounds DEF StopDaemon
  <2>1. CASE exec.at = "none"
    <3>1. UNCHANGED <<row, exec>>
      BY <1>22, <2>1 DEF StopDaemon
    <3>. QED
      BY <2>0, <2>1, <3>1
  <2>2. CASE exec.at # "none"
    <3>1. /\ row' = MarkedCancel(row, "daemon_shutdown")
          /\ exec' = [Requested("daemon_shutdown") EXCEPT !.cancel = "daemon_shutdown"]
      BY <1>22, <2>2 DEF StopDaemon
    <3>. QED
      BY <2>0, <2>2, <3>1 DEF MarkedCancel, Requested
  <2>. QED
    BY <2>1, <2>2
<1>23. CASE StopCompletes
  BY <1>23 DEF StopCompletes
<1>24. CASE CrashDaemon
  BY <1>24 DEF CrashDaemon
<1>. QED
  BY <1>1, <1>2, <1>3, <1>4, <1>5, <1>6, <1>7, <1>8, <1>9, <1>10, <1>11, <1>12,
     <1>13, <1>14, <1>15, <1>16, <1>17, <1>18, <1>19, <1>20, <1>21, <1>22, <1>23, <1>24 DEF FiringNext

LEMMA FiringKeepsRelations ==
  ASSUME FiringInv, FiringNext
  PROVE  FiringRelations' /\ FinalVerdict
<1>. USE DEF FiringInv, FiringRecords, FiringRelations, FiringRow, Execution, 
     Active, Settled, Cancels, RowFollowsExecution, LatchHolds, NoProgressFails, ExpiryIsJudged,
     HearingIsJudged, CondemnedFiringFails, DeadlineWins, HeardCancelIsTold, AlertToldOnce,
     FinalVerdict, Execute, NoRow, NotExecuting
<1>1. ASSUME NEW b \in BOOLEAN, BeginFiring(b) PROVE FiringRelations' /\ FinalVerdict
  BY <1>1 DEF BeginFiring
<1>2. ASSUME NEW b \in BOOLEAN, ProviderEnds(b) PROVE FiringRelations' /\ FinalVerdict
  BY <1>2 DEF ProviderEnds
<1>3. ASSUME NEW b \in BOOLEAN, Classify(b) PROVE FiringRelations' /\ FinalVerdict
  BY <1>3 DEF Classify
<1>4. ASSUME NEW b \in BOOLEAN, DiscoveryAnswers(b) PROVE FiringRelations' /\ FinalVerdict
  BY <1>4 DEF DiscoveryAnswers, firingStillRunning
<1>5. ASSUME NEW b \in BOOLEAN, AwaitFails(b) PROVE FiringRelations' /\ FinalVerdict
  BY <1>5 DEF AwaitFails
<1>6. ASSUME NEW b \in BOOLEAN, ExpiredFiringSettles(b) PROVE FiringRelations' /\ FinalVerdict
  BY <1>6 DEF ExpiredFiringSettles
<1>7. ASSUME NEW b \in BOOLEAN, NotificationDelivered(b) PROVE FiringRelations' /\ FinalVerdict
  BY <1>7 DEF NotificationDelivered
<1>8. ASSUME NEW b \in BOOLEAN, StartAndSweep(b) PROVE FiringRelations' /\ FinalVerdict
  BY <1>8 DEF StartAndSweep, markRoutineFiringsFailed
<1>9. ASSUME NEW scoped \in BOOLEAN, NEW snapshot \in BOOLEAN, StartProvider(scoped, snapshot)
     PROVE  FiringRelations' /\ FinalVerdict
  <2>1. CASE exec.cancel = "none"
    <3>1. /\ row' = [row EXCEPT !.scope = scoped] /\ UNCHANGED <<daemon, told, halts>>
          /\ exec' = [exec EXCEPT !.at = "provide", !.provider = "running", !.snapshot = snapshot]
          /\ exec.at = "before" /\ daemon # "down"
      BY <1>9, <2>1 DEF StartProvider
    <3>. QED
      BY <1>9, <3>1
  <2>2. CASE exec.cancel # "none"
    BY <1>9, <2>2 DEF StartProvider
  <2>. QED
    BY <2>1, <2>2
<1>10. CASE Prepared
  BY <1>10 DEF Prepared
<1>11. CASE GitHubHangs
  BY <1>11 DEF GitHubHangs
<1>12. CASE CompleteInTry
  BY <1>12 DEF CompleteInTry, completeRoutineFiring, CancelOutcome
<1>13. CASE DeadlineExpires
  BY <1>13 DEF DeadlineExpires
<1>14. CASE SettlementElapses
  BY <1>14 DEF SettlementElapses
<1>15. CASE AbandonCancelled
  BY <1>15 DEF AbandonCancelled, RacedBySettlement
<1>16. CASE JudgeFailure
  BY <1>16 DEF JudgeFailure, FailureVerdict, CancelOutcome
<1>17. CASE CompleteInCatch
  BY <1>17 DEF CompleteInCatch, completeRoutineFiring
<1>18. CASE ReleaseSlot
  BY <1>18 DEF ReleaseSlot
<1>19. CASE cancelViaUi
  BY <1>19 DEF cancelViaUi, MarkedCancel, Requested
<1>20. CASE markRoutineFiringWatchdogNoProgress
  BY <1>20 DEF markRoutineFiringWatchdogNoProgress, Requested
<1>21. CASE claimSettledRoutineWatchdogTerminations
  BY <1>21 DEF claimSettledRoutineWatchdogTerminations, AlertSettled
<1>22. CASE StopDaemon
  <2>0. daemon = "up" /\ daemon' = "stopping" /\ halts' \in 0 .. MaxStops /\ told' = told
    BY <1>22, FiringBounds DEF StopDaemon
  <2>1. CASE exec.at = "none"
    <3>1. UNCHANGED <<row, exec>>
      BY <1>22, <2>1 DEF StopDaemon
    <3>. QED
      BY <2>0, <2>1, <3>1
  <2>2. CASE exec.at # "none"
    <3>1. /\ row' = MarkedCancel(row, "daemon_shutdown")
          /\ exec' = [Requested("daemon_shutdown") EXCEPT !.cancel = "daemon_shutdown"]
      BY <1>22, <2>2 DEF StopDaemon
    <3>. QED
      BY <2>0, <2>2, <3>1 DEF MarkedCancel, Requested
  <2>. QED
    BY <2>1, <2>2
<1>23. CASE StopCompletes
  BY <1>23 DEF StopCompletes
<1>24. CASE CrashDaemon
  BY <1>24 DEF CrashDaemon
<1>. QED
  BY <1>1, <1>2, <1>3, <1>4, <1>5, <1>6, <1>7, <1>8, <1>9, <1>10, <1>11, <1>12,
     <1>13, <1>14, <1>15, <1>16, <1>17, <1>18, <1>19, <1>20, <1>21, <1>22, <1>23, <1>24 DEF FiringNext

\* What the row of a firing says of the Watchdog's verdict, of its deadline and of a
\* cancel is what happened to it, and the operators are told of it at most once.
THEOREM FiringTellsWhatHappened == FiringSpec => []FiringInvariant
<1>1. FiringInv /\ UNCHANGED firingVars => FiringInv'
  BY DEF FiringInv, FiringRelations, firingVars, FiringRecords, RowFollowsExecution, LatchHolds, NoProgressFails,
     ExpiryIsJudged, HearingIsJudged, CondemnedFiringFails, DeadlineWins, HeardCancelIsTold,
     AlertToldOnce
<1>2. FiringInv => FiringInvariant
  BY DEF FiringInv, FiringRelations, FiringInvariant, FiringTypeOK, FiringRecords, FiringRow, Execution, Reasons,
     Verdicts, States, Places, Notes, Asked, Clocks, Deadlines, Streams, RowFollowsExecution
<1>3. FiringInv /\ FiringNext => FiringInv' /\ FinalVerdict
  BY FiringKeepsRecords, FiringKeepsRelations DEF FiringInv
<1>. QED
  BY <1>1, <1>2, <1>3, FiringBegins, PTL DEF FiringSpec

\* A settled firing keeps its verdict and its evidence: no late answer of GitHub, sweep
\* or cancel rewrites them.
THEOREM FiringVerdictStays == FiringSpec => FiringVerdictIsFinal
<1>1. FiringInv /\ UNCHANGED firingVars => FiringInv'
  BY DEF FiringInv, FiringRelations, firingVars, FiringRecords, RowFollowsExecution, LatchHolds, NoProgressFails,
     ExpiryIsJudged, HearingIsJudged, CondemnedFiringFails, DeadlineWins, HeardCancelIsTold,
     AlertToldOnce
<1>2. FinalVerdict <=> (row.state \in Settled
         => row'.state = row.state /\ row'.reason = row.reason /\ row'.prs = row.prs)
  BY DEF FinalVerdict
<1>3. FiringInv /\ FiringNext => FiringInv' /\ FinalVerdict
  BY FiringKeepsRecords, FiringKeepsRelations DEF FiringInv
<1>. QED
  BY <1>1, <1>2, <1>3, FiringBegins, PTL DEF FiringSpec, FiringVerdictIsFinal
=============================================================================
