------------------------------ MODULE SelfUpdate ------------------------------
(***************************************************************************)
(* Self update: UpdateCoordinator's cycle (update/coordinator.ts), the     *)
(* renames of update/cutover.ts on the install directory, the operator's   *)
(* `service rollback`, and the drain gate the daemon's admission paths     *)
(* read.                                                                   *)
(*                                                                         *)
(* A directory tree is the version it holds and how far it was verified.   *)
(* One await of the code is one step: a crash, a configuration reload, a   *)
(* run or the operator's other commands come between any two of them.      *)
(***************************************************************************)
EXTENDS Naturals, FiniteSets

CONSTANTS
    MaxVersion,   \* versions are 1 .. MaxVersion, published in that order
    MaxWork,      \* bound: runs and firings admitted in a behaviour
    MaxCrashes,   \* bound: kills of the daemon or of `service rollback`
    MaxIoFaults   \* bound: renames that fail for no reason the model knows

ASSUME UpdateBounds ==
    /\ MaxVersion \in Nat \ {0}
    /\ {MaxWork, MaxCrashes, MaxIoFaults} \subseteq Nat

VARIABLES
    up, enabled,      \* the daemon runs; self_update in the effective config
    running, latest,  \* the running build's version; the newest release
    phase, target,    \* the cycle's position and the version it installs
    draining,         \* UpdateCoordinator.draining
    caller,           \* what `symphonika update` has been told
    broken,           \* the notifier's selfUpdate edge
    install, previous, orphan, failed, staging,  \* the trees on disk
    hadPrevious,      \* cutOverStagedRelease's hadPreviousGeneration
    gitCheckout,      \* <install>/.git exists
    rollback,         \* `symphonika service rollback`
    inFlight, armed, batch, firing,  \* work: slots, timers, a batch, a fire-now
    work, crashes, ioFaults          \* used bounds

fsVars == <<install, previous, orphan, failed, staging>>
workVars == <<inFlight, armed, batch, firing, work>>
cycleVars == <<phase, target, draining, caller, broken, hadPrevious>>
updateVars == <<up, enabled, running, latest, cycleVars, fsVars, gitCheckout,
                rollback, workVars, crashes, ioFaults>>

Versions == 1 .. MaxVersion
NoTree == [v |-> 0, quality |-> "none"]
Tree == [v : Versions, quality : {"partial", "built", "checked"}]
MaybeTree == Tree \cup {NoTree}
Phases == {"idle", "checking", "downloading", "staging", "building", "smoke",
           "draining", "unit", "guard", "heal", "aside", "swapOut", "swapIn",
           "dropOrphan", "prune", "systemd", "restart", "failPrune", "finish"}

UpdateTypeOK ==
    /\ {up, enabled, draining, broken, hadPrevious, gitCheckout} \subseteq BOOLEAN
    /\ {running, latest} \subseteq Versions
    /\ target \in Versions
    /\ phase \in Phases
    /\ caller \in {"none", "waiting", "told", "unreported"}
    /\ {install, previous, orphan, failed} \subseteq MaybeTree
    /\ staging \in [Versions -> {"none", "partial", "built", "checked"}]
    /\ rollback \in {"none", "clear", "moveAside", "restore", "error"}
    /\ inFlight \in 0 .. MaxWork /\ armed \in 0 .. MaxWork
    /\ batch \in BOOLEAN /\ firing \in BOOLEAN
    /\ work \in 0 .. MaxWork /\ crashes \in 0 .. MaxCrashes
    /\ ioFaults \in 0 .. MaxIoFaults

UpdateInit ==
    /\ up = TRUE /\ enabled \in BOOLEAN
    /\ running = 1 /\ latest = 1
    /\ phase = "idle" /\ target = 1 /\ draining = FALSE
    /\ caller = "none" /\ broken = FALSE /\ hadPrevious = FALSE
    /\ install = [v |-> 1, quality |-> "checked"]
    /\ previous = NoTree /\ orphan = NoTree /\ failed = NoTree
    /\ staging = [v \in Versions |-> "none"]
    /\ gitCheckout \in BOOLEAN
    /\ rollback = "none"
    /\ inFlight = 0 /\ armed = 0 /\ batch = FALSE /\ firing = FALSE
    /\ work = 0 /\ crashes = 0 /\ ioFaults = 0

-----------------------------------------------------------------------------
(* The cycle *)

(* report(outcome): the first outcome answers a waiting caller. *)
Told == IF caller = "waiting" THEN "told" ELSE caller

Exit ==
    /\ phase' = "finish" /\ caller' = Told
    /\ UNCHANGED <<target, draining, broken, hadPrevious>>

Fail ==
    /\ phase' = "failPrune" /\ caller' = Told /\ broken' = TRUE
    /\ hadPrevious' = FALSE
    /\ UNCHANGED <<target, draining>>

Goto(p) ==
    /\ phase' = p
    /\ UNCHANGED <<target, draining, caller, broken, hadPrevious>>

GotoIfEnabled(p) == IF enabled THEN Goto(p) ELSE Exit

PruneStale(keep) == [v \in Versions |-> IF v \in keep THEN staging[v] ELSE "none"]

outsideCycle == <<up, enabled, running, latest, gitCheckout, rollback, workVars,
                  crashes>>

At(p) == up /\ phase = p /\ UNCHANGED outsideCycle

RenameFails == ioFaults < MaxIoFaults /\ ioFaults' = ioFaults + 1

(* tick() and runNow(): one cycle at a time; a refused runNow changes nothing. *)
Tick ==
    /\ At("idle") /\ enabled
    /\ Goto("checking")
    /\ UNCHANGED <<fsVars, ioFaults>>

RunNow ==
    /\ At("idle") /\ enabled
    /\ phase' = "checking" /\ caller' = "waiting"
    /\ UNCHANGED <<target, draining, broken, hadPrevious, fsVars, ioFaults>>

GetLatestRelease ==
    /\ At("checking")
    /\ \/ Exit /\ UNCHANGED fsVars     \* no token, or the API failed
       \/ /\ latest <= running
          /\ staging' = PruneStale({})
          /\ Exit
          /\ UNCHANGED <<install, previous, orphan, failed>>
       \/ /\ latest > running
          /\ IF enabled
               THEN /\ phase' = "downloading" /\ target' = latest
                    /\ UNCHANGED <<draining, caller, broken, hadPrevious>>
               ELSE Exit
          /\ UNCHANGED fsVars
    /\ UNCHANGED ioFaults

DownloadAndVerify ==
    /\ At("downloading")
    /\ Fail \/ GotoIfEnabled("staging")
    /\ UNCHANGED <<fsVars, ioFaults>>

(* stageExtractedRelease: wipe, then extract and npm ci. *)
WipeStaging ==
    /\ At("staging")
    /\ staging' = [staging EXCEPT ![target] = "partial"]
    /\ Goto("building")
    /\ UNCHANGED <<install, previous, orphan, failed, ioFaults>>

BuildStaging ==
    /\ At("building")
    /\ \/ Fail /\ UNCHANGED staging
       \/ /\ staging' = [staging EXCEPT ![target] = "built"]
          /\ GotoIfEnabled("smoke")
    /\ UNCHANGED <<install, previous, orphan, failed, ioFaults>>

(* runStagedSelfCheck, then the drain flag and the first look at the slots. *)
SmokeCheck ==
    /\ At("smoke")
    /\ \/ Fail /\ UNCHANGED staging
       \/ /\ staging' = [staging EXCEPT ![target] = "checked"]
          /\ \/ ~enabled /\ Exit
             \/ /\ enabled
                /\ draining' = TRUE
                /\ phase' = IF inFlight > 0 THEN "draining" ELSE "unit"
                /\ caller' = IF inFlight > 0 THEN Told ELSE caller
                /\ UNCHANGED <<target, broken, hadPrevious>>
    /\ UNCHANGED <<install, previous, orphan, failed, ioFaults>>

WaitForDrain ==
    /\ At("draining") /\ (~enabled \/ inFlight = 0)
    /\ GotoIfEnabled("unit")
    /\ UNCHANGED <<fsVars, ioFaults>>

(* checkUnitRegenerationNeeded runs the staged build and only logs. *)
CheckUnit ==
    /\ At("unit")
    /\ Goto("guard")
    /\ UNCHANGED <<fsVars, ioFaults>>

(* cutOverStagedRelease begins with the git guard. *)
GitGuard ==
    /\ At("guard")
    /\ IF gitCheckout
         THEN Fail        \* told "refused", then on the failure path
         ELSE Goto("heal")
    /\ UNCHANGED <<fsVars, ioFaults>>

HealOrphan ==
    /\ At("heal")
    /\ orphan' = NoTree
    /\ previous' = IF previous = NoTree THEN orphan ELSE previous
    /\ Goto("aside")
    /\ UNCHANGED <<install, failed, staging, ioFaults>>

MovePreviousAside ==
    /\ At("aside")
    /\ \/ /\ previous # NoTree /\ orphan = NoTree
          /\ orphan' = previous /\ previous' = NoTree /\ hadPrevious' = TRUE
          /\ UNCHANGED ioFaults
       \/ /\ IF previous = NoTree THEN UNCHANGED ioFaults ELSE RenameFails
          /\ hadPrevious' = FALSE
          /\ UNCHANGED <<orphan, previous>>
    /\ phase' = "swapOut"
    /\ UNCHANGED <<target, draining, caller, broken, install, failed, staging>>

(* The catch of the swap: the set-aside generation goes back if it can. *)
RestoreAside ==
    LET back == hadPrevious /\ previous = NoTree /\ orphan # NoTree
    IN  /\ previous' = IF back THEN orphan ELSE previous
        /\ orphan' = IF back THEN NoTree ELSE orphan

SwapOutByDeletion ==
    /\ At("swapOut")
    /\ install' = NoTree /\ previous' = NoTree
    /\ Goto("swapIn")
    /\ UNCHANGED <<orphan, failed, staging, ioFaults>>

SwapOut ==
    /\ At("swapOut")
    /\ \/ /\ install # NoTree /\ previous = NoTree
          /\ previous' = install /\ install' = NoTree
          /\ Goto("swapIn") /\ UNCHANGED <<orphan, ioFaults>>
       \/ /\ IF install = NoTree \/ previous # NoTree
               THEN UNCHANGED ioFaults ELSE RenameFails
          /\ RestoreAside /\ Fail /\ UNCHANGED install
    /\ UNCHANGED <<failed, staging>>

SwapIn ==
    /\ At("swapIn")
    /\ \/ /\ staging[target] # "none" /\ install = NoTree
          /\ install' = [v |-> target, quality |-> staging[target]]
          /\ staging' = [staging EXCEPT ![target] = "none"]
          /\ Goto("dropOrphan") /\ UNCHANGED <<previous, orphan, ioFaults>>
       \/ /\ IF staging[target] = "none" \/ install # NoTree
               THEN UNCHANGED ioFaults ELSE RenameFails
          /\ RestoreAside /\ Fail /\ UNCHANGED <<install, staging>>
    /\ UNCHANGED failed

DropOrphan ==
    /\ At("dropOrphan")
    /\ orphan' = IF hadPrevious THEN NoTree ELSE orphan
    /\ hadPrevious' = FALSE /\ phase' = "prune"
    /\ UNCHANGED <<target, draining, caller, broken, install, previous, failed, staging, ioFaults>>

PruneAfterCutover ==
    /\ At("prune")
    /\ staging' = PruneStale({target})
    /\ broken' = FALSE /\ phase' = "systemd"
    /\ UNCHANGED <<target, draining, caller, hadPrevious, install, previous,
                   orphan, failed, ioFaults>>

ReportUpdated ==
    /\ At("systemd")
    /\ \/ Exit          \* no systemd --user session
       \/ /\ phase' = "restart" /\ caller' = Told
          /\ UNCHANGED <<target, draining, broken, hadPrevious>>
    /\ UNCHANGED <<fsVars, ioFaults>>

(* The catch of runCycle, after its report; a failed prune is only logged. *)
PruneAfterFailure ==
    /\ At("failPrune")
    /\ Goto("finish")
    /\ staging' \in {staging, PruneStale({})}
    /\ UNCHANGED <<install, previous, orphan, failed, ioFaults>>

FinishDraining ==
    /\ At("finish")
    /\ phase' = "idle" /\ caller' = "none" /\ target' = 1
    /\ UNCHANGED <<draining, broken, hadPrevious, fsVars, ioFaults>>

(* .finally(): the flags clear, and a caller nobody answered gets an error. *)
Finish ==
    /\ At("finish")
    /\ phase' = "idle" /\ draining' = FALSE
    /\ caller' = IF caller = "waiting" THEN "unreported" ELSE "none"
    /\ target' = 1       \* a local of the cycle that ends
    /\ UNCHANGED <<broken, hadPrevious, fsVars, ioFaults>>

(* systemctl restart --no-block: SIGTERM for the whole unit, or an error that
   is only logged. *)
ProcessGone ==
    /\ up' = FALSE /\ phase' = "idle" /\ draining' = FALSE
    /\ broken' = FALSE
    /\ caller' = "none" /\ hadPrevious' = FALSE /\ target' = 1
    /\ inFlight' = 0 /\ armed' = 0 /\ batch' = FALSE /\ firing' = FALSE
    /\ UNCHANGED <<enabled, running, latest, fsVars, gitCheckout, rollback, work, ioFaults>>

RestartService ==
    /\ up /\ phase = "restart"
    /\ \/ ProcessGone /\ UNCHANGED crashes
       \/ Exit /\ UNCHANGED <<outsideCycle, fsVars, ioFaults>>

Cycle ==
    \/ GetLatestRelease \/ DownloadAndVerify \/ WipeStaging \/ BuildStaging
    \/ SmokeCheck \/ WaitForDrain \/ CheckUnit \/ GitGuard \/ HealOrphan
    \/ MovePreviousAside \/ SwapOut \/ SwapIn \/ DropOrphan
    \/ PruneAfterCutover \/ ReportUpdated \/ RestartService
    \/ PruneAfterFailure \/ Finish

-----------------------------------------------------------------------------
(* The process and the operator *)

Kill ==
    /\ up /\ crashes < MaxCrashes
    /\ crashes' = crashes + 1
    /\ ProcessGone

(* systemd starts the entry point of the install path, when there is one. *)
StartDaemon ==
    /\ ~up /\ install # NoTree
    /\ up' = TRUE /\ running' = install.v
    /\ UNCHANGED <<enabled, latest, cycleVars, fsVars, gitCheckout, rollback,
                   workVars, crashes, ioFaults>>

Publish ==
    /\ latest < MaxVersion
    /\ latest' = latest + 1
    /\ UNCHANGED <<up, enabled, running, cycleVars, fsVars, gitCheckout, rollback,
                   workVars, crashes, ioFaults>>

(* A reload that changes self_update. *)
Toggle ==
    /\ enabled' = ~enabled
    /\ UNCHANGED <<up, running, latest, cycleVars, fsVars, gitCheckout, rollback,
                   workVars, crashes, ioFaults>>

outsideRollback == <<up, enabled, running, latest, cycleVars, staging,
                     gitCheckout, workVars>>

(* rollbackToPreviousRelease: rm, rename, rename. Its two early refusals (a git
   checkout, no previous generation) change nothing. *)
RollbackBegins ==
    /\ rollback \in {"none", "error"} /\ ~gitCheckout /\ previous # NoTree
    /\ rollback' = "clear"
    /\ UNCHANGED <<outsideRollback, install, previous, orphan, failed, crashes, ioFaults>>

RollbackClears ==
    /\ rollback = "clear"
    /\ failed' = NoTree /\ rollback' = "moveAside"
    /\ UNCHANGED <<outsideRollback, install, previous, orphan, crashes, ioFaults>>

RollbackMovesAside ==
    /\ rollback = "moveAside"
    /\ IF install # NoTree
         THEN failed' = install /\ install' = NoTree /\ rollback' = "restore"
         ELSE rollback' = "error" /\ UNCHANGED <<failed, install>>
    /\ UNCHANGED <<outsideRollback, previous, orphan, crashes, ioFaults>>

RollbackRestores ==
    /\ rollback = "restore"
    /\ IF previous # NoTree /\ install = NoTree
         THEN install' = previous /\ previous' = NoTree /\ rollback' = "none"
         ELSE rollback' = "error" /\ UNCHANGED <<install, previous>>
    /\ UNCHANGED <<outsideRollback, orphan, failed, crashes, ioFaults>>

RollbackKilled ==
    /\ rollback \in {"clear", "moveAside", "restore"} /\ crashes < MaxCrashes
    /\ crashes' = crashes + 1 /\ rollback' = "none"
    /\ UNCHANGED <<outsideRollback, install, previous, orphan, failed, ioFaults>>

Rollback == RollbackClears \/ RollbackMovesAside \/ RollbackRestores

-----------------------------------------------------------------------------
(* The work the drain gate is about *)

outsideWork == <<enabled, running, latest, cycleVars, fsVars, gitCheckout,
                 rollback, crashes, ioFaults>>

Admit == inFlight' = inFlight + 1 /\ work' = work + 1 /\ work < MaxWork

(* launchWork reads the gate once; the batch it starts claims without it. *)
LaunchWork ==
    /\ up /\ ~draining /\ ~batch /\ work < MaxWork
    /\ batch' = TRUE
    /\ UNCHANGED <<up, outsideWork, inFlight, armed, firing, work>>

BatchClaims ==
    /\ up /\ batch
    /\ \/ Admit /\ UNCHANGED batch
       \/ batch' = FALSE /\ UNCHANGED <<inFlight, work>>
    /\ UNCHANGED <<up, outsideWork, armed, firing>>

(* fireRoutine reads the gate before and after the reload it awaits. *)
FireRoutineBegins ==
    /\ up /\ ~draining /\ ~firing /\ work < MaxWork
    /\ firing' = TRUE
    /\ UNCHANGED <<up, outsideWork, inFlight, armed, batch, work>>

FireRoutineClaims ==
    /\ up /\ firing
    /\ firing' = FALSE
    /\ IF draining THEN UNCHANGED <<inFlight, work>> ELSE Admit
    /\ UNCHANGED <<up, outsideWork, armed, batch>>

(* reconcile(): waiting runs that go on, and resumed runs whose timer is armed. *)
ReconcileAdmits ==
    /\ up /\ ~draining
    /\ \/ Admit /\ UNCHANGED armed
       \/ armed' = armed + 1 /\ work' = work + 1 /\ work < MaxWork /\ UNCHANGED inFlight
    /\ UNCHANGED <<up, outsideWork, batch, firing>>

(* A fired retry, continuation or advance takes its slot without the gate. *)
TimerFires ==
    /\ up /\ armed > 0
    /\ armed' = armed - 1 /\ inFlight' \in {inFlight, inFlight + 1}
    /\ inFlight' <= MaxWork
    /\ UNCHANGED <<up, outsideWork, batch, firing, work>>

RunEnds ==
    /\ up /\ inFlight > 0
    /\ inFlight' = inFlight - 1
    /\ \/ UNCHANGED <<armed, work>>
       \/ armed' = armed + 1 /\ work' = work + 1 /\ work < MaxWork
    /\ UNCHANGED <<up, outsideWork, batch, firing>>

Work ==
    \/ LaunchWork \/ BatchClaims \/ FireRoutineBegins \/ FireRoutineClaims
    \/ ReconcileAdmits \/ TimerFires \/ RunEnds

UpdateNext ==
    \/ Tick \/ RunNow \/ Cycle \/ Work
    \/ Kill \/ StartDaemon \/ Publish \/ Toggle
    \/ RollbackBegins \/ Rollback \/ RollbackKilled

(* Promises settle, runs end (each has a deadline), timers fire. *)
UpdateFairness ==
    /\ WF_updateVars(Cycle)
    /\ WF_updateVars(RunEnds)
    /\ WF_updateVars(TimerFires)
    /\ WF_updateVars(BatchClaims)

UpdateSpec == UpdateInit /\ [][UpdateNext]_updateVars /\ UpdateFairness
-----------------------------------------------------------------------------
(* Properties *)

(* Nothing but a build that passed its own self-check is ever started, rolled
   back to, or kept as the generation to roll back to: partial staging trees of
   crashed, failed and halted cycles never reach the install path (stage.ts's
   "always wipes and rebuilds", the order of runCycle's phases). *)
OnlyCheckedBuildsGoLive ==
    \A tree \in {install, previous, orphan, failed} :
        tree # NoTree => tree.quality = "checked"

(* Whatever is killed, fails or interleaves during a cutover and a rollback, a
   complete build stays on disk under a name the code or the operator knows
   (the order of the renames in cutOverStagedRelease and
   rollbackToPreviousRelease). *)
GoodBuildOnDisk ==
    \E tree \in {install, previous, orphan, failed} : tree.quality = "checked"

(* runNow's safety net never speaks: "runCycle catches everything and reports on
   every exit path" (coordinator.ts:286). *)
EveryExitReports == caller # "unreported"

(* While the cycle sleeps for running work to end, the operator who forced it
   already has an answer (coordinator.ts:413). *)
AnsweredWhileDraining == phase = "draining" => caller # "waiting"

(* A drain is never left on: dispatch comes back after a halt, a failure, a
   refusal, a cutover without restart, or with the next process. *)
DrainClears == draining ~> ~draining

(* ADR 0079: the restart "runs against zero live work". It does not: a batch
   launched before the flag and every armed timer claim past the gate. *)
CutoverIsDrained == phase = "restart" => inFlight = 0

(* ADR 0079: "exactly one prior generation is kept". A cycle that ended without
   a restart installs the same release over itself, and the generation kept is
   no longer prior. *)
PriorGenerationKept ==
    previous # NoTree /\ install # NoTree => previous.v # install.v

(* cutover.ts: a crash between the two renames is "recoverable via `symphonika
   service rollback`". The rollback renames the missing install path first, and
   ends in an error. *)
RollbackRecovers ==
    ~up /\ install = NoTree /\ previous # NoTree => rollback # "error"

(* What holds of the update whenever it is looked at.                      *)
UpdateInvariant ==
    /\ UpdateTypeOK /\ OnlyCheckedBuildsGoLive /\ GoodBuildOnDisk
    /\ EveryExitReports /\ AnsweredWhileDraining
=============================================================================
