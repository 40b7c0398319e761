---------------------------- MODULE RoutineFiring -----------------------------
(***************************************************************************)
(* The execution of one Routine Firing: runRoutineFiring of routines/      *)
(* dispatcher.ts with its GitHub observation, the registry entry and the   *)
(* row of routine_firings, the operator's cancel, the Watchdog's verdict   *)
(* and its alert, a stop, a crash and the sweep of the next start.         *)
(*                                                                         *)
(* Two bounds race every wait on GitHub and Git: the declared deadline,    *)
(* and the settlement clock a cancel starts.  From some moment on GitHub   *)
(* may never answer; local Git does.                                       *)
(***************************************************************************)
EXTENDS Integers

CONSTANTS MaxStops   \* bound: crashes and stops

ASSUME FiringBounds == MaxStops \in Nat

VARIABLES
    row,          \* routine_firings
    exec,         \* runRoutineFiring's locals and the registry entry
    githubHangs,
    daemon,
    told,         \* no_progress alerts handed to the health notifier
    halts

firingVars == <<row, exec, githubHangs, daemon, told, halts>>

Active == {"preparing_workspace", "running"}
Settled == {"succeeded", "failed", "cancelled"}
Cancels == {"operator", "daemon_shutdown", "no_progress"}

NoRow == [state |-> "none", reason |-> "none", cancelReason |-> "none", alert |-> FALSE,
          scope |-> FALSE, prs |-> FALSE, note |-> "none"]
(* at: where the execution waits.  before: the GitHub snapshot before the   *)
(* provider; settle: the provider of an expired firing; inspect: snapshot   *)
(* and commits of a failed one; tail: its stderr and claim file.            *)
NotExecuting == [at |-> "none", cancel |-> "none", settling |-> "no", deadline |-> "none",
                 provider |-> "none", prepared |-> FALSE, snapshot |-> FALSE,
                 verdict |-> "none", heard |-> "none", discovering |-> FALSE]

FiringTypeOK ==
    /\ row.state \in {"none"} \cup Active \cup Settled
    /\ row.reason \in {"none", "cancelled", "no_progress", "firing_timeout", "error", "leaked"}
    /\ row.cancelReason \in Cancels \cup {"none"}
    /\ {row.alert, row.scope, row.prs} \subseteq BOOLEAN
    /\ row.note \in {"none", "owed", "sent", "failed"}
    /\ exec.at \in {"none", "prepare", "before", "provide", "classify", "enrich",
                    "settle", "inspect", "tail", "done"}
    /\ {exec.cancel, exec.heard} \subseteq Cancels \cup {"none"}
    /\ exec.settling \in {"no", "armed", "elapsed"}
    /\ exec.deadline \in {"none", "armed", "expired", "cleared"}
    /\ exec.provider \in {"none", "running", "ended"}
    /\ exec.at = "provide" => exec.provider = "running"
    /\ exec.at \in {"none", "done"} /\ daemon # "down" => row.state \notin Active
    /\ exec.at \notin {"none", "done"} => row.state \in Active
    /\ told \in 0 .. 2 /\ halts \in 0 .. MaxStops /\ daemon \in {"up", "stopping", "down"}

Execute(r, e) ==
    /\ daemon # "down" /\ row' = r /\ exec' = e
    /\ UNCHANGED <<githubHangs, daemon, told, halts>>

-----------------------------------------------------------------------------
(* The try block *)

(* Claimed, its slot reserved and the preparation started in one step.     *)
BeginFiring(bounded) ==
    /\ row = NoRow /\ daemon = "up"
    /\ Execute([row EXCEPT !.state = "preparing_workspace"],
               [NotExecuting EXCEPT !.at = "prepare",
                                    !.deadline = IF bounded THEN "armed" ELSE "none"])

(* Workspace, evidence and validation are done; the provider's cancel is    *)
(* attached, and one that already came starts the settlement clock.        *)
Prepared ==
    /\ exec.at = "prepare"
    /\ Execute([row EXCEPT !.state = "running"],
               [exec EXCEPT !.prepared = TRUE,
                            !.settling = IF exec.cancel = "none" THEN "no" ELSE "armed",
                            !.at = IF exec.cancel = "none" THEN "before" ELSE "inspect"])

(* The provider is started unless a cancel landed during the snapshot; a    *)
(* Project without a tracker takes none.                                   *)
StartProvider(scoped, snapshot) ==
    /\ exec.at = "before"
    /\ githubHangs => ~snapshot
    /\ IF exec.cancel = "none"
       THEN Execute([row EXCEPT !.scope = scoped],
                    [exec EXCEPT !.at = "provide", !.provider = "running", !.snapshot = snapshot])
       ELSE Execute(row, [exec EXCEPT !.at = "inspect"])

(* The stream ends; the scope of its processes is confirmed stopped or not. *)
ProviderEnds(confirmed) ==
    /\ exec.provider = "running"
    /\ Execute([row EXCEPT !.scope = @ /\ ~confirmed],
               [exec EXCEPT !.provider = "ended",
                            !.at = IF @ = "provide" THEN "classify" ELSE @])

CancelOutcome(cancel) == IF cancel = "no_progress" THEN "no_progress" ELSE "cancelled"

(* The outcome is classified and the deadline cleared; discovery of pull    *)
(* requests and verification of the claim begin.                           *)
Classify(succeeded) ==
    /\ exec.at = "classify"
    /\ githubHangs => ~exec.snapshot
    /\ Execute(row, [exec EXCEPT !.at = "enrich",
                       !.deadline = IF @ = "none" THEN "none" ELSE "cleared",
                       !.discovering = TRUE,
                       !.verdict = IF succeeded THEN "succeeded" ELSE "error"])

(* Mutant: an answer that arrives late is recorded. *)
RecordAlways == TRUE

firingStillRunning == row.state = "running"

(* GitHub answers the discovery, maybe after the firing abandoned it.      *)
DiscoveryAnswers(found) ==
    /\ exec.discovering /\ ~githubHangs
    /\ Execute([row EXCEPT !.prs = @ \/ (found /\ firingStillRunning)],
               [exec EXCEPT !.discovering = FALSE])

(* The one write of the verdict.  The Watchdog's durable latch wins, unless *)
(* the declared deadline decided; a shutdown's reason is never overwritten. *)
completeRoutineFiring(verdict, deadlineWon) ==
    LET latched == row.cancelReason = "no_progress" /\ ~deadlineWon
    IN  [row EXCEPT !.state = IF latched THEN "failed"
                              ELSE IF verdict \in {"succeeded", "cancelled"} THEN verdict
                              ELSE "failed",
                    !.reason = IF latched THEN "no_progress"
                               ELSE IF verdict = "succeeded" THEN "none" ELSE verdict,
                    !.cancelReason = IF exec.cancel = "none" \/ @ = "daemon_shutdown" THEN @
                                     ELSE exec.cancel]

CompleteInTry ==
    /\ exec.at = "enrich" /\ ~exec.discovering
    /\ Execute(completeRoutineFiring(IF exec.cancel = "none" THEN exec.verdict
                                     ELSE CancelOutcome(exec.cancel), FALSE),
               [exec EXCEPT !.at = "done"])

-----------------------------------------------------------------------------
(* The two bounds and the catch block *)

(* An await of the try block fails by itself. *)
AwaitFails(prepared) ==
    /\ exec.at \in {"prepare", "before", "provide", "classify"}
    /\ exec.at # "prepare" => prepared = exec.prepared
    /\ Execute(row, [exec EXCEPT !.at = "inspect", !.prepared = prepared,
                                 !.provider = IF @ = "running" THEN "ended" ELSE @])

(* The deadline rejects the wait it races: the provider is cancelled and    *)
(* waited for.  In the catch block it is noticed by the inspections.       *)
DeadlineExpires ==
    /\ exec.deadline = "armed"
    /\ exec.at \in {"prepare", "before", "provide", "classify"}
         \/ (exec.at = "inspect" /\ exec.prepared)
    /\ Execute(row, [exec EXCEPT !.deadline = "expired",
                                 !.at = IF @ = "inspect" THEN @ ELSE "settle"])

SettlementElapses ==
    /\ exec.settling = "armed" /\ exec.at \notin {"none", "done"}
    /\ Execute(row, [exec EXCEPT !.settling = "elapsed"])

(* Mutant: only the deadline bounds the waits of a cancelled firing. *)
RacedByNothing == {}

RacedBySettlement == {"before", "classify", "enrich"}

AbandonCancelled ==
    /\ exec.settling = "elapsed" /\ exec.at \in RacedBySettlement
    /\ Execute(row, [exec EXCEPT !.at = "inspect"])

(* The abandoned preparation and the provider have really stopped.         *)
ExpiredFiringSettles(prepared) ==
    /\ exec.at = "settle" /\ exec.provider # "running"
    /\ exec.prepared => prepared
    /\ Execute(row, [exec EXCEPT !.at = "inspect", !.prepared = prepared])

(* Mutant: the entry is not read again after the inspections. *)
JudgeNoCancel(e) == IF e.deadline = "expired" THEN "firing_timeout" ELSE "error"

FailureVerdict(e) ==
    IF e.deadline = "expired" THEN "firing_timeout"
    ELSE IF e.cancel # "none" THEN CancelOutcome(e.cancel) ELSE "error"

(* Snapshot and commits are read, or abandoned by one of the bounds.       *)
JudgeFailure ==
    /\ exec.at = "inspect"
    /\ githubHangs /\ exec.snapshot => exec.settling = "elapsed" \/ exec.deadline = "expired"
    /\ Execute(row, [exec EXCEPT !.at = "tail", !.verdict = FailureVerdict(exec),
                                 !.heard = exec.cancel])

CompleteInCatch ==
    /\ exec.at = "tail"
    /\ Execute(completeRoutineFiring(exec.verdict, exec.verdict = "firing_timeout"),
               [exec EXCEPT !.at = "done"])

(* The slot is released, and the firing's own notification enqueued.       *)
ReleaseSlot ==
    /\ exec.at = "done"
    /\ Execute([row EXCEPT !.note = "owed"],
               [NotExecuting EXCEPT !.discovering = exec.discovering])

(* deliverNotificationBestEffort: two attempts under one timeout.          *)
NotificationDelivered(sent) ==
    /\ row.note = "owed"
    /\ Execute([row EXCEPT !.note = IF sent THEN "sent" ELSE "failed"], exec)

-----------------------------------------------------------------------------
(* Cancels *)

MarkedCancel(r, reason) ==
    [r EXCEPT !.cancelReason = IF @ \in {"daemon_shutdown", "no_progress"} THEN @ ELSE reason]

(* The entry's first cancel stays; its handler exists once attached.       *)
Requested(reason) ==
    IF exec.cancel # "none" THEN exec
    ELSE [exec EXCEPT !.cancel = reason,
                      !.settling = IF exec.prepared /\ exec.at # "prepare" THEN "armed" ELSE @]

cancelViaUi ==
    /\ row.state \in Active /\ exec.at # "none"
    /\ Execute(MarkedCancel(row, "operator"), Requested("operator"))

(* The verdict is latched in the row and the entry cancelled in one step.  *)
markRoutineFiringWatchdogNoProgress ==
    /\ row.state = "running" /\ row.cancelReason = "none"
    /\ Execute([row EXCEPT !.cancelReason = "no_progress", !.alert = TRUE],
               Requested("no_progress"))

AlertSettled == row.state \in Settled /\ ~row.scope

claimSettledRoutineWatchdogTerminations ==
    /\ daemon # "down" /\ row.alert /\ AlertSettled
    /\ row' = [row EXCEPT !.alert = FALSE]
    /\ told' = IF row.reason = "no_progress" THEN told + 1 ELSE told
    /\ UNCHANGED <<exec, githubHangs, daemon, halts>>

-----------------------------------------------------------------------------
(* Stop, crash and start *)

StopDaemon ==
    /\ daemon = "up" /\ halts < MaxStops /\ halts' = halts + 1
    /\ daemon' = "stopping"
    /\ IF exec.at = "none" THEN UNCHANGED <<row, exec>>
       ELSE /\ row' = MarkedCancel(row, "daemon_shutdown")
            /\ exec' = [Requested("daemon_shutdown") EXCEPT !.cancel = "daemon_shutdown"]
    /\ UNCHANGED <<githubHangs, told>>

(* The stop waits for the execution and for its notification. *)
StopCompletes ==
    /\ daemon = "stopping" /\ exec.at = "none" /\ row.note # "owed"
    /\ daemon' = "down" /\ exec' = NotExecuting
    /\ UNCHANGED <<row, githubHangs, told, halts>>

CrashDaemon ==
    /\ daemon # "down" /\ halts < MaxStops /\ halts' = halts + 1
    /\ daemon' = "down" /\ exec' = NotExecuting
    /\ UNCHANGED <<row, githubHangs, told>>

markRoutineFiringsFailed(r) ==
    IF r.state \in Active
    THEN [r EXCEPT !.state = "failed",
                   !.reason = IF r.cancelReason = "no_progress" THEN "no_progress" ELSE "leaked"]
    ELSE r

StartAndSweep(confirmed) ==
    /\ daemon = "down" /\ daemon' = "up"
    /\ row' = [markRoutineFiringsFailed(row) EXCEPT !.scope = @ /\ ~confirmed]
    /\ UNCHANGED <<exec, githubHangs, told, halts>>

GitHubHangs ==
    /\ ~githubHangs /\ githubHangs' = TRUE
    /\ UNCHANGED <<row, exec, daemon, told, halts>>

-----------------------------------------------------------------------------
FiringInit ==
    /\ row = NoRow /\ exec = NotExecuting /\ githubHangs = FALSE
    /\ daemon = "up" /\ told = 0 /\ halts = 0

FiringNext ==
    \/ \E b \in BOOLEAN : \/ BeginFiring(b)
                          \/ ProviderEnds(b)
                          \/ Classify(b)
                          \/ DiscoveryAnswers(b)
                          \/ AwaitFails(b)
                          \/ ExpiredFiringSettles(b)
                          \/ NotificationDelivered(b)
                          \/ StartAndSweep(b)
    \/ \E scoped, snapshot \in BOOLEAN : StartProvider(scoped, snapshot)
    \/ Prepared
    \/ GitHubHangs
    \/ CompleteInTry
    \/ DeadlineExpires
    \/ SettlementElapses
    \/ AbandonCancelled
    \/ JudgeFailure
    \/ CompleteInCatch
    \/ ReleaseSlot
    \/ cancelViaUi
    \/ markRoutineFiringWatchdogNoProgress
    \/ claimSettledRoutineWatchdogTerminations
    \/ StopDaemon
    \/ StopCompletes
    \/ CrashDaemon

(* Local work ends and timers fire; a provider ends once its cancel was     *)
(* called; GitHub owes nothing.                                            *)
FiringFairness ==
    /\ WF_firingVars(Prepared) /\ WF_firingVars(\E a, b \in BOOLEAN : StartProvider(a, b))
    /\ WF_firingVars(/\ exec.cancel # "none" \/ exec.at = "settle"
                     /\ \E b \in BOOLEAN : ProviderEnds(b))
    /\ WF_firingVars(\E b \in BOOLEAN : Classify(b))
    /\ WF_firingVars(\E b \in BOOLEAN : DiscoveryAnswers(b))
    /\ WF_firingVars(CompleteInTry) /\ WF_firingVars(DeadlineExpires)
    /\ WF_firingVars(SettlementElapses) /\ WF_firingVars(AbandonCancelled)
    /\ WF_firingVars(\E b \in BOOLEAN : ExpiredFiringSettles(b))
    /\ WF_firingVars(JudgeFailure) /\ WF_firingVars(CompleteInCatch)
    /\ WF_firingVars(ReleaseSlot) /\ WF_firingVars(\E b \in BOOLEAN : NotificationDelivered(b))
    /\ WF_firingVars(claimSettledRoutineWatchdogTerminations)
    /\ WF_firingVars(StopCompletes) /\ WF_firingVars(\E b \in BOOLEAN : StartAndSweep(b))

FiringSpec == FiringInit /\ [][FiringNext]_firingVars /\ FiringFairness

-----------------------------------------------------------------------------
(* Properties *)

(* A firing the Watchdog condemned ends failed with no_progress, whatever   *)
(* its provider reported, an operator asked or a crash cut short; only its  *)
(* own deadline outranks the verdict.                                      *)
CondemnedFiringFails ==
    row.alert /\ row.state \in Settled => row.reason \in {"no_progress", "firing_timeout"}

(* A deadline that expired while the firing was raced against it is what   *)
(* the row says, whatever cancel or verdict came along.                    *)
DeadlineWins ==
    exec.at = "done" /\ exec.deadline = "expired" => row.reason = "firing_timeout"

(* A cancel heard before the failure was judged is never told as a failure *)
(* of the firing's own.                                                    *)
HeardCancelIsTold ==
    exec.at = "done" /\ exec.heard # "none"
        => row.reason \in {"cancelled", "no_progress", "firing_timeout"}

(* A settled firing keeps its verdict and its evidence: no late answer of   *)
(* GitHub, sweep or cancel rewrites what its fan-out has summarised.       *)
FiringVerdictIsFinal ==
    [][row.state \in Settled
         => row'.state = row.state /\ row'.reason = row.reason /\ row'.prs = row.prs]_firingVars

(* The operators hear of a condemned firing at most once, and not before   *)
(* its verdict and the cleanup of its processes are settled.               *)
AlertToldOnce ==
    /\ told <= 1
    /\ told = 1 => row.reason = "no_progress" /\ row.state = "failed" /\ ~row.scope
    /\ row.alert => told = 0

(* A cancelled firing ends, also when GitHub never answers: a cancel, a     *)
(* verdict of the Watchdog or a stop is not held up by a wait.             *)
CancelledFiringEnds == exec.cancel # "none" ~> exec.at = "none"

(* A stop with a firing in flight completes. *)
StopDrainsFiring == daemon = "stopping" ~> daemon = "down"

(* The row of a firing tells what happened to it, and says it once.        *)
FiringInvariant ==
    FiringTypeOK /\ CondemnedFiringFails /\ DeadlineWins /\ HeardCancelIsTold /\ AlertToldOnce

(* A firing that was asked to end does, alone or with the daemon.          *)
FiringsEnd == CancelledFiringEnds /\ StopDrainsFiring
===============================================================================
