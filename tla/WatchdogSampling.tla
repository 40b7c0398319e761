--------------------------- MODULE WatchdogSampling ---------------------------
(***************************************************************************)
(* One Run under the sampled Watchdog: the passes of lifecycle/watchdog.ts *)
(* and watchdog-subject.ts, the rows of watchdog_samples and runs they     *)
(* write, the slot deadline of run-controller.ts, retries and cancels.     *)
(*                                                                         *)
(* Time is a set of ages: what the code reads off the clock is the age of  *)
(* the Run, of its idle clock and of the pass.  The normalized log is the  *)
(* sequence of events beyond the offset the sample has persisted, each     *)
(* with the tokens the attempt had used before it; a workspace is the      *)
(* digest of its shape.  An event is a usage report of one token or a      *)
(* message, which stands for every event whose mere presence is progress.  *)
(* A new turn id, which only an agent with running totals reports, is      *)
(* progress once, as its usage is.  A read of the log that fails counts as *)
(* one that has not happened: the offset stays, and the log beyond it.     *)
(***************************************************************************)
EXTENDS Integers, Sequences

CONSTANTS
    Grace,        \* watchdog.grace_minutes
    Budget,       \* watchdog.output_token_budget
    MaxRun,       \* watchdog.max_run_minutes, where a cap is configured
    MaxPass,      \* bound: the ticks one pass may last
    MaxAttempts,  \* bound: attempts of the Run
    MaxUnread,    \* bound: events the log holds beyond the offset
    MaxUsage,     \* bound: usage events of one attempt, each of one token
    MaxChurn      \* bound: changes and failed walks of the workspace

ASSUME SamplingBounds ==
    /\ {Grace, Budget, MaxRun, MaxAttempts} \subseteq Nat \ {0}
    /\ {MaxPass, MaxUnread, MaxUsage, MaxChurn} \subseteq Nat

VARIABLES
    subject,   \* the runs row, and its entry in the registry
    evidence,  \* what the agent leaves: log, workspace, and its real use
    sample,    \* the row of watchdog_samples
    pass       \* reconcileWatchdog's locals

samplingVars == <<subject, evidence, sample, pass>>

Verdicts == {"no_progress", "no_convergence", "run_timeout"}
Shapes == {"a", "b"}
Unreadable == "none"
AgeCap == Grace + MaxPass
Older(age, cap) == IF age < cap THEN age + 1 ELSE age

NoSample == [gen |-> 0, idle |-> -1, tokens |-> 0, shape |-> Unreadable]
NoPass == [at |-> "idle", gen |-> 0, age |-> 0, prev |-> NoSample, size |-> 0,
           seen |-> FALSE, used |-> 0, silence |-> 0]
FreshEvidence == [log |-> <<>>, used |-> 0, shape |-> "a", silence |-> 0]

(* idle = -1: idle_since is null.  silence: ticks without an event of the   *)
(* log; heard: that silence as the condemning pass read it.  seen, used:   *)
(* whether the pass read a message, and the tokens its events report.      *)
SamplingTypeOK ==
    /\ subject.state \in {"preparing", "running", "failed", "stale", "cancelled", "succeeded"}
    /\ subject.gen \in 1 .. MaxAttempts /\ subject.age \in 0 .. MaxRun
    /\ subject.reason \in Verdicts \cup {"none"}
    /\ subject.cancel \in Verdicts \cup {"none", "operator"}
    /\ {subject.slot, subject.cancelled, subject.capped, subject.totals} \subseteq BOOLEAN
    /\ subject.churn \in 0 .. MaxChurn /\ subject.heard \in 0 .. AgeCap
    /\ Len(evidence.log) <= MaxUnread /\ evidence.used \in 0 .. MaxUsage
    /\ evidence.silence \in 0 .. AgeCap /\ evidence.shape \in Shapes
    /\ sample.idle \in -1 .. AgeCap /\ sample.tokens \in Nat
    /\ pass.at \in {"idle", "listed", "read", "walk"} /\ pass.age \in 0 .. MaxPass
    /\ subject.state \in {"preparing", "running"} => subject.slot
    /\ ~subject.slot => subject.cancel = "none"

-----------------------------------------------------------------------------
(* The agent *)

(* The tokens used before the first event beyond size. *)
UsedAt(size) == IF size < Len(evidence.log) THEN evidence.log[size + 1] ELSE evidence.used

TokensAhead == evidence.used - UsedAt(0)

Emit(kind) ==
    /\ subject.state \in {"running", "stale"} /\ subject.slot
    /\ Len(evidence.log) < MaxUnread
    /\ kind = "usage" => evidence.used < MaxUsage
    /\ evidence' = [evidence EXCEPT !.log = Append(@, evidence.used), !.silence = 0,
                                    !.used = IF kind = "usage" THEN @ + 1 ELSE @]
    /\ UNCHANGED <<subject, sample, pass>>

TouchWorkspace(shape) ==
    /\ subject.state = "running" /\ shape # evidence.shape /\ subject.churn < MaxChurn
    /\ evidence' = [evidence EXCEPT !.shape = shape]
    /\ subject' = [subject EXCEPT !.churn = @ + 1]
    /\ UNCHANGED <<sample, pass>>

-----------------------------------------------------------------------------
(* A pass *)

(* The candidates are listed and the clock is read once for all of them.   *)
BeginPass ==
    /\ pass.at = "idle" /\ subject.state = "running"
    /\ pass' = [NoPass EXCEPT !.at = "listed", !.gen = subject.gen]
    /\ UNCHANGED <<subject, evidence, sample>>

(* The subject's turn: its previous sample is loaded, and the log's size    *)
(* asked for.                                                              *)
StatLog ==
    /\ pass.at = "listed"
    /\ pass' = [pass EXCEPT !.at = "read", !.prev = sample, !.size = Len(evidence.log),
                             !.silence = evidence.silence]
    /\ UNCHANGED <<subject, evidence, sample>>

(* Mutant: attempts are not told apart. *)
AnyGeneration(gen) == subject.state = "running"

isCurrentWatchdogGeneration(gen) == subject.state = "running" /\ subject.gen = gen

(* Of the events beyond the offset those that are not usage reports.       *)
MessagesAhead == Len(evidence.log) - TokensAhead

(* Nothing new at stat: the log is not opened.  Else the stream reads to    *)
(* the end of the log as it is now, not to the size stat saw.              *)
NormalizedEventsSince ==
    IF pass.size = 0 THEN pass
    ELSE [pass EXCEPT !.seen = MessagesAhead > 0,
                      !.used = IF subject.totals THEN evidence.used ELSE TokensAhead,
                      !.silence = evidence.silence]

(* The events are read, then the turn ids remembered behind the fence.     *)
ReadLog ==
    /\ pass.at = "read"
    /\ pass' = IF isCurrentWatchdogGeneration(pass.gen)
               THEN [NormalizedEventsSince EXCEPT !.at = "walk"]
               ELSE NoPass
    /\ UNCHANGED <<subject, evidence, sample>>

(* A running total is taken as it is, a message's count is added: a total   *)
(* that is read again does not advance, a count that is read again does.   *)
outputTokensTotal ==
    IF subject.totals
    THEN IF pass.used > pass.prev.tokens THEN pass.used ELSE pass.prev.tokens
    ELSE pass.prev.tokens + pass.used

watchdogProgressObserved(shape) ==
    /\ pass.prev # NoSample
    /\ \/ pass.seen \/ outputTokensTotal > pass.prev.tokens
       \/ pass.prev.shape # Unreadable /\ shape # pass.prev.shape

(* Mutant: every pass starts the clock anew. *)
IdleClockRestarted(progress) == IF progress THEN -1 ELSE pass.age

(* The age of idle_since after this sample: the clock starts at the pass's  *)
(* own start, and goes on as the previous sample had it.                   *)
watchdogIdleClock(progress) ==
    IF progress THEN -1 ELSE IF sample.idle # -1 THEN sample.idle ELSE pass.age

watchdogTerminalReason(idle, progress) ==
    IF subject.capped /\ subject.age - pass.age >= MaxRun THEN "run_timeout"
    ELSE IF outputTokensTotal >= Budget THEN "no_convergence"
    ELSE IF ~progress /\ idle # -1 /\ idle - pass.age >= Grace THEN "no_progress"
    ELSE "none"

(* casRunWatchdogStale's guard. *)
VerdictLands == ~subject.cancelled /\ subject.reason = "none"

(* The row turns stale and the entry, whose first cancel stays, is told.   *)
Condemned(reason) ==
    [subject EXCEPT !.state = "stale", !.reason = reason,
                    !.cancel = IF @ = "none" /\ subject.slot THEN reason ELSE @]

(* Mutant: the offset persisted is the end of the log by then. *)
NothingUnread == <<>>

(* The offset persisted is the size stat saw. *)
UnreadAfterPersist == SubSeq(evidence.log, pass.size + 1, Len(evidence.log))

(* The walk ends: the sample is persisted behind the fence, the verdict     *)
(* decided and written, and the cancel requested, without an await.        *)
Judge(shape) ==
    /\ pass.at = "walk"
    /\ shape = Unreadable => subject.churn < MaxChurn
    /\ pass' = NoPass
    /\ IF ~isCurrentWatchdogGeneration(pass.gen)
       THEN UNCHANGED <<subject, evidence, sample>>
       ELSE LET progress == watchdogProgressObserved(shape)
                idle == watchdogIdleClock(progress)
                reason == watchdogTerminalReason(idle, progress)
                seen == [subject EXCEPT !.churn = IF shape = Unreadable THEN @ + 1 ELSE @]
            IN  /\ sample' = [gen |-> pass.gen, idle |-> idle,
                              tokens |-> outputTokensTotal, shape |-> shape]
                /\ evidence' = [evidence EXCEPT !.log = UnreadAfterPersist]
                /\ subject' = IF reason # "none" /\ VerdictLands
                              THEN [Condemned(reason) EXCEPT !.churn = seen.churn,
                                                             !.heard = pass.silence]
                              ELSE seen

-----------------------------------------------------------------------------
(* The clock, the deadline, the operator and the attempts *)

(* The idle age is measured on the row; a pass lasts at most MaxPass ticks. *)
ClockTick ==
    /\ subject.slot \/ subject.state = "failed"
    /\ pass.at # "idle" => pass.age < MaxPass
    /\ pass' = IF pass.at = "idle" THEN pass ELSE [pass EXCEPT !.age = @ + 1]
    /\ subject' = [subject EXCEPT !.age = IF subject.capped THEN Older(@, MaxRun) ELSE @]
    /\ evidence' = [evidence EXCEPT !.silence = Older(@, AgeCap)]
    /\ sample' = [sample EXCEPT !.idle = IF @ = -1 THEN -1 ELSE Older(@, AgeCap)]

(* The deadline of a slot: any state of the row, no fence.                 *)
SlotDeadline ==
    /\ subject.capped /\ subject.slot /\ subject.age = MaxRun /\ VerdictLands
    /\ subject' = Condemned("run_timeout")
    /\ UNCHANGED <<evidence, sample, pass>>

OperatorCancels ==
    /\ subject.state \in {"preparing", "running"} /\ ~subject.cancelled
    /\ subject' = [subject EXCEPT !.cancelled = TRUE,
                                  !.cancel = IF @ = "none" THEN "operator" ELSE @]
    /\ UNCHANGED <<evidence, sample, pass>>

(* Preparation may overwrite a stale row; the cancel is checked after it.  *)
FinishPreparing ==
    /\ subject.state = "preparing" /\ subject.cancel = "none"
    /\ subject' = [subject EXCEPT !.state = "running"]
    /\ UNCHANGED <<evidence, sample, pass>>

(* The attempt settles: a Watchdog's reason is asserted again, unless an    *)
(* operator's cancel was recorded.                                         *)
SettleAttempt(outcome) ==
    /\ subject.slot
    /\ subject.state = "preparing" => subject.cancel # "none"
    /\ subject' = [subject EXCEPT
         !.slot = FALSE, !.cancel = "none",
         !.state = IF subject.reason # "none" /\ ~subject.cancelled THEN "stale"
                   ELSE IF subject.cancelled THEN "cancelled" ELSE outcome]
    /\ UNCHANGED <<evidence, sample, pass>>

SampleOfNewAttempt == NoSample

(* updateRunState(preparing_workspace): the fence advances, the sample of   *)
(* the attempt before is deleted; its log is a new file.                   *)
RetryStarts ==
    /\ subject.state = "failed" /\ subject.gen < MaxAttempts
    /\ subject' = [subject EXCEPT !.state = "preparing", !.gen = @ + 1, !.slot = TRUE]
    /\ sample' = SampleOfNewAttempt
    /\ evidence' = FreshEvidence
    /\ UNCHANGED pass

-----------------------------------------------------------------------------
FirstAttempt(capped, totals) ==
    [state |-> "preparing", gen |-> 1, reason |-> "none", cancelled |-> FALSE,
     slot |-> TRUE, cancel |-> "none", age |-> 0, capped |-> capped, totals |-> totals,
     churn |-> 0, heard |-> 0]

SamplingInit ==
    /\ \E capped, totals \in BOOLEAN : subject = FirstAttempt(capped, totals)
    /\ evidence = FreshEvidence /\ sample = NoSample /\ pass = NoPass

PassSteps == StatLog \/ ReadLog \/ \E s \in Shapes \cup {Unreadable} :
                 s \in {Unreadable, evidence.shape} /\ Judge(s)

SamplingNext ==
    \/ \E kind \in {"usage", "message"} : Emit(kind)
    \/ \E shape \in Shapes : TouchWorkspace(shape)
    \/ \E outcome \in {"failed", "succeeded"} : SettleAttempt(outcome)
    \/ BeginPass \/ PassSteps \/ ClockTick \/ SlotDeadline \/ OperatorCancels
    \/ FinishPreparing \/ RetryStarts

(* Time passes, the timer of the passes fires, their files are read, and an *)
(* attempt that was told to cancel settles.                                *)
SamplingFairness ==
    /\ WF_samplingVars(ClockTick) /\ WF_samplingVars(BeginPass) /\ WF_samplingVars(PassSteps)
    /\ WF_samplingVars(FinishPreparing)
    /\ WF_samplingVars(subject.cancel # "none" /\ SettleAttempt("failed"))

SamplingSpec == SamplingInit /\ [][SamplingNext]_samplingVars /\ SamplingFairness

-----------------------------------------------------------------------------
(* What makes SamplingInvariant inductive *)

SubjectStates == {"preparing", "running", "failed", "stale", "cancelled", "succeeded"}
SubjectRow == [state : SubjectStates, gen : 1 .. MaxAttempts, reason : Verdicts \cup {"none"},
               cancelled : BOOLEAN, slot : BOOLEAN, cancel : Verdicts \cup {"none", "operator"},
               age : 0 .. MaxRun, capped : BOOLEAN, totals : BOOLEAN, churn : 0 .. MaxChurn,
               heard : 0 .. AgeCap]
Evidence == [log : Seq(Nat), used : 0 .. MaxUsage, shape : Shapes, silence : 0 .. AgeCap]
SampleRow == [gen : Nat, idle : -1 .. AgeCap, tokens : Nat, shape : Shapes \cup {Unreadable}]
PassLocals == [at : {"idle", "listed", "read", "walk"}, gen : Nat, age : 0 .. MaxPass,
               prev : SampleRow, size : Nat, seen : BOOLEAN, used : Nat, silence : 0 .. AgeCap]

SamplingRecords ==
    /\ subject \in SubjectRow /\ evidence \in Evidence
    /\ sample \in SampleRow /\ pass \in PassLocals

SubjectFits ==
    /\ subject.state \in {"preparing", "running"} => subject.slot
    /\ ~subject.slot => subject.cancel = "none"
    /\ subject.state = "failed" => ~subject.slot /\ subject.reason = "none"
    /\ subject.cancel \in Verdicts => subject.reason = subject.cancel
    /\ subject.slot /\ subject.reason # "none" => subject.cancel # "none"
    /\ subject.reason = "no_progress" => subject.heard >= Grace - MaxPass
    /\ subject.totals /\ subject.reason = "no_convergence" => evidence.used >= Budget

(* Each event beyond the offset used one token or none.                    *)
LogFits ==
    /\ Len(evidence.log) <= MaxUnread
    /\ \A i \in 0 .. Len(evidence.log) : \A j \in i .. Len(evidence.log) :
         UsedAt(i) <= UsedAt(j) /\ UsedAt(j) <= UsedAt(i) + (j - i)

(* Beyond the offset there is nothing a pass would take for progress: with  *)
(* running totals a usage may lie there that an earlier pass read too far.  *)
NothingNew ==
    /\ MessagesAhead <= 0
    /\ IF subject.totals THEN evidence.used <= sample.tokens ELSE evidence.log = <<>>

(* Until something new lands beyond the offset, the idle clock is ahead of  *)
(* the silence by no more than the pass that started it took.              *)
SampleFits ==
    /\ sample # NoSample => sample.gen = subject.gen
    /\ sample.tokens >= UsedAt(0)
    /\ subject.totals => sample.tokens <= evidence.used
    /\ NothingNew /\ sample.idle # -1 => evidence.silence >= sample.idle - MaxPass

(* What a pass of the attempt that runs has loaded and read still stands    *)
(* for the sample and the log, whatever the agent appended since.          *)
PassIsCurrent == pass.at \in {"read", "walk"} /\ pass.gen = subject.gen
NothingRead == ~pass.seen /\ outputTokensTotal <= pass.prev.tokens
HeardWithinPass == sample.idle # -1 => pass.silence >= sample.idle - pass.age - MaxPass
PassFits ==
    /\ pass.at # "idle" => pass.gen <= subject.gen
    /\ pass.at # "walk" => ~pass.seen /\ pass.used = 0
    /\ PassIsCurrent =>
         /\ pass.size <= Len(evidence.log)
         /\ pass.prev.tokens = sample.tokens
         /\ (pass.prev.idle = -1) = (sample.idle = -1)
    /\ PassIsCurrent /\ pass.at = "read" /\ pass.size = 0 => HeardWithinPass
    /\ PassIsCurrent /\ pass.at = "walk" =>
         /\ outputTokensTotal >= UsedAt(pass.size)
         /\ subject.totals => pass.used <= evidence.used
         /\ NothingRead => HeardWithinPass
         /\ NothingRead /\ pass.size > 0 =>
              subject.totals /\ UsedAt(pass.size) - UsedAt(0) >= pass.size

SamplingInv == SamplingRecords /\ SubjectFits /\ LogFits /\ SampleFits /\ PassFits

-----------------------------------------------------------------------------
(* Properties *)

(* A Run condemned for no_progress had really written nothing for the whole *)
(* grace, up to the length of the pass that started its idle clock: no race *)
(* of the reads with the agent, and no earlier attempt, shortens it.       *)
QuietWholeGrace == subject.reason = "no_progress" => subject.heard >= Grace - MaxPass

(* A sample is of the attempt that runs: a pass that outlives the attempt   *)
(* it listed writes neither its idle clock nor its tokens into the next.   *)
SampleOfThisAttempt == sample # NoSample => sample.gen = subject.gen

(* Sampled pass and slot deadline condemn independently: one verdict lands, *)
(* the attempt is cancelled under its name, and a condemned Run that still  *)
(* holds its slot has been told.                                           *)
OneVerdictIsTold ==
    /\ subject.cancel \in Verdicts => subject.reason = subject.cancel
    /\ subject.slot /\ subject.reason # "none" => subject.cancel # "none"

(* No token escapes the budget: each one used is counted or still ahead of  *)
(* the offset, however reads and appends interleave.                       *)
EveryTokenCounted == sample.tokens + TokensAhead >= evidence.used

(* Where providers report running totals, the budget condemns for nothing   *)
(* that was not used.                                                      *)
BudgetOfRealTotals ==
    subject.totals /\ subject.reason = "no_convergence" => evidence.used >= Budget

(* An agent that falls silent for good does not keep its slot.             *)
RunsThatFallSilentEnd ==
    []<>(evidence.silence < AgeCap \/ ~subject.slot)

(* ADR 0086: both shapes of usage "reduce to a true cumulative per attempt, *)
(* which is what the budget compares against".  The stream reads past the   *)
(* size that is persisted as the offset; what it saw there is added again.  *)
TrueCumulative == sample.tokens <= evidence.used

(* The evidence of a verdict is real, the attempt's own, and told once.     *)
SamplingInvariant ==
    /\ SamplingTypeOK /\ QuietWholeGrace /\ SampleOfThisAttempt /\ OneVerdictIsTold
    /\ EveryTokenCounted /\ BudgetOfRealTotals
===============================================================================
