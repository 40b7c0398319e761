--------------------------- MODULE ProviderProcess ---------------------------
(***************************************************************************)
(* One Run's provider processes: the session of an attempt                 *)
(* (providers/provider-session.ts with the claude and codex turns), the    *)
(* detached supervisor and its guardian, the shutdown of the process group *)
(* (providers/provider-process.ts) and the systemd scope the provider may  *)
(* run in (lifecycle/process-scope.ts), with the daemon's startup sweep of *)
(* the scopes an earlier daemon left behind.                               *)
(*                                                                         *)
(* The daemon and the supervisor talk over an IPC pipe; the daemon also    *)
(* sees the supervisor's death (`exit`), the end of the pipe               *)
(* (`disconnect`) and the end of the output (`close`), in any order the    *)
(* event loop may read them.                                               *)
(***************************************************************************)
EXTENDS Naturals, Sequences

CONSTANTS
    Scoped,        \* the adapters whose probe finds a systemd user manager
    MaxAttempts,   \* bound: attempts of the Run
    MaxOutputs,    \* bound: ended turns and failures of one provider
    MaxQueued,     \* bound: messages the session has not read yet
    MaxFaults      \* bound: crashes, lost guardians, failing consumers,
                   \* unconfirmed stops and stalls of the daemon's event loop

Adapters == {"claude", "codex"}

ASSUME ProcessBounds ==
    /\ Scoped \subseteq Adapters
    /\ {MaxAttempts, MaxOutputs, MaxQueued} \subseteq Nat \ {0}
    /\ MaxFaults \in Nat

Attempts == 1 .. MaxAttempts
Streaming == 4    \* the turn runs; 1 .. 3 await a response of the handshake
Draining == 0     \* everything up to the exit is read and nothing acted on

VARIABLES
    attempt,
    session,    \* the runAttempt generator and its entry in activeRuns
    scopes,     \* live scopes of earlier attempts, and the durable obligations
    group,      \* ProviderProcessGroupState
    shutdown,   \* ProviderShutdownState and where its promise stands
    wire,       \* the pipes between the daemon and the supervisor
    tree,       \* the processes
    queue,      \* items the session has not read
    outputs,
    report,     \* the process_exit event the consumer was given
    stalled,    \* a timer overtook messages already in the pipe
    faults

processVars ==
    <<attempt, session, scopes, group, shutdown, wire, tree, queue, outputs,
      report, stalled, faults>>

Results == {"none", "own", "killed", "unlaunched"}
Messages == {"group-ready", "group-released", "provider-exited",
             "shutdown-ready", "shutdown-unavailable"}
Items == {"answer", "ended", "failed", "exit"}

Session(adapter, at) ==
    [at |-> at, adapter |-> adapter,
     step |-> IF adapter = "codex" THEN 1 ELSE Streaming,
     listed |-> FALSE, cancelled |-> FALSE, wrapped |-> FALSE]
NoGroup == [reserved |-> FALSE, exit |-> "none", preserve |-> FALSE]
NoShutdown == [at |-> "none", cancel |-> FALSE, timer |-> FALSE, destroyed |-> FALSE]
NoWire == [up |-> <<>>, down |-> FALSE, open |-> TRUE, exitSeen |-> FALSE, closed |-> FALSE]
NoTree == [super |-> "none", asked |-> FALSE, termed |-> FALSE, reply |-> FALSE,
           guardian |-> "none", provider |-> "none", result |-> "none",
           survivor |-> "none", holds |-> FALSE, exit |-> "none"]

ProcessTypeOK ==
    /\ attempt \in Attempts
    /\ session \in [at : {"idle", "probing", "marked", "reading", "shutting",
                          "stopping", "over", "down", "swept"},
                    adapter : Adapters, step : 0 .. Streaming,
                    listed : BOOLEAN, cancelled : BOOLEAN, wrapped : BOOLEAN]
    /\ scopes \in [live : SUBSET Attempts, owed : SUBSET Attempts, runOwes : BOOLEAN]
    /\ group \in [reserved : BOOLEAN, exit : Results, preserve : BOOLEAN]
    /\ shutdown \in [at : {"none", "reserving", "eof", "eofRest", "term",
                           "termRest", "over", "refused"},
                     cancel : BOOLEAN, timer : BOOLEAN, destroyed : BOOLEAN]
    /\ wire \in [up : Seq(Messages), down : BOOLEAN, open : BOOLEAN,
                 exitSeen : BOOLEAN, closed : BOOLEAN]
    /\ tree \in [super : {"none", "starting", "announced", "suppressed", "running",
                          "delaying", "released", "closing", "gone"},
                 asked : BOOLEAN, termed : BOOLEAN, reply : BOOLEAN,
                 guardian : {"none", "starting", "ready", "gone"},
                 provider : {"none", "alive", "gone"}, result : Results,
                 survivor : {"none", "group", "detached"},
                 holds : BOOLEAN, exit : Results]
    /\ queue \in Seq(Items) /\ outputs \in 0 .. MaxOutputs
    /\ report \in [exit : Results, cancelled : BOOLEAN]
    /\ stalled \in BOOLEAN /\ faults \in 0 .. MaxFaults

-----------------------------------------------------------------------------
(* The process tree.                                                       *)

SupervisorAlive(t) == t.super \notin {"none", "gone"}
ScriptSettled(t) == t.super \in {"delaying", "released", "closing", "gone"}
GroupEmpty(t) ==
    /\ ~SupervisorAlive(t) /\ t.guardian \in {"none", "gone"}
    /\ t.provider # "alive" /\ t.survivor # "group"
InScope(t) == t.provider = "alive" \/ t.survivor \in {"group", "detached"}

\* The provider and what it left behind die; a survivor outside the group only
\* when the whole scope is stopped.
WithoutProvider(t, whole) ==
    LET dies == \/ t.survivor = "group"
                \/ whole /\ t.survivor = "detached"
    IN [t EXCEPT !.provider = IF @ = "alive" THEN "gone" ELSE @,
                 !.result = IF t.provider = "alive" THEN "killed" ELSE @,
                 !.survivor = IF dies THEN "none" ELSE @,
                 !.holds = @ /\ ~dies]

GroupKilled(t) ==
    [WithoutProvider(t, FALSE) EXCEPT
        !.super = IF t.super = "none" THEN "none" ELSE "gone",
        !.guardian = IF t.guardian = "none" THEN "none" ELSE "gone",
        !.exit = IF SupervisorAlive(t) THEN "killed" ELSE @]

\* The guardian ignores SIGTERM and the supervisor only records it.
GroupTermed(t) == [t EXCEPT !.termed = TRUE]

LiveScopes ==
    scopes.live \cup (IF session.wrapped /\ InScope(tree) THEN {attempt} ELSE {})

\* The obligations in the store: one per attempt, and the Run's aggregate.
\* (mutant: the aggregate is this attempt's)
OwingOfThisAttempt(owed) ==
    [live |-> scopes.live, owed |-> owed, runOwes |-> attempt \in owed]
Owing(owed) == [live |-> scopes.live, owed |-> owed, runOwes |-> owed # {}]

-----------------------------------------------------------------------------
(* The supervisor's script.                                                *)

TellDaemon(message) == wire' = [wire EXCEPT !.up = Append(@, message)]

SupervisorLeaves == UNCHANGED <<attempt, session, scopes, group, shutdown, queue,
                                outputs, report, stalled, faults>>

\* guardian.once("message"): the group is announced unless a shutdown was asked for.
GuardianReady ==
    /\ tree.super = "starting" /\ tree.guardian = "starting"
    /\ IF tree.termed \/ tree.asked
       THEN tree' = [tree EXCEPT !.guardian = "ready"] /\ UNCHANGED wire
       ELSE tree' = [tree EXCEPT !.guardian = "ready", !.super = "announced"]
            /\ TellDaemon("group-ready")
    /\ SupervisorLeaves

\* The callback of that send.
LaunchProvider ==
    /\ tree.super = "announced"
    /\ tree' = IF tree.termed \/ tree.asked
               THEN [tree EXCEPT !.super = "suppressed"]
               ELSE [tree EXCEPT !.super = "running", !.provider = "alive"]
    /\ UNCHANGED wire /\ SupervisorLeaves

\* "prepare-shutdown" arrives.
HearPrepare ==
    /\ SupervisorAlive(tree) /\ wire.down
    /\ tree' = IF ScriptSettled(tree) THEN tree
               ELSE [tree EXCEPT !.asked = TRUE, !.reply = TRUE]
    /\ wire' = [wire EXCEPT !.down = FALSE,
                            !.up = Append(@, IF ScriptSettled(tree) THEN "shutdown-unavailable"
                                             ELSE "shutdown-ready")]
    /\ SupervisorLeaves

\* stopBeforeProviderLaunch, the callback of the "shutdown-ready" send.
StopBeforeProviderLaunch ==
    /\ SupervisorAlive(tree) /\ tree.reply
    /\ tree' = IF tree.provider # "none" \/ ScriptSettled(tree)
               THEN [tree EXCEPT !.reply = FALSE]
               ELSE [tree EXCEPT !.reply = FALSE, !.super = "closing", !.guardian = "gone"]
    /\ UNCHANGED wire /\ SupervisorLeaves

\* finish: the provider's exit is reported at once, the rest waits 25 ms.
Finish ==
    /\ tree.super = "running" /\ tree.provider = "gone"
    /\ tree' = [tree EXCEPT !.super = "delaying"]
    /\ TellDaemon("provider-exited") /\ SupervisorLeaves

FinishDelayOver ==
    /\ tree.super = "delaying"
    /\ CASE tree.termed -> /\ tree' = [tree EXCEPT !.super = "gone", !.exit = "killed"]
                           /\ UNCHANGED wire
         [] tree.asked /\ ~tree.termed ->
                /\ tree' = [tree EXCEPT !.super = "gone", !.exit = tree.result]
                /\ UNCHANGED wire
         [] OTHER -> /\ tree' = [tree EXCEPT !.super = "released"]
                     /\ TellDaemon("group-released")
    /\ SupervisorLeaves

\* releaseGuardian, the callback of that send.
ReleaseGuardian ==
    /\ tree.super = "released"
    /\ tree' = [tree EXCEPT !.super = "closing", !.guardian = "gone"]
    /\ UNCHANGED wire /\ SupervisorLeaves

SupervisorExits ==
    /\ tree.super = "closing"
    /\ tree' = [tree EXCEPT !.super = "gone",
                            !.exit = IF tree.provider = "none" THEN "unlaunched"
                                     ELSE tree.result]
    /\ UNCHANGED wire /\ SupervisorLeaves

\* The guardian dies unexpectedly: fail kills the whole group.
FailClosed ==
    /\ SupervisorAlive(tree) /\ ~ScriptSettled(tree) /\ tree.guardian = "gone"
    /\ tree' = GroupKilled(tree)
    /\ UNCHANGED wire /\ SupervisorLeaves

SupervisorStep ==
    \/ GuardianReady \/ LaunchProvider \/ HearPrepare \/ StopBeforeProviderLaunch
    \/ Finish \/ FinishDelayOver \/ ReleaseGuardian \/ SupervisorExits \/ FailClosed

-----------------------------------------------------------------------------
(* The world: the provider, what it leaves behind, and faults.             *)

WorldLeaves == UNCHANGED <<attempt, session, scopes, group, shutdown, wire,
                           report, stalled>>

\* A provider stops by itself, or at a SIGTERM it does not handle.
ProviderExits ==
    /\ tree.provider = "alive"
    /\ \E result \in {"own"} \cup (IF tree.termed THEN {"killed"} ELSE {}) :
           tree' = [tree EXCEPT !.provider = "gone", !.result = result]
    /\ UNCHANGED <<queue, outputs, faults>> /\ WorldLeaves

\* A line of its stdout is parsed and queued: an answer to the request that is
\* open, the end of a turn that runs, or a failure.
ProviderWrites ==
    /\ tree.provider = "alive" /\ ~shutdown.destroyed /\ Len(queue) < MaxQueued
    /\ \/ /\ session.step \notin {Draining, Streaming}
          /\ queue' = Append(queue, "answer") /\ UNCHANGED outputs
       \/ /\ outputs < MaxOutputs
          /\ \E item \in {"failed"} \cup (IF session.step = Streaming THEN {"ended"} ELSE {}) :
                 queue' = Append(queue, item)
          /\ outputs' = outputs + 1
    /\ UNCHANGED <<tree, faults>> /\ WorldLeaves

\* A build tool that may outlive the provider: in its group with its output
\* pipes, or in a session of its own with or without them.
SurvivorStarts ==
    /\ tree.provider = "alive" /\ tree.survivor = "none"
    /\ \E where \in {"group", "detached"}, holds \in BOOLEAN :
        /\ where = "group" => holds
        /\ tree' = [tree EXCEPT !.survivor = where, !.holds = holds]
    /\ UNCHANGED <<queue, outputs, faults>> /\ WorldLeaves

SurvivorEnds ==
    /\ tree.survivor \in {"group", "detached"}
    /\ tree' = [tree EXCEPT !.survivor = "none", !.holds = FALSE]
    /\ UNCHANGED <<queue, outputs, faults>> /\ WorldLeaves

GuardianLost ==
    /\ faults < MaxFaults /\ tree.guardian \in {"starting", "ready"}
    /\ tree' = [tree EXCEPT !.guardian = "gone"]
    /\ faults' = faults + 1
    /\ UNCHANGED <<queue, outputs>> /\ WorldLeaves

LeakedScopeEnds ==
    /\ \E a \in scopes.live : scopes' = [scopes EXCEPT !.live = @ \ {a}]
    /\ UNCHANGED <<attempt, session, group, shutdown, wire, tree, queue, outputs,
                   report, stalled, faults>>

WorldStep ==
    \/ ProviderExits \/ ProviderWrites \/ SurvivorStarts \/ SurvivorEnds
    \/ GuardianLost \/ LeakedScopeEnds

-----------------------------------------------------------------------------
(* The shutdown of the group (beginProviderShutdown).                      *)

ShutdownLeaves == UNCHANGED <<attempt, session, scopes, queue, outputs, report>>

\* signalProviderProcess, SIGTERM: a missing group ends the shutdown.
SignalTerm ==
    /\ tree' = GroupTermed(tree)
    /\ shutdown' = [shutdown EXCEPT !.at = IF GroupEmpty(tree) THEN "over"
                                           ELSE IF shutdown.cancel THEN "termRest"
                                           ELSE "term"]

\* The daemon's ends of the output are destroyed: nobody holds them any more.
ForceKill(preserve) ==
    /\ tree' = [GroupKilled(tree) EXCEPT !.holds = FALSE]
    /\ group' = [group EXCEPT !.preserve = preserve /\ group.exit # "none"]
    /\ shutdown' = [shutdown EXCEPT !.at = "over", !.destroyed = TRUE]

\* What follows a waitForProviderExit; the stdin EOF and the SIGTERM each have one.
WaitEnded(exited) ==
    \/ /\ exited /\ ~shutdown.cancel
       /\ ForceKill(TRUE)
    \/ /\ shutdown.cancel
       /\ shutdown' = [shutdown EXCEPT !.at = IF @ = "eof" THEN "eofRest" ELSE "termRest"]
       /\ UNCHANGED <<tree, group>>
    \/ /\ ~exited /\ ~shutdown.cancel /\ shutdown.at = "eof"
       /\ SignalTerm /\ UNCHANGED group
    \/ /\ ~exited /\ ~shutdown.cancel /\ shutdown.at = "term"
       /\ ForceKill(FALSE)

\* reserveProviderProcessGroup settles.
ReservationSettles(reserved) ==
    shutdown' = [shutdown EXCEPT !.at = IF reserved THEN "eof" ELSE "refused"]

\* The event loop may be late: an event that overtakes messages which were due
\* before it is a stall.
Overtakes(late) ==
    /\ ~late \/ stalled \/ faults < MaxFaults
    /\ stalled' = (stalled \/ late)
    /\ faults' = IF late /\ ~stalled THEN faults + 1 ELSE faults

\* A timer is late when the pipe holds something or the supervisor has an exit
\* to report, or is within its 25 ms.
TimerFires ==
    Overtakes(\/ wire.up # <<>>
              \/ wire.down /\ SupervisorAlive(tree)
              \/ tree.super \in {"delaying", "released"}
              \/ tree.super = "running" /\ tree.provider = "gone")

\* trackProviderProcessGroup and the reservation's listener read one message.
Deliver ==
    /\ wire.up # <<>> /\ wire.open
    /\ LET message == Head(wire.up) IN
       /\ wire' = [wire EXCEPT !.up = Tail(@)]
       /\ group' = CASE message = "group-ready" -> [group EXCEPT !.reserved = TRUE]
                     [] message = "group-released" -> [group EXCEPT !.reserved = FALSE]
                     [] message = "provider-exited" -> [group EXCEPT !.exit = tree.result]
                     [] OTHER -> group
       /\ CASE shutdown.at = "reserving" /\ message = "shutdown-ready" /\ group.reserved
                 -> ReservationSettles(TRUE)
            [] shutdown.at = "reserving" /\ message = "shutdown-unavailable"
                 -> ReservationSettles(FALSE)
            [] OTHER -> UNCHANGED shutdown
    /\ UNCHANGED <<tree, stalled, faults>> /\ ShutdownLeaves

\* waitForProviderExit finds the reported exit.
ExitIsKnown ==
    /\ shutdown.at \in {"eof", "term"} /\ group.exit # "none"
    /\ WaitEnded(TRUE)
    /\ UNCHANGED <<wire, stalled, faults>> /\ ShutdownLeaves

\* The supervisor's `exit` event settles a reservation or a wait.  The
\* provider's exit was reported 25 ms before.
ExitEvent ==
    /\ tree.super = "gone" /\ ~wire.exitSeen
    /\ Overtakes("provider-exited" \in {wire.up[i] : i \in DOMAIN wire.up})
    /\ wire' = [wire EXCEPT !.exitSeen = TRUE]
    /\ CASE shutdown.at = "reserving" -> /\ ReservationSettles(group.reserved)
                                         /\ UNCHANGED <<tree, group>>
         [] shutdown.at \in {"eof", "term"} -> WaitEnded(group.exit # "none")
         [] OTHER -> UNCHANGED <<tree, group, shutdown>>
    /\ ShutdownLeaves

Disconnect ==
    /\ tree.super = "gone" /\ wire.up = <<>> /\ wire.open
    /\ wire' = [wire EXCEPT !.open = FALSE]
    /\ IF shutdown.at = "reserving" THEN ReservationSettles(group.reserved)
       ELSE UNCHANGED shutdown
    /\ UNCHANGED <<tree, group, stalled, faults>> /\ ShutdownLeaves

\* preparationTimer: the timeout counts only for a recorded reservation.
PreparationTimer ==
    /\ shutdown.at = "reserving" /\ shutdown.timer
    /\ TimerFires
    /\ shutdown' = [shutdown EXCEPT !.timer = FALSE,
                                    !.at = IF group.reserved THEN "eof" ELSE @]
    /\ UNCHANGED <<attempt, session, scopes, group, wire, tree, queue, outputs, report>>

\* The grace periods end.
GraceOver ==
    /\ TimerFires
    /\ \/ shutdown.at \in {"eof", "term"} /\ group.exit = "none" /\ WaitEnded(FALSE)
       \/ shutdown.at = "eofRest" /\ SignalTerm /\ UNCHANGED group
       \/ shutdown.at = "termRest" /\ ForceKill(FALSE)
    /\ UNCHANGED wire /\ ShutdownLeaves

\* `close` follows the exit, the end of the pipe and the end of the output.
Close ==
    /\ wire.exitSeen /\ ~wire.open /\ ~wire.closed
    /\ tree.provider # "alive" /\ ~tree.holds
    /\ wire' = [wire EXCEPT !.closed = TRUE]
    /\ queue' = Append(queue, "exit")
    /\ UNCHANGED <<attempt, session, scopes, group, shutdown, tree, outputs, report,
                   stalled, faults>>

\* shutdownProviderProcess; the daemon's send fails when the supervisor is gone.
ShutdownAsked(cancel) ==
    IF shutdown.at # "none"
    THEN shutdown' = [shutdown EXCEPT !.cancel = @ \/ cancel] /\ UNCHANGED wire
    ELSE LET sent == wire.open /\ tree.super # "gone"
             at == IF group.reserved /\ ~sent THEN "eof"
                   ELSE IF wire.open THEN "reserving"
                   ELSE "refused"
         IN /\ shutdown' = [shutdown EXCEPT !.at = at, !.cancel = cancel, !.timer = TRUE]
            /\ wire' = [wire EXCEPT !.down = sent]

-----------------------------------------------------------------------------
(* The session.                                                            *)

SessionLeaves == UNCHANGED <<attempt, group, outputs, stalled>>
Resolved == shutdown.at \in {"over", "refused"}

RunAttempt ==
    /\ session.at = "idle"
    /\ session' = [Session(session.adapter, "probing") EXCEPT !.listed = TRUE]
    /\ UNCHANGED <<scopes, shutdown, wire, tree, queue, report, faults>> /\ SessionLeaves

\* cancel: the run-state is marked, and a spawned child shut down.  The launch after
\* the probe is one synchronous step to it.
Cancel ==
    /\ session.listed /\ session.at # "marked" /\ ~session.cancelled
    /\ session' = [session EXCEPT !.cancelled = TRUE]
    /\ IF tree.super = "none" THEN UNCHANGED <<shutdown, wire>> ELSE ShutdownAsked(TRUE)
    /\ UNCHANGED <<scopes, tree, queue, report, faults>> /\ SessionLeaves

\* The scope probe answers.  A cancellation met meanwhile stops the launch;
\* a wrapped command records its cleanup obligation before it is spawned.
\* (mutant: the cancellation is not looked at again)
WrapUnchecked ==
    /\ session.at = "probing"
    /\ LET wrapped == session.adapter \in Scoped IN
        /\ session' = [session EXCEPT !.at = "marked", !.wrapped = wrapped]
        /\ scopes' = IF wrapped THEN Owing(scopes.owed \cup {attempt}) ELSE scopes
    /\ UNCHANGED <<shutdown, wire, tree, queue, report, faults>> /\ SessionLeaves
WrapForProviderScope ==
    /\ session.at = "probing"
    /\ IF session.cancelled
       THEN /\ session' = [session EXCEPT !.at = "over", !.listed = FALSE]
            /\ report' = [exit |-> "none", cancelled |-> TRUE]
            /\ UNCHANGED scopes
       ELSE LET wrapped == session.adapter \in Scoped IN
            /\ session' = [session EXCEPT !.at = "marked", !.wrapped = wrapped]
            /\ scopes' = IF wrapped THEN Owing(scopes.owed \cup {attempt}) ELSE scopes
            /\ UNCHANGED report
    /\ UNCHANGED <<shutdown, wire, tree, queue, faults>> /\ SessionLeaves

\* The same synchronous step of the daemon, unless it dies in between.
SpawnProviderProcess ==
    /\ session.at = "marked"
    /\ session' = [session EXCEPT !.at = "reading"]
    /\ tree' = [NoTree EXCEPT !.super = "starting", !.guardian = "starting"]
    /\ UNCHANGED <<scopes, shutdown, wire, queue, report, faults>> /\ SessionLeaves

\* What the adapter does with one item: read on, take the next step of the
\* handshake, or shut the provider down (and drain, before the turn runs).
ReadOn(step) == session' = [session EXCEPT !.step = step] /\ UNCHANGED <<shutdown, wire>>
Stop(step) == session' = [session EXCEPT !.at = "shutting", !.step = step]
              /\ ShutdownAsked(FALSE)
Acted(item) ==
    LET step == session.step IN
    CASE step = Draining -> ReadOn(Draining)
      [] step = Streaming ->
            IF \/ item = "failed"
               \/ item = "ended" /\ session.adapter = "codex"
            THEN Stop(Streaming) ELSE ReadOn(Streaming)
      [] OTHER ->
            \/ item = "failed" /\ Stop(Draining)
            \/ item = "answer" /\ (ReadOn(step + 1) \/ (step = 2 /\ Stop(Draining)))

ReadItem ==
    /\ session.at = "reading" /\ queue # <<>> /\ Head(queue) # "exit"
    /\ queue' = Tail(queue)
    /\ Acted(Head(queue))
    /\ UNCHANGED <<scopes, tree, report, faults>> /\ SessionLeaves

ShutdownSettled ==
    /\ session.at = "shutting" /\ Resolved
    /\ session' = [session EXCEPT !.at = "reading"]
    /\ UNCHANGED <<scopes, shutdown, wire, tree, queue, report, faults>> /\ SessionLeaves

\* The process_exit event ends the turn; it carries the cancellation as of now.
ReadExit ==
    /\ session.at = "reading" /\ queue # <<>> /\ Head(queue) = "exit"
    /\ queue' = Tail(queue)
    /\ session' = [session EXCEPT !.at = "stopping", !.listed = FALSE]
    /\ report' = [exit |-> IF group.preserve THEN group.exit ELSE tree.exit,
                  cancelled |-> session.cancelled]
    /\ UNCHANGED <<scopes, shutdown, wire, tree, faults>> /\ SessionLeaves

\* The consumer fails on an event and abandons the generator: only `finally` runs.
ConsumerFails ==
    /\ faults < MaxFaults
    /\ session.at = "reading" /\ session.step = Streaming
    /\ queue # <<>> /\ Head(queue) # "exit"
    /\ queue' = Tail(queue)
    /\ session' = [session EXCEPT !.at = "stopping", !.listed = FALSE]
    /\ faults' = faults + 1
    /\ UNCHANGED <<scopes, shutdown, wire, tree, report>> /\ SessionLeaves

\* confirmProviderScopeCleanup.
ConfirmProviderScopeCleanup ==
    /\ session.at = "stopping"
    /\ session' = [session EXCEPT !.at = "over"]
    /\ \/ ~session.wrapped /\ UNCHANGED <<scopes, tree, faults>>
       \/ /\ session.wrapped
          /\ tree' = WithoutProvider(tree, TRUE)
          /\ scopes' = Owing(scopes.owed \ {attempt})
          /\ UNCHANGED faults
       \/ /\ session.wrapped /\ faults < MaxFaults
          /\ faults' = faults + 1
          /\ UNCHANGED <<scopes, tree>>
    /\ UNCHANGED <<shutdown, wire, queue, report>> /\ SessionLeaves

-----------------------------------------------------------------------------
(* The next attempt, and the daemon's death and start.                     *)

FreshProcesses ==
    /\ group' = NoGroup /\ shutdown' = NoShutdown /\ wire' = NoWire /\ tree' = NoTree
    /\ queue' = <<>> /\ outputs' = 0 /\ report' = [exit |-> "none", cancelled |-> FALSE]
    /\ stalled' = FALSE

\* Bound: an attempt that owes nothing is not followed by another, which would
\* only repeat it.
NextAttempt ==
    /\ session.at = "over" /\ attempt < MaxAttempts /\ scopes.owed # {}
    /\ attempt' = attempt + 1
    /\ session' = Session(session.adapter, "idle")
    /\ scopes' = [scopes EXCEPT !.live = LiveScopes]
    /\ FreshProcesses /\ UNCHANGED faults

DaemonDies ==
    /\ faults < MaxFaults /\ session.at # "down"
    /\ faults' = faults + 1
    /\ session' = Session(session.adapter, "down")
    /\ scopes' = [scopes EXCEPT !.live = LiveScopes]
    /\ FreshProcesses /\ UNCHANGED attempt

\* The startup sweep: every attempt still owing is stopped again; what could
\* not be confirmed stays owed, on the attempt and on the Run.
SweepProviderScopes ==
    /\ session.at = "down"
    /\ \E confirmed \in SUBSET scopes.owed :
           scopes' = [live |-> scopes.live \ confirmed, owed |-> scopes.owed \ confirmed,
                      runOwes |-> confirmed # scopes.owed]
    /\ session' = [session EXCEPT !.at = "swept"]
    /\ UNCHANGED <<shutdown, wire, tree, queue, report, faults>> /\ SessionLeaves

ProcessInit ==
    /\ attempt = 1 /\ session \in {Session(adapter, "idle") : adapter \in Adapters}
    /\ scopes = [live |-> {}, owed |-> {}, runOwes |-> FALSE]
    /\ group = NoGroup /\ shutdown = NoShutdown /\ wire = NoWire /\ tree = NoTree
    /\ queue = <<>> /\ outputs = 0 /\ report = [exit |-> "none", cancelled |-> FALSE]
    /\ stalled = FALSE /\ faults = 0

\* The steps the event loop owes once their event is there.
EventLoopStep ==
    \/ WrapForProviderScope \/ SpawnProviderProcess \/ ReadItem \/ ShutdownSettled
    \/ ReadExit \/ ConfirmProviderScopeCleanup
    \/ Deliver \/ ExitIsKnown \/ ExitEvent \/ Disconnect \/ PreparationTimer
    \/ GraceOver \/ Close

ProcessNext ==
    \/ EventLoopStep \/ SupervisorStep \/ WorldStep
    \/ RunAttempt \/ Cancel \/ ConsumerFails
    \/ NextAttempt \/ DaemonDies \/ SweepProviderScopes

\* Every step of the event loop and of the supervisor brings the attempt
\* forward, so fairness of their union is fairness of each.
ProcessFairness == WF_processVars(EventLoopStep \/ SupervisorStep)

ProcessSpec == ProcessInit /\ [][ProcessNext]_processVars /\ ProcessFairness

-----------------------------------------------------------------------------
(* What makes ProcessInvariant inductive.                                  *)

SessionPlaces == {"idle", "probing", "marked", "reading", "shutting", "stopping",
                  "over", "down", "swept"}
ShutdownPlaces == {"none", "reserving", "eof", "eofRest", "term", "termRest",
                   "over", "refused"}
SupervisorPlaces == {"none", "starting", "announced", "suppressed", "running",
                     "delaying", "released", "closing", "gone"}
SessionRecord == [at : SessionPlaces, adapter : Adapters, step : 0 .. Streaming,
                  listed : BOOLEAN, cancelled : BOOLEAN, wrapped : BOOLEAN]
ScopesRecord == [live : SUBSET Attempts, owed : SUBSET Attempts, runOwes : BOOLEAN]
GroupRecord == [reserved : BOOLEAN, exit : Results, preserve : BOOLEAN]
ShutdownRecord == [at : ShutdownPlaces, cancel : BOOLEAN, timer : BOOLEAN, destroyed : BOOLEAN]
WireRecord == [up : Seq(Messages), down : BOOLEAN, open : BOOLEAN,
               exitSeen : BOOLEAN, closed : BOOLEAN]
TreeRecord == [super : SupervisorPlaces, asked : BOOLEAN, termed : BOOLEAN, reply : BOOLEAN,
               guardian : {"none", "starting", "ready", "gone"},
               provider : {"none", "alive", "gone"}, result : Results,
               survivor : {"none", "group", "detached"}, holds : BOOLEAN, exit : Results]

ProcessRecords ==
    /\ attempt \in Attempts /\ session \in SessionRecord /\ scopes \in ScopesRecord
    /\ group \in GroupRecord /\ shutdown \in ShutdownRecord /\ wire \in WireRecord
    /\ tree \in TreeRecord /\ queue \in Seq(Items) /\ outputs \in 0 .. MaxOutputs
    /\ report \in [exit : Results, cancelled : BOOLEAN]
    /\ stalled \in BOOLEAN /\ faults \in 0 .. MaxFaults

Pending(message) == \E i \in DOMAIN wire.up : wire.up[i] = message

\* The supervisor settles its script only when no provider runs or will run.
TreeFits ==
    /\ tree.provider = "alive" => tree.super = "running"
    /\ tree.super \in {"none", "starting", "announced", "suppressed"} => tree.provider = "none"
    /\ tree.super \in {"delaying", "released"} => tree.provider = "gone"
    /\ (tree.provider = "gone") = (tree.result # "none") /\ tree.result # "unlaunched"
    /\ (tree.super = "gone") = (tree.exit # "none")
    /\ tree.exit = "unlaunched" => tree.provider = "none"
    /\ tree.guardian = "gone" /\ faults = 0 => ScriptSettled(tree)

SessionFits ==
    /\ session.at \in {"idle", "probing", "marked", "down", "swept"} => tree.super = "none"
    /\ session.at \in {"stopping", "over"} => tree.super \notin {"starting", "announced"}
    /\ tree.super = "none" =>
         /\ tree = NoTree /\ shutdown = NoShutdown /\ group = NoGroup
         /\ wire = NoWire /\ queue = <<>>
    /\ shutdown.cancel => session.cancelled
    /\ report.exit # "none" => session.at \in {"stopping", "over"} /\ tree.super = "gone"

WireFits ==
    /\ ~wire.open \/ wire.exitSeen => tree.super = "gone"
    /\ wire.closed => wire.exitSeen
    /\ Pending("shutdown-unavailable") => ScriptSettled(tree)
    /\ Pending("provider-exited") => tree.provider = "gone"
    /\ group.exit # "none" => group.exit = tree.result
    /\ queue # <<>> => tree.super \notin {"none", "starting", "announced", "suppressed"}
    /\ \A i \in DOMAIN queue : queue[i] = "exit" => wire.closed

ShutdownFits ==
    /\ shutdown.at = "over" => GroupEmpty(tree)
    /\ shutdown.at = "refused" => ScriptSettled(tree)
    /\ shutdown.at \in {"eofRest", "termRest"} => shutdown.cancel
    /\ tree.termed => shutdown.at \in {"term", "termRest", "over"}
    /\ group.preserve => group.exit # "none"
    /\ stalled => faults > 0

\* Unless something went wrong, the exit of a provider that stopped by itself
\* is with the daemon, or before it in the pipe, when the group is killed.
ExitsAreTold ==
    faults = 0 =>
        /\ session.at \in {"stopping", "over"} => tree.provider # "alive"
        /\ shutdown.at # "over" /\ tree.provider = "gone" /\ tree.super # "running" =>
               Pending("provider-exited") \/ group.exit # "none"
        /\ ~session.cancelled /\ tree.exit = "killed" /\ tree.result = "own" =>
               group.preserve \/ (shutdown.at = "term" /\ ~wire.exitSeen)
        /\ report.exit # "none" /\ ~report.cancelled /\ tree.result = "own" =>
               report.exit = "own"

ScopesFit ==
    /\ scopes.live \subseteq scopes.owed /\ scopes.runOwes = (scopes.owed # {})
    /\ \A a \in scopes.live : a <= attempt
    /\ IF session.at \in {"down", "swept"} THEN ~session.wrapped ELSE attempt \notin scopes.live
    /\ session.wrapped /\ (session.at # "over" \/ InScope(tree)) => attempt \in scopes.owed

ProcessInv ==
    /\ ProcessRecords /\ TreeFits /\ SessionFits /\ WireFits /\ ShutdownFits
    /\ ExitsAreTold /\ ScopesFit

-----------------------------------------------------------------------------
(* Properties.                                                             *)

\* A provider scope that may still hold a process is owed on its attempt, and
\* the Run owes exactly when an attempt does: whatever dies between the record,
\* the spawn, the stop and the sweep, no scope is forgotten
\* (markProviderScopeCleanupPending, confirmProviderScopeCleanup,
\* setAttemptProviderScopeCleanupPending, the startup sweep).
LiveScopeIsOwed ==
    LiveScopes \subseteq scopes.owed /\ (scopes.runOwes <=> scopes.owed # {})

\* A resolved shutdown is a stopped provider: no member of the group is left,
\* or, when the group could not be reserved, no provider runs or will run
\* (beginProviderShutdown, and the launch the supervisor suppresses).
ResolvedShutdownIsFinal ==
    /\ shutdown.at = "over" => GroupEmpty(tree)
    /\ shutdown.at = "refused" => tree.provider # "alive"

\* A provider that stopped by itself is reported with its own exit, although the
\* shutdown of its group ends in SIGKILL, unless the operator cancelled, the
\* guardian was lost or the event loop stalled (preserveProviderExit).
OwnExitIsReported ==
    report.exit # "none" /\ ~report.cancelled /\ tree.result = "own" /\ faults = 0
        => report.exit = "own"

\* A cancelled attempt ends, unless the group was gone before it was signalled
\* and a build tool that outlived it keeps the provider's output open.
CancelEnds ==
    session.cancelled ~>
        \/ session.at \in {"over", "down", "idle"}
        \/ Resolved /\ tree.holds

\* No process is forgotten, and no exit is told as what it was not.
ProcessInvariant ==
    ProcessTypeOK /\ LiveScopeIsOwed /\ ResolvedShutdownIsFinal /\ OwnExitIsReported
===============================================================================
