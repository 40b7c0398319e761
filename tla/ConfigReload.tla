----------------------------- MODULE ConfigReload -----------------------------
(***************************************************************************)
(* Configuration reload (reload.ts), the editors' save pipeline            *)
(* (http/save-pipeline.ts) and what a reload does to the routines table    *)
(* (run-store.ts).                                                         *)
(*                                                                         *)
(* The Service Config and the Routine files it lists are read one at a     *)
(* time, under a mutex, while people and editors write them.  A tick, a    *)
(* save and a manual firing reload; a tick brings the table in line with   *)
(* the snapshot only later, a manual firing at once.  The clocks of the    *)
(* rows are Routines'.                                                     *)
(***************************************************************************)
EXTENDS Integers, Sequences

CONSTANTS
    NumFiles,       \* Routine files, in the order `routines:` lists them
    Hosts,          \* the Projects a routine may target
    RoutineNames,
    MaxEdits,       \* bound: writes of a file in a behaviour
    MaxRestarts     \* bound: crashes and restarts

VARIABLES
    config, file,   \* what is on disk
    edits,          \* writes so far
    turn,           \* who waits for reloadMutex; the first one holds it
    loader,         \* what a reload has read so far, per caller
    tickAt,         \* the tick: "idle", "reload" or "sync"
    request,        \* the editor's save, or the manual firing, in flight
    snapshot, status,
    row,            \* table routines
    synced,         \* the table has seen this snapshot
    restarts

reloadVars == <<config, file, edits, turn, loader, tickAt, request,
                snapshot, status, row, synced, restarts>>

Files == 1 .. NumFiles
Doc == 0 .. NumFiles            \* 0 is the Service Config
Nothing == "none"

Distinct(f) == \A x, y \in DOMAIN f : f[x] = f[y] => x = y

ASSUME ReloadBounds ==
    /\ NumFiles \in Nat \ {0} /\ MaxEdits \in Nat /\ MaxRestarts \in Nat
    /\ Nothing \notin RoutineNames /\ \E names \in [Files -> RoutineNames] : Distinct(names)

(* A file is valid, broken with a readable name, or garbled altogether.  It *)
(* declares kind git or report, and it may pin a model.                      *)
Content == [name : RoutineNames, form : {"valid", "broken", "garbled"},
            git : BOOLEAN, model : BOOLEAN]

(* "rejected" stands for what fails before the Projects are looked at, the  *)
(* providers' templates and pull_requests included; the forms of a Project: *)
(* "schema" is dropped, "detail" is dropped unless a snapshot is live,      *)
(* "workflow" and "watchdog" reject the whole config; "host" has no tracker.*)
ProjectForm == {"absent", "dispatch", "disabled", "host", "twice",
                "schema", "detail", "workflow"}
ServiceConfig == [form : {"valid", "rejected"}, lists : [Files -> SUBSET Hosts],
                  project : [Hosts -> ProjectForm],
                  defaults : BOOLEAN,     \* routine_defaults names a model
                  template : BOOLEAN]     \* the provider's command takes one

Targeted == [host : Hosts, file : Files, name : RoutineNames,
             git : BOOLEAN, model : BOOLEAN]

NoSnapshot == [readAt |-> -1, listed |-> [f \in Files |-> {}],
               host |-> [h \in Hosts |-> "absent"], attached |-> {},
               trackerless |-> {}, mismatched |-> {}, invalid |-> {},
               broken |-> {}, claims |-> [f \in Files |-> Nothing]]

NoLoad == [next |-> 0, config |-> Nothing, readAt |-> -1, content |-> <<>>]
NoRequest == [at |-> "idle", doc |-> 0, base |-> Nothing, draft |-> Nothing,
              checked |-> -1, stamp |-> -1]
NoRow == [state |-> "none", reason |-> "none", real |-> FALSE, file |-> 0]

RowStates == {"none", "active", "disabled", "inactive", "invalid"}

(* disabled_reason means something on a disabled row only, and an invalid   *)
(* stub has no prompt to run.                                               *)
ReloadTypeOK ==
    /\ config \in ServiceConfig /\ file \in [Files -> Content] /\ edits \in 0 .. MaxEdits
    /\ turn \in Seq({"tick", "request"}) /\ Len(turn) <= 2
    /\ tickAt \in {"idle", "reload", "sync"}
    /\ request.at \in {"idle", "open", "write", "reload", "fire"}
    /\ snapshot.attached \cup snapshot.trackerless \cup snapshot.mismatched \subseteq Targeted
    /\ status \in [ok : BOOLEAN, lastKnownGood : BOOLEAN]
    /\ \A h \in Hosts, n \in RoutineNames :
          /\ row[h][n].state \in RowStates /\ row[h][n].file \in 0 .. NumFiles
          /\ (row[h][n].state = "disabled") = (row[h][n].reason # "none")
          /\ row[h][n].state = "active" => row[h][n].real
    /\ synced \in BOOLEAN /\ restarts \in 0 .. MaxRestarts

-----------------------------------------------------------------------------
(* loadRuntimeConfigSnapshot, on what was read and the snapshot before it   *)

(* Previous declarations are found by path, among the attached ones.        *)
previousBySourcePath(previous, f) == {d \in previous.attached : d.file = f}
AnyOf(S) == CHOOSE x \in S : TRUE

ListedFiles(g) == {f \in Files : g.lists[f] # {}}

(* A file declares what is in it when that is valid, and what it declared   *)
(* before otherwise, with the defaults that were merged into it.             *)
Declares(f, c, previous) == c.form = "valid" \/ previousBySourcePath(previous, f) # {}
Declaration(f, c, previous) == IF c.form = "valid" THEN c ELSE AnyOf(previousBySourcePath(previous, f))

(* Mutant: a name carried forward is not registered. *)
ClaimOfRead(f, c, previous) ==
    IF ~Declares(f, c, previous) \/ c.form # "valid" THEN Nothing ELSE c.name

(* One that never was valid reserves the name that can be read.             *)
Claim(f, c, previous) ==
    IF Declares(f, c, previous) THEN Declaration(f, c, previous).name
    ELSE IF c.form = "broken" THEN c.name ELSE Nothing

Claims(g, content, previous) ==
    [f \in Files |-> IF f \in ListedFiles(g) THEN Claim(f, content[f], previous) ELSE Nothing]

(* seenNames: a name is of the first file that claims it.                   *)
Taken(claims, f) == claims[f] # Nothing /\ \E e \in Files : e < f /\ claims[e] = claims[f]

readRoutineDeclarations(g, content, previous) ==
    LET claims == Claims(g, content, previous)
        declaring == {f \in ListedFiles(g) : Declares(f, content[f], previous)}
        Of(f) == Declaration(f, content[f], previous)
    IN  [claims |-> claims,
         good |-> {[file |-> f, name |-> Of(f).name, git |-> Of(f).git, model |-> Of(f).model] :
                      f \in {x \in declaring : ~Taken(claims, x)}},
         invalid |-> {[file |-> f, name |-> claims[f]] : f \in ListedFiles(g) \ declaring},
         errors |-> \E f \in ListedFiles(g) : content[f].form # "valid" \/ Taken(claims, f)]

(* The schema wants a Project.                                              *)
SchemaRejects(g) == g.form = "rejected" \/ \A h \in Hosts : g.project[h] = "absent"

(* First pass: the Projects.  A failure in one that would leave Runs        *)
(* without their workflow rejects the candidate as a whole.                  *)
Loads(form) == form \in {"dispatch", "disabled", "host", "twice"}

Fatal(g, previous) ==
    \E h \in Hosts : \/ g.project[h] = "workflow"
                     \/ g.project[h] = "detail" /\ previous # NoSnapshot

ProjectErrors(g) == \E h \in Hosts : g.project[h] \in {"schema", "detail", "workflow"}

LoadedProjects(g) ==
    [h \in Hosts |-> CASE g.project[h] \in {"dispatch", "host"} -> "on"
                       [] g.project[h] = "disabled" -> "off"
                       [] g.project[h] = "twice" -> "twice"
                       [] OTHER -> "absent"]

(* Second pass: the routines, at the Projects they target.  A name declared *)
(* twice, or by no Project, hosts none.                                      *)
HostsRoutines(g, h) == Loads(g.project[h]) /\ g.project[h] # "twice"

At(g, decls) ==
    UNION {{[host |-> h, file |-> d.file, name |-> d.name, git |-> d.git,
             model |-> d.model \/ g.defaults] : h \in g.lists[d.file]} : d \in decls}

Trackerless(g, d) == g.project[d.host] = "host" /\ d.git
Mismatched(g, d) == ~Trackerless(g, d) /\ d.model /\ ~g.template

RoutineErrors(g, ts) ==
    \E d \in ts : \/ ~HostsRoutines(g, d.host)
                  \/ Trackerless(g, d) \/ Mismatched(g, d)

LastKnownGood(previous) ==
    [snapshot |-> previous, errors |-> TRUE, lastKnownGood |-> previous # NoSnapshot]

Loaded(g, content, readAt, previous) ==
    LET decls == readRoutineDeclarations(g, content, previous)
        targeted == At(g, decls.good)
        here == {d \in targeted : HostsRoutines(g, d.host)}
        invalid == UNION {{[host |-> h, file |-> i.file, name |-> i.name] : h \in g.lists[i.file]} :
                             i \in decls.invalid}
    IN  [snapshot |->
            [readAt |-> readAt, listed |-> g.lists, host |-> LoadedProjects(g),
             attached |-> {d \in here : ~Trackerless(g, d) /\ ~Mismatched(g, d)},
             trackerless |-> {d \in here : Trackerless(g, d)},
             mismatched |-> {d \in here : Mismatched(g, d)},
             invalid |-> invalid,
             broken |-> {f \in ListedFiles(g) : content[f].form # "valid"},
             claims |-> decls.claims],
         errors |-> ProjectErrors(g) \/ decls.errors \/ RoutineErrors(g, targeted),
         lastKnownGood |-> FALSE]

loadRuntimeConfigSnapshot(g, content, readAt, previous) ==
    IF \/ SchemaRejects(g) \/ Fatal(g, previous)
       \/ previous # NoSnapshot /\ \A h \in Hosts : ~Loads(g.project[h])
    THEN LastKnownGood(previous)
    ELSE Loaded(g, content, readAt, previous)

-----------------------------------------------------------------------------
(* The routines table *)

Decls(s, h) == {d \in s.attached : d.host = h}
Refused(s, h) == {d \in s.trackerless \cup s.mismatched : d.host = h}
Names(S) == {x.name : x \in S}
InvalidAt(s, h) == {i \in s.invalid : i.host = h /\ i.name # Nothing}

(* invalidRoutineNames are attached where routines are hosted at all.       *)
Protected(s, h) == IF s.host[h] \in {"on", "off"} THEN Names(InvalidAt(s, h)) ELSE {}
Current(s, h) == Names(Decls(s, h) \cup Refused(s, h)) \cup Protected(s, h)

RemovedRow(r) == r.state = "disabled" /\ r.reason = "removed"

StubRow(r, f) == [r EXCEPT !.state = "invalid", !.reason = "none", !.file = f]

(* The files come in order: a stub is overwritten by the next one, a row    *)
(* reclaimed from history is not.                                            *)
upsertInvalidRoutineStub(r, files) ==
    IF files = {} \/ (r.real /\ r.state # "inactive" /\ ~RemovedRow(r)) THEN r
    ELSE StubRow(r, CHOOSE f \in files : \A e \in files : IF r.real THEN f <= e ELSE f >= e)

Stubs(table, s) ==
    [h \in Hosts |-> [n \in RoutineNames |->
        upsertInvalidRoutineStub(table[h][n], {i.file : i \in {x \in InvalidAt(s, h) : x.name = n}})]]

(* A row that was never read, or was a stub, becomes the declaration's.     *)
Insert(r, d, state, reason) ==
    [state |-> state, reason |-> reason, real |-> TRUE,
     file |-> IF r.real THEN r.file ELSE d.file]

ActiveRow(d) == [state |-> "active", reason |-> "none", real |-> TRUE, file |-> d.file]

disableRejectedRoutines(s, r, d) ==
    Insert(r, d, "disabled", IF d \in s.trackerless THEN "tracker" ELSE "template")

(* An enabled Project.                                                      *)
SyncedRow(s, h, n, r) ==
    LET here == {d \in Decls(s, h) : d.name = n}
        refused == {d \in Refused(s, h) : d.name = n}
    IN  IF here # {} THEN ActiveRow(AnyOf(here))
        ELSE IF refused # {} THEN disableRejectedRoutines(s, r, AnyOf(refused))
        ELSE IF n \in Protected(s, h) \/ r.state = "none" THEN r
        ELSE [r EXCEPT !.state = "disabled", !.reason = "removed"]

Cascade(r) == [r EXCEPT !.state = "inactive", !.reason = "none"]

(* A disabled one: a row already removed stays history unless it is current.*)
InactiveRow(s, h, n, r) ==
    LET refused == {d \in Refused(s, h) : d.name = n}
        kept == IF refused # {} /\ ~r.real THEN Insert(r, AnyOf(refused), "inactive", "none") ELSE r
    IN  IF kept.state = "none" \/ (RemovedRow(kept) /\ n \notin Current(s, h)) THEN kept
        ELSE Cascade(kept)

PrunedRow(r) == IF r.state = "none" \/ RemovedRow(r) THEN r ELSE Cascade(r)

synchronizeRoutineTargets(table, s) ==
    [h \in Hosts |-> [n \in RoutineNames |->
        CASE s.host[h] \in {"on", "twice"} -> SyncedRow(s, h, n, table[h][n])
          [] s.host[h] = "off" -> InactiveRow(s, h, n, table[h][n])
          [] OTHER -> PrunedRow(table[h][n])]]

-----------------------------------------------------------------------------
(* Writers *)

OnDisk(doc) == IF doc = 0 THEN config ELSE file[doc]

WriteTo(doc, new) ==
    /\ edits < MaxEdits /\ edits' = edits + 1
    /\ IF doc = 0 THEN config' = new /\ UNCHANGED file
       ELSE file' = [file EXCEPT ![doc] = new] /\ UNCHANGED config

(* One thing changes at a time.                                             *)
FileEdits(c) ==
    {[c EXCEPT !.name = n] : n \in RoutineNames} \cup {[c EXCEPT !.git = ~@], [c EXCEPT !.model = ~@]}
    \cup {[c EXCEPT !.form = k] : k \in {"valid", "broken", "garbled"}}

ConfigEdits(g) ==
    {[g EXCEPT !.lists[f] = S] : f \in Files, S \in SUBSET Hosts}
    \cup {[g EXCEPT !.project[h] = k] : h \in Hosts, k \in ProjectForm}
    \cup {[g EXCEPT !.form = k] : k \in {"valid", "rejected"}}
    \cup {[g EXCEPT !.defaults = ~@], [g EXCEPT !.template = ~@]}

Drafts(doc) == (IF doc = 0 THEN ConfigEdits(config) ELSE FileEdits(file[doc])) \ {OnDisk(doc)}

(* A person, git or the CLI: nothing is validated.                          *)
DirectEdit ==
    /\ \E doc \in Doc : \E new \in Drafts(doc) : WriteTo(doc, new)
    /\ UNCHANGED <<turn, loader, tickAt, request, snapshot, status, row, synced, restarts>>

WaitForTurn(c) == turn' = Append(turn, c) /\ loader' = [loader EXCEPT ![c] = NoLoad]

OpenEditor ==
    /\ request.at = "idle" /\ edits < MaxEdits
    /\ \E doc \in Doc : request' = [NoRequest EXCEPT !.at = "open", !.doc = doc, !.base = OnDisk(doc)]
    /\ UNCHANGED <<config, file, edits, turn, loader, tickAt, snapshot, status, row, synced, restarts>>

(* validateServiceConfigContent: a reload of the draft, without a previous. *)
ValidateConfig(new) == ~loadRuntimeConfigSnapshot(new, file, edits, NoSnapshot).errors

Validates(doc, new) == IF doc = 0 THEN ValidateConfig(new) ELSE new.form = "valid"

(* Validation, then the stale check; the write follows an await later.      *)
SubmitSave ==
    /\ request.at = "open"
    /\ \E new \in (IF request.doc = 0 THEN ConfigEdits(request.base) ELSE FileEdits(request.base)) :
          /\ new # request.base
          /\ request' = IF Validates(request.doc, new) /\ OnDisk(request.doc) = request.base
                        THEN [request EXCEPT !.at = "write", !.draft = new, !.checked = edits]
                        ELSE NoRequest
    /\ UNCHANGED <<config, file, edits, turn, loader, tickAt, snapshot, status, row, synced, restarts>>

(* A rename: a reader sees the old file or the new one.                     *)
WriteSave ==
    /\ request.at = "write"
    /\ WriteTo(request.doc, request.draft)
    /\ WaitForTurn("request")
    /\ request' = [request EXCEPT !.at = "reload", !.stamp = edits', !.base = Nothing, !.draft = Nothing]
    /\ UNCHANGED <<tickAt, snapshot, status, row, synced, restarts>>

WriteFails ==
    /\ request.at = "write" /\ request' = NoRequest
    /\ UNCHANGED <<config, file, edits, turn, loader, tickAt, snapshot, status, row, synced, restarts>>

-----------------------------------------------------------------------------
(* Reloads *)

(* refreshIssuePollStatus; polling keeps a second tick out.                 *)
Tick ==
    /\ tickAt = "idle" /\ tickAt' = "reload" /\ WaitForTurn("tick")
    /\ UNCHANGED <<config, file, edits, request, snapshot, status, row, synced, restarts>>

FireRoutineNow ==
    /\ request.at = "idle" /\ request' = [NoRequest EXCEPT !.at = "fire"] /\ WaitForTurn("request")
    /\ UNCHANGED <<config, file, edits, tickAt, snapshot, status, row, synced, restarts>>

(* Mutant: reloads do not wait for one another. *)
AnyTurn(c) == \E i \in DOMAIN turn : turn[i] = c

Turn(c) == turn # <<>> /\ Head(turn) = c

ReadConfig(c) ==
    /\ Turn(c) /\ loader[c].next = 0
    /\ loader' = [loader EXCEPT ![c] = [next |-> 1, config |-> config, readAt |-> edits,
                                        content |-> [f \in Files |-> Nothing]]]
    /\ UNCHANGED <<config, file, edits, turn, tickAt, request, snapshot, status, row, synced, restarts>>

(* The files a candidate that was not rejected lists, one await each.       *)
ToRead(c) ==
    LET l == loader[c]
    IN  IF l.next = 0 \/ SchemaRejects(l.config) \/ Fatal(l.config, snapshot) THEN {}
        ELSE {f \in ListedFiles(l.config) : f >= l.next}

ReadRoutineFile(c) ==
    /\ Turn(c)
    /\ \E f \in ToRead(c) :
          /\ \A e \in ToRead(c) : f <= e
          /\ loader' = [loader EXCEPT ![c].next = f + 1, ![c].content[f] = file[f]]
    /\ UNCHANGED <<config, file, edits, turn, tickAt, request, snapshot, status, row, synced, restarts>>

(* reload(), then reloadConfigAndRecordOutcome: the stubs go in with the    *)
(* snapshot.  A manual firing synchronizes before anyone else runs.         *)
Install(c) ==
    /\ Turn(c) /\ loader[c].next > 0 /\ ToRead(c) = {}
    /\ LET l == loader[c]
           result == loadRuntimeConfigSnapshot(l.config, l.content, l.readAt, snapshot)
           stubbed == Stubs(row, result.snapshot)
           fires == c = "request" /\ request.at = "fire"
       IN  /\ snapshot' = result.snapshot
           /\ status' = [ok |-> ~result.errors, lastKnownGood |-> result.lastKnownGood]
           /\ row' = IF fires THEN synchronizeRoutineTargets(stubbed, result.snapshot) ELSE stubbed
           /\ synced' = fires
    /\ turn' = Tail(turn) /\ loader' = [loader EXCEPT ![c] = NoLoad]
    /\ IF c = "tick" THEN tickAt' = "sync" /\ UNCHANGED request
       ELSE request' = NoRequest /\ UNCHANGED tickAt
    /\ UNCHANGED <<config, file, edits, restarts>>

(* dispatchDueRoutines; with no snapshot at all every Project is unknown.   *)
Synchronize ==
    /\ tickAt = "sync" /\ tickAt' = "idle"
    /\ row' = synchronizeRoutineTargets(row, snapshot) /\ synced' = TRUE
    /\ UNCHANGED <<config, file, edits, turn, loader, request, snapshot, status, restarts>>

Restart ==
    /\ restarts < MaxRestarts /\ restarts' = restarts + 1
    /\ turn' = <<>> /\ loader' = [c \in {"tick", "request"} |-> NoLoad]
    /\ tickAt' = "idle" /\ request' = NoRequest
    /\ snapshot' = NoSnapshot /\ status' = [ok |-> TRUE, lastKnownGood |-> FALSE] /\ synced' = FALSE
    /\ UNCHANGED <<config, file, edits, row>>

-----------------------------------------------------------------------------
Caller == {"tick", "request"}

(* Each file declares a name of its own, for every Project; the first one   *)
(* is kind git and pins a model the provider's command takes.               *)
ReloadInit ==
    /\ config = [form |-> "valid", lists |-> [f \in Files |-> Hosts],
                 project |-> [h \in Hosts |-> "dispatch"], defaults |-> FALSE, template |-> TRUE]
    /\ LET names == CHOOSE x \in [Files -> RoutineNames] : Distinct(x)
       IN  file = [f \in Files |-> [name |-> names[f], form |-> "valid", git |-> f = 1, model |-> f = 1]]
    /\ edits = 0 /\ turn = <<>> /\ loader = [c \in Caller |-> NoLoad]
    /\ tickAt = "idle" /\ request = NoRequest
    /\ snapshot = NoSnapshot /\ status = [ok |-> TRUE, lastKnownGood |-> FALSE]
    /\ row = [h \in Hosts |-> [n \in RoutineNames |-> NoRow]]
    /\ synced = FALSE /\ restarts = 0

ReloadNext ==
    \/ DirectEdit \/ OpenEditor \/ SubmitSave \/ WriteSave \/ WriteFails
    \/ Tick \/ FireRoutineNow
    \/ \E c \in Caller : ReadConfig(c) \/ ReadRoutineFile(c) \/ Install(c)
    \/ Synchronize \/ Restart

ReloadSpec == ReloadInit /\ [][ReloadNext]_reloadVars

-----------------------------------------------------------------------------
(* Properties *)

(* A name is attached from one file only, carried forward or not: two files *)
(* would otherwise take turns in one row.                                   *)
NamesHaveOneFile ==
    \A d, e \in snapshot.attached : d.name = e.name => d.file = e.file

(* Once the table has seen the snapshot, what is active in it is what the   *)
(* snapshot attaches, or a name a broken file still lays claim to.          *)
ActiveFollowsSnapshot ==
    synced => \A h \in Hosts, n \in RoutineNames :
        /\ n \in Names(Decls(snapshot, h)) /\ snapshot.host[h] = "on" => row[h][n].state = "active"
        /\ row[h][n].state = "active" =>
              snapshot.host[h] = "on" /\ n \in Names(Decls(snapshot, h)) \cup Protected(snapshot, h)

(* A reload reported without an error has attached every listed routine at  *)
(* every Project it targets.                                                *)
OkMeansEffective ==
    status.ok /\ snapshot # NoSnapshot =>
        \A f \in Files : \A h \in snapshot.listed[f] :
            \E d \in snapshot.attached : d.file = f /\ d.host = h

(* A later reload never installs what an earlier one had read before it.    *)
NewestReloadWins ==
    [][restarts' = restarts => snapshot'.readAt >= snapshot.readAt]_reloadVars

(* A save is answered once a reload that began after its write has ended:   *)
(* its snapshot is in force unless the whole config was refused.            *)
SavedIsLoaded ==
    [][LET wrote == IF request.at = "write" THEN edits' ELSE request.stamp
       IN  (/\ request.at \in {"write", "reload"} /\ request'.at = "idle" /\ restarts' = restarts
            /\ (request.at = "write" => edits' # edits))
           => snapshot'.readAt >= wrote \/ status'.lastKnownGood \/ snapshot' = NoSnapshot]_reloadVars

(* What an editor accepted as Service Config loads without an error when    *)
(* nobody else has written since, whatever was live before.                 *)
ValidatedConfigLoads ==
    [][(/\ request.at = "reload" /\ request.doc = 0 /\ request'.at = "idle" /\ restarts' = restarts
        /\ request.stamp = request.checked + 1 /\ edits = request.stamp)
       => status'.ok]_reloadVars

(* A broken edit does not stop a routine: what was attached before, and is  *)
(* still listed for a Project that is on, is loaded again from its last      *)
(* valid declaration (attached, or refused for another reason), unless a    *)
(* file listed before it holds its name by now.                              *)
BrokenEditKeepsFiring ==
    [][restarts' = restarts => \A d \in snapshot.attached :
         LET s == snapshot'
         IN  (d.file \in s.broken /\ d.host \in s.listed[d.file] /\ s.host[d.host] = "on")
             => \/ \E e \in s.attached \cup s.trackerless \cup s.mismatched :
                      e.file = d.file /\ e.host = d.host /\ e.name = d.name
                \/ \E f \in Files : f < d.file /\ s.claims[f] = d.name]_reloadVars

(* A row removed from the configuration stays history until something, if   *)
(* only a broken file, declares its name at that Project again.             *)
RemovedStaysHistory ==
    [][\A h \in Hosts, n \in RoutineNames :
         RemovedRow(row[h][n]) /\ row'[h][n] # row[h][n] =>
             n \in Current(snapshot', h) \cup Names(InvalidAt(snapshot', h))]_reloadVars

(* Snapshot, status and table agree.                                        *)
ReloadInvariant ==
    ReloadTypeOK /\ NamesHaveOneFile /\ ActiveFollowsSnapshot /\ OkMeansEffective

(* Edits take effect in their order, and a broken one takes nothing away.   *)
EditsTakeEffectInOrder ==
    /\ NewestReloadWins /\ SavedIsLoaded /\ ValidatedConfigLoads
    /\ BrokenEditKeepsFiring /\ RemovedStaysHistory
===============================================================================
