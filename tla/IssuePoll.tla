------------------------------ MODULE IssuePoll -------------------------------
(***************************************************************************)
(* Issue polling, its publication and the rate-limit ledger: issue-polling *)
(* .ts, issue-poll-publication.ts, github-backoff-ledger.ts, pull-request- *)
(* polling.ts, refreshIssuePollStatus of daemon.ts and the project rows of *)
(* run-store.ts.                                                           *)
(*                                                                         *)
(* The poll, the fire-and-forget pull-request poll, a dispatch batch and   *)
(* reloads interleave at every await.  A declaration is a record of a      *)
(* Project name, a repository and the token it resolves to; two may share  *)
(* a name, and the last of them is the Project.  What GitHub answers is    *)
(* any set of issues, a failure or a rate limit.                           *)
(***************************************************************************)
EXTENDS Integers, FiniteSets, SequencesExt

CONSTANTS
    Configs,     \* configurations: sequences of [name, repo, token]
    Issues,      \* issue numbers; repositories use the same ones
    MaxChanges   \* bound: edits of the file and no_workspace_changes verdicts

ASSUME PollBounds == /\ Configs # {} /\ \A c \in Configs : Len(c) > 0
                     /\ MaxChanges \in Nat

Declarations == UNION {ToSet(c) : c \in Configs}
Names == {d.name : d \in Declarations}
Repos == {d.repo : d \in Declarations}
Tokens == {d.token : d \in Declarations}
Broken == <<>>      \* a file that does not parse
NoRepo == "none"

VARIABLES
    file, loaded,   \* symphonika.yml, and the last good snapshot of it
    changes,
    poll,           \* the running issue poll
    status,         \* the shared IssuePollStatus
    published,      \* the configuration of the last publication
    window,         \* tokens whose backoff window is open
    prPoll,         \* the declarations the pull-request poll is listing
    states,         \* table project_states
    snap,           \* table project_issue_snapshots
    suppressed,     \* issues whose newest Run is a no_workspace_changes verdict
    batch,          \* dispatchFresh: its projects and its candidates
    claim           \* the claim of the last step: where the issue was seen, where it was written

pollVars == <<file, loaded, changes, poll, status, published, window, prPoll,
              states, snap, suppressed, batch, claim>>

Identity(d) == [name |-> d.name, repo |-> d.repo]
Identities == {Identity(d) : d \in Declarations}
Entry(id, i) == [name |-> id.name, repo |-> id.repo, issue |-> i]
Entries == {Entry(id, i) : id \in Identities, i \in Issues}
Of(entries, id) == {e \in entries : e.name = id.name /\ e.repo = id.repo}
NoStatus == [cand |-> {}, filt |-> {}, ok |-> {}, failed |-> {}, errors |-> {}]
IdlePoll == [pc |-> "idle", conf |-> Broken, left |-> {}, limited |-> {}, fresh |-> NoStatus]
NoBatch == [conf |-> Broken, view |-> {}]
NoClaim == [seen |-> NoRepo, written |-> NoRepo, limited |-> FALSE]

PollTypeOK ==
    /\ file \in Configs \cup {Broken} /\ loaded \in Configs /\ published \in Configs
    /\ changes \in 0 .. MaxChanges
    /\ poll.pc \in {"idle", "listing", "persisting"} /\ poll.conf \in Configs \cup {Broken}
    /\ \A s \in {status, poll.fresh} :
         /\ {s.cand, s.filt} \subseteq SUBSET Entries
         /\ {s.ok, s.failed, s.errors} \subseteq SUBSET Identities
    /\ window \subseteq Tokens /\ prPoll \subseteq Declarations
    /\ states \in [Names -> [active : BOOLEAN, valid : BOOLEAN]]
    /\ snap \in [Names -> [repo : Repos \cup {NoRepo}, rows : SUBSET Entries]]
    /\ suppressed \subseteq Entries
    /\ batch.view \subseteq Entries

-----------------------------------------------------------------------------
(* Configuration *)

(* Duplicate names resolve to the last declaration. *)
Selected(c) == {c[k] : k \in {k \in DOMAIN c : \A j \in DOMAIN c : j > k => c[j].name # c[k].name}}
SelectedIds(c) == {Identity(d) : d \in Selected(c)}
Configured(c) == {Identity(d) : d \in ToSet(c)}
ProjectOf(c, name) == CHOOSE d \in Selected(c) : d.name = name

Reloaded == IF file = Broken THEN loaded ELSE file

EditFile(c) ==
    /\ changes < MaxChanges /\ c # file
    /\ file' = c /\ changes' = changes + 1
    /\ UNCHANGED <<loaded, poll, status, published, window, prPoll, states, snap,
                   suppressed, batch>>

(* A reload outside the tick: an editor's save, the reload route, a manual firing. *)
ReloadElsewhere ==
    /\ loaded # Reloaded /\ loaded' = Reloaded
    /\ UNCHANGED <<file, changes, poll, status, published, window, prPoll, states, snap,
                   suppressed, batch>>

-----------------------------------------------------------------------------
(* The backoff ledger *)

isPollable(d) == d.token \notin window

(* A report names an identity: every token declared for it backs off. *)
rateLimitedTokens(limited, polled) == {d.token : d \in {d \in polled : Identity(d) \in limited}}

WindowElapses(token) ==
    /\ token \in window /\ window' = window \ {token}
    /\ UNCHANGED <<file, loaded, changes, poll, status, published, prPoll, states, snap,
                   suppressed, batch>>

-----------------------------------------------------------------------------
(* The issue poll *)

StartPoll ==
    /\ poll.pc = "idle" /\ loaded' = Reloaded
    /\ poll' = [IdlePoll EXCEPT !.pc = "listing", !.conf = Reloaded,
                                !.left = {k \in DOMAIN Reloaded : isPollable(Reloaded[k])}]
    /\ UNCHANGED <<file, changes, status, published, window, prPoll, states, snap,
                   suppressed, batch>>

(* The project whose turn it is: the order of the configuration. *)
Listed(k) == poll.pc = "listing" /\ k \in poll.left /\ \A j \in poll.left : k <= j

(* pollProject: issues and dependencies answer, or the whole project fails; a *)
(* later project of a token that hit its limit in this tick is skipped.       *)
PollListed(k, cand, filt) ==
    LET d == poll.conf[k]
        id == Identity(d)
    IN  /\ Listed(k) /\ d.token \notin poll.limited
        /\ poll' = [poll EXCEPT !.left = @ \ {k},
                      !.fresh.cand = @ \cup {Entry(id, i) : i \in cand},
                      !.fresh.filt = @ \cup {Entry(id, i) : i \in filt},
                      !.fresh.ok = @ \cup {id}]
        /\ UNCHANGED <<file, loaded, changes, status, published, window, prPoll, states, snap,
                       suppressed, batch>>

PollFailed(k, limit) ==
    LET d == poll.conf[k]
        id == Identity(d)
    IN  /\ Listed(k) /\ d.token \notin poll.limited
        /\ poll' = [poll EXCEPT !.left = @ \ {k},
                      !.limited = IF limit THEN @ \cup {d.token} ELSE @,
                      !.fresh.failed = @ \cup {id}, !.fresh.errors = @ \cup {id}]
        /\ UNCHANGED <<file, loaded, changes, status, published, window, prPoll, states, snap,
                       suppressed, batch>>

PollSkipped(k) ==
    /\ Listed(k) /\ poll.conf[k].token \in poll.limited
    /\ poll' = [poll EXCEPT !.left = @ \ {k}]
    /\ UNCHANGED <<file, loaded, changes, status, published, window, prPoll, states, snap,
                   suppressed, batch>>

-----------------------------------------------------------------------------
(* Publication *)

(* Mutant: only this tick's reports are published. *)
ReplaceStatus(prior, fresh, conf) == fresh

(* Mutant: what is carried over is matched by Project name alone. *)
MergeByName(prior, fresh, conf) ==
    LET polled == {id.name : id \in fresh.ok \cup fresh.failed}
        names == {id.name : id \in Configured(conf)}
        carry(s) == {x \in s : x.name \notin polled /\ x.name \in names}
    IN  [cand |-> carry(prior.cand) \cup fresh.cand,
         filt |-> carry(prior.filt) \cup fresh.filt,
         ok |-> carry(prior.ok) \cup fresh.ok,
         failed |-> carry(prior.failed) \cup fresh.failed,
         errors |-> carry(prior.failed) \cup fresh.errors]

(* A project not polled in this tick keeps its entries as long as it is    *)
(* configured; only a selected declaration's candidates reach dispatch.    *)
mergeIssuePollStatus(prior, fresh, conf) ==
    LET carry(s) == {x \in s : /\ Identity(x) \notin fresh.ok \cup fresh.failed
                               /\ Identity(x) \in Configured(conf)}
    IN  [cand |-> {e \in carry(prior.cand) \cup fresh.cand : Identity(e) \in SelectedIds(conf)},
         filt |-> carry(prior.filt) \cup fresh.filt,
         ok |-> carry(prior.ok) \cup fresh.ok,
         failed |-> carry(prior.failed) \cup fresh.failed,
         errors |-> carry(prior.failed) \cup fresh.errors]

suppressResolved(s) ==
    [s EXCEPT !.cand = @ \ suppressed, !.filt = @ \cup (s.cand \cap suppressed)]

(* The poll's errors engage windows; the merged status is shared at once,  *)
(* before the raw file is awaited.                                         *)
PublishStatus ==
    /\ poll.pc = "listing" /\ poll.left = {}
    /\ window' = window \cup rateLimitedTokens(
                     {id \in poll.fresh.failed : \E d \in ToSet(poll.conf) :
                          Identity(d) = id /\ d.token \in poll.limited}, ToSet(poll.conf))
    /\ status' = suppressResolved(mergeIssuePollStatus(status, poll.fresh, poll.conf))
    /\ published' = poll.conf
    /\ poll' = [poll EXCEPT !.pc = "persisting", !.fresh = suppressResolved(@)]
    /\ UNCHANGED <<file, loaded, changes, prPoll, states, snap, suppressed, batch>>

Reported(id) == id \in poll.fresh.ok \cup poll.fresh.failed

(* readProjectStateInputs: the raw file as it is now, report by report; a  *)
(* skipped identity keeps its verdict.                                     *)
RawInputs ==
    [name \in {d.name : d \in ToSet(file)} |->
        LET id == Identity(ProjectOf(file, name))
            kept == id \in Configured(poll.conf) /\ states[name].active
        IN  IF Reported(id) THEN id \in poll.fresh.ok
            ELSE kept => states[name].valid]

(* A broken file removes nothing: the loaded projects and every active row. *)
FallbackInputs ==
    [name \in {d.name : d \in ToSet(poll.conf)} \cup {n \in Names : states[n].active} |->
        IF name \notin {d.name : d \in ToSet(poll.conf)} THEN states[name].valid
        ELSE LET id == Identity(ProjectOf(poll.conf, name))
             IN  IF Reported(id) THEN id \in poll.fresh.ok
                 ELSE states[name].active => states[name].valid]

syncProjectStates(inputs) ==
    [n \in Names |-> IF n \in DOMAIN inputs THEN [active |-> TRUE, valid |-> inputs[n]]
                     ELSE [states[n] EXCEPT !.active = FALSE]]

(* Only the selected declaration's report writes the rows keyed by the name. *)
Recorded == {id \in SelectedIds(poll.conf) : Reported(id)}

recordProjectPollOutcomes(synced) ==
    [n \in Names |-> LET ids == {id \in Recorded : id.name = n}
                     IN  IF ids = {} THEN synced[n]
                         ELSE [synced[n] EXCEPT !.valid = ids \subseteq poll.fresh.ok]]

projectIssueSnapshotRows(id) == Of(poll.fresh.cand \cup poll.fresh.filt, id)

replaceProjectIssueSnapshots ==
    [n \in Names |-> LET ids == {id \in Recorded \cap poll.fresh.ok : id.name = n}
                     IN  IF ids = {} THEN snap[n]
                         ELSE LET id == CHOOSE id \in ids : TRUE
                              IN  [repo |-> id.repo, rows |-> projectIssueSnapshotRows(id)]]

(* The tables are written, then a pull-request poll starts beside the tick. *)
PersistPoll ==
    /\ poll.pc = "persisting"
    /\ states' = recordProjectPollOutcomes(
                     syncProjectStates(IF file = Broken THEN FallbackInputs ELSE RawInputs))
    /\ snap' = replaceProjectIssueSnapshots
    /\ prPoll' = IF prPoll # {} THEN prPoll ELSE {d \in ToSet(poll.conf) : isPollable(d)}
    /\ poll' = IdlePoll
    /\ UNCHANGED <<file, loaded, changes, status, published, window, suppressed, batch>>

(* The pull-request poll ends; its own rate limits open windows. *)
PullRequestPollEnds(limited) ==
    /\ prPoll # {} /\ limited \subseteq {Identity(d) : d \in prPoll}
    /\ window' = window \cup rateLimitedTokens(limited, prPoll)
    /\ prPoll' = {}
    /\ UNCHANGED <<file, loaded, changes, poll, status, published, states, snap, suppressed,
                   batch>>

-----------------------------------------------------------------------------
(* Dispatch *)

Verdict(e) ==
    /\ changes < MaxChanges /\ changes' = changes + 1
    /\ suppressed' = suppressed \cup {e}
    /\ UNCHANGED <<file, loaded, poll, status, published, window, prPoll, states, snap,
                   batch>>

(* launchWork hands dispatchFresh the candidates of pollable project names; *)
(* the projects are those of the snapshot loaded by then.                   *)
LaunchBatch ==
    /\ batch = NoBatch
    /\ LET dispatchable == {d.name : d \in {d \in ToSet(loaded) : isPollable(d)}}
           view == {e \in status.cand : /\ e.name \in dispatchable
                                        /\ e.name \in {d.name : d \in ToSet(loaded)}}
       IN  view # {} /\ batch' = [conf |-> loaded, view |-> view]
    /\ UNCHANGED <<file, loaded, changes, poll, status, published, window, prPoll, states, snap,
                   suppressed>>

isClaimAllowed(d) == isPollable(d)

(* One pick and its claim, written to the Project's tracker. *)
ClaimPicked(e) ==
    LET d == ProjectOf(batch.conf, e.name)
        allowed == /\ Entry(Identity(d), e.issue) \notin suppressed
                   /\ isClaimAllowed(d)
    IN  /\ e \in batch.view
        /\ batch' = IF batch.view = {e} THEN NoBatch ELSE [batch EXCEPT !.view = @ \ {e}]
        /\ claim' = IF allowed THEN [seen |-> e.repo, written |-> d.repo,
                                     limited |-> d.token \in window]
                    ELSE NoClaim
        /\ UNCHANGED <<file, loaded, changes, poll, status, published, window, prPoll, states,
                       snap, suppressed>>

-----------------------------------------------------------------------------
PollInit ==
    /\ file \in Configs /\ loaded = file /\ published = file /\ changes = 0
    /\ poll = IdlePoll /\ status = NoStatus /\ window = {} /\ prPoll = {}
    /\ states = [n \in Names |-> [active |-> FALSE, valid |-> TRUE]]
    /\ snap = [n \in Names |-> [repo |-> NoRepo, rows |-> {}]]
    /\ suppressed = {} /\ batch = NoBatch /\ claim = NoClaim

PollStep ==
    \/ \E c \in Configs \cup {Broken} : EditFile(c)
    \/ ReloadElsewhere
    \/ \E t \in Tokens : WindowElapses(t)
    \/ StartPoll
    \/ \E k \in poll.left :
         \/ \E cand \in SUBSET Issues : \E filt \in SUBSET (Issues \ cand) :
                PollListed(k, cand, filt)
         \/ \E limit \in BOOLEAN : PollFailed(k, limit)
         \/ PollSkipped(k)
    \/ PublishStatus
    \/ PersistPoll
    \/ \E limited \in SUBSET Identities : PullRequestPollEnds(limited)
    \/ \E e \in Entries : Verdict(e)
    \/ LaunchBatch

PollNext ==
    \/ PollStep /\ claim' = NoClaim
    \/ \E e \in Entries : ClaimPicked(e)

PollSpec == PollInit /\ [][PollNext]_pollVars

-----------------------------------------------------------------------------
(* Properties *)

(* Only the declaration that is the Project reaches dispatch: neither a    *)
(* shadowed declaration's candidates nor those of a repository or a name   *)
(* the published configuration no longer holds.                            *)
CandidatesOfSelected ==
    \A e \in status.cand : Identity(e) \in SelectedIds(published)

(* One verdict each: in a configuration that declares no repository of a    *)
(* Project twice, no issue is a candidate and filtered at once and no        *)
(* project failed and answered, whatever is carried over and suppressed.    *)
DeclaredOnce(c) == \A j, k \in DOMAIN c : Identity(c[j]) = Identity(c[k]) => j = k
OneVerdictEach ==
    (\A c \in Configs : DeclaredOnce(c)) =>
        \A s \in {status, poll.fresh} : s.cand \cap s.filt = {} /\ s.ok \cap s.failed = {}

(* A skipped poll hides nothing: the error of every project whose last poll *)
(* failed stays among the status' errors until that project is polled again.*)
FailuresStayVisible == status.failed \subseteq status.errors

(* An issue whose newest Run refused fresh dispatch is never offered by a    *)
(* publication, not even as an entry carried over for a skipped project.     *)
SuppressedNotOffered ==
    [][status' # status => status'.cand \cap suppressed = {}]_pollVars

(* The rows a Project shows all come from the one repository its snapshot  *)
(* is bound to, whatever declarations share its name.                      *)
SnapshotOfOneRepo ==
    \A n \in Names : \A e \in snap[n].rows : e.name = n /\ e.repo = snap[n].repo

(* A Project polled once and still configured keeps its entry: a window, a *)
(* failure or another project's rate limit never makes it vanish.          *)
PolledProjectsStay ==
    [][\A id \in status.ok \cup status.failed :
         id \in Configured(published') => id \in status'.ok \cup status'.failed]_pollVars

(* A broken edit deactivates no Project: only a file that parses and lacks  *)
(* the name does.                                                           *)
BrokenEditKeepsProjects ==
    [][file = Broken => \A n \in Names : states[n].active => states'[n].active]_pollVars

(* Known rows survive a failed poll: rows change only to what a successful  *)
(* poll of the selected declaration listed.                                 *)
FailedPollKeepsRows ==
    [][\A n \in Names : snap'[n] # snap[n]
         => \E id \in poll.fresh.ok : id.name = n /\ id.repo = snap'[n].repo]_pollVars

(* No sym:claimed is written with a token whose window is open, also when   *)
(* the pull-request poll opened it after the batch took its candidates.     *)
NoClaimInWindow == ~claim.limited

(* The issue that is claimed is the one that was polled: a batch never      *)
(* carries an issue number over to the repository of a newer configuration. *)
ClaimedWherePolled == claim.seen = claim.written

(* What dispatch and the pages are offered is the configuration's and fresh.*)
PollInvariant ==
    /\ PollTypeOK /\ CandidatesOfSelected /\ OneVerdictEach /\ FailuresStayVisible
    /\ SnapshotOfOneRepo /\ NoClaimInWindow

(* A publication drops only what it knows to be gone, and what it must not  *)
(* offer.                                                                   *)
PublicationKeepsWhatIsKnown ==
    SuppressedNotOffered /\ PolledProjectsStay /\ BrokenEditKeepsProjects /\ FailedPollKeepsRows
===============================================================================
