------------------------------ MODULE PollProofs -------------------------------
(***************************************************************************)
(* Issue polling, its publication and the weighted choice of a Project:    *)
(* what holds for any configurations, issues and changes, and for any      *)
(* Projects, weights and batches.                                          *)
(***************************************************************************)
EXTENDS IssuePoll, ProjectPicker, FiniteSetTheorems, WellFoundedInduction, TLAPS

\* The records, with the sets of their fields by name.
Confs == Configs \cup {Broken}
PollPlaces == {"idle", "listing", "persisting"}
StatusRecord == [cand : SUBSET Entries, filt : SUBSET Entries, ok : SUBSET Identities,
                 failed : SUBSET Identities, errors : SUBSET Identities]
PollRecord == [pc : PollPlaces, conf : Confs, left : SUBSET Nat, limited : SUBSET Tokens,
               fresh : StatusRecord]
StateRow == [active : BOOLEAN, valid : BOOLEAN]
RepoNames == Repos \cup {NoRepo}
BatchRecord == [conf : Confs, view : SUBSET Entries]
SnapRow == [repo : RepoNames, rows : SUBSET Entries]

PollRecords ==
    /\ file \in Confs /\ loaded \in Configs /\ published \in Configs
    /\ changes \in 0 .. MaxChanges
    /\ poll \in PollRecord /\ status \in StatusRecord
    /\ window \subseteq Tokens /\ prPoll \subseteq Declarations
    /\ states \in [Names -> StateRow] /\ snap \in [Names -> SnapRow]
    /\ suppressed \subseteq Entries /\ batch \in BatchRecord

\* A poll that is under way lists a configuration, from its first declaration on.
PollFollowsConfig ==
    /\ poll.pc # "idle" => poll.conf \in Configs
    /\ poll.left \subseteq DOMAIN poll.conf

FreshDisjoint ==
    DeclaredOnce(poll.conf) =>
        /\ poll.fresh.cand \cap poll.fresh.filt = {}
        /\ poll.fresh.ok \cap poll.fresh.failed = {}

\* In one poll a declaration is reported once, after it was listed.
FreshReports ==
    /\ poll.fresh.failed \subseteq poll.fresh.errors
    /\ \A e \in poll.fresh.cand \cup poll.fresh.filt : Identity(e) \in poll.fresh.ok
    /\ DeclaredOnce(poll.conf) =>
         \A k \in poll.left : ~Reported(Identity(poll.conf[k]))
    /\ FreshDisjoint

PollInv ==
    /\ PollRecords /\ PollFollowsConfig /\ FreshReports
    /\ CandidatesOfSelected /\ OneVerdictEach /\ FailuresStayVisible
    /\ SnapshotOfOneRepo /\ NoClaimInWindow

LEMMA PollWords ==
  /\ {"idle", "listing", "persisting"} \subseteq PollPlaces
  /\ Configs \subseteq Confs /\ Broken \in Confs /\ NoRepo \in RepoNames /\ Repos \subseteq RepoNames
  /\ NoStatus \in StatusRecord /\ IdlePoll \in PollRecord
  /\ DOMAIN Broken = {}
BY DEF Confs, PollPlaces, RepoNames, NoStatus, StatusRecord, IdlePoll, PollRecord, Broken

\* What a configuration of Configs declares.
LEMMA ConfigDeclares ==
  ASSUME NEW c \in Confs
  PROVE  /\ \A k \in DOMAIN c : c[k] \in Declarations
         /\ ToSet(c) \subseteq Declarations
         /\ Selected(c) \subseteq ToSet(c)
         /\ SelectedIds(c) \subseteq Identities /\ Configured(c) \subseteq Identities
<1>1. \A k \in DOMAIN c : c[k] \in Declarations
  BY PollWords DEF Confs, Declarations, ToSet
<1>. QED
  BY <1>1 DEF ToSet, Selected, SelectedIds, Configured, Identities

LEMMA DeclarationFields ==
  ASSUME NEW d \in Declarations
  PROVE  /\ Identity(d) \in Identities /\ d.name \in Names /\ d.repo \in Repos /\ d.token \in Tokens
         /\ Identity(d).name = d.name /\ Identity(d).repo = d.repo
         /\ \A i \in Issues : /\ Entry(Identity(d), i) \in Entries
                              /\ Identity(Entry(Identity(d), i)) = Identity(d)
BY DEF Identity, Identities, Names, Repos, Tokens, Entries, Entry

LEMMA IdentityFields ==
  ASSUME NEW id \in Identities
  PROVE  id.name \in Names /\ id.repo \in Repos /\ id = [name |-> id.name, repo |-> id.repo]
BY DEF Identities, Identity, Names, Repos

LEMMA PollBegins == PollInit => PollInv
<1>. SUFFICES ASSUME PollInit PROVE PollInv
  OBVIOUS
<1>. USE PollWords DEF PollInit
<1>1. PollRecords
  <2>1. states \in [Names -> StateRow] /\ snap \in [Names -> SnapRow]
    BY DEF StateRow, SnapRow
  <2>. QED
    <3>1. 0 \in 0 .. MaxChanges
      BY PollBounds
    <3>2. NoBatch \in BatchRecord
      BY DEF NoBatch, BatchRecord
    <3>. QED
      BY <2>1, <3>1, <3>2 DEF PollRecords
<1>2. PollFollowsConfig /\ FreshReports
  BY DEF PollFollowsConfig, FreshReports, FreshDisjoint, IdlePoll, NoStatus
<1>3. CandidatesOfSelected /\ OneVerdictEach /\ FailuresStayVisible /\ SnapshotOfOneRepo
      /\ NoClaimInWindow
  BY DEF CandidatesOfSelected, OneVerdictEach, FailuresStayVisible, SnapshotOfOneRepo,
     NoClaimInWindow, NoStatus, IdlePoll, NoClaim
<1>. QED
  BY <1>1, <1>2, <1>3 DEF PollInv

-----------------------------------------------------------------------------
(* Publication.                                                            *)

\* What a status m that merges a fresh one into the prior one has.
Merges(m, prior, fresh, conf) ==
    /\ m \in StatusRecord
    /\ \A e \in m.cand : Identity(e) \in SelectedIds(conf)
    /\ \A e \in m.cand : e \in fresh.cand \/ (e \in prior.cand
                           /\ Identity(e) \notin fresh.ok \cup fresh.failed)
    /\ \A e \in m.filt : e \in fresh.filt \/ (e \in prior.filt
                           /\ Identity(e) \notin fresh.ok \cup fresh.failed)
    /\ \A x \in m.ok : x \in fresh.ok \/ (x \in prior.ok
                           /\ x \notin fresh.ok \cup fresh.failed)
    /\ \A x \in m.failed : x \in fresh.failed \/ (x \in prior.failed
                           /\ x \notin fresh.ok \cup fresh.failed)
    /\ fresh.failed \subseteq fresh.errors => m.failed \subseteq m.errors
    /\ \A x \in prior.ok \cup prior.failed \cup fresh.ok \cup fresh.failed :
          x \in Configured(conf) => x \in m.ok \cup m.failed

LEMMA MergedStatus ==
  ASSUME NEW prior \in StatusRecord, NEW fresh \in StatusRecord, NEW conf \in Confs, NEW m,
         m = mergeIssuePollStatus(prior, fresh, conf)
  PROVE  Merges(m, prior, fresh, conf)
<1>. DEFINE polled == fresh.ok \cup fresh.failed
            carry(s) == {x \in s : Identity(x) \notin polled /\ Identity(x) \in Configured(conf)}
<1>1. /\ prior.cand \subseteq Entries /\ prior.filt \subseteq Entries
      /\ prior.ok \subseteq Identities /\ prior.failed \subseteq Identities
      /\ fresh.cand \subseteq Entries /\ fresh.filt \subseteq Entries
      /\ fresh.ok \subseteq Identities /\ fresh.failed \subseteq Identities
      /\ fresh.errors \subseteq Identities
  BY DEF StatusRecord
<1>2. \A id \in Identities : Identity(id) = id
  BY IdentityFields DEF Identity
<1>3. m = [cand |-> {e \in carry(prior.cand) \cup fresh.cand : Identity(e) \in SelectedIds(conf)},
           filt |-> carry(prior.filt) \cup fresh.filt,
           ok |-> carry(prior.ok) \cup fresh.ok,
           failed |-> carry(prior.failed) \cup fresh.failed,
           errors |-> carry(prior.failed) \cup fresh.errors]
  BY DEF mergeIssuePollStatus
<1>4. /\ m.cand = {e \in carry(prior.cand) \cup fresh.cand : Identity(e) \in SelectedIds(conf)}
      /\ m.filt = carry(prior.filt) \cup fresh.filt
      /\ m.ok = carry(prior.ok) \cup fresh.ok
      /\ m.failed = carry(prior.failed) \cup fresh.failed
      /\ m.errors = carry(prior.failed) \cup fresh.errors
  BY <1>3
<1>5. m \in StatusRecord
  <2>1. /\ m.cand \subseteq Entries /\ m.filt \subseteq Entries /\ m.ok \subseteq Identities
        /\ m.failed \subseteq Identities /\ m.errors \subseteq Identities
    BY <1>1, <1>4
  <2>. QED
    BY <1>3, <2>1 DEF StatusRecord
<1>. QED
  BY <1>1, <1>2, <1>4, <1>5 DEF Merges

LEMMA SuppressedStatus ==
  ASSUME NEW s \in StatusRecord, suppressed \subseteq Entries, NEW t, t = suppressResolved(s)
  PROVE  /\ t \in StatusRecord /\ t.ok = s.ok /\ t.failed = s.failed /\ t.errors = s.errors
         /\ t.cand = s.cand \ suppressed
         /\ t.filt = s.filt \cup (s.cand \cap suppressed)
BY DEF suppressResolved, StatusRecord

LEMMA PublishKeeps ==
  ASSUME PollInv, PublishStatus
  PROVE  /\ PollRecords' /\ PollFollowsConfig' /\ FreshReports'
         /\ CandidatesOfSelected' /\ OneVerdictEach' /\ FailuresStayVisible'
         /\ status'.cand \cap suppressed = {}
         /\ \A id \in status.ok \cup status.failed :
              id \in Configured(published') => id \in status'.ok \cup status'.failed
<1>. USE PollWords
<1>. DEFINE m == mergeIssuePollStatus(status, poll.fresh, poll.conf)
<1>1. /\ poll \in PollRecord /\ status \in StatusRecord /\ poll.fresh \in StatusRecord
      /\ poll.conf \in Configs /\ poll.conf \in Confs /\ suppressed \subseteq Entries
      /\ poll.fresh.failed \subseteq poll.fresh.errors
  BY DEF PollInv, PollRecords, PollRecord, PublishStatus, PollFollowsConfig, FreshReports
<1>2. Merges(m, status, poll.fresh, poll.conf) /\ m.failed \subseteq m.errors
  <2>1. Merges(m, status, poll.fresh, poll.conf)
    BY ONLY <1>1, MergedStatus
  <2>. HIDE DEF m
  <2>. QED
    BY <1>1, <2>1 DEF Merges
<1>3. /\ status' = suppressResolved(m) /\ published' = poll.conf
      /\ poll' = [poll EXCEPT !.pc = "persisting", !.fresh = suppressResolved(@)]
      /\ UNCHANGED <<file, loaded, changes, prPoll, states, snap, suppressed, batch>>
  BY DEF PublishStatus
<1>. HIDE DEF m
<1>4. /\ status' \in StatusRecord /\ status'.ok = m.ok /\ status'.failed = m.failed
      /\ status'.errors = m.errors /\ status'.cand = m.cand \ suppressed
      /\ status'.filt = m.filt \cup (m.cand \cap suppressed)
  BY <1>1, <1>2, <1>3, SuppressedStatus DEF Merges
<1>. DEFINE f == suppressResolved(poll.fresh)
<1>5. /\ f \in StatusRecord /\ f.ok = poll.fresh.ok /\ f.failed = poll.fresh.failed
      /\ f.errors = poll.fresh.errors /\ f.cand = poll.fresh.cand \ suppressed
      /\ f.filt = poll.fresh.filt \cup (poll.fresh.cand \cap suppressed)
  BY <1>1, SuppressedStatus
<1>6. poll' = [poll EXCEPT !.pc = "persisting", !.fresh = f]
  BY <1>3
<1>. HIDE DEF f
<1>7. /\ poll' \in PollRecord /\ poll'.fresh = f /\ poll'.conf = poll.conf
      /\ poll'.left = poll.left /\ poll'.pc = "persisting"
  BY <1>1, <1>5, <1>6 DEF PollRecord
<1>8. window' \subseteq Tokens
  BY <1>1, ConfigDeclares, DeclarationFields
     DEF PublishStatus, rateLimitedTokens, PollInv, PollRecords
<1>9. PollRecords'
  BY <1>1, <1>3, <1>4, <1>7, <1>8 DEF PollInv, PollRecords
<1>10. PollFollowsConfig' /\ FreshReports'
  BY <1>1, <1>5, <1>7 DEF PollInv, PollFollowsConfig, FreshReports, FreshDisjoint, Reported,
     DeclaredOnce
<1>11. CandidatesOfSelected' /\ FailuresStayVisible'
  BY <1>2, <1>3, <1>4 DEF Merges, CandidatesOfSelected, FailuresStayVisible
<1>12. OneVerdictEach'
  <2>. SUFFICES ASSUME \A c \in Configs : DeclaredOnce(c)
                PROVE  /\ status'.cand \cap status'.filt = {} /\ status'.ok \cap status'.failed = {}
                       /\ f.cand \cap f.filt = {} /\ f.ok \cap f.failed = {}
    BY <1>7 DEF OneVerdictEach
  <2>1. /\ status.cand \cap status.filt = {} /\ status.ok \cap status.failed = {}
        /\ poll.fresh.cand \cap poll.fresh.filt = {} /\ poll.fresh.ok \cap poll.fresh.failed = {}
    BY DEF PollInv, OneVerdictEach
  <2>2. \A e \in poll.fresh.cand \cup poll.fresh.filt : Identity(e) \in poll.fresh.ok
    BY DEF PollInv, FreshReports
  <2>. QED
    BY <1>2, <1>4, <1>5, <2>1, <2>2 DEF Merges
<1>. QED
  BY <1>2, <1>3, <1>4, <1>9, <1>10, <1>11, <1>12 DEF Merges

-----------------------------------------------------------------------------
(* The tables.                                                             *)

LEMMA SyncedStates ==
  ASSUME states \in [Names -> StateRow], NEW inputs,
         \A n \in DOMAIN inputs : inputs[n] \in BOOLEAN, NEW t, t = syncProjectStates(inputs)
  PROVE  /\ t \in [Names -> StateRow]
         /\ \A n \in Names : n \in DOMAIN inputs => t[n].active
<1>1. ASSUME NEW n \in Names
      PROVE  t[n] \in StateRow /\ (n \in DOMAIN inputs => t[n].active)
  <2>1. CASE n \in DOMAIN inputs
    <3>1. t[n] = [active |-> TRUE, valid |-> inputs[n]]
      BY <2>1 DEF syncProjectStates
    <3>2. inputs[n] \in BOOLEAN
      BY <2>1
    <3>3. \A b \in BOOLEAN : [active |-> TRUE, valid |-> b] \in StateRow
      BY DEF StateRow
    <3>4. [active |-> TRUE, valid |-> inputs[n]].active = TRUE
      OBVIOUS
    <3>. QED
      BY <3>1, <3>2, <3>3, <3>4, Zenon
  <2>2. CASE n \notin DOMAIN inputs
    <3>1. t[n] = [states[n] EXCEPT !.active = FALSE]
      BY <2>2 DEF syncProjectStates
    <3>. QED
      BY <2>2, <3>1 DEF StateRow
  <2>. QED
    BY <2>1, <2>2
<1>. QED
  BY <1>1 DEF syncProjectStates

LEMMA RecordedStates ==
  ASSUME NEW synced \in [Names -> StateRow], NEW t, t = recordProjectPollOutcomes(synced)
  PROVE  /\ t \in [Names -> StateRow]
         /\ \A n \in Names : t[n].active = synced[n].active
<1>1. ASSUME NEW n \in Names
      PROVE  t[n] \in StateRow /\ t[n].active = synced[n].active
  <2>. DEFINE ids == {id \in Recorded : id.name = n}
  <2>1. CASE ids = {}
    BY <2>1 DEF recordProjectPollOutcomes
  <2>2. CASE ids # {}
    <3>1. t[n] = [synced[n] EXCEPT !.valid = ids \subseteq poll.fresh.ok]
      BY <2>2 DEF recordProjectPollOutcomes
    <3>2. (ids \subseteq poll.fresh.ok) \in BOOLEAN
      BY Zenon
    <3>3. synced[n] \in StateRow
      OBVIOUS
    <3>4. \A b \in BOOLEAN : /\ [synced[n] EXCEPT !.valid = b] \in StateRow
                             /\ [synced[n] EXCEPT !.valid = b].active = synced[n].active
      BY <3>3 DEF StateRow
    <3>. QED
      BY <3>1, <3>2, <3>4, Zenon
  <2>. QED
    BY <2>1, <2>2
<1>. QED
  BY <1>1 DEF recordProjectPollOutcomes

LEMMA InputsAreVerdicts ==
  ASSUME PollRecords
  PROVE  /\ \A n \in DOMAIN RawInputs : n \in Names /\ RawInputs[n] \in BOOLEAN
         /\ \A n \in DOMAIN FallbackInputs : n \in Names /\ FallbackInputs[n] \in BOOLEAN
         /\ \A n \in Names : states[n].active => n \in DOMAIN FallbackInputs
<1>1. \A c \in Confs : \A n \in {d.name : d \in ToSet(c)} : n \in Names
  BY ConfigDeclares, DeclarationFields
<1>2. /\ DOMAIN RawInputs = {d.name : d \in ToSet(file)}
      /\ DOMAIN FallbackInputs = {d.name : d \in ToSet(poll.conf)}
                                   \cup {n \in Names : states[n].active}
  BY DEF RawInputs, FallbackInputs
<1>3. file \in Confs /\ poll.conf \in Confs /\ \A n \in Names : states[n].valid \in BOOLEAN
  BY DEF PollRecords, PollRecord, StateRow
<1>4. \A n \in DOMAIN RawInputs : n \in Names
  BY <1>1, <1>2, <1>3
<1>5. \A n \in DOMAIN FallbackInputs : n \in Names
  BY <1>1, <1>2, <1>3
<1>6. ASSUME NEW n \in DOMAIN RawInputs PROVE RawInputs[n] \in BOOLEAN
  <2>. DEFINE id == Identity(ProjectOf(file, n))
              kept == id \in Configured(poll.conf) /\ states[n].active
  <2>1. RawInputs[n] = IF Reported(id) THEN id \in poll.fresh.ok ELSE kept => states[n].valid
    BY <1>2, Zenon DEF RawInputs
  <2>2. CASE Reported(id)
    <3>1. RawInputs[n] = (id \in poll.fresh.ok)
      BY <2>1, <2>2, Zenon
    <3>. QED
      BY ONLY <3>1
  <2>3. CASE ~Reported(id)
    <3>1. RawInputs[n] = (kept => states[n].valid)
      BY <2>1, <2>3, Zenon
    <3>. QED
      BY ONLY <3>1
  <2>. QED
    BY <2>2, <2>3
<1>7. ASSUME NEW n \in DOMAIN FallbackInputs PROVE FallbackInputs[n] \in BOOLEAN
  <2>. DEFINE id == Identity(ProjectOf(poll.conf, n))
              known == n \in {d.name : d \in ToSet(poll.conf)}
  <2>1. FallbackInputs[n] = IF ~known THEN states[n].valid
                            ELSE IF Reported(id) THEN id \in poll.fresh.ok
                            ELSE states[n].active => states[n].valid
    BY <1>2, Zenon DEF FallbackInputs
  <2>2. CASE ~known
    BY <1>3, <1>5, <2>1, <2>2, Zenon
  <2>3. CASE known /\ Reported(id)
    <3>1. FallbackInputs[n] = (id \in poll.fresh.ok)
      BY <2>1, <2>3, Zenon
    <3>. QED
      BY ONLY <3>1
  <2>4. CASE known /\ ~Reported(id)
    <3>1. FallbackInputs[n] = (states[n].active => states[n].valid)
      BY <2>1, <2>4, Zenon
    <3>. QED
      BY ONLY <3>1
  <2>. QED
    BY <2>2, <2>3, <2>4
<1>. QED
  BY <1>2, <1>4, <1>5, <1>6, <1>7

LEMMA ReplacedSnapshots ==
  ASSUME PollInv, poll.pc = "persisting", NEW t, t = replaceProjectIssueSnapshots
  PROVE  /\ t \in [Names -> SnapRow]
         /\ \A n \in Names : \A e \in t[n].rows : e.name = n /\ e.repo = t[n].repo
         /\ \A n \in Names : t[n] # snap[n] =>
               \E id \in poll.fresh.ok : id.name = n /\ id.repo = t[n].repo
<1>0. snap \in [Names -> SnapRow] /\ poll.fresh \in StatusRecord /\ poll.conf \in Confs
  BY PollWords DEF PollInv, PollRecords, PollRecord
<1>1. ASSUME NEW n \in Names
      PROVE  /\ t[n] \in SnapRow
             /\ \A e \in t[n].rows : e.name = n /\ e.repo = t[n].repo
             /\ t[n] # snap[n] => \E id \in poll.fresh.ok : id.name = n /\ id.repo = t[n].repo
  <2>. DEFINE ids == {id \in Recorded \cap poll.fresh.ok : id.name = n}
  <2>1. CASE ids = {}
    <3>1. t[n] = snap[n]
      BY <2>1 DEF replaceProjectIssueSnapshots
    <3>. QED
      BY <1>0, <3>1 DEF PollInv, SnapshotOfOneRepo
  <2>2. CASE ids # {}
    <3>1. PICK id \in ids : t[n] = [repo |-> id.repo, rows |-> projectIssueSnapshotRows(id)]
      BY <2>2 DEF replaceProjectIssueSnapshots
    <3>2. id \in Identities /\ id.name = n /\ id \in poll.fresh.ok
      BY <1>0, ConfigDeclares DEF Recorded
    <3>3. projectIssueSnapshotRows(id) \subseteq Entries
          /\ \A e \in projectIssueSnapshotRows(id) : e.name = id.name /\ e.repo = id.repo
      BY <1>0 DEF projectIssueSnapshotRows, Of, StatusRecord
    <3>4. id.repo \in RepoNames
      BY <3>2, IdentityFields, PollWords
    <3>. QED
      BY <3>1, <3>2, <3>3, <3>4 DEF SnapRow
  <2>. QED
    BY <2>1, <2>2
<1>2. t \in [Names -> SnapRow]
  <2>1. t = [n \in Names |-> t[n]]
    BY DEF replaceProjectIssueSnapshots
  <2>. QED
    BY <1>1, <2>1
<1>. QED
  BY <1>1, <1>2

LEMMA PersistKeeps ==
  ASSUME PollInv, PersistPoll
  PROVE  /\ PollRecords' /\ PollFollowsConfig' /\ FreshReports'
         /\ OneVerdictEach' /\ SnapshotOfOneRepo'
         /\ file = Broken => \A n \in Names : states[n].active => states'[n].active
         /\ \A n \in Names : snap'[n] # snap[n]
              => \E id \in poll.fresh.ok : id.name = n /\ id.repo = snap'[n].repo
<1>. USE PollWords
<1>. DEFINE inputs == IF file = Broken THEN FallbackInputs ELSE RawInputs
            synced == syncProjectStates(inputs)
<1>1. /\ states' = recordProjectPollOutcomes(synced) /\ snap' = replaceProjectIssueSnapshots
      /\ poll' = IdlePoll /\ poll.pc = "persisting"
      /\ UNCHANGED <<file, loaded, changes, status, published, window, suppressed, batch>>
  BY DEF PersistPoll
<1>2. \A n \in DOMAIN inputs : inputs[n] \in BOOLEAN
  BY InputsAreVerdicts DEF PollInv
<1>3. file = Broken => \A n \in Names : states[n].active => n \in DOMAIN inputs
  BY InputsAreVerdicts DEF PollInv
<1>. HIDE DEF inputs
<1>4. synced \in [Names -> StateRow] /\ \A n \in Names : n \in DOMAIN inputs => synced[n].active
  <2>1. states \in [Names -> StateRow]
    BY DEF PollInv, PollRecords
  <2>. QED
    BY ONLY <1>2, <2>1, SyncedStates
<1>. HIDE DEF synced
<1>5. states' \in [Names -> StateRow] /\ \A n \in Names : states'[n].active = synced[n].active
  BY ONLY <1>1, <1>4, RecordedStates
<1>6. /\ snap' \in [Names -> SnapRow]
      /\ \A n \in Names : \A e \in snap'[n].rows : e.name = n /\ e.repo = snap'[n].repo
      /\ \A n \in Names : snap'[n] # snap[n] =>
            \E id \in poll.fresh.ok : id.name = n /\ id.repo = snap'[n].repo
  BY ONLY PollInv, <1>1, ReplacedSnapshots
<1>7. prPoll' \subseteq Declarations
  <2>1. poll.conf \in Confs /\ prPoll \subseteq Declarations
    BY DEF PollInv, PollRecords, PollRecord
  <2>. QED
    BY <2>1, ConfigDeclares DEF PersistPoll
<1>8. PollRecords'
  BY <1>1, <1>5, <1>6, <1>7 DEF PollInv, PollRecords
<1>9. PollFollowsConfig' /\ FreshReports' /\ OneVerdictEach'
  BY <1>1 DEF PollInv, PollFollowsConfig, FreshReports, FreshDisjoint, OneVerdictEach, IdlePoll,
     NoStatus
<1>. QED
  BY <1>3, <1>4, <1>5, <1>6, <1>8, <1>9 DEF SnapshotOfOneRepo

-----------------------------------------------------------------------------
(* Listing.                                                                *)

\* A poll record that lists on: what the steps of listing have in common.
LEMMA ListsOn ==
  ASSUME PollInv, NEW k \in poll.left, poll' \in PollRecord, poll.pc = "listing",
         poll'.pc = "listing", poll'.conf = poll.conf, poll'.left = poll.left \ {k},
         UNCHANGED <<file, loaded, changes, status, published, window, prPoll, states, snap,
                     suppressed, batch>>,
         poll'.fresh.failed \subseteq poll'.fresh.errors,
         \A e \in poll'.fresh.cand \cup poll'.fresh.filt : Identity(e) \in poll'.fresh.ok,
         \A x \in poll'.fresh.ok \cup poll'.fresh.failed :
            x \in poll.fresh.ok \cup poll.fresh.failed \cup {Identity(poll.conf[k])},
         DeclaredOnce(poll.conf)
           => /\ poll'.fresh.cand \cap poll'.fresh.filt = {}
              /\ poll'.fresh.ok \cap poll'.fresh.failed = {}
  PROVE  PollRecords' /\ PollFollowsConfig' /\ FreshReports' /\ OneVerdictEach'
<1>. USE DEF PollInv
<1>1. PollRecords' /\ PollFollowsConfig'
  BY DEF PollRecords, PollFollowsConfig
<1>2. DeclaredOnce(poll.conf) => \A j \in poll'.left : ~Reported(Identity(poll.conf[j]))'
  <2>. SUFFICES ASSUME DeclaredOnce(poll.conf), NEW j \in poll'.left
                PROVE  Identity(poll.conf[j]) \notin poll'.fresh.ok \cup poll'.fresh.failed
    BY DEF Reported
  <2>1. j \in DOMAIN poll.conf /\ k \in DOMAIN poll.conf /\ j # k
    BY DEF PollFollowsConfig
  <2>2. Identity(poll.conf[j]) # Identity(poll.conf[k])
    BY <2>1 DEF DeclaredOnce
  <2>3. Identity(poll.conf[j]) \notin poll.fresh.ok \cup poll.fresh.failed
    BY DEF FreshReports, Reported
  <2>. QED
    BY <2>2, <2>3
<1>3. FreshReports'
  BY <1>2 DEF FreshReports, FreshDisjoint, DeclaredOnce
<1>4. OneVerdictEach'
  <2>1. (\A c \in Configs : DeclaredOnce(c)) => DeclaredOnce(poll.conf)
    BY DEF PollFollowsConfig
  <2>2. status' = status /\ (\A c \in Configs : DeclaredOnce(c)) =>
           status.cand \cap status.filt = {} /\ status.ok \cap status.failed = {}
    BY DEF OneVerdictEach
  <2>. QED
    BY <2>1, <2>2 DEF OneVerdictEach
<1>. QED
  BY <1>1, <1>3, <1>4

LEMMA ListedKeeps ==
  ASSUME PollInv, NEW k \in poll.left, NEW cand \in SUBSET Issues,
         NEW filt \in SUBSET (Issues \ cand), PollListed(k, cand, filt)
  PROVE  PollRecords' /\ PollFollowsConfig' /\ FreshReports' /\ OneVerdictEach'
<1>. DEFINE id == Identity(poll.conf[k])
            c == {Entry(id, i) : i \in cand}
            f == {Entry(id, i) : i \in filt}
<1>1. /\ poll \in PollRecord /\ poll.fresh \in StatusRecord /\ poll.conf \in Confs
      /\ k \in DOMAIN poll.conf
  BY DEF PollInv, PollRecords, PollRecord, PollFollowsConfig
<1>2. poll.conf[k] \in Declarations
  BY <1>1, ConfigDeclares
<1>3. id \in Identities /\ c \subseteq Entries /\ f \subseteq Entries
      /\ \A e \in c \cup f : Identity(e) = id
  BY <1>2, DeclarationFields
<1>4. c \cap f = {}
  BY DEF Entry
<1>5. poll.pc = "listing" /\ poll' = [poll EXCEPT !.left = @ \ {k}, !.fresh.cand = @ \cup c,
                              !.fresh.filt = @ \cup f, !.fresh.ok = @ \cup {id}]
  BY DEF PollListed, Listed
<1>. HIDE DEF c, f, id
<1>6. /\ poll' \in PollRecord /\ poll'.pc = "listing" /\ poll'.conf = poll.conf
      /\ poll'.left = poll.left \ {k}
      /\ poll'.fresh.cand = poll.fresh.cand \cup c /\ poll'.fresh.filt = poll.fresh.filt \cup f
      /\ poll'.fresh.ok = poll.fresh.ok \cup {id}
      /\ poll'.fresh.failed = poll.fresh.failed /\ poll'.fresh.errors = poll.fresh.errors
  BY <1>1, <1>3, <1>5 DEF PollRecord, StatusRecord
<1>7. /\ poll.fresh.failed \subseteq poll.fresh.errors
      /\ \A e \in poll.fresh.cand \cup poll.fresh.filt : Identity(e) \in poll.fresh.ok
      /\ DeclaredOnce(poll.conf) => id \notin poll.fresh.ok \cup poll.fresh.failed
  BY DEF PollInv, FreshReports, Reported, id
<1>8. DeclaredOnce(poll.conf) =>
         /\ poll'.fresh.cand \cap poll'.fresh.filt = {}
         /\ poll'.fresh.ok \cap poll'.fresh.failed = {}
  <2>. SUFFICES ASSUME DeclaredOnce(poll.conf) PROVE
         /\ poll'.fresh.cand \cap poll'.fresh.filt = {}
         /\ poll'.fresh.ok \cap poll'.fresh.failed = {}
    OBVIOUS
  <2>1. poll.fresh.cand \cap poll.fresh.filt = {} /\ poll.fresh.ok \cap poll.fresh.failed = {}
    BY DEF FreshDisjoint, FreshReports, PollInv
  <2>. QED
    BY <1>3, <1>4, <1>6, <1>7, <2>1
<1>9. UNCHANGED <<file, loaded, changes, status, published, window, prPoll, states, snap,
                  suppressed, batch>>
  BY DEF PollListed
<1>. QED
  BY <1>3, <1>5, <1>6, <1>7, <1>8, <1>9, ListsOn DEF id

LEMMA FailedKeeps ==
  ASSUME PollInv, NEW k \in poll.left, NEW limit \in BOOLEAN, PollFailed(k, limit)
  PROVE  PollRecords' /\ PollFollowsConfig' /\ FreshReports' /\ OneVerdictEach'
<1>. DEFINE id == Identity(poll.conf[k])
<1>1. /\ poll \in PollRecord /\ poll.fresh \in StatusRecord /\ poll.conf \in Confs
      /\ k \in DOMAIN poll.conf
  BY DEF PollInv, PollRecords, PollRecord, PollFollowsConfig
<1>2. poll.conf[k] \in Declarations
  BY <1>1, ConfigDeclares
<1>3. id \in Identities /\ poll.conf[k].token \in Tokens
  BY <1>2, DeclarationFields
<1>4. PICK limited \in SUBSET Tokens :
         poll' = [poll EXCEPT !.left = @ \ {k}, !.limited = limited,
                    !.fresh.failed = @ \cup {id}, !.fresh.errors = @ \cup {id}]
  <2>1. (IF limit THEN poll.limited \cup {poll.conf[k].token} ELSE poll.limited) \in SUBSET Tokens
    BY <1>1, <1>3 DEF PollRecord
  <2>. QED
    BY <2>1 DEF PollFailed
<1>5. poll.pc = "listing"
  BY DEF PollFailed, Listed
<1>. HIDE DEF id
<1>6. /\ poll' \in PollRecord /\ poll'.pc = "listing" /\ poll'.conf = poll.conf
      /\ poll'.left = poll.left \ {k}
      /\ poll'.fresh.cand = poll.fresh.cand /\ poll'.fresh.filt = poll.fresh.filt
      /\ poll'.fresh.ok = poll.fresh.ok
      /\ poll'.fresh.failed = poll.fresh.failed \cup {id}
      /\ poll'.fresh.errors = poll.fresh.errors \cup {id}
  BY <1>1, <1>3, <1>4, <1>5 DEF PollRecord, StatusRecord
<1>7. /\ poll.fresh.failed \subseteq poll.fresh.errors
      /\ \A e \in poll.fresh.cand \cup poll.fresh.filt : Identity(e) \in poll.fresh.ok
      /\ DeclaredOnce(poll.conf) => id \notin poll.fresh.ok \cup poll.fresh.failed
  BY DEF PollInv, FreshReports, Reported, id
<1>8. DeclaredOnce(poll.conf) =>
         /\ poll'.fresh.cand \cap poll'.fresh.filt = {}
         /\ poll'.fresh.ok \cap poll'.fresh.failed = {}
  BY <1>6, <1>7 DEF FreshDisjoint, FreshReports, PollInv
<1>9. UNCHANGED <<file, loaded, changes, status, published, window, prPoll, states, snap,
                  suppressed, batch>>
  BY DEF PollFailed
<1>. QED
  BY <1>5, <1>6, <1>7, <1>8, <1>9, ListsOn DEF id

LEMMA SkippedKeeps ==
  ASSUME PollInv, NEW k \in poll.left, PollSkipped(k)
  PROVE  PollRecords' /\ PollFollowsConfig' /\ FreshReports' /\ OneVerdictEach'
<1>1. /\ poll \in PollRecord /\ poll.pc = "listing" /\ poll' = [poll EXCEPT !.left = @ \ {k}]
      /\ UNCHANGED <<file, loaded, changes, status, published, window, prPoll, states, snap,
                     suppressed, batch>>
  BY DEF PollInv, PollRecords, PollSkipped, Listed
<1>2. /\ poll' \in PollRecord /\ poll'.pc = "listing" /\ poll'.conf = poll.conf
      /\ poll'.left = poll.left \ {k} /\ poll'.fresh = poll.fresh
  BY <1>1 DEF PollRecord
<1>. QED
  BY <1>1, <1>2, ListsOn DEF PollInv, FreshReports, FreshDisjoint

LEMMA StartKeeps ==
  ASSUME PollInv, StartPoll
  PROVE  PollRecords' /\ PollFollowsConfig' /\ FreshReports' /\ OneVerdictEach'
<1>. DEFINE left == {k \in DOMAIN Reloaded : isPollable(Reloaded[k])}
<1>1. Reloaded \in Configs
  BY DEF Reloaded, PollInv, PollRecords, Confs
<1>2. DOMAIN Reloaded \subseteq Nat
  BY <1>1, PollBounds
<1>3. /\ poll' = [IdlePoll EXCEPT !.pc = "listing", !.conf = Reloaded, !.left = left]
      /\ loaded' = Reloaded
      /\ UNCHANGED <<file, changes, status, published, window, prPoll, states, snap,
                     suppressed, batch>>
  BY DEF StartPoll
<1>4. left \subseteq Nat /\ left \subseteq DOMAIN Reloaded
  BY <1>2
<1>. HIDE DEF left
<1>5. /\ poll' \in PollRecord /\ poll'.pc = "listing" /\ poll'.conf = Reloaded
      /\ poll'.left = left /\ poll'.fresh = NoStatus
  BY <1>1, <1>3, <1>4, PollWords DEF PollRecord, IdlePoll
<1>6. PollRecords'
  BY <1>1, <1>3, <1>5 DEF PollInv, PollRecords
<1>7. PollFollowsConfig' /\ FreshReports'
  BY <1>1, <1>4, <1>5 DEF PollFollowsConfig, FreshReports, FreshDisjoint, Reported, NoStatus
<1>8. OneVerdictEach'
  BY <1>3, <1>5 DEF PollInv, OneVerdictEach, NoStatus
<1>. QED
  BY <1>6, <1>7, <1>8

\* The steps that leave the poll and the status alone.
LEMMA WorldSteps ==
  ASSUME PollInv,
         \/ \E c \in Configs \cup {Broken} : EditFile(c)
         \/ ReloadElsewhere
         \/ \E t \in Tokens : WindowElapses(t)
         \/ \E limited \in SUBSET Identities : PullRequestPollEnds(limited)
         \/ \E e \in Entries : Verdict(e)
         \/ LaunchBatch
         \/ \E e \in Entries : ClaimPicked(e)
  PROVE  PollRecords' /\ UNCHANGED <<poll, status, published, states, snap>>
<1>. USE DEF PollInv, PollRecords
<1>1. ASSUME NEW c \in Configs \cup {Broken}, EditFile(c)
      PROVE  PollRecords' /\ UNCHANGED <<poll, status, published, states, snap>>
  <2>1. changes' \in 0 .. MaxChanges
    BY <1>1, PollBounds DEF EditFile
  <2>. QED
    BY <1>1, <2>1 DEF EditFile, Confs
<1>2. ASSUME ReloadElsewhere
      PROVE  PollRecords' /\ UNCHANGED <<poll, status, published, states, snap>>
  BY <1>2 DEF ReloadElsewhere, Reloaded, Confs
<1>3. ASSUME NEW t \in Tokens, WindowElapses(t)
      PROVE  PollRecords' /\ UNCHANGED <<poll, status, published, states, snap>>
  BY <1>3 DEF WindowElapses
<1>4. ASSUME NEW limited \in SUBSET Identities, PullRequestPollEnds(limited)
      PROVE  PollRecords' /\ UNCHANGED <<poll, status, published, states, snap>>
  BY <1>4, DeclarationFields DEF PullRequestPollEnds, rateLimitedTokens
<1>5. ASSUME NEW e \in Entries, Verdict(e)
      PROVE  PollRecords' /\ UNCHANGED <<poll, status, published, states, snap>>
  <2>1. changes' \in 0 .. MaxChanges
    BY <1>5, PollBounds DEF Verdict
  <2>. QED
    BY <1>5, <2>1 DEF Verdict
<1>6. ASSUME LaunchBatch
      PROVE  PollRecords' /\ UNCHANGED <<poll, status, published, states, snap>>
  <2>1. batch' \in BatchRecord
    <3>1. PICK view : view \subseteq status.cand /\ batch' = [conf |-> loaded, view |-> view]
      BY <1>6 DEF LaunchBatch
    <3>2. view \subseteq Entries /\ loaded \in Confs
      BY <3>1, PollWords DEF StatusRecord
    <3>. QED
      BY <3>1, <3>2 DEF BatchRecord
  <2>. QED
    BY <1>6, <2>1 DEF LaunchBatch
<1>7. ASSUME NEW e \in Entries, ClaimPicked(e)
      PROVE  PollRecords' /\ UNCHANGED <<poll, status, published, states, snap>>
  <2>1. batch' = NoBatch \/ batch' = [batch EXCEPT !.view = @ \ {e}]
    BY <1>7 DEF ClaimPicked
  <2>2. batch' \in BatchRecord
    BY <2>1, PollWords DEF NoBatch, BatchRecord
  <2>. QED
    BY <1>7, <2>2 DEF ClaimPicked
<1>. QED
  BY <1>1, <1>2, <1>3, <1>4, <1>5, <1>6, <1>7

-----------------------------------------------------------------------------
(* What a step of the polling may do to what is known.                     *)
Known ==
    /\ status' # status => status'.cand \cap suppressed = {}
    /\ \A id \in status.ok \cup status.failed :
         id \in Configured(published') => id \in status'.ok \cup status'.failed
    /\ file = Broken => \A n \in Names : states[n].active => states'[n].active
    /\ \A n \in Names : snap'[n] # snap[n]
         => \E id \in poll.fresh.ok : id.name = n /\ id.repo = snap'[n].repo

LEMMA ClaimOutsideWindow ==
  ASSUME PollInv, PollNext
  PROVE  NoClaimInWindow'
<1>1. ASSUME NEW e \in Entries, ClaimPicked(e) PROVE NoClaimInWindow'
  <2>. DEFINE d == ProjectOf(batch.conf, e.name)
  <2>1. \/ claim' = NoClaim
        \/ /\ claim' = [seen |-> e.repo, written |-> d.repo, limited |-> d.token \in window]
           /\ d.token \notin window
    BY <1>1 DEF ClaimPicked, isClaimAllowed, isPollable
  <2>. HIDE DEF d
  <2>2. CASE claim' = NoClaim
    BY <2>2 DEF NoClaimInWindow, NoClaim
  <2>3. CASE claim' = [seen |-> e.repo, written |-> d.repo, limited |-> d.token \in window]
             /\ d.token \notin window
    <3>1. claim'.limited = (d.token \in window)
      BY <2>3
    <3>. QED
      BY <2>3, <3>1, Zenon DEF NoClaimInWindow
  <2>. QED
    BY <2>1, <2>2, <2>3
<1>2. CASE claim' = NoClaim
  BY <1>2 DEF NoClaimInWindow, NoClaim
<1>. QED
  BY <1>1, <1>2 DEF PollNext

LEMMA PollGoesOn == PollInv /\ [PollNext]_pollVars => PollInv' /\ Known
<1>. SUFFICES ASSUME PollInv, [PollNext]_pollVars PROVE PollInv' /\ Known
  OBVIOUS
<1>1. ASSUME UNCHANGED <<poll, status, published, states, snap>>, PollRecords', NoClaimInWindow'
      PROVE  PollInv' /\ Known
  BY <1>1 DEF PollInv, Known, PollFollowsConfig, FreshReports, FreshDisjoint, Reported, DeclaredOnce,
     CandidatesOfSelected, OneVerdictEach, FailuresStayVisible, SnapshotOfOneRepo
<1>2. CASE UNCHANGED pollVars
  <2>1. PollRecords' /\ NoClaimInWindow'
    BY <1>2 DEF pollVars, PollInv, PollRecords, NoClaimInWindow
  <2>. QED
    BY <1>1, <1>2, <2>1 DEF pollVars
<1>3. CASE \/ \E c \in Configs \cup {Broken} : EditFile(c)
           \/ ReloadElsewhere
           \/ \E t \in Tokens : WindowElapses(t)
           \/ \E limited \in SUBSET Identities : PullRequestPollEnds(limited)
           \/ \E e \in Entries : Verdict(e)
           \/ LaunchBatch
           \/ \E e \in Entries : ClaimPicked(e)
  <2>1. PollNext \/ UNCHANGED pollVars
    OBVIOUS
  <2>2. CASE PollNext
    BY <1>1, <1>3, <2>2, WorldSteps, ClaimOutsideWindow
  <2>. QED
    BY <1>2, <2>1, <2>2
<1>4. ASSUME PollRecords', PollFollowsConfig', FreshReports', OneVerdictEach', NoClaimInWindow',
             UNCHANGED <<status, published, states, snap>>
      PROVE  PollInv' /\ Known
  BY <1>4 DEF PollInv, Known, CandidatesOfSelected, FailuresStayVisible, SnapshotOfOneRepo
<1>5. CASE StartPoll /\ claim' = NoClaim
  BY <1>4, <1>5, StartKeeps DEF StartPoll, NoClaimInWindow, NoClaim
<1>6. ASSUME NEW k \in poll.left, claim' = NoClaim,
             \/ \E cand \in SUBSET Issues : \E filt \in SUBSET (Issues \ cand) :
                   PollListed(k, cand, filt)
             \/ \E limit \in BOOLEAN : PollFailed(k, limit)
             \/ PollSkipped(k)
      PROVE  PollInv' /\ Known
  <2>1. NoClaimInWindow'
    BY <1>6 DEF NoClaimInWindow, NoClaim
  <2>2. UNCHANGED <<status, published, states, snap>>
    BY <1>6 DEF PollListed, PollFailed, PollSkipped
  <2>3. PollRecords' /\ PollFollowsConfig' /\ FreshReports' /\ OneVerdictEach'
    BY <1>6, ListedKeeps, FailedKeeps, SkippedKeeps
  <2>. QED
    BY <1>4, <2>1, <2>2, <2>3
<1>7. CASE PublishStatus /\ claim' = NoClaim
  <2>1. NoClaimInWindow' /\ UNCHANGED <<states, snap>>
    BY <1>7 DEF NoClaimInWindow, NoClaim, PublishStatus
  <2>. QED
    BY <1>7, <2>1, PublishKeeps DEF PollInv, Known, SnapshotOfOneRepo
<1>8. CASE PersistPoll /\ claim' = NoClaim
  <2>1. NoClaimInWindow' /\ UNCHANGED <<status, published>>
    BY <1>8 DEF NoClaimInWindow, NoClaim, PersistPoll
  <2>. QED
    BY <1>8, <2>1, PersistKeeps DEF PollInv, Known, CandidatesOfSelected, FailuresStayVisible
<1>. QED
  BY <1>2, <1>3, <1>5, <1>6, <1>7, <1>8 DEF PollNext, PollStep

LEMMA PollInvHolds == PollSpec => []PollInv
<1>1. PollInv /\ [PollNext]_pollVars => PollInv'
  BY PollGoesOn
<1>. QED
  BY PollBegins, <1>1, PTL DEF PollSpec

(* For any configurations, issues and changes: dispatch and the pages are
   offered what the published configuration declares, an error stays visible,
   a Project's rows come from one repository, and no claim is written with a
   token that backs off.                                                    *)
THEOREM PollTellsTheTruth == PollSpec => []PollInvariant
<1>1. PollInv => PollInvariant
  <2>. SUFFICES ASSUME PollInv PROVE PollTypeOK
    BY DEF PollInv, PollInvariant
  <2>. USE DEF PollInv, PollRecords
  <2>1. /\ poll.pc \in {"idle", "listing", "persisting"} /\ poll.conf \in Configs \cup {Broken}
        /\ file \in Configs \cup {Broken} /\ poll.fresh \in StatusRecord
    BY DEF PollRecord, PollPlaces, Confs
  <2>2. \A s \in {status, poll.fresh} :
           /\ {s.cand, s.filt} \subseteq SUBSET Entries
           /\ {s.ok, s.failed, s.errors} \subseteq SUBSET Identities
    BY <2>1 DEF StatusRecord
  <2>3. /\ states \in [Names -> [active : BOOLEAN, valid : BOOLEAN]]
        /\ snap \in [Names -> [repo : Repos \cup {NoRepo}, rows : SUBSET Entries]]
    BY Zenon DEF StateRow, SnapRow, RepoNames
  <2>4. batch.view \subseteq Entries
    BY DEF BatchRecord
  <2>. QED
    BY <2>1, <2>2, <2>3, <2>4 DEF PollTypeOK
<1>. QED
  BY <1>1, PollInvHolds, PTL

(* A publication never offers a suppressed issue and never drops a Project
   that is still configured, a broken edit deactivates nothing, and a failed
   poll changes no row.                                                     *)
THEOREM PublicationIsConservative == PollSpec => PublicationKeepsWhatIsKnown
<1>. DEFINE A == status' # status => status'.cand \cap suppressed = {}
            B == \A id \in status.ok \cup status.failed :
                   id \in Configured(published') => id \in status'.ok \cup status'.failed
            C == file = Broken => \A n \in Names : states[n].active => states'[n].active
            D == \A n \in Names : snap'[n] # snap[n]
                   => \E id \in poll.fresh.ok : id.name = n /\ id.repo = snap'[n].repo
<1>1. PollInv /\ [PollNext]_pollVars => [A]_pollVars /\ [B]_pollVars /\ [C]_pollVars /\ [D]_pollVars
  BY PollGoesOn DEF Known
<1>. QED
  BY <1>1, PollInvHolds, PTL DEF PollSpec, PublicationKeepsWhatIsKnown, SuppressedNotOffered,
     PolledProjectsStay, BrokenEditKeepsProjects, FailedPollKeepsRows

-----------------------------------------------------------------------------
(***************************************************************************)
(* Sums over finite sets.  Induction goes over the subsets of a finite     *)
(* set, along the well-founded order of strict inclusion: the property is  *)
(* the set of the subsets that have it.                                    *)
(***************************************************************************)
\* Induction on the subsets of a finite set.
LEMMA SubsetInduction ==
  ASSUME NEW S, IsFiniteSet(S), NEW G,
         \A s \in SUBSET S : (\A u \in SUBSET s : u # s => u \in G) => s \in G
  PROVE  \A s \in SUBSET S : s \in G
<1>. DEFINE T == {s \in SUBSET S : s \notin G}
<1>1. SUFFICES ASSUME T # {} PROVE FALSE
  OBVIOUS
<1>2. T \subseteq SUBSET S /\ SUBSET S = FiniteSubsetsOf(S)
  BY <1>1, FS_FiniteSubsetsOfFinite
<1>3. IsWellFoundedOn(StrictSubsetOrdering(S), SUBSET S)
  BY <1>2, FS_StrictSubsetOrderingWellFounded
<1>4. PICK s \in T : \A u \in T : ~(<<u, s>> \in StrictSubsetOrdering(S))
  <2>. HIDE DEF T
  <2>. QED  BY <1>1, <1>2, <1>3, WFMin
<1>5. \A u \in SUBSET s : u # s => u \in G
  BY <1>1, <1>4 DEF StrictSubsetOrdering
<1>. QED  BY <1>1, <1>4, <1>5

LEMMA ElementInduction ==
  ASSUME NEW S, IsFiniteSet(S), NEW G, {} \in G,
         \A s \in SUBSET S : \A x \in s : s \ {x} \in G => s \in G
  PROVE  \A s \in SUBSET S : s \in G
<1>1. ASSUME NEW s \in SUBSET S, \A u \in SUBSET s : u # s => u \in G PROVE s \in G
  <2>1. CASE s = {}
    BY <2>1
  <2>2. CASE s # {}
    <3>1. PICK x : x \in s
      BY <2>2
    <3>2. s \ {x} \in SUBSET s /\ s \ {x} # s
      BY <3>1
    <3>3. s \ {x} \in G
      BY <1>1, <3>2
    <3>. QED  BY <3>1, <3>3
  <2>. QED  BY <2>1, <2>2
<1>. QED  BY <1>1, SubsetInduction

AnElement(s) == CHOOSE x \in s : TRUE
Unfolds(g, f, S) ==
  g = [s \in SUBSET S |-> IF s = {} THEN 0 ELSE f[AnElement(s)] + g[s \ {AnElement(s)}]]

LEMMA Chosen == ASSUME NEW s, s # {} PROVE AnElement(s) \in s
BY DEF AnElement

LEMMA Unfolded ==
  ASSUME NEW f, NEW S, NEW g, Unfolds(g, f, S), NEW s \in SUBSET S
  PROVE  g[s] = IF s = {} THEN 0 ELSE f[AnElement(s)] + g[s \ {AnElement(s)}]
BY DEF Unfolds

LEMMA SumIsUnfolding ==
  ASSUME NEW f, NEW S, NEW g, Unfolds(g, f, S)
  PROVE  \E h : Unfolds(h, f, S) /\ SumFunctionOnSet(f, S) = h[S]
<1>. DEFINE h == CHOOSE iter : iter = [s \in SUBSET S |-> IF s = {} THEN 0
              ELSE LET x == CHOOSE y \in s : TRUE IN f[x] + iter[s \ {x}]]
<1>1. h[S] = SumFunctionOnSet(f, S)
  BY DEF SumFunctionOnSet, FoldFunctionOnSet, MapThenFoldSet
<1>2. Unfolds(h, f, S)
  BY DEF Unfolds, AnElement
<1>. QED  BY <1>1, <1>2

LEMMA UnfoldingsAgree ==
  ASSUME NEW f, NEW S, NEW T, IsFiniteSet(S), NEW g, Unfolds(g, f, S), NEW h, Unfolds(h, f, T),
         NEW u, u \subseteq S, u \subseteq T
  PROVE  g[u] = h[u]
<1>. DEFINE G == {s \in SUBSET u : g[s] = h[s]}
<1>1. IsFiniteSet(u)
  BY FS_Subset
<1>2. ASSUME NEW s \in SUBSET u, \A w \in SUBSET s : w # s => w \in G PROVE s \in G
  <2>1. s \in SUBSET S /\ s \in SUBSET T
    OBVIOUS
  <2>2. CASE s = {}
    BY <2>1, <2>2, Unfolded
  <2>3. CASE s # {}
    <3>1. s \ {AnElement(s)} \in SUBSET s /\ s \ {AnElement(s)} # s
      BY <2>3, Chosen
    <3>2. g[s \ {AnElement(s)}] = h[s \ {AnElement(s)}]
      BY <1>2, <3>1
    <3>3. g[s] = f[AnElement(s)] + g[s \ {AnElement(s)}]
      BY <2>1, <2>3, Unfolded
    <3>4. h[s] = f[AnElement(s)] + h[s \ {AnElement(s)}]
      BY <2>1, <2>3, Unfolded
    <3>. QED  BY <3>2, <3>3, <3>4
  <2>. QED  BY <2>2, <2>3
<1>3. \A s \in SUBSET u : s \in G
  <2>. HIDE DEF G
  <2>. QED  BY <1>1, <1>2, SubsetInduction
<1>. QED  BY <1>3

LEMMA UnfoldingExists ==
  ASSUME NEW f, NEW S, IsFiniteSet(S)
  PROVE  \E g : Unfolds(g, f, S)
<1>. DEFINE G == {s \in SUBSET S : \E g : Unfolds(g, f, s)}
<1>1. ASSUME NEW s \in SUBSET S, \A u \in SUBSET s : u # s => u \in G PROVE s \in G
  <2>. DEFINE of(u) == CHOOSE g : Unfolds(g, f, u)
              a == AnElement(s)
              h == [u \in SUBSET s |-> IF u = {} THEN 0
                                       ELSE IF u = s THEN f[a] + of(s \ {a})[s \ {a}]
                                       ELSE of(u)[u]]
  <2>1. \A u \in SUBSET s : u # s => Unfolds(of(u), f, u) /\ IsFiniteSet(u)
    BY <1>1, FS_Subset
  <2>2. ASSUME NEW u \in SUBSET s, u # {} PROVE h[u] = f[AnElement(u)] + h[u \ {AnElement(u)}]
    <3>. DEFINE v == u \ {AnElement(u)}
    <3>1. v \in SUBSET s /\ v # s /\ v # u /\ v \in SUBSET u
      BY <2>2, Chosen
    <3>2. h[v] = IF v = {} THEN 0 ELSE of(v)[v]
      BY <3>1
    <3>3. Unfolds(of(v), f, v) /\ IsFiniteSet(v)
      BY <2>1, <3>1
    <3>4. of(v)[v] = h[v]
      BY <3>2, <3>3, Unfolded
    <3>5. CASE u = s
      BY <2>2, <3>4, <3>5
    <3>6. CASE u # s
      <4>1. Unfolds(of(u), f, u) /\ h[u] = of(u)[u]
        BY <2>1, <2>2, <3>6
      <4>2. of(u)[u] = f[AnElement(u)] + of(u)[v]
        BY <2>2, <4>1, Unfolded
      <4>. HIDE DEF of
      <4>3. of(u)[v] = of(v)[v]
        BY <3>1, <3>3, <4>1, UnfoldingsAgree
      <4>. QED  BY <3>4, <4>1, <4>2, <4>3
    <3>. QED  BY <3>5, <3>6
  <2>3. \A u \in SUBSET s : h[u] = IF u = {} THEN 0 ELSE f[AnElement(u)] + h[u \ {AnElement(u)}]
    <3>1. ASSUME NEW u \in SUBSET s, u = {} PROVE h[u] = 0
      BY <3>1
    <3>. HIDE DEF h
    <3>. QED  BY <2>2, <3>1
  <2>4. h = [u \in SUBSET s |-> h[u]]
    OBVIOUS
  <2>. HIDE DEF h
  <2>5. Unfolds(h, f, s)
    BY <2>3, <2>4 DEF Unfolds
  <2>. QED  BY <2>5
<1>2. \A s \in SUBSET S : s \in G
  <2>. HIDE DEF G
  <2>. QED  BY <1>1, SubsetInduction
<1>. QED  BY <1>2

\* A sum is the value at any element and the sum of the others.
LEMMA SumUnfolds ==
  ASSUME NEW f, NEW s, IsFiniteSet(s)
  PROVE  SumFunctionOnSet(f, s) = IF s = {} THEN 0
           ELSE f[AnElement(s)] + SumFunctionOnSet(f, s \ {AnElement(s)})
<1>1. PICK g : Unfolds(g, f, s) /\ SumFunctionOnSet(f, s) = g[s]
  BY UnfoldingExists, SumIsUnfolding
<1>. DEFINE u == s \ {AnElement(s)}
<1>2. IsFiniteSet(u) /\ u \subseteq s
  BY FS_Subset
<1>3. PICK h : Unfolds(h, f, u) /\ SumFunctionOnSet(f, u) = h[u]
  BY <1>2, UnfoldingExists, SumIsUnfolding
<1>4. g[u] = h[u]
  BY <1>1, <1>2, <1>3, UnfoldingsAgree
<1>. QED  BY <1>1, <1>3, <1>4, Unfolded

LEMMA SumType ==
  ASSUME NEW S, IsFiniteSet(S), NEW f, \A x \in S : f[x] \in Int
  PROVE  \A s \in SUBSET S : SumFunctionOnSet(f, s) \in Int
<1>. DEFINE G == {s \in SUBSET S : SumFunctionOnSet(f, s) \in Int}
<1>1. ASSUME NEW s \in SUBSET S, \A u \in SUBSET s : u # s => u \in G PROVE s \in G
  <2>1. IsFiniteSet(s)
    BY FS_Subset
  <2>2. CASE s = {}
    <3>1. SumFunctionOnSet(f, s) = 0
      BY <2>1, <2>2, SumUnfolds
    <3>. QED  BY <3>1
  <2>3. CASE s # {}
    <3>. DEFINE v == s \ {AnElement(s)}
    <3>1. v \in SUBSET s /\ v # s /\ AnElement(s) \in S
      BY <2>3, Chosen
    <3>2. SumFunctionOnSet(f, v) \in Int /\ f[AnElement(s)] \in Int
      BY <1>1, <3>1
    <3>. QED  BY <2>1, <2>3, <3>2, SumUnfolds
  <2>. QED  BY <2>2, <2>3
<1>2. \A s \in SUBSET S : s \in G
  <2>. HIDE DEF G
  <2>. QED  BY <1>1, SubsetInduction
<1>. QED  BY <1>2

Valued(f, S) == \A x \in S : f[x] \in Int
Splits(f, S) == \A s \in SUBSET S : \A x \in s :
                  SumFunctionOnSet(f, s) = f[x] + SumFunctionOnSet(f, s \ {x})

LEMMA SumSplits ==
  ASSUME NEW S, IsFiniteSet(S), NEW f, Valued(f, S)
  PROVE  Splits(f, S)
<1>1. \A x \in S : f[x] \in Int
  BY DEF Valued
<1>. DEFINE Q(s) == \A x \in s : SumFunctionOnSet(f, s) = f[x] + SumFunctionOnSet(f, s \ {x})
<1>2. \A s \in SUBSET S : Q(s)
  <2>. DEFINE Here(s) == \A x \in s : SumFunctionOnSet(f, s) = f[x] + SumFunctionOnSet(f, s \ {x})
              G == {s \in SUBSET S : Here(s)}
  <2>1. ASSUME NEW s \in SUBSET S, \A u \in SUBSET s : u # s => u \in G PROVE s \in G
    <3>1. IsFiniteSet(s)
      BY FS_Subset
    <3>2. ASSUME NEW x \in s PROVE SumFunctionOnSet(f, s) = f[x] + SumFunctionOnSet(f, s \ {x})
      <4>. DEFINE a == AnElement(s)
      <4>1. a \in s /\ SumFunctionOnSet(f, s) = f[a] + SumFunctionOnSet(f, s \ {a})
        BY <3>1, <3>2, Chosen, SumUnfolds
      <4>2. CASE a = x
        BY <4>1, <4>2
      <4>3. CASE a # x
        <5>. DEFINE w == s \ {a, x}
        <5>1. /\ s \ {a} \in G /\ x \in s \ {a} /\ (s \ {a}) \ {x} = w
              /\ s \ {x} \in G /\ a \in s \ {x} /\ (s \ {x}) \ {a} = w
          BY <2>1, <3>2, <4>1, <4>3
        <5>2. /\ SumFunctionOnSet(f, s \ {a}) = f[x] + SumFunctionOnSet(f, w)
              /\ SumFunctionOnSet(f, s \ {x}) = f[a] + SumFunctionOnSet(f, w)
          BY <5>1
        <5>3. f[a] \in Int /\ f[x] \in Int
          BY <1>1, <3>2, <4>1
        <5>4. SumFunctionOnSet(f, w) \in Int
          BY <1>1, SumType
        <5>. QED  BY <4>1, <5>2, <5>3, <5>4
      <4>. QED  BY <4>2, <4>3
    <3>. QED  BY <3>2
  <2>2. \A s \in SUBSET S : s \in G
    <3>. HIDE DEF G
    <3>. QED  BY <2>1, SubsetInduction
  <2>. QED  BY <2>2
<1>. QED  BY <1>2 DEF Splits

\* Sums are compared, added and split element by element.
LEMMA SumOfNothing == ASSUME NEW f PROVE SumFunctionOnSet(f, {}) = 0
BY FS_EmptySet, SumUnfolds

LEMMA SumAdds ==
  ASSUME NEW S, IsFiniteSet(S), NEW f, \A x \in S : f[x] \in Int,
         NEW g, \A x \in S : g[x] \in Int, NEW h, \A x \in S : h[x] = f[x] + g[x]
  PROVE  SumFunctionOnSet(h, S) = SumFunctionOnSet(f, S) + SumFunctionOnSet(g, S)
<1>. DEFINE F(s) == SumFunctionOnSet(f, s)
            K(s) == SumFunctionOnSet(g, s)
            H(s) == SumFunctionOnSet(h, s)
            G == {s \in SUBSET S : H(s) = F(s) + K(s)}
<1>1. \A x \in S : h[x] \in Int
  OBVIOUS
<1>2. \A s \in SUBSET S : F(s) \in Int /\ K(s) \in Int /\ H(s) \in Int
  BY <1>1, SumType
<1>3. \A s \in SUBSET S : \A x \in s : /\ F(s) = f[x] + F(s \ {x})
                                     /\ K(s) = g[x] + K(s \ {x}) /\ H(s) = h[x] + H(s \ {x})
  <2>1. \A s \in SUBSET S : \A x \in s : SumFunctionOnSet(f, s) = f[x] + SumFunctionOnSet(f, s \ {x})
    <3>1. Valued(f, S)
      BY DEF Valued
    <3>2. Splits(f, S)
      BY <3>1, SumSplits
    <3>. QED  BY <3>2 DEF Splits
  <2>2. \A s \in SUBSET S : \A x \in s : SumFunctionOnSet(g, s) = g[x] + SumFunctionOnSet(g, s \ {x})
    <3>1. Valued(g, S)
      BY DEF Valued
    <3>2. Splits(g, S)
      BY <3>1, SumSplits
    <3>. QED  BY <3>2 DEF Splits
  <2>3. \A s \in SUBSET S : \A x \in s : SumFunctionOnSet(h, s) = h[x] + SumFunctionOnSet(h, s \ {x})
    <3>1. Valued(h, S)
      BY <1>1 DEF Valued
    <3>2. Splits(h, S)
      BY <3>1, SumSplits
    <3>. QED  BY <3>2 DEF Splits
  <2>. QED  BY <2>1, <2>2, <2>3
<1>4. F({}) = 0 /\ K({}) = 0 /\ H({}) = 0
  BY SumOfNothing
<1>. HIDE DEF F, K, H
<1>5. {} \in G
  BY <1>4
<1>6. ASSUME NEW s \in SUBSET S, NEW x \in s, s \ {x} \in G PROVE s \in G
  <2>1. /\ F(s) = f[x] + F(s \ {x}) /\ K(s) = g[x] + K(s \ {x}) /\ H(s) = h[x] + H(s \ {x})
        /\ H(s \ {x}) = F(s \ {x}) + K(s \ {x}) /\ h[x] = f[x] + g[x]
    BY <1>3, <1>6
  <2>2. /\ f[x] \in Int /\ g[x] \in Int /\ F(s \ {x}) \in Int /\ K(s \ {x}) \in Int
    BY <1>2
  <2>3. H(s) = F(s) + K(s)
    BY <2>1, <2>2
  <2>. QED  BY <2>3
<1>7. S \in G
  <2>. HIDE DEF G
  <2>. QED  BY <1>5, <1>6, ElementInduction
<1>. QED  BY <1>7 DEF F, K, H

LEMMA SumGrows ==
  ASSUME NEW S, IsFiniteSet(S), NEW f, \A x \in S : f[x] \in Int,
         NEW g, \A x \in S : g[x] \in Int /\ f[x] <= g[x]
  PROVE  SumFunctionOnSet(f, S) <= SumFunctionOnSet(g, S)
<1>. DEFINE F(s) == SumFunctionOnSet(f, s)
            K(s) == SumFunctionOnSet(g, s)
            G == {s \in SUBSET S : F(s) <= K(s)}
<1>1. \A s \in SUBSET S : F(s) \in Int /\ K(s) \in Int
  BY SumType
<1>2. \A s \in SUBSET S : \A x \in s : F(s) = f[x] + F(s \ {x}) /\ K(s) = g[x] + K(s \ {x})
  <2>1. \A s \in SUBSET S : \A x \in s : SumFunctionOnSet(f, s) = f[x] + SumFunctionOnSet(f, s \ {x})
    <3>1. Valued(f, S)
      BY DEF Valued
    <3>2. Splits(f, S)
      BY <3>1, SumSplits
    <3>. QED  BY <3>2 DEF Splits
  <2>2. \A s \in SUBSET S : \A x \in s : SumFunctionOnSet(g, s) = g[x] + SumFunctionOnSet(g, s \ {x})
    <3>1. Valued(g, S)
      BY DEF Valued
    <3>2. Splits(g, S)
      BY <3>1, SumSplits
    <3>. QED  BY <3>2 DEF Splits
  <2>. QED  BY <2>1, <2>2
<1>3. F({}) = 0 /\ K({}) = 0
  BY SumOfNothing
<1>. HIDE DEF F, K
<1>4. {} \in G
  BY <1>3
<1>5. ASSUME NEW s \in SUBSET S, NEW x \in s, s \ {x} \in G PROVE s \in G
  <2>1. /\ F(s) = f[x] + F(s \ {x}) /\ K(s) = g[x] + K(s \ {x})
        /\ F(s \ {x}) <= K(s \ {x}) /\ f[x] <= g[x]
    BY <1>2, <1>5
  <2>2. /\ f[x] \in Int /\ g[x] \in Int /\ F(s \ {x}) \in Int /\ K(s \ {x}) \in Int
    BY <1>1
  <2>3. F(s) <= K(s)
    BY <2>1, <2>2
  <2>. QED  BY <2>3
<1>6. S \in G
  <2>. HIDE DEF G
  <2>. QED  BY <1>4, <1>5, ElementInduction
<1>. QED  BY <1>6 DEF F, K

LEMMA SumOfUnion ==
  ASSUME NEW S, IsFiniteSet(S), NEW f, \A x \in S : f[x] \in Int,
         NEW t \in SUBSET S, NEW u \in SUBSET S, t \cap u = {}
  PROVE  SumFunctionOnSet(f, t \cup u) = SumFunctionOnSet(f, t) + SumFunctionOnSet(f, u)
<1>. DEFINE F(s) == SumFunctionOnSet(f, s)
            G == {s \in SUBSET t : F(s \cup u) = F(s) + F(u)}
<1>1. \A s \in SUBSET S : F(s) \in Int
  BY SumType
<1>2. \A s \in SUBSET S : \A x \in s : F(s) = f[x] + F(s \ {x})
  <2>1. \A s \in SUBSET S : \A x \in s : SumFunctionOnSet(f, s) = f[x] + SumFunctionOnSet(f, s \ {x})
    <3>1. Valued(f, S)
      BY DEF Valued
    <3>2. Splits(f, S)
      BY <3>1, SumSplits
    <3>. QED  BY <3>2 DEF Splits
  <2>. QED  BY <2>1
<1>3. F({}) = 0
  BY SumOfNothing
<1>. HIDE DEF F
<1>4. {} \in G
  <2>1. {} \cup u = u /\ F(u) = 0 + F(u)
    BY <1>1
  <2>. QED  BY <1>3, <2>1
<1>5. ASSUME NEW s \in SUBSET t, NEW x \in s, s \ {x} \in G PROVE s \in G
  <2>1. s \cup u \in SUBSET S /\ x \in s \cup u /\ (s \cup u) \ {x} = (s \ {x}) \cup u
    BY <1>5
  <2>2. /\ F(s \cup u) = f[x] + F((s \ {x}) \cup u) /\ F(s) = f[x] + F(s \ {x})
        /\ F((s \ {x}) \cup u) = F(s \ {x}) + F(u)
    BY <1>2, <1>5, <2>1
  <2>3. f[x] \in Int /\ F(s \ {x}) \in Int /\ F(u) \in Int
    BY <1>1
  <2>4. F(s \cup u) = F(s) + F(u)
    BY <2>2, <2>3
  <2>. QED  BY <2>4
<1>6. t \in G
  <2>1. IsFiniteSet(t)
    BY FS_Subset
  <2>. HIDE DEF G
  <2>. QED  BY <1>4, <1>5, <2>1, ElementInduction
<1>. QED  BY <1>6 DEF F

LEMMA SumIsBounded ==
  ASSUME NEW S, IsFiniteSet(S), NEW f, \A x \in S : f[x] \in Int,
         NEW c \in Int, \A x \in S : f[x] <= c
  PROVE  SumFunctionOnSet(f, S) <= Cardinality(S) * c
<1>. DEFINE F(s) == SumFunctionOnSet(f, s)
            G == {s \in SUBSET S : F(s) <= Cardinality(s) * c}
<1>1. \A s \in SUBSET S : F(s) \in Int
  BY SumType
<1>2. \A s \in SUBSET S : \A x \in s : F(s) = f[x] + F(s \ {x})
  <2>1. \A s \in SUBSET S : \A x \in s : SumFunctionOnSet(f, s) = f[x] + SumFunctionOnSet(f, s \ {x})
    <3>1. Valued(f, S)
      BY DEF Valued
    <3>2. Splits(f, S)
      BY <3>1, SumSplits
    <3>. QED  BY <3>2 DEF Splits
  <2>. QED  BY <2>1
<1>3. F({}) = 0
  BY SumOfNothing
<1>. HIDE DEF F
<1>4. {} \in G
  <2>1. Cardinality({}) * c = 0
    BY FS_EmptySet
  <2>. QED  BY <1>3, <2>1
<1>5. ASSUME NEW s \in SUBSET S, NEW x \in s, s \ {x} \in G PROVE s \in G
  <2>1. IsFiniteSet(s) /\ IsFiniteSet(s \ {x})
    BY FS_Subset
  <2>2. /\ Cardinality(s \ {x}) \in Nat /\ Cardinality(s) \in Nat
        /\ Cardinality(s \ {x}) = Cardinality(s) - 1
    BY <2>1, FS_CardinalityType, FS_RemoveElement
  <2>3. F(s) = f[x] + F(s \ {x}) /\ F(s \ {x}) <= Cardinality(s \ {x}) * c /\ f[x] <= c
    BY <1>2, <1>5
  <2>4. f[x] \in Int /\ F(s \ {x}) \in Int
    BY <1>1
  <2>. DEFINE n == Cardinality(s)
              m == Cardinality(s \ {x})
              r == F(s \ {x})
              y == f[x]
  <2>. HIDE DEF n, m, r, y
  <2>5. m * c + c = n * c /\ m * c \in Int /\ n * c \in Int
    BY <2>2 DEF n, m
  <2>6. F(s) = y + r /\ r <= m * c /\ y <= c /\ y \in Int /\ r \in Int
    BY <2>3, <2>4 DEF m, r, y
  <2>7. F(s) <= n * c
    BY <2>5, <2>6
  <2>. QED  BY <2>7 DEF n
<1>6. S \in G
  <2>. HIDE DEF G
  <2>. QED  BY <1>4, <1>5, ElementInduction
<1>. QED  BY <1>6 DEF F

-----------------------------------------------------------------------------
(***************************************************************************)
(* The weighted picker.  The potential is the height of a group: while     *)
(* nothing overlaps, no k Projects stand higher together than k (n - k) / 2 *)
(* times the total weight, because a group that does not win a selection   *)
(* gains no more than its members' weights, and none of them reaches more  *)
(* than the winner did.                                                    *)
(***************************************************************************)
LEMMA FewProjects ==
  /\ IsFiniteSet(Projects) /\ Cardinality(Projects) = Len(Order)
  /\ Len(Order) \in Nat \ {0} /\ DOMAIN Order = 1 .. Len(Order)
<1>1. Len(Order) \in Nat \ {0} /\ DOMAIN Order = 1 .. Len(Order)
  BY PickerBounds
<1>2. IsFiniteSet(1 .. Len(Order)) /\ Cardinality(1 .. Len(Order)) = Len(Order)
  BY <1>1, FS_Interval
<1>3. Order \in Bijection(1 .. Len(Order), Projects)
  BY <1>1, PickerBounds DEF Projects, Bijection, Injection, Surjection, IsInjective
<1>4. IsFiniteSet(Projects) /\ Cardinality(Projects) = Cardinality(1 .. Len(Order))
  BY <1>2, <1>3, FS_Bijection DEF ExistsBijection
<1>. QED  BY <1>1, <1>2, <1>4

Below == {ss \in Nat \X Nat : ss[1] < ss[2]}

LEMMA LeastOf ==
  ASSUME NEW T \in SUBSET Nat, T # {}
  PROVE  \E m \in T : \A j \in T : m <= j
<1>1. IsWellFoundedOn(Below, Nat)
  BY NatLessThanWellFounded DEF OpToRel, Below
<1>2. PICK x \in T : \A y \in T : ~(<<y, x>> \in Below)
  BY <1>1, WFMin
<1>3. \A y \in T : ~(y < x)
  BY <1>2 DEF Below
<1>. QED  BY <1>3

\* Some element of a finite set has the greatest value.
LEMMA GreatestOf ==
  ASSUME NEW S, IsFiniteSet(S), NEW f, Valued(f, S)
  PROVE  S # {} => \E s \in S : \A q \in S : f[s] >= f[q]
<1>. DEFINE G == {t \in SUBSET S : t # {} => \E s \in t : \A q \in t : f[s] >= f[q]}
<1>1. {} \in G
  OBVIOUS
<1>2. ASSUME NEW t \in SUBSET S, NEW x \in t, t \ {x} \in G PROVE t \in G
  <2>1. CASE t \ {x} = {}
    <3>1. \A q \in t : f[x] >= f[q]
      BY <1>2, <2>1 DEF Valued
    <3>. QED  BY <1>2, <3>1
  <2>2. CASE t \ {x} # {}
    <3>1. PICK s \in t \ {x} : \A q \in t \ {x} : f[s] >= f[q]
      BY <1>2, <2>2
    <3>2. f[s] \in Int /\ f[x] \in Int /\ \A q \in t : f[q] \in Int
      BY <1>2, <3>1 DEF Valued
    <3>3. CASE f[s] >= f[x]
      <4>1. \A q \in t : f[s] >= f[q]
        BY <3>1, <3>3
      <4>. QED  BY <3>1, <4>1
    <3>4. CASE ~(f[s] >= f[x])
      <4>1. \A q \in t : f[x] >= f[q]
        BY <3>1, <3>2, <3>4
      <4>. QED  BY <1>2, <4>1
    <3>. QED  BY <3>3, <3>4
  <2>. QED  BY <2>1, <2>2
<1>3. \A t \in SUBSET S : t \in G
  <2>. HIDE DEF G
  <2>. QED  BY <1>1, <1>2, ElementInduction
<1>4. S \in G
  BY <1>3
<1>. QED  BY <1>4

\* The standings with everyone's weight added.
Raised(c) == [p \in Projects |-> c[p] + Weight[p]]

LEMMA RaisedType ==
  ASSUME NEW c \in [Projects -> Int]
  PROVE  /\ Raised(c) \in [Projects -> Int]
         /\ \A p \in Projects : /\ Raised(c)[p] = c[p] + Weight[p]
                                /\ c[p] \in Int /\ Weight[p] \in Int /\ Weight[p] > 0
BY PickerBounds DEF Raised

LEMMA ShareType == ASSUME NEW S \in SUBSET Projects PROVE Share(S) \in Nat
<1>1. \A x \in Projects : Weight[x] \in Int
  BY PickerBounds
<1>2. \A s \in SUBSET Projects : Share(s) \in Int
  <2>1. \A s \in SUBSET Projects : SumFunctionOnSet(Weight, s) \in Int
    BY <1>1, FewProjects, SumType
  <2>. QED  BY <2>1 DEF Share
<1>. DEFINE zero == [p \in Projects |-> 0]
            G == {s \in SUBSET Projects : Share(s) >= 0}
<1>3. {} \in G
  BY SumOfNothing DEF Share
<1>4. ASSUME NEW s \in SUBSET Projects, NEW x \in s, s \ {x} \in G PROVE s \in G
  <2>1. Valued(Weight, Projects)
    BY <1>1 DEF Valued
  <2>2. Splits(Weight, Projects)
    BY <2>1, FewProjects, SumSplits
  <2>3. Share(s) = Weight[x] + Share(s \ {x})
    BY <2>2 DEF Splits, Share
  <2>4. Weight[x] \in Nat /\ Share(s \ {x}) \in Int /\ Share(s \ {x}) >= 0
    BY <1>2, <1>4, PickerBounds
  <2>5. Share(s) >= 0
    BY <2>3, <2>4
  <2>. QED  BY <2>5
<1>5. \A s \in SUBSET Projects : s \in G
  <2>. HIDE DEF G
  <2>. QED  BY <1>3, <1>4, FewProjects, ElementInduction
<1>6. Share(S) \in Int /\ Share(S) >= 0
  BY <1>2, <1>5
<1>. QED  BY <1>6

\* A smaller group has a smaller share.
LEMMA ShareGrows ==
  ASSUME NEW S \in SUBSET Projects, NEW R \in SUBSET S
  PROVE  Share(R) <= Share(S)
<1>1. IsFiniteSet(Projects) /\ \A x \in Projects : Weight[x] \in Int
  BY FewProjects, PickerBounds
<1>. DEFINE Q == S \ R
<1>2. R \in SUBSET Projects /\ Q \in SUBSET Projects /\ R \cap Q = {} /\ R \cup Q = S
  OBVIOUS
<1>3. Share(R \cup Q) = Share(R) + Share(Q)
  <2>. HIDE DEF Q
  <2>1. SumFunctionOnSet(Weight, R \cup Q) = SumFunctionOnSet(Weight, R) + SumFunctionOnSet(Weight, Q)
    BY <1>1, <1>2, SumOfUnion
  <2>. QED  BY <2>1 DEF Share
<1>4. Share(R) \in Nat /\ Share(Q) \in Nat /\ Share(S) = Share(R) + Share(Q)
  <2>1. Share(R) \in Nat
    BY <1>2, ShareType
  <2>2. Share(Q) \in Nat
    BY <1>2, ShareType
  <2>. QED  BY <1>2, <1>3, <2>1, <2>2
<1>. HIDE DEF Q
<1>. QED  BY <1>4

\* The winner of a pick is one of the Projects asked, and none of them reaches more.
LEMMA PickWinner ==
  ASSUME NEW A \in SUBSET Projects, A # {}, NEW c \in [Projects -> Int]
  PROVE  /\ pickTarget(A, c).among = A /\ pickTarget(A, c).selected \in A
         /\ pickTarget(A, c).next \in [A -> Int]
         /\ \A p \in A : Raised(c)[p] <= Raised(c)[pickTarget(A, c).selected]
         /\ \A p \in A : p = pickTarget(A, c).selected => pickTarget(A, c).next[p] = Raised(c)[p] - Share(A)
         /\ \A p \in A : p # pickTarget(A, c).selected => pickTarget(A, c).next[p] = Raised(c)[p]
<1>. DEFINE raised == [p \in A |-> c[p] + Weight[p]]
            best == {p \in A : \A q \in A : raised[p] >= raised[q]}
            places == {k \in DOMAIN Order : Order[k] \in best}
            s == Order[Min(places)]
<1>1. /\ IsFiniteSet(A) /\ raised \in [A -> Int]
      /\ \A p \in A : raised[p] = Raised(c)[p]
  <2>1. \A p \in A : raised[p] = c[p] + Weight[p] /\ Raised(c)[p] = c[p] + Weight[p]
    BY DEF Raised
  <2>2. \A p \in A : c[p] + Weight[p] \in Int
    BY RaisedType
  <2>. QED  BY <2>1, <2>2, FewProjects, FS_Subset
<1>2. best # {}
  <2>1. Valued(raised, A)
    BY <1>1 DEF Valued
  <2>2. \E p \in A : \A q \in A : raised[p] >= raised[q]
    <3>. HIDE DEF raised
    <3>. QED  BY <1>1, <2>1, GreatestOf
  <2>. QED  BY <2>2
<1>3. places # {} /\ places \in SUBSET Nat
  <2>1. PICK p \in A : p \in best
    BY <1>2
  <2>2. PICK k \in DOMAIN Order : Order[k] = p
    BY DEF Projects
  <2>3. k \in places
    BY <2>1, <2>2
  <2>4. DOMAIN Order \subseteq Nat
    BY FewProjects
  <2>. QED  BY <2>3, <2>4
<1>4. Min(places) \in places
  <2>1. \E m \in places : \A j \in places : m <= j
    <3>. HIDE DEF places
    <3>. QED  BY <1>3, LeastOf
  <2>. QED  BY <2>1 DEF Min
<1>. HIDE DEF raised
<1>5. s \in A /\ \A p \in A : raised[s] >= raised[p]
  BY <1>4
<1>6. Share(A) \in Int
  BY ShareType
<1>7. pickTarget(A, c) = [among |-> A, selected |-> s, next |-> [raised EXCEPT ![s] = @ - Share(A)]]
  BY DEF pickTarget, raised
<1>. HIDE DEF s
<1>8. DEFINE e == [raised EXCEPT ![s] = raised[s] - Share(A)]
<1>9. e \in [A -> Int] /\ e[s] = raised[s] - Share(A) /\ \A p \in A : p # s => e[p] = raised[p]
  BY <1>1, <1>5, <1>6
<1>10. pickTarget(A, c) = [among |-> A, selected |-> s, next |-> e]
  BY <1>7
<1>. HIDE DEF e
<1>11. \A p \in A : Raised(c)[p] <= Raised(c)[s]
  BY <1>1, <1>5
<1>12. /\ \A p \in A : p = s => e[p] = Raised(c)[p] - Share(A)
       /\ \A p \in A : p # s => e[p] = Raised(c)[p]
  BY <1>1, <1>5, <1>9
<1>. QED  BY <1>5, <1>9, <1>10, <1>11, <1>12

\* The standings c are balanced: they add up to nothing, and no group of k Projects
\* stands higher than k (n - k) / 2 times the total weight.
Balanced(c) ==
  /\ SumFunctionOnSet(c, Projects) = 0
  /\ \A S \in SUBSET Projects :
       2 * SumFunctionOnSet(c, S)
         <= Share(Projects) * (Cardinality(S) * (Cardinality(Projects) - Cardinality(S)))

\* What recordProjectDispatchSelection leaves of the standings c after a pick among A.
AfterSelection(A, c) == [p \in Projects |-> IF p \in A THEN pickTarget(A, c).next[p] ELSE c[p]]

\* The arithmetic of a group that does not hold the winner.
LEMMA LoserArithmetic ==
  ASSUME NEW n \in Nat, NEW j \in Nat, NEW m \in Nat, NEW k \in Nat, k = j + m, m >= 1, k < n,
         NEW T \in Nat, NEW a \in Int, NEW x \in Int, NEW y \in Int,
         2 * (a + y + x) <= T * ((k + 1) * (n - (k + 1))) + 2 * T,
         2 * a <= T * (j * (n - j)), y <= m * x
  PROVE  2 * (a + y) <= T * (k * (n - k))
<1>1. CASE 2 * x >= T * (n - 2 * k + 1)
  <2>1. (k + 1) * (n - (k + 1)) + 2 - (n - 2 * k + 1) = k * (n - k)
    OBVIOUS
  <2>2. T * ((k + 1) * (n - (k + 1))) + 2 * T - T * (n - 2 * k + 1) = T * (k * (n - k))
    BY <2>1
  <2>. DEFINE u == T * ((k + 1) * (n - (k + 1)))
              v == T * (n - 2 * k + 1)
              w == T * (k * (n - k))
  <2>3. u \in Int /\ v \in Int /\ w \in Int
    OBVIOUS
  <2>4. 2 * (a + y + x) <= u + 2 * T /\ 2 * x >= v /\ u + 2 * T - v = w
    BY <1>1, <2>2
  <2>. HIDE DEF u, v, w
  <2>5. 2 * (a + y) <= w
    BY <2>3, <2>4
  <2>. QED  BY <2>5 DEF w
<1>2. CASE 2 * x < T * (n - 2 * k + 1)
  <2>. DEFINE v == T * (n - 2 * k + 1)
              z == n - 2 * k
  <2>1. v \in Int /\ z \in Int /\ 2 * x <= v
    BY <1>2
  <2>2. m * (2 * x) <= m * v
    <3>. HIDE DEF v
    <3>. QED  BY <2>1
  <2>3. 2 * y <= m * v
    BY <2>1, <2>2
  <2>4. m * v = T * (m * (z + 1))
    OBVIOUS
  <2>5. m * (z + 1) <= m * (z + m)
    <3>. HIDE DEF z
    <3>. QED  BY <2>1
  <2>6. T * (m * (z + 1)) <= T * (m * (z + m))
    <3>. DEFINE d == m * (z + 1)
                e == m * (z + m)
    <3>1. d \in Int /\ e \in Int /\ d <= e
      BY <2>1, <2>5
    <3>. HIDE DEF d, e
    <3>2. T * d <= T * e
      BY <3>1
    <3>. QED  BY <3>2 DEF d, e
  <2>7. j * (n - j) + m * (z + m) = k * (n - k)
    <3>1. j = k - m
      OBVIOUS
    <3>. QED  BY <3>1
  <2>8. T * (j * (n - j)) + T * (m * (z + m)) = T * (k * (n - k))
    BY <2>1, <2>7
  <2>. DEFINE p == T * (j * (n - j))
              q == T * (m * (z + m))
              w == T * (k * (n - k))
  <2>9. /\ 2 * a <= p /\ 2 * y <= q /\ p + q = w
        /\ p \in Int /\ q \in Int /\ w \in Int
    <3>1. 2 * y <= q
      <4>. DEFINE t == m * v
      <4>1. t \in Int /\ q \in Int /\ 2 * y <= t /\ t <= q
        BY <2>1, <2>3, <2>4, <2>6
      <4>. HIDE DEF t, q
      <4>. QED  BY <4>1
    <3>. QED  BY <2>1, <2>8, <3>1
  <2>. HIDE DEF p, q, w
  <2>10. 2 * (a + y) <= w
    BY <2>9
  <2>. QED  BY <2>10 DEF w
<1>. QED  BY <1>1, <1>2

LEMMA SumAgrees ==
  ASSUME NEW S, IsFiniteSet(S), NEW f, Valued(f, S), NEW g, \A x \in S : g[x] = f[x]
  PROVE  SumFunctionOnSet(g, S) = SumFunctionOnSet(f, S)
<1>1. /\ \A x \in S : f[x] \in Int
      /\ \A x \in S : g[x] \in Int
      /\ \A x \in S : g[x] \in Int /\ f[x] <= g[x]
      /\ \A x \in S : f[x] \in Int /\ g[x] <= f[x]
  BY DEF Valued
<1>2. SumFunctionOnSet(f, S) <= SumFunctionOnSet(g, S)
  BY <1>1, SumGrows
<1>3. SumFunctionOnSet(g, S) <= SumFunctionOnSet(f, S)
  BY <1>1, SumGrows
<1>4. SumFunctionOnSet(f, S) \in Int /\ SumFunctionOnSet(g, S) \in Int
  <2>1. \A s \in SUBSET S : SumFunctionOnSet(f, s) \in Int
    BY <1>1, SumType
  <2>2. \A s \in SUBSET S : SumFunctionOnSet(g, s) \in Int
    BY <1>1, SumType
  <2>. QED  BY <2>1, <2>2
<1>. QED  BY <1>2, <1>3, <1>4

\* What a selection does to the sum of a group S: S0 did not take part, S1 did.
LEMMA SelectionSum ==
  ASSUME NEW A \in SUBSET Projects, A # {}, NEW c \in [Projects -> Int], NEW S \in SUBSET Projects
  PROVE  SumFunctionOnSet(AfterSelection(A, c), S)
           = SumFunctionOnSet(c, S) + Share(S \cap A)
               - (IF pickTarget(A, c).selected \in S THEN Share(A) ELSE 0)
<1>. DEFINE s == pickTarget(A, c).selected
            d == AfterSelection(A, c)
            raised == Raised(c)
            S0 == S \ A
            S1 == S \cap A
<1>0. IsFiniteSet(Projects) /\ IsFiniteSet(S) /\ IsFiniteSet(A) /\ IsFiniteSet(S0) /\ IsFiniteSet(S1)
  BY FewProjects, FS_Subset
<1>1. s \in A /\ \A p \in Projects : Weight[p] \in Int /\ c[p] \in Int /\ raised[p] \in Int
  <2>1. s \in A
    BY PickWinner
  <2>. QED  BY <2>1, RaisedType
<1>2. \A p \in Projects : /\ p \notin A => d[p] = c[p]
                          /\ p \in A /\ p # s => d[p] = raised[p]
                          /\ p = s => d[p] = raised[p] - Share(A)
  <2>1. /\ \A p \in A : p = s => pickTarget(A, c).next[p] = raised[p] - Share(A)
        /\ \A p \in A : p # s => pickTarget(A, c).next[p] = raised[p]
    BY PickWinner, Zenon
  <2>2. \A p \in Projects : d[p] = IF p \in A THEN pickTarget(A, c).next[p] ELSE c[p]
    BY DEF AfterSelection
  <2>. HIDE DEF s, d, raised
  <2>. QED  BY <1>1, <2>1, <2>2
<1>3. \A t \in SUBSET Projects : /\ SumFunctionOnSet(c, t) \in Int
                                 /\ SumFunctionOnSet(Weight, t) \in Int
                                 /\ SumFunctionOnSet(raised, t) \in Int
  <2>. HIDE DEF raised
  <2>1. \A t \in SUBSET Projects : SumFunctionOnSet(c, t) \in Int
    BY <1>0, <1>1, SumType
  <2>2. \A t \in SUBSET Projects : SumFunctionOnSet(Weight, t) \in Int
    BY <1>0, <1>1, SumType
  <2>3. \A t \in SUBSET Projects : SumFunctionOnSet(raised, t) \in Int
    BY <1>0, <1>1, SumType
  <2>. QED  BY <2>1, <2>2, <2>3
<1>4. Share(A) \in Int /\ \A p \in Projects : d[p] \in Int
  <2>1. Share(A) \in Int
    BY ShareType
  <2>. HIDE DEF s, d, raised
  <2>. QED  BY <1>1, <1>2, <2>1
<1>. HIDE DEF s, d, raised
<1>5. SumFunctionOnSet(d, S0) = SumFunctionOnSet(c, S0)
  <2>1. Valued(c, S0) /\ \A p \in S0 : d[p] = c[p]
    BY <1>1, <1>2 DEF Valued
  <2>. QED  BY <1>0, <2>1, SumAgrees
<1>6. SumFunctionOnSet(raised, S1) = SumFunctionOnSet(c, S1) + SumFunctionOnSet(Weight, S1)
  <2>1. /\ \A p \in S1 : c[p] \in Int
        /\ \A p \in S1 : Weight[p] \in Int
        /\ \A p \in S1 : raised[p] = c[p] + Weight[p]
    BY <1>1, RaisedType DEF raised
  <2>. QED  BY <1>0, <2>1, SumAdds
<1>7. SumFunctionOnSet(d, S1) = SumFunctionOnSet(raised, S1) - (IF s \in S THEN Share(A) ELSE 0)
  <2>1. CASE s \notin S
    <3>1. Valued(raised, S1) /\ \A p \in S1 : d[p] = raised[p]
      BY <1>1, <1>2, <2>1 DEF Valued
    <3>2. SumFunctionOnSet(d, S1) = SumFunctionOnSet(raised, S1)
      BY <1>0, <3>1, SumAgrees
    <3>. QED  BY <1>3, <2>1, <3>2
  <2>2. CASE s \in S
    <3>. DEFINE R == S1 \ {s}
    <3>1. IsFiniteSet(R) /\ Valued(raised, R) /\ (\A p \in R : d[p] = raised[p]) /\ s \in S1
      BY <1>0, <1>1, <1>2, <2>2, FS_Subset DEF Valued
    <3>2. SumFunctionOnSet(d, R) = SumFunctionOnSet(raised, R)
      <4>. HIDE DEF R
      <4>. QED  BY <3>1, SumAgrees
    <3>3. Valued(raised, S1) /\ Valued(d, S1)
      BY <1>1, <1>4 DEF Valued
    <3>4. Splits(raised, S1)
      BY <1>0, <3>3, SumSplits
    <3>5. Splits(d, S1)
      BY <1>0, <3>3, SumSplits
    <3>6. /\ SumFunctionOnSet(raised, S1) = raised[s] + SumFunctionOnSet(raised, R)
          /\ SumFunctionOnSet(d, S1) = d[s] + SumFunctionOnSet(d, R)
      BY <3>1, <3>4, <3>5 DEF Splits
    <3>7. d[s] = raised[s] - Share(A) /\ raised[s] \in Int /\ SumFunctionOnSet(raised, R) \in Int
      BY <1>1, <1>2, <1>3
    <3>8. SumFunctionOnSet(d, S1) = SumFunctionOnSet(raised, S1) - Share(A)
      BY <1>4, <3>2, <3>6, <3>7
    <3>. QED  BY <2>2, <3>8
  <2>. QED  BY <2>1, <2>2
<1>8. /\ S0 \cup S1 = S /\ S0 \cap S1 = {} /\ S0 \in SUBSET S /\ S1 \in SUBSET S
      /\ (\A p \in S : c[p] \in Int) /\ (\A p \in S : d[p] \in Int)
  BY <1>1, <1>4
<1>9. SumFunctionOnSet(c, S) = SumFunctionOnSet(c, S0) + SumFunctionOnSet(c, S1)
  <2>1. SumFunctionOnSet(c, S0 \cup S1) = SumFunctionOnSet(c, S0) + SumFunctionOnSet(c, S1)
    <3>. HIDE DEF S0, S1
    <3>. QED  BY <1>0, <1>8, SumOfUnion
  <2>. QED  BY <1>8, <2>1
<1>10. SumFunctionOnSet(d, S) = SumFunctionOnSet(d, S0) + SumFunctionOnSet(d, S1)
  <2>1. SumFunctionOnSet(d, S0 \cup S1) = SumFunctionOnSet(d, S0) + SumFunctionOnSet(d, S1)
    <3>. HIDE DEF S0, S1
    <3>. QED  BY <1>0, <1>8, SumOfUnion
  <2>. QED  BY <1>8, <2>1
<1>11. /\ SumFunctionOnSet(c, S0) \in Int /\ SumFunctionOnSet(c, S1) \in Int
       /\ SumFunctionOnSet(Weight, S1) \in Int
  BY <1>3
<1>12. CASE s \in S
  <2>1. SumFunctionOnSet(d, S) = SumFunctionOnSet(c, S) + SumFunctionOnSet(Weight, S1) - Share(A)
    BY <1>4, <1>5, <1>6, <1>7, <1>9, <1>10, <1>11, <1>12
  <2>. QED  BY <1>12, <2>1 DEF s, d, Share
<1>13. CASE s \notin S
  <2>1. SumFunctionOnSet(d, S) = SumFunctionOnSet(c, S) + SumFunctionOnSet(Weight, S1)
    BY <1>4, <1>5, <1>6, <1>7, <1>9, <1>10, <1>11, <1>13
  <2>2. SumFunctionOnSet(d, S) = SumFunctionOnSet(c, S) + SumFunctionOnSet(Weight, S1) - 0
    BY <1>9, <1>11, <2>1
  <2>. QED  BY <1>13, <2>2 DEF s, d, Share
<1>. QED  BY <1>12, <1>13

\* A recorded selection keeps the standings balanced.
LEMMA SelectionKeepsBalance ==
  ASSUME NEW A \in SUBSET Projects, A # {}, NEW c \in [Projects -> Int], Balanced(c)
  PROVE  AfterSelection(A, c) \in [Projects -> Int] /\ Balanced(AfterSelection(A, c))
<1>. DEFINE s == pickTarget(A, c).selected
            d == AfterSelection(A, c)
            T == Share(Projects)
            n == Cardinality(Projects)
            C(S) == SumFunctionOnSet(c, S)
            W(S) == SumFunctionOnSet(Weight, S)
<1>1. IsFiniteSet(Projects) /\ n \in Nat \ {0} /\ T \in Nat /\ s \in A
  BY FewProjects, ShareType, PickWinner
<1>2. \A S \in SUBSET Projects : C(S) \in Int /\ W(S) \in Nat /\ W(S) = Share(S) /\ W(S) <= T
  <2>. HIDE DEF T
  <2>1. \A S \in SUBSET Projects : C(S) \in Int
    <3>1. \A p \in Projects : c[p] \in Int
      OBVIOUS
    <3>. QED  BY <1>1, <3>1, SumType
  <2>2. \A S \in SUBSET Projects : W(S) = Share(S) /\ Share(S) \in Nat /\ Share(S) <= Share(Projects)
    BY ShareType, ShareGrows DEF Share
  <2>. QED  BY <2>1, <2>2 DEF T
<1>3. d \in [Projects -> Int]
  <2>1. pickTarget(A, c).next \in [A -> Int]
    BY PickWinner
  <2>. QED  BY <2>1 DEF AfterSelection
<1>4. \A S \in SUBSET Projects : /\ s \in S => SumFunctionOnSet(d, S) = C(S) + W(S \cap A) - W(A)
                                 /\ s \notin S => SumFunctionOnSet(d, S) = C(S) + W(S \cap A)
  <2>1. ASSUME NEW S \in SUBSET Projects
        PROVE  SumFunctionOnSet(d, S) = C(S) + W(S \cap A) - (IF s \in S THEN W(A) ELSE 0)
    BY SelectionSum DEF Share
  <2>2. \A S \in SUBSET Projects : C(S) \in Int /\ W(S \cap A) \in Int /\ W(A) \in Int
    BY <1>2
  <2>. HIDE DEF s, d, C, W
  <2>3. ASSUME NEW S \in SUBSET Projects, s \in S
        PROVE  SumFunctionOnSet(d, S) = C(S) + W(S \cap A) - W(A)
    BY <2>1, <2>3
  <2>4. ASSUME NEW S \in SUBSET Projects, s \notin S
        PROVE  SumFunctionOnSet(d, S) = C(S) + W(S \cap A)
    <3>1. SumFunctionOnSet(d, S) = C(S) + W(S \cap A) - 0
      BY <2>1, <2>4
    <3>. QED  BY <2>2, <3>1
  <2>. QED  BY <2>3, <2>4
<1>5. SumFunctionOnSet(d, Projects) = 0
  <2>1. Projects \cap A = A /\ C(Projects) = 0 /\ s \in Projects /\ W(A) \in Int
    BY <1>1, <1>2 DEF Balanced
  <2>2. SumFunctionOnSet(d, Projects) = C(Projects) + W(Projects \cap A) - W(A)
    <3>. HIDE DEF s, d, C, W
    <3>. QED  BY <1>4, <2>1
  <2>3. W(Projects \cap A) = W(A)
    BY <2>1
  <2>. HIDE DEF s, d, C, W
  <2>. QED  BY <2>1, <2>2, <2>3
<1>6. \A S \in SUBSET Projects : 2 * C(S) <= T * (Cardinality(S) * (n - Cardinality(S)))
  BY DEF Balanced
<1>. HIDE DEF d, C, W, T, n
<1>7. ASSUME NEW S \in SUBSET Projects
      PROVE  2 * SumFunctionOnSet(d, S) <= T * (Cardinality(S) * (n - Cardinality(S)))
  <2>. DEFINE S0 == S \ A
              S1 == S \cap A
              j == Cardinality(S0)
              m == Cardinality(S1)
              k == Cardinality(S)
  <2>1. IsFiniteSet(S) /\ IsFiniteSet(S0) /\ IsFiniteSet(S1) /\ k \in Nat /\ j \in Nat /\ m \in Nat
    BY <1>1, FS_Subset, FS_CardinalityType
  <2>2. C(S) \in Int /\ W(S1) \in Int /\ W(A) \in Int /\ 2 * C(S) <= T * (k * (n - k)) /\ T * (k * (n - k)) \in Int
    BY <1>1, <1>2, <1>6, <2>1
  <2>3. CASE s \in S
    <3>1. W(S1) <= W(A)
      <4>1. Share(S1) <= Share(A)
        BY ShareGrows
      <4>. QED  BY <4>1 DEF Share, W
    <3>2. SumFunctionOnSet(d, S) = C(S) + W(S1) - W(A)
      BY <1>4, <2>3
    <3>3. SumFunctionOnSet(d, S) <= C(S)
      BY <2>2, <3>1, <3>2
    <3>. DEFINE w == T * (k * (n - k))
    <3>4. w \in Int /\ 2 * C(S) <= w /\ SumFunctionOnSet(d, S) \in Int
      BY <2>2, <3>2
    <3>. HIDE DEF w
    <3>5. 2 * SumFunctionOnSet(d, S) <= w
      BY <2>2, <3>3, <3>4
    <3>. QED  BY <3>5 DEF w
  <2>4. CASE s \notin S /\ S1 = {}
    <3>1. SumFunctionOnSet(d, S) = C(S) + W({})
      BY <1>4, <2>4
    <3>2. W({}) = 0
      BY SumOfNothing DEF W
    <3>. DEFINE w == T * (k * (n - k))
    <3>3. 2 * C(S) <= w /\ SumFunctionOnSet(d, S) = C(S)
      BY <2>2, <3>1, <3>2
    <3>. HIDE DEF w
    <3>4. 2 * SumFunctionOnSet(d, S) <= w
      BY <3>3
    <3>. QED  BY <3>4 DEF w
  <2>5. CASE s \notin S /\ S1 # {}
    <3>. DEFINE U == S \cup {s}
                a == C(S0)
                x == Raised(c)[s]
                y == SumFunctionOnSet(Raised(c), S1)
    <3>1. k = j + m /\ m >= 1
      <4>1. S0 \cup S1 = S /\ S0 \cap S1 = {}
        OBVIOUS
      <4>2. k = j + m - Cardinality(S0 \cap S1)
        <5>. HIDE DEF S0, S1
        <5>1. Cardinality(S0 \cup S1) = Cardinality(S0) + Cardinality(S1) - Cardinality(S0 \cap S1)
          BY <2>1, FS_Union
        <5>. QED  BY <4>1, <5>1
      <4>3. Cardinality(S0 \cap S1) = 0
        BY <4>1, FS_EmptySet
      <4>4. m # 0
        BY <2>1, <2>5, FS_EmptySet
      <4>. HIDE DEF j, m, k, S0, S1
      <4>. QED  BY <2>1, <4>2, <4>3, <4>4
    <3>2. U \in SUBSET Projects /\ Cardinality(U) = k + 1 /\ k < n
      <4>1. U \in SUBSET Projects
        BY <1>1
      <4>2. Cardinality(U) = k + 1
        BY <2>1, <2>5, FS_AddElement
      <4>3. Cardinality(U) <= n
        BY <1>1, <4>1, FS_Subset DEF n
      <4>. HIDE DEF k, U
      <4>. QED  BY <1>1, <2>1, <4>1, <4>2, <4>3
    <3>3. x = c[s] + Weight[s] /\ x \in Int /\ c[s] \in Int /\ Weight[s] \in Int
      BY <1>1, RaisedType
    <3>4. y = C(S1) + W(S1) /\ y \in Int
      <4>1. /\ \A p \in S1 : c[p] \in Int
            /\ \A p \in S1 : Weight[p] \in Int
            /\ \A p \in S1 : Raised(c)[p] = c[p] + Weight[p]
        BY RaisedType
      <4>2. SumFunctionOnSet(Raised(c), S1) = SumFunctionOnSet(c, S1) + SumFunctionOnSet(Weight, S1)
        <5>. HIDE DEF S1
        <5>. QED  BY <2>1, <4>1, SumAdds
      <4>3. C(S1) \in Int /\ W(S1) \in Int
        BY <1>2
      <4>. QED  BY <4>2, <4>3 DEF C, W
    <3>5. C(S) = a + C(S1) /\ a \in Int /\ C(S1) \in Int
      <4>1. S0 \cup S1 = S /\ S0 \cap S1 = {} /\ S0 \in SUBSET Projects /\ S1 \in SUBSET Projects
        OBVIOUS
      <4>2. SumFunctionOnSet(c, S0 \cup S1) = SumFunctionOnSet(c, S0) + SumFunctionOnSet(c, S1)
        <5>1. \A p \in Projects : c[p] \in Int
          OBVIOUS
        <5>. HIDE DEF S0, S1
        <5>. QED  BY <1>1, <4>1, <5>1, SumOfUnion
      <4>3. C(S0) \in Int /\ C(S1) \in Int
        BY <1>2
      <4>. QED  BY <4>1, <4>2, <4>3 DEF C
    <3>6. C(U) = C(S) + c[s]
      <4>1. Valued(c, Projects)
        BY DEF Valued
      <4>2. Splits(c, Projects)
        BY <1>1, <4>1, SumSplits
      <4>3. SumFunctionOnSet(c, U) = c[s] + SumFunctionOnSet(c, U \ {s})
        BY <3>2, <4>2 DEF Splits
      <4>4. U \ {s} = S
        BY <2>5
      <4>. HIDE DEF U, s
      <4>5. C(U) = c[s] + C(S)
        BY <4>3, <4>4 DEF C
      <4>. QED  BY <2>2, <3>3, <4>5
    <3>7. 2 * (a + y + x) <= T * ((k + 1) * (n - (k + 1))) + 2 * T
      <4>1. W(S1) + Weight[s] <= T
        <5>. DEFINE R == S1 \cup {s}
        <5>1. R \in SUBSET Projects /\ s \in R /\ R \ {s} = S1
          BY <1>1, <2>5
        <5>2. Valued(Weight, Projects)
          BY PickerBounds DEF Valued
        <5>3. Splits(Weight, Projects)
          BY <1>1, <5>2, SumSplits
        <5>. HIDE DEF R
        <5>4. SumFunctionOnSet(Weight, R) = Weight[s] + SumFunctionOnSet(Weight, R \ {s})
          BY <5>1, <5>3 DEF Splits
        <5>5. W(R) = Weight[s] + W(S1) /\ W(R) <= T
          BY <1>2, <5>1, <5>4 DEF W
        <5>. QED  BY <1>1, <2>2, <3>3, <5>5
      <4>. DEFINE u == T * ((k + 1) * (n - (k + 1)))
      <4>2. 2 * C(U) <= u /\ u \in Int
        BY <1>1, <1>6, <2>1, <3>2
      <4>3. T \in Int
        BY <1>1
      <4>. HIDE DEF u, a, x, y
      <4>4. 2 * (a + y + x) <= u + 2 * T
        BY <2>2, <3>3, <3>4, <3>5, <3>6, <4>1, <4>2, <4>3
      <4>. QED  BY <4>4 DEF u
    <3>8. 2 * a <= T * (j * (n - j))
      <4>1. S0 \in SUBSET Projects
        OBVIOUS
      <4>. QED  BY <1>6, <4>1
    <3>9. y <= m * x
      <4>1. (\A p \in S1 : Raised(c)[p] \in Int) /\ (\A p \in S1 : Raised(c)[p] <= x)
        BY RaisedType, PickWinner
      <4>. HIDE DEF x, S1
      <4>2. SumFunctionOnSet(Raised(c), S1) <= Cardinality(S1) * x
        BY <2>1, <3>3, <4>1, SumIsBounded
      <4>. QED  BY <4>2
    <3>10. 2 * (a + y) <= T * (k * (n - k))
      <4>1. n \in Nat /\ T \in Nat
        BY <1>1
      <4>. HIDE DEF a, x, y, j, m, k
      <4>. QED  BY <2>1, <3>1, <3>2, <3>3, <3>4, <3>5, <3>7, <3>8, <3>9, <4>1, LoserArithmetic
    <3>11. SumFunctionOnSet(d, S) = a + y
      <4>1. SumFunctionOnSet(d, S) = C(S) + W(S1)
        BY <1>4, <2>5
      <4>. HIDE DEF a, y
      <4>. QED  BY <2>2, <3>4, <3>5, <4>1
    <3>. QED  BY <3>10, <3>11
  <2>. QED  BY <2>3, <2>4, <2>5
<1>. QED  BY <1>3, <1>5, <1>7 DEF Balanced, d, T, n

\* A pick as a batch keeps it.
IsPick(x) == x.among \subseteq Projects /\ x.selected \in Projects /\ x.next \in [x.among -> Int]

\* While nothing overlaps, one batch at most has picked, from the weights as they are.
PicksAreFresh ==
  \A b \in Batches : batchPick[b].among # {} =>
    /\ batchPick[b] = pickTarget(batchPick[b].among, currentWeight)
    /\ \A e \in Batches : e # b => batchPick[e].among = {}

\* What a Project gained in the selections it lost is part of its standing.
GainsAreKept ==
  \A p \in Projects :
    2 * (passedOver[p] * Weight[p])
      <= 2 * currentWeight[p] + Share(Projects) * (Cardinality(Projects) - 1)

PickerInv ==
  /\ PickerTypeOK /\ DOMAIN batchPick = Batches
  /\ \A p \in Projects : passedOver[p] <= selections
  /\ ~overlapping => Balanced(currentWeight) /\ PicksAreFresh /\ GainsAreKept

LEMMA NoPickIsPick == IsPick(NoPick) /\ NoPick.among = {}
<1>1. 1 \in DOMAIN Order
  <2>1. Len(Order) \in Nat \ {0} /\ DOMAIN Order = 1 .. Len(Order)
    BY FewProjects
  <2>. QED  BY <2>1
<1>. QED  BY <1>1 DEF NoPick, IsPick, Projects

\* The lowest standing: all the others together stand as high as they can.
LEMMA LowestStanding ==
  ASSUME NEW c \in [Projects -> Int], Balanced(c), NEW p \in Projects
  PROVE  /\ 2 * c[p] + Share(Projects) * (Cardinality(Projects) - 1) >= 0
         /\ 2 * c[p] <= Share(Projects) * (Cardinality(Projects) - 1)
<1>. DEFINE n == Cardinality(Projects)
            T == Share(Projects)
            R == Projects \ {p}
            P == {p}
<1>1. IsFiniteSet(Projects) /\ n \in Nat \ {0} /\ T \in Nat /\ c[p] \in Int
  BY FewProjects, ShareType
<1>2. Splits(c, Projects)
  <2>1. Valued(c, Projects)
    BY DEF Valued
  <2>. QED  BY <1>1, <2>1, SumSplits
<1>3. SumFunctionOnSet(c, Projects) = c[p] + SumFunctionOnSet(c, R)
  BY <1>2 DEF Splits
<1>4. SumFunctionOnSet(c, P) = c[p]
  <2>1. SumFunctionOnSet(c, P) = c[p] + SumFunctionOnSet(c, P \ {p})
    BY <1>2 DEF Splits
  <2>2. P \ {p} = {}
    OBVIOUS
  <2>3. SumFunctionOnSet(c, {}) = 0
    BY SumOfNothing
  <2>4. SumFunctionOnSet(c, P) = c[p] + 0
    BY <2>1, <2>2, <2>3
  <2>. QED  BY <1>1, <2>4
<1>5. Cardinality(R) = n - 1 /\ Cardinality(P) = 1
  BY <1>1, FS_RemoveElement, FS_Singleton
<1>6. SumFunctionOnSet(c, R) = 0 - c[p]
  <2>1. SumFunctionOnSet(c, R) \in Int
    <3>1. \A x \in Projects : c[x] \in Int
      OBVIOUS
    <3>2. \A t \in SUBSET Projects : SumFunctionOnSet(c, t) \in Int
      BY <1>1, <3>1, SumType
    <3>. QED  BY <3>2
  <2>2. SumFunctionOnSet(c, Projects) = 0
    BY DEF Balanced
  <2>. HIDE DEF R
  <2>. QED  BY <1>1, <1>3, <2>1, <2>2
<1>7. /\ 2 * SumFunctionOnSet(c, R) <= T * (Cardinality(R) * (n - Cardinality(R)))
      /\ 2 * SumFunctionOnSet(c, P) <= T * (Cardinality(P) * (n - Cardinality(P)))
  BY DEF Balanced
<1>. HIDE DEF n, T, R, P
<1>8. 2 * (0 - c[p]) <= T * ((n - 1) * (n - (n - 1))) /\ 2 * c[p] <= T * (1 * (n - 1))
  BY <1>4, <1>5, <1>6, <1>7
<1>9. T * ((n - 1) * (n - (n - 1))) = T * (n - 1) /\ T * (1 * (n - 1)) = T * (n - 1) /\ T * (n - 1) \in Int
  BY <1>1
<1>. DEFINE v == T * (n - 1)
<1>10. 2 * (0 - c[p]) <= v /\ 2 * c[p] <= v /\ v \in Int
  BY <1>8, <1>9
<1>. HIDE DEF v
<1>11. 2 * c[p] + v >= 0
  BY <1>1, <1>10
<1>. QED  BY <1>10, <1>11 DEF v, n, T

LEMMA PickKeepsInv ==
  ASSUME NEW b \in Batches, NEW among \in SUBSET Projects, PickerInv, Pick(b, among)
  PROVE  PickerInv'
<1>. DEFINE pick == pickTarget(among, currentWeight)
<1>1. /\ currentWeight \in [Projects -> Int] /\ among # {} /\ batchPick[b].among = {}
      /\ DOMAIN batchPick = Batches /\ \A e \in Batches : IsPick(batchPick[e])
      /\ batchPick' = [batchPick EXCEPT ![b] = pick]
      /\ UNCHANGED <<currentWeight, passedOver, selections>>
      /\ overlapping' = (overlapping \/ \E e \in Batches : batchPick[e].among # {})
  BY DEF PickerInv, PickerTypeOK, Pick, IsPick
<1>2. IsPick(pick) /\ pick.among = among
  BY <1>1, PickWinner DEF IsPick
<1>. HIDE DEF pick
<1>3. /\ DOMAIN batchPick' = Batches /\ batchPick'[b] = pick
      /\ \A e \in Batches : e # b => batchPick'[e] = batchPick[e]
      /\ \A e \in Batches : IsPick(batchPick'[e])
  BY <1>1, <1>2
<1>4. PickerTypeOK'
  <2>1. overlapping' \in BOOLEAN
    BY <1>1 DEF PickerInv, PickerTypeOK
  <2>2. \A e \in Batches : IsPick(batchPick'[e])
    BY <1>3
  <2>. QED  BY <1>1, <2>1, <2>2 DEF PickerInv, PickerTypeOK, IsPick
<1>5. ASSUME ~overlapping' PROVE Balanced(currentWeight') /\ PicksAreFresh' /\ GainsAreKept'
  <2>1. ~overlapping /\ \A e \in Batches : batchPick[e].among = {}
    BY <1>1, <1>5
  <2>2. PicksAreFresh'
    BY <1>1, <1>2, <1>3, <2>1 DEF PicksAreFresh, pick
  <2>. QED  BY <1>1, <2>1, <2>2 DEF PickerInv, GainsAreKept
<1>. QED  BY <1>1, <1>3, <1>4, <1>5 DEF PickerInv

LEMMA RefusalKeepsInv ==
  ASSUME NEW b \in Batches, PickerInv, ClaimRefused(b)
  PROVE  PickerInv'
<1>1. /\ DOMAIN batchPick = Batches /\ \A e \in Batches : IsPick(batchPick[e])
      /\ batchPick' = [batchPick EXCEPT ![b] = NoPick]
      /\ UNCHANGED <<currentWeight, overlapping, passedOver, selections>>
  BY DEF PickerInv, PickerTypeOK, ClaimRefused, IsPick
<1>2. /\ DOMAIN batchPick' = Batches /\ batchPick'[b] = NoPick
      /\ \A e \in Batches : e # b => batchPick'[e] = batchPick[e]
      /\ \A e \in Batches : IsPick(batchPick'[e])
  BY <1>1, NoPickIsPick
<1>3. PickerTypeOK'
  BY <1>1, <1>2 DEF PickerInv, PickerTypeOK, IsPick
<1>4. PicksAreFresh => PicksAreFresh'
  BY <1>1, <1>2, NoPickIsPick DEF PicksAreFresh
<1>. QED  BY <1>1, <1>2, <1>3, <1>4 DEF PickerInv, GainsAreKept

LEMMA SelectionKeepsInv ==
  ASSUME NEW b \in Batches, PickerInv, recordProjectDispatchSelection(b)
  PROVE  PickerInv'
<1>. DEFINE pick == batchPick[b]
            A == pick.among
<1>1. /\ currentWeight \in [Projects -> Int] /\ A # {} /\ A \in SUBSET Projects /\ selections \in Nat
      /\ selections < MaxSelections /\ MaxSelections \in Nat
      /\ DOMAIN batchPick = Batches /\ \A e \in Batches : IsPick(batchPick[e])
      /\ \A p \in Projects : passedOver[p] \in Nat /\ passedOver[p] <= selections
  BY PickerBounds DEF PickerInv, PickerTypeOK, recordProjectDispatchSelection, IsPick
<1>2. /\ currentWeight' = [p \in Projects |-> IF p \in A THEN pick.next[p] ELSE currentWeight[p]]
      /\ passedOver' = [p \in Projects |-> IF p \notin A \/ p = pick.selected THEN 0
                                           ELSE passedOver[p] + 1]
      /\ selections' = selections + 1 /\ overlapping' = overlapping
      /\ batchPick' = [batchPick EXCEPT ![b] = NoPick]
  BY DEF recordProjectDispatchSelection
<1>3. /\ DOMAIN batchPick' = Batches /\ batchPick'[b] = NoPick
      /\ \A e \in Batches : e # b => batchPick'[e] = batchPick[e]
      /\ \A e \in Batches : IsPick(batchPick'[e])
  BY <1>1, <1>2, NoPickIsPick
<1>4. selections' \in 0 .. MaxSelections /\ \A p \in Projects : passedOver'[p] \in Nat /\ passedOver'[p] <= selections'
  <2>1. ASSUME NEW p \in Projects PROVE passedOver'[p] = 0 \/ passedOver'[p] = passedOver[p] + 1
    BY <1>2
  <2>2. ASSUME NEW p \in Projects PROVE passedOver'[p] \in Nat /\ passedOver'[p] <= selections'
    BY <1>1, <1>2, <2>1
  <2>. QED  BY <1>1, <1>2, <2>2
<1>5. PickerTypeOK'
  <2>1. currentWeight' \in [Projects -> Int]
    <3>1. \A p \in A : pick.next[p] \in Int
      BY <1>1 DEF IsPick
    <3>. HIDE DEF pick, A
    <3>. QED  BY <1>1, <1>2, <3>1
  <2>2. passedOver' \in [Projects -> 0 .. MaxSelections]
    <3>1. \A p \in Projects : passedOver'[p] \in 0 .. MaxSelections
      BY <1>1, <1>4
    <3>. QED  BY <1>2, <3>1
  <2>3. overlapping' \in BOOLEAN
    BY <1>2 DEF PickerInv, PickerTypeOK
  <2>. QED  BY <1>3, <1>4, <2>1, <2>2, <2>3 DEF PickerTypeOK, IsPick
<1>6. ASSUME ~overlapping PROVE Balanced(currentWeight') /\ PicksAreFresh' /\ GainsAreKept'
  <2>1. /\ Balanced(currentWeight) /\ GainsAreKept
        /\ pick = pickTarget(A, currentWeight)
        /\ \A e \in Batches : e # b => batchPick[e].among = {}
    BY <1>1, <1>6 DEF PickerInv, PicksAreFresh
  <2>2. currentWeight' = AfterSelection(A, currentWeight)
    BY <1>2, <2>1 DEF AfterSelection
  <2>3. currentWeight' \in [Projects -> Int] /\ Balanced(currentWeight')
    <3>. HIDE DEF A
    <3>. QED  BY <1>1, <2>1, <2>2, SelectionKeepsBalance
  <2>4. PicksAreFresh'
    BY <1>3, <2>1, NoPickIsPick DEF PicksAreFresh
  <2>5. ASSUME NEW p \in Projects
        PROVE  2 * (passedOver'[p] * Weight[p])
                 <= 2 * currentWeight'[p] + Share(Projects) * (Cardinality(Projects) - 1)
    <3>. DEFINE v == Share(Projects) * (Cardinality(Projects) - 1)
    <3>1. v \in Int /\ Weight[p] \in Int /\ currentWeight[p] \in Int /\ currentWeight'[p] \in Int
      <4>1. v \in Int
        BY FewProjects, ShareType
      <4>2. Weight[p] \in Int
        BY PickerBounds
      <4>. HIDE DEF v
      <4>. QED  BY <1>1, <2>3, <4>1, <4>2
    <3>2. 2 * currentWeight'[p] + v >= 0
      BY <2>3, LowestStanding
    <3>3. 2 * (passedOver[p] * Weight[p]) <= 2 * currentWeight[p] + v
      BY <2>1 DEF GainsAreKept
    <3>. HIDE DEF v
    <3>4. CASE passedOver'[p] = 0
      BY <3>1, <3>2, <3>4 DEF v
    <3>5. CASE passedOver'[p] # 0
      <4>1. p \in A /\ p # pick.selected /\ passedOver'[p] = passedOver[p] + 1
        BY <1>2, <3>5
      <4>2. currentWeight'[p] = pick.next[p]
        BY <1>2, <4>1
      <4>3. pick.next[p] = Raised(currentWeight)[p]
        BY <1>1, <2>1, <4>1, PickWinner
      <4>4. currentWeight'[p] = currentWeight[p] + Weight[p]
        BY <1>1, <4>2, <4>3, RaisedType
      <4>. DEFINE t == passedOver[p]
                  w == Weight[p]
                  c == currentWeight[p]
      <4>5. t \in Int /\ w \in Int /\ c \in Int
        BY <1>1, <3>1
      <4>. HIDE DEF t, w, c
      <4>6. 2 * (t * w) <= 2 * c + v => 2 * ((t + 1) * w) <= 2 * (c + w) + v
        BY <3>1, <4>5
      <4>. QED  BY <3>3, <4>1, <4>4, <4>6 DEF t, w, c, v
    <3>. QED  BY <3>4, <3>5
  <2>. QED  BY <2>3, <2>4, <2>5 DEF GainsAreKept
<1>. QED  BY <1>2, <1>3, <1>4, <1>5, <1>6 DEF PickerInv

LEMMA PickerStart == PickerInit => PickerInv
<1>. SUFFICES ASSUME PickerInit PROVE PickerInv
  OBVIOUS
<1>1. /\ currentWeight = [p \in Projects |-> 0] /\ batchPick = [b \in Batches |-> NoPick]
      /\ overlapping = FALSE /\ passedOver = [p \in Projects |-> 0] /\ selections = 0
  BY DEF PickerInit
<1>2. /\ currentWeight \in [Projects -> Int] /\ passedOver \in [Projects -> 0 .. MaxSelections]
      /\ selections \in 0 .. MaxSelections /\ overlapping \in BOOLEAN
  <2>1. 0 \in 0 .. MaxSelections
    BY PickerBounds
  <2>2. currentWeight \in [Projects -> Int]
    BY <1>1
  <2>3. passedOver \in [Projects -> 0 .. MaxSelections]
    <3>. DEFINE I == 0 .. MaxSelections
    <3>. HIDE DEF I
    <3>1. 0 \in I => [p \in Projects |-> 0] \in [Projects -> I]
      OBVIOUS
    <3>. QED  BY <1>1, <2>1, <3>1 DEF I
  <2>. QED  BY <1>1, <2>1, <2>2, <2>3
<1>3. PickerTypeOK /\ DOMAIN batchPick = Batches /\ PicksAreFresh
  BY <1>1, <1>2, NoPickIsPick DEF PickerTypeOK, IsPick, PicksAreFresh
<1>4. \A S \in SUBSET Projects : SumFunctionOnSet(currentWeight, S) = 0
  <2>. DEFINE G == {s \in SUBSET Projects : SumFunctionOnSet(currentWeight, s) = 0}
  <2>1. {} \in G
    BY SumOfNothing
  <2>2. ASSUME NEW s \in SUBSET Projects, NEW x \in s, s \ {x} \in G PROVE s \in G
    <3>1. Valued(currentWeight, Projects)
      BY <1>1 DEF Valued
    <3>2. Splits(currentWeight, Projects)
      BY <3>1, FewProjects, SumSplits
    <3>3. SumFunctionOnSet(currentWeight, s) = currentWeight[x] + SumFunctionOnSet(currentWeight, s \ {x})
      BY <3>2 DEF Splits
    <3>4. currentWeight[x] = 0 /\ SumFunctionOnSet(currentWeight, s \ {x}) = 0
      BY <1>1, <2>2
    <3>5. SumFunctionOnSet(currentWeight, s) = 0 + 0
      BY <3>3, <3>4
    <3>. QED  BY <3>5
  <2>3. \A s \in SUBSET Projects : s \in G
    <3>. HIDE DEF G
    <3>. QED  BY <2>1, <2>2, FewProjects, ElementInduction
  <2>. QED  BY <2>3
<1>5. ASSUME NEW S \in SUBSET Projects
      PROVE  0 <= Share(Projects) * (Cardinality(S) * (Cardinality(Projects) - Cardinality(S)))
  <2>. DEFINE k == Cardinality(S)
              n == Cardinality(Projects)
              T == Share(Projects)
  <2>1. k \in Nat /\ n \in Nat /\ k <= n /\ T \in Nat
    BY FewProjects, FS_Subset, FS_CardinalityType, ShareType
  <2>. HIDE DEF k, n, T
  <2>2. n - k \in Nat
    BY <2>1
  <2>3. k * (n - k) \in Nat
    BY <2>1, <2>2
  <2>4. T * (k * (n - k)) \in Nat
    BY <2>1, <2>3
  <2>. QED  BY <2>4 DEF k, n, T
<1>6. Balanced(currentWeight)
  BY <1>4, <1>5 DEF Balanced
<1>7. GainsAreKept
  <2>1. ASSUME NEW p \in Projects PROVE 2 * currentWeight[p] + Share(Projects) * (Cardinality(Projects) - 1) >= 0
    BY <1>2, <1>6, LowestStanding
  <2>2. \A p \in Projects : passedOver[p] * Weight[p] = 0
    BY <1>1, PickerBounds
  <2>3. \A p \in Projects : currentWeight[p] = 0
    BY <1>1
  <2>4. Share(Projects) * (Cardinality(Projects) - 1) \in Int
    BY FewProjects, ShareType
  <2>. QED  BY <2>1, <2>2, <2>3, <2>4 DEF GainsAreKept
<1>8. \A p \in Projects : passedOver[p] <= selections
  BY <1>1
<1>. QED  BY <1>3, <1>6, <1>7, <1>8 DEF PickerInv

LEMMA PickerStep == PickerInv /\ [PickerNext]_pickerVars => PickerInv'
<1>. SUFFICES ASSUME PickerInv, [PickerNext]_pickerVars PROVE PickerInv'
  OBVIOUS
<1>1. CASE PickerNext
  BY <1>1, PickKeepsInv, RefusalKeepsInv, SelectionKeepsInv DEF PickerNext
<1>2. CASE UNCHANGED pickerVars
  BY <1>2 DEF pickerVars, PickerInv, PickerTypeOK, PicksAreFresh, GainsAreKept
<1>. QED  BY <1>1, <1>2

LEMMA PickerConclusion == PickerInv => PickerInvariant
<1>. SUFFICES ASSUME PickerInv PROVE PickerInvariant
  OBVIOUS
<1>1. WeightsBalance
  BY DEF PickerInv, WeightsBalance, Balanced
<1>2. ASSUME ~overlapping, NEW p \in Projects
      PROVE  passedOver[p] * Weight[p] <= (Len(Order) - 1) * Share(Projects)
  <2>. DEFINE t == passedOver[p] * Weight[p]
              v == Share(Projects) * (Cardinality(Projects) - 1)
              c == currentWeight[p]
  <2>1. c \in Int /\ v \in Int /\ t \in Int
    BY FewProjects, ShareType, PickerBounds DEF PickerInv, PickerTypeOK
  <2>2. 2 * t <= 2 * c + v
    BY <1>2 DEF PickerInv, GainsAreKept
  <2>3. 2 * c <= v
    BY <1>2, LowestStanding DEF PickerInv, PickerTypeOK
  <2>. HIDE DEF t, v, c
  <2>4. t <= v
    BY <2>1, <2>2, <2>3
  <2>5. v = (Len(Order) - 1) * Share(Projects)
    BY FewProjects, ShareType DEF v
  <2>. QED  BY <2>4, <2>5 DEF t
<1>. QED  BY <1>1, <1>2 DEF PickerInvariant, PickerInv, NeverPassedOverForLong

\* For any Projects and weights, any number of batches and whichever Projects can be
\* dispatched at a pick: while no batch overlaps another the standings add up to nothing,
\* and a Project that is asked every time wins again before the weight it gained exceeds
\* the total weight once per other Project.
THEOREM NoProjectIsStarved == PickerSpec => []PickerInvariant
<1>1. PickerSpec => []PickerInv
  BY PickerStart, PickerStep, PTL DEF PickerSpec
<1>. QED  BY <1>1, PickerConclusion, PTL
================================================================================
