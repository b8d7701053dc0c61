# A verification of the core preservation service

The repository is a Go HTTP server that governs irreversible sampling of drill
cores. A keeper registers a core with its protected intervals, a scientist
drafts a sampling case for it, a precheck compares the case with the core and
with its rivals, a reviewer sends it back or authorizes it, the cut is recorded,
the remaining material is weighed, and the case is frozen with a credential that
anyone may verify later.

This directory holds TLA+ modules that model that program, configurations for
the model checker TLC, and proofs checked by TLAPS. Line numbers refer to the
repository's `src/`; `PROJECT.json` maps every definition to its lines.

## 1. The system

### Components

| Component | Files | State it keeps | Operations |
|---|---|---|---|
| Workflow service | `internal/application/service.go`, `workflow.go`, `commands.go`, `query.go` | one mutex per core id (`locks`) | RegisterCore, ReviseCore, CreateCase, ReviseCase, Precheck, ReturnCaseIssues, CloseFinding, SubmitCase, Authorize, ExecuteReceipt, VerifyAndFreeze; reads: PreviewCoreRevision, GetPrecheck, Findings, Authorization, ExecutionReceipt, VerificationAttempts, Available, VerifyCredential, version lists |
| Domain records and rules | `internal/domain` | none | ValidateCore, ValidateCaseBody, ValidateSegments, NormalizeIntervals, ValidateTransition, CanEdit, Digest |
| Analysis | `internal/analysis` | none | Precheck, ActiveSummaries, ExecutionViolations, VerificationReasons, Availability, digests; MergeSegments, Subtract and the helpers of `geometry.go` and `mass.go` have no caller in the service |
| Snapshot store | `internal/store/store.go` | the whole database in memory, its copy `snapshot.json`, an RW mutex | load; `update` = clone, change, clone, write a temporary file, rename, swap; one method per update or lookup |
| Unused store helpers | `internal/store/atomic.go`, `recovery.go`, `revisions.go`, `locking.go` | `KeyLocker` has a mutex per key | AtomicWrite, ValidateSnapshot, WriteRevision, Lock: no caller |
| HTTP interface | `internal/httpapi` | none | decode, call one handler, map its error |
| Server process | `cmd/server` | none | flags, listening, self check |

### How they interact

An HTTP request calls one handler of the service on a goroutine of its own. A
handler that changes state reads the case, takes the mutex of the case's core,
reads the case again, checks its rules against further reads of the store, and
makes exactly one `Store.update`. The update runs under the store's write lock
and either persists and swaps the whole database or leaves it as it was. The
reading handlers take no core mutex: each of their lookups is atomic by itself,
their combination is not. Handlers communicate only through the store.

The records of one case are tied by copies rather than by references. A case
carries the digest of its precheck snapshot; the snapshot carries a copy of the
core, of the case's inputs and of its active rivals; the manifest carries the
snapshot's digest; the execution the manifest's; the credential the execution's
and the last verification's.

### What is hard about it

* **Rivals.** Drafts may overlap. Only the comparison of a stored snapshot with
  the present, at submission and again at authorization, keeps two cases of one
  core from being cut in the same place.
* **Stale state.** Mass is compared when a cut is recorded, changed when it is
  frozen, and the reserve and the protected intervals can be revised between.
* **Five copies of one truth.** Case, manifest, execution, receipt, attempts and
  credential are written by different handlers and must never drift apart.
* **Reviews that repeat.** Findings are opened and closed against revisions which
  the same handlers raise.
* **Concurrency.** A handler finds the mutex it needs by reading a record before
  it holds that mutex; creations on two cores share a name space of case ids.
* **Failure.** A crash between write, rename, swap and reply; a reply that is
  lost after the commit; a client that repeats the call.

### What makes each component correct

* *Workflow service*: rivals past their review ask for disjoint depths; what is
  reviewed is what was prechecked; the records of a case agree; every credential
  verifies; evidence is only added; the reserve is kept.
* *Case lifecycle*: handlers obey the transition table.
* *Rules*: a stale snapshot is recognised, and stays stale; its reason is named.
* *Store*: an update is all or nothing, in memory and on disk, across a crash.
* *Locks*: concurrent handlers have the effect of some order of them.
* *Readers*: what they answer was true at some moment of the call.
* *Interval algorithms*: the loops compute the union, difference or partition.
* *HTTP interface*: a repeated call after a lost reply changes nothing twice.

## 2. The modules

| Module | Models |
|---|---|
| `Geometry` | intervals of a core (`domain/models.go`, `normalize.go`, `validation.go`, the tolerance of `analysis/workflow.go`) |
| `CaseLifecycle` | the transition table `SamplingCase.ValidateTransition` as an abstract specification: a case has a status and may have open findings |
| `SamplingWorkflow` | the service with the rules of analysis and domain: one action per successful call of a handler |
| `SamplingProperties` | its invariants, its action properties, the refinement of `CaseLifecycle`, and what the repository's text promises but the code does not keep |
| `InformedClient` | `SamplingWorkflow` with a client who edits, closes and cuts on what it was shown earlier, next to everybody else |
| `SerialService` | an abstract specification: whole calls, one after the other, on the part of a record that concurrent calls could disturb |
| `ConcurrentService` | the same handlers with one step per lookup, lock and update, and the two reading calls `Available` and `GetPrecheck` |
| `AtomicStore` | an abstract specification: updates made at once or not at all, lost only with a call that has no answer |
| `SnapshotStore` | `store.go`: `update` as lock, clone, write, rename and swap, with failures, crashes and the load at start |
| `DurableService` | the two calls that may be repeated, `ExecuteReceipt` and `VerifyAndFreeze`, with their core mutex, over `SnapshotStore` |
| `IntervalLoops` | the loops of `NormalizeIntervals`, `MergeSegments` and `Subtract`, one step per round |
| `AvailabilityView` | the loop of `Availability` that partitions a core |
| `MCSampling`, `MCClient`, `MCConcurrent`, `MCDurable`, `MCIntervals` | requests and inputs of the small instances |
| `SamplingProofs`, `EvidenceProofs`, `SnapshotProofs` | TLAPS proofs about `SamplingWorkflow`: its types; the records of a case and its lifecycle; the precheck snapshots and what is decided on them, rivals included. Each builds on the one before |
| `ClientProofs` | proofs about `InformedClient` |
| `ConcurrentProofs`, `StoreProofs`, `DurableProofs` | proofs about `ConcurrentService`, `SnapshotStore` and `DurableService` |
| `IntervalProofs` | proofs about `IntervalLoops` and `AvailabilityView` |

How they fit together: `SnapshotStore` shows that a store call is one step
(`AtomicUpdates`), and `ConcurrentService` takes lookups and updates for such
steps. It shows in turn that a handler is one step (`Serializable`), and
`SamplingWorkflow` takes handlers for such steps. `DurableService` and
`InformedClient` add what happens outside the handlers: crashes, lost replies and
repeated calls to the first, people who act on old information to the second.

### State

`SamplingWorkflow` has the maps of the store's `snapshot` struct as variables:
`cores`, `coreVersions`, `cases`, `caseVersions`, `findingEvents`, `prechecks`,
`manifests` (Authorizations), `executions`, `receipts`, `attempts`
(Verifications) and `credentials`. The findings of a case are part of its
record, as in the code. An absent record is `None`. `InformedClient` adds the
case and the core as the client saw them last.

`ConcurrentService` gives each goroutine (`Calls`) the step it is at, what it
found before it took a mutex and what it has `read` since; `holder` is the
service's `locks` map. Two are history variables: `stored`, the snapshots the
prechecks of a case have saved, any of which `GetPrecheck` may be asked about, and
`truths`, the answers a reading call could have given at some moment since it
began.

`SnapshotStore` has `memory` (`Store.data`), `disk` (`snapshot.json`), `tmp`
(`snapshot.tmp`), `writer` (`Store.mu`) and, for each call, where it is inside
`update` and its local `next` (`draft`). The contents of a database are the
sequence of updates that led to it, which is all that atomicity and durability
are about. `DurableService` adds each request's body, stage and answer, and a
history variable, `known`: whether the request's own result was on disk already
when it was sent, that is, whether it is a retry of something done.

### Actions

| Action | Handler |
|---|---|
| `RegisterCore`, `ReviseCore` | `service.go:25`, `service.go:122` |
| `CreateCase`, `ReviseCase` | `service.go:145`, `service.go:183` |
| `Precheck`, `SubmitCase` | `service.go:244`, `service.go:502` |
| `ReturnCaseIssues`, `CloseFinding` | `service.go:331`, `service.go:401` |
| `Authorize` | `workflow.go:12` |
| `ExecuteReceipt` | `workflow.go:68` |
| `RejectVerification`, `VerifyAndFreeze` | `workflow.go:157`, its two outcomes |

Every guard is a condition or an early return of the handler, in the order of
the code. A refused call writes nothing and is a stuttering step. Calls that the
compatibility handlers (`ReviseCase`, `ReturnCase`, `CloseFinding`, `Execute`,
`Freeze`) make are calls of the full ones. `InformedClient`'s `Revise`, `Close`,
`Constrain` and `RecordCut` are the same actions with the revision or digest the
request quotes.

| Steps of `ConcurrentService` | Code |
|---|---|
| `Begin` | a request reaches its handler; `GetPrecheck` looks up the snapshot it is asked about |
| `Lookup`, `NotFound` | the lookup of the case before the mutex is taken |
| `Lock` | `service.go:20` and `l.Lock()` |
| `ReadCase`, `ReadCore`, `ReadCases` | `Store.Case`, `Core`, `Cases`, in the order `NextLookup` gives for each handler |
| `Decide`, `Store` | the handler's conditions, its update and the unlock; the snapshot `SavePrecheck` keeps |
| `AnswerReader` | the return of `Available` (`workflow.go:256`) and `GetPrecheck` (`service.go:299`) |

| Steps of `SnapshotStore` and `DurableService` | Code |
|---|---|
| `Read` | a lookup under the read lock |
| `BeginUpdate`, `LockAndChange` | `store.go:121` to the second clone |
| `OpenTmp`, `WriteTmp`, `Rename`, `FailUpdate` | `persist`, `store.go:107`, and its early returns |
| `SwapAndUnlock` | `s.data = next` and the deferred unlock |
| `StoreCrash`, `StoreRestart` | the process dies at any step; `store.New` |
| `Send`, `LockCore`, `Look` | the request, the core's mutex, the lookup of its key |
| `Replay`, `Conflict`, `RefuseState`, `RefuseRules` | the early returns, in the order of the code |
| `Commit`, `Committed`, `CommitFailed` | the update and the reply to it |

In `IntervalLoops` and `AvailabilityView` one action is one branch of a loop's
body: `Join`, `Open`, `Skip`, `Carve`, `KeepRest`, `Round`.

### Abstractions, and why they are sound

* *One call, one step.* This is `Serializable`, proved in `ConcurrentProofs`
  from `SeenStillHolds`: what a handler has read under its core's mutex is still
  so when it decides. It needs `OneCoreEach`, that no case id is created on two
  cores, and `SamplingWorkflow` is a model of the server under that condition; the
  run `case_created_twice` shows what happens without it. One call escapes it: a
  submission on a snapshot of another core reads that core, the snapshot's case
  and its rivals without that core's mutex (`service.go:275`). So
  `RequireCurrentPrecheck` leaves the verdict on such a snapshot open: it may be
  found current or stale, whatever the records of the moment say.
* *Expected revisions* in a request are left out of `SamplingWorkflow`: a call
  that succeeds quoted the revision in force, and a call that did not is a
  stutter. `InformedClient` has them.
* *Less of a record* is kept in `SerialService` and `ConcurrentService`: core,
  status, revision and precheck of a case, revision and mass of a core. Every
  case asks for the same depth and 1 mg, so that a precheck passes exactly when
  there is no active rival.
* *The rules* are a choice in `DurableService`: a good body may be accepted or
  turned down, because the mass and the reserve it is judged by change with other
  cases. Its properties hold whatever the rules say.
* *A failed disk* fails an update at any point up to the rename. The temporary
  file is torn from its opening to the end of its writing.
* *Digests* are the records they are computed from. SHA-256 is taken to be free
  of collisions; `Digest` marshals the record, with sorted lists.
* *Ids* of findings, credentials and attempts are the records they name; the
  program draws them from the clock or from the digest.
* *Lists* whose order no rule reads are sets (segments, rivals, findings,
  events); histories and the verification ledger are sequences.
* *Text and time* (purpose, method, notes, people, places, timestamps) are left
  out. Handlers that insist on such a text are assumed to be given one.
* *A copied body.* `CreateCase` stores the body it is given with some fields
  overwritten, and the precheck digest is not one of them. So a new case comes
  with no digest or with that of any stored snapshot (`Digests`), as one does
  whose body is an answer about another case sent back. (The authorization
  digest, execution and credential are not overwritten either, but every handler
  that reads these runs after one that has overwritten them.) A property that
  such a digest upsets says so in its formula: it asks that the case goes by a
  snapshot of its own core (`OnItsCore`), which a case prechecked itself always
  does. What happens otherwise is the finding `copied_body`.

Definitions introduced by `\* Slip:` are mistaken versions of their neighbour (a
forgotten guard, a swapped order, a stale comparison). No specification uses
them. Each is paired in `PROJECT.json` with the property that fails when it
takes its neighbour's place, which shows that the property says something about
the code.

## 3. What is checked

In the runs of `SamplingWorkflow` bounds are the two constants `MaxCoreRevision`
(no `ReviseCore` from there on) and `MaxCaseRevision` (no `ReviseCase` or
`ReturnCaseIssues` from there on); an execution and a freeze may still raise a
revision beyond its bound. The core is 20 mm deep and holds 4 mg, cuts take 1 or
2 mg; the requests are [4,8) and [6,10), which overlap, and [12,16), apart from
both; a cut of [4,10) is [4,8) within the tolerance of 2 mm. Cases and cores are
symmetric in the runs of `MCSampling`, and so are the goroutines of `concurrent`:
none is named in a property or chosen by CHOOSE, and no liveness is checked there.

| Run | Instance | Properties |
|---|---|---|
| `rivals` | two cases on one core, three plans, every mass, one core revision | `TypeOK`, `SubmittedRequestsDisjoint`, `AuthorizationChain`, `CredentialsVerify`, `ReserveKept`, `StaleForever`, `ApprovedOnThePresent` |
| `revisions` | two cases on either of two cores, copied digests, one revision or return each, one core revision | `ReviewedAsPrechecked`, `SnapshotsTraceable`, `HistoryGapless` |
| `review` | one case up to revision 3 before its cut, two kinds of finding, two keys, one core revision, a client with old information | `FindingsGate`, `LedgerMatchesStatus`, `EditsReplaceWhatWasShown`, `CutsFollowWhatWasShown`, `EvidenceImmutable`, `LifecycleSpec` |
| `concurrent` | two goroutines, two cases of one core, every handler except the revision of a case, one core revision, validity queries about every snapshot one of the cases has had | `SeenStillHolds`, `StaleAnswersAreTrue`, `Serializable` |
| `retries` | two requests at a time out of seven bodies about two cases, from an empty server or one with a case that is cut, rejected or frozen; any number of crashes | `OneEffectPerKey`, `AnswersAreKept`, `RepeatSucceeds`, `AtomicUpdates`, `EveryCallReturns` |
| `intervals` | every sorted list of up to three intervals of 0..5, malformed ones included, two bases; a core of 4 mm with up to two protected intervals and two cases, one of up to two segments | `MergeIsUnion`, `MergeIsNormalize`, `SubtractIsDifference`, `ViewExplainsDepths`, `ViewIsCoarsest` |

What they show:

* **Rivals.** Two cases of a core that are submitted, authorized or executed, each
  on a snapshot of that core, never request overlapping depths
  (`SubmittedRequestsDisjoint`), although drafts overlap freely and the check is
  made on a snapshot taken earlier. What is submitted or authorized would pass a
  precheck made at that very moment, whatever has been protected, reserved, cut or
  requested since its snapshot (`ApprovedOnThePresent`); what comes after the
  authorization is not looked at again, by design of the revision of a core, which
  reports the open cases it affects. A snapshot that became stale never looks
  current again (`StaleForever`): a rival that was created and frozen in between
  has left a core revision behind.
* **Evidence.** What is reviewed is a stored snapshot that passed; if it is one of
  the case's core, it is the case's own, at its present revision and request
  (`ReviewedAsPrechecked`): a digest copied from a case of the same core is of no
  use. What a snapshot says of its core, its case and its rivals' requests is found
  in the histories, and every later difference of its inputs has one of the three
  named reasons (`SnapshotsTraceable`: the fallback `caseInputs` at
  `service.go:294` is never reached). Two things a snapshot holds are in no
  history, as the property's comment says: that a rival was Submitted or
  Authorized, which leaves no version (`service.go:525`, `store.go:238`), and which
  cases were active. The version of the rival that was under review is there.
  Histories have no gaps (`HistoryGapless`); manifest, cut and receipt agree with
  their case in every status (`AuthorizationChain`); the ledger agrees with the
  status (`LedgerMatchesStatus`); every credential verifies for ever and no case is
  frozen without one (`CredentialsVerify`); nothing written as evidence is changed,
  nor is a frozen case (`EvidenceImmutable`), so it is all the same to a
  `VerifyCredential` that it makes its lookups one after the other.
* **Rules.** Findings gate the review and the event trail matches them
  (`FindingsGate`); the reserve is kept although it may be raised between a cut
  and its verification (`ReserveKept`); the handlers implement the transition
  table that none of them calls (`LifecycleSpec`).
* **Clients with old information.** An accepted edit of a case or a core replaces
  what its author had been shown, and not what somebody else has written since
  (`EditsReplaceWhatWasShown`). Only revisions are compared, so the property says
  that everything worth seeing raises one: prechecks, submissions and closures do
  not, and none of them changes a request, a finding's existence or a core. A cut
  follows the request its recorder saw authorized (`CutsFollowWhatWasShown`).
* **Concurrency.** Under the core's mutex a handler that looks its records up one
  by one has the effect of a single step (`SeenStillHolds`, `Serializable`). The
  reading calls take no mutex; a "no longer valid" from `GetPrecheck`, about the
  snapshot a case carries or an older one, is true all the same
  (`StaleAnswersAreTrue`), while the numbers of `Available` may be torn
  (below).
* **Failure.** The store with its file, its rename and its crashes implements the
  atomic one (`AtomicUpdates`). A key has one effect and a case is cut and frozen
  once, whatever overlaps, is repeated or interrupted (`OneEffectPerKey`); what a
  success says is on disk and stays (`AnswersAreKept`); a repeated call is
  answered by the first one's result, even after a restart or a freeze
  (`RepeatSucceeds`); no failure of the disk leaves a mutex locked
  (`EveryCallReturns`).
* **Loops.** For malformed intervals too, merging covers what it was given and
  nothing else (`MergeIsUnion`), which is what `Geometry` defines declaratively
  and `SamplingWorkflow` stores (`MergeIsNormalize`); `Subtract` is set difference
  (`SubtractIsDifference`); the availability view names exactly what holds each
  depth (`ViewExplainsDepths`) in the fewest parts (`ViewIsCoarsest`).

Why these bounds are enough: every property that holds of `SamplingWorkflow`
relates at most two cases of one core, or one case to its own records, so two cases
(two cores where the core of a case matters) show each pair; `copied_body` needs a
third case, the one whose digest is copied. A case needs two revisions for
a snapshot, a finding or a version to be outdated, and three for a finding to
outlive a second return; a core needs one revision to make a snapshot stale and
one freeze to change its mass. Four milligrams let two cuts of one exhaust, and
not exhaust, a reserve of three. Two goroutines make every pair of overlapping
calls, each of any length. A retry needs two calls, a crash between them may
fall on any step, and the four initial states of `retries` stand for what earlier
calls have left. The depth 5 leaves room for three intervals that touch, overlap
or leave a gap. The theorems of section 4 hold without these bounds: they cover
every property of the table but `EveryCallReturns`.

`CHECK_DEADLOCK FALSE` is set everywhere because the system really may stop: the
server acts on requests only, with every case frozen and every core at its bound
no request changes anything, and loops end.

### Fairness

Only `DurableService` assumes any, and only for goroutines that have a request to
serve. `WF_vars(Handler(c))`: a goroutine that is not blocked goes on, and a file
operation returns. `SF_vars` of `LockCore`, `UpdateLock` and `Look`: whoever waits
for a mutex gets it if it is free again and again. Weak fairness would not do, as
others may take it in between, and the runtime gives more: a `sync.Mutex` hands
itself to the first in its queue once that one has waited for a millisecond, and
a `sync.RWMutex` admits the waiting readers after each writer and holds new ones
off while a writer waits. No client has to send anything, the process need not
stay up and nobody has to restart it, so `EveryCallReturns` counts a call that a
crash has interrupted as done.

Nothing else is owed. Whether a case is ever authorized or frozen depends on
people: nothing makes a client call again, and a rival may keep a case from
authorization for as long as it likes.

### Disagreements between the repository's text and its code

Each of these runs checks one statement of the repository's documents, tests or
messages, and TLC finds the behaviour of the code that breaks it.

| Run | Statement | What happens |
|---|---|---|
| `mass_conserved` | `MassConserved`: the mass available is the registered mass less the frozen samples | two authorized cases are both cut against the same mass (`workflow.go` checks it at the cut, changes it at the freeze); the second freeze overwrites the first |
| `cut_twice` | `FrozenCutsDisjoint`: no depth is cut and frozen twice | `ActiveSummaries` leaves frozen cases out, so their depths pass the precheck again |
| `stale_closure` | `ClosuresCurrent`: a closed finding is closed against the present revision | a revision leaves earlier closures behind; `SubmitCase` refuses them and `CloseFinding` cannot close them again, so the case is stuck |
| `copied_body` | `CommittedRequestsApart`: whatever is submitted has passed a precheck of its own, so it is apart from the cases submitted before | a case whose body brings the digest of another core's snapshot along is submitted on it, over a depth that is submitted already |
| `case_created_twice` | `CasesAreCreatedOnce`: a case id that exists is refused | two creations on two cores hold two mutexes, neither sees the other, and the later one overwrites the earlier |
| `torn_answer` | `AnswersWereTrue`: what `Available` or `GetPrecheck` says was true at some moment of the call | `Available` looks up the core before a freeze and the cases after it: its mass budget counts the sample neither as cut nor as reserved. (A "valid" of `GetPrecheck` may be torn in the same way; the trace is one of `Available`) |

## 4. What is proved

Every safety and action property of section 3 is a theorem. Those about the records
of a case are theorems of `Spec`, in which new cases may bring copied digests along;
where such a digest makes a difference, the property says so.

### `SamplingProofs`

One theorem, for any sets of cores, cases and keys, any request bodies within the
declared types and any bounds.

**`TypeCorrect`: `Spec => []TypeOK`.** The inductive invariant is
`TypeInv == TypeOK /\ CasesOnCores`. `TypeOK` alone is not inductive: `Precheck`
copies the record of the case's core into a snapshot, and only `CasesOnCores`
(every case names a registered core) makes sure that this record is not `None`.
There is one lemma per action; it names the record the action stores and shows
its type before it looks at the maps.

Assumptions of this and the next three modules: the named ASSUMEs of
`SamplingWorkflow` (the request bodies have the declared types, the bounds are
naturals, `None` is neither a record nor a revision).

### `EvidenceProofs`

Eight theorems about `Spec`. What all of them rest on: a step touches one
case at most (`StepOfCase`), so an invariant that speaks of every case for itself
is kept if each call keeps it for its own case; and for each call there is one
lemma, its `Effect`, that says what it does to the record of its case, the only
place where the call's definition is expanded.

* **`ChainUnbroken`: `[]AuthorizationChain`.** The property says nothing of cases
  that are not authorized yet, so it cannot tell why an authorization meets no
  older cut. `Chains` adds that such a case is `Blank`: no manifest, no cut, no
  receipt. It stays so because nothing returns a case to its author once it is
  authorized (`Phases`).
* **`LedgerMatches`: `[]LedgerMatchesStatus`.** `Ledgers` says it of each attempt:
  it passed exactly if the case is frozen and it is the last. A second pass is
  impossible because a verification needs an executed case, and a key is used once
  because the handler looks it up in the whole ledger.
* **`CredentialsHold`: `[]CredentialsVerify`.** `Attests` compares a credential with
  the case, the cut and the last attempt; it is kept for ever because a frozen case
  is touched by no call (`FrozenIsFinal`). That the credential's cut is the stored
  one comes from `Chains`. The other half, that a frozen case's credential was
  issued, is a part of the same invariant (`CredentialsAttest`).
* **`HistoriesGapless`: `[]HistoryGapless`.** Version *n* is revision *n* and the
  last version is the record in force, up to its status (`Histories`).
* **`EvidenceStays`: `EvidenceImmutable`**, an action property. That a manifest, a
  cut or a receipt is never overwritten is `Blank` again.
* **`FindingsGateHolds`: `[]FindingsGate`.** `Trails` relates findings and events,
  and needs that an open finding has no closing revision: otherwise an old event
  could speak for a finding opened anew.
* **`LifecycleFollowed`: `LifecycleSpec`**, the refinement of `CaseLifecycle`. Each
  call maps to one transition of the table (`CallMoves`); an approval maps to one
  only because no finding is open, which is `Trails`.
* **`ReservesKept`: `[]ReserveKept`.** Inductive as it stands: a revision compares
  the new reserve with the mass, a freeze the new mass with the reserve.

### `SnapshotProofs`

**`PrechecksTraceable`: `Spec => []SnapshotsTraceable`.** The invariant
`SnapshotsKnown`: what a snapshot says of its core, its case and its rivals stands in
the histories under the revisions it names, a rival's status only if it leaves a
version, and every rival it lists is at least as far now as it was then. Histories
only get longer (`HistoriesGapless`), so what stands there stays; and equal
revisions then mean equal inputs, which is why `caseInputs` is never the answer.

The next three are about the cases that compete for a core, and rest on one lemma.
`CurrentIsOwn`: if `RequireCurrentPrecheck` accepts a case on a snapshot of its
core, that is the snapshot a precheck would take of the case now. If it was taken of
the case itself, being current says so. If it was taken of another case of the core,
it is older than the case whose body brought its digest along, so it does not list
that case (`DigestsCarried`); but the case is a rival there now, so the snapshot is
not current.

**`RequestsDisjoint`: `Spec => []SubmittedRequestsDisjoint`.** Inductive together
with what was said:

1. `SubmittedApart`: at the moment `SubmitCase` succeeds on a snapshot of the core,
   the request is disjoint from that of every rival that is not frozen.
2. `OnlySubmitCommits` and `DisjointStep`: no other action lets a case enter
   {Submitted, Authorized, Executed} or changes a request, a core or the precheck
   inside it.

**`ReviewRestsOnPrecheck`: `Spec => []ReviewedAsPrechecked`.** A submission finds a
stored and passing snapshot, its own by `CurrentIsOwn`; every other step leaves a case
under review with the precheck, revision and request it had; snapshots are never
dropped (`PrechecksKept`).

**`ApprovalsArePresent`: `Spec => ApprovedOnThePresent`**, an action property. The
snapshot of the moment is the one that was accepted, and that one passed.

**`StaleStays`: `Spec => StaleForever`.** A snapshot is current exactly when
it equals the one that would be taken now, so the theorem says that the inputs of a
precheck never return to what they were. How far a case has come is one number,
`Age`, three times its revision plus its progress from submission to authorization:
every call raises it or leaves the summary that rivals see of the case. A summary
that has changed is therefore newer than any snapshot that lists it, and a rival
that has disappeared from the list, by its freeze, has raised the core's revision.

### `ClientProofs`

Two action properties of `ClientSpec`, for any client that quotes what it was shown
and any others acting meanwhile (`ServedLikeAnyone`: the client's calls are calls
the service takes from anybody). The invariant is `ClientInv`.

* **`EditsReplaceShown`: `EditsReplaceWhatWasShown`.** What was shown of a case is
  never ahead of the case, and if it has the case's revision it has its request and
  its findings as they were raised (`CaseSeen`; for a core, `CoreSeen`: it is the
  core). Both parts are needed: without the first a call that raises the revision
  could make it equal to one shown earlier. `CallKeepsOrRaises` is the argument
  that everything worth seeing raises the revision; a closure does not, and
  `ClosingRaisesNothing` shows why it need not.
* **`CutsFollowShown`: `CutsFollowWhatWasShown`.** A record that has a manifest has
  the request it was made out for (`ManifestFits`), in the store and as shown: only
  a new request changes the one, and it drops the other.

### `ConcurrentProofs`

Three theorems about `CSpec`, for any number of goroutines, cores and cases, under
`OneCoreEach`.

**`SeenHolds`: `CSpec => []SeenStillHolds`.** A handler reads what it needs in
several steps, so the statement about the last of them is not inductive. `CInv`
says for every step of every kind of request (`OnCourse`): which lookups have been
made, that the mutex of `CoreToLock` is held from the lock on (`Locked`), that the
core found before the lock is the one the case has (`Found`), and that every
record read since is as it was (`Known`). The heart is that another goroutine's
`Decide` writes only records of the core whose mutex it holds: so it is the same
core, and the two are the same goroutine, or it is another one, and neither the
case nor the core nor the rivals are touched. That a case never changes its core
needs `CreatedAsAsked`, that a case has the core its creation names, and
`OneCoreEach`: this is where two creations of an id on two cores break the
argument.

**`CallsAreSerial`: `CSpec => Serializable`.** A refinement: `Begin` maps to `Ask`,
`Decide` to `Serve`, because by `CInv` what was read is the present; the return of
a reading call to a `Serve` without effect; everything else to a stutter.

**`StaleAnswersTrue`: `CSpec => []StaleAnswersAreTrue`.** `GetPrecheck` looks up the
case, its core and the rivals without a mutex. `WatchInv` says that each of the
three lies between the snapshot asked about and the present (`Between`), in
revisions and, for rivals, in `Age`; that no stored snapshot is ahead of the present
(`StoredNotAhead`), as the question takes any of them; and that a rival read before
its freeze comes with a core that has been revised since
(`FreezesSeen`). So if what was read differs from the snapshot, the present does
too, and the answer "no longer valid" is true when it is given.

### `StoreProofs`

**`StoreIsAtomic`: `StoreSpec => AtomicUpdates`**, for any calls, updates and
history of failures and crashes. The invariant `StoreInv`: whoever is inside
`update` holds the lock in a running process (`Exclusive`); its draft is the memory
with its own change appended, and so is the temporary file once it is written
(`Drafted`); the memory is what is on disk unless somebody is between the rename
and the swap (`Mirrored`). The rename is the abstract commit, an early return and
the swap are answers, a crash leaves what is on disk and loses the calls without
an answer, and a lookup reads what is on disk, as it finds the lock free.

### `DurableProofs`

**`KeysHaveOneEffect`, `AnswersStay`, `RetriesSucceed`**:
`Spec => []OneEffectPerKey`, `[]AnswersAreKept` and `[]RepeatSucceeds`, and
**`ServiceStoreIsAtomic`: `Spec => AtomicUpdates`**, for any number of requests,
cases, keys and crashes, and whatever the rules decide. They share one invariant,
`DurableInv`, as each needs the others. It adds to `StoreInv` that a handler holds
the mutex of its core from the lookup of its key on (`Placed`), so that what it saw
of its case is still so when it decides (`Informed`) and when its update reaches
the disk (`Decided`): the key is still free and the case still in the status it was
judged in. Then a result that joins the others contradicts none of them
(`AppendConsistent`), changes no answer given earlier (`RenameKeeps`), and a retry
of what is on disk can meet no refusal (`Repeated`). What earlier processes have
left on disk is assumed to be consistent in the same sense
(`HistoriesAssumption`).

### `IntervalProofs`

Three theorems about `LoopSpec`, for lists of any length and any intervals,
malformed ones included, and two about `ViewSpec`, for any depth of the core and
any protected intervals and holdings.

**`MergeIsCorrect`: `LoopSpec => []MergeIsUnion`.** The invariant `MergeInv` adds
that the results ascend and begin before everything still to come, which the sort
provides: touching the last result at its end is then enough to be one interval
with it.

**`LoopNormalizes`: `LoopSpec => []MergeIsNormalize`.** `Normalize` says without a
loop which intervals begin a result (`Heads`) and which one of those it absorbs
ends it. `GroupInv`
is the same statement about the part of the list taken so far: every result belongs
to a head (`MergedBy`) and every head to a result, and the last result to the last
head. A new interval either begins a group, and then no earlier group can absorb
it, or joins the last one; to tell them apart takes that every end so far is
reached by some result.

**`SubtractIsCorrect`: `LoopSpec => []SubtractIsDifference`.** `SubtractInv` says
that the pieces hold exactly the uncut depths of the base before `cur`, and that
the cuts already passed end there; it rests on `MergeInv`, as the gaps between
merged cuts are what lets a cut be passed once and for all.

**`DepthsExplained`, `CoarsestShown`**: `ViewSpec => []ViewExplainsDepths` and
`[]ViewIsCoarsest`, from one invariant, `ViewInv`: the parts lie end to end up to
the depth the last round ended at (`Reached`), each with the reasons of every depth
in it and with others than its neighbour's. The step rests on `NothingBetween`: no
interval begins or ends between two neighbouring points, so touching the stretch
between them is the same as holding each depth of it (`TouchedIsAt`). That the
points can be brought into order at all (`OrderExists`, without which `InOrder`
would name nothing) is an induction on their number.

The assumptions are the named ASSUMEs of the modules, which TLC evaluates in the
runs (`AvailabilityView`: the core's depth is an interval that is not empty, which
`ValidCore` demands, and what protects and holds it are sets of integer intervals).
Nothing is admitted without proof.

## 5. What is only model-checked

`EveryCallReturns` is: liveness under fairness, and ENABLED, are beyond the prover.
So are RECURSIVE operators, of which these modules have none, and the induction
theorems of the library, which take an operator as a parameter; where a proof needs
an induction (`OrderExists`) it shows that there is no least counterexample. The
counterexamples of the table of disagreements are TLC's as well.

## 6. Plan

All modules planned exist, and every safety, action and refinement property that a
run checks is proved. What is left to prove:

1. How `SerialService` relates to `SamplingWorkflow`: that the part of a record it
   keeps moves as the full one does, so that `Serializable` speaks of the latter.
2. That what `Normalize` returns is what `ValidSegments` accepts, and that
   normalizing twice changes nothing, so that a core's constraints survive being
   read and sent back.

## 7. What is not modelled, and why

* Of the HTTP layer: decoding, paths, methods, headers and the mapping of errors
  to status codes. It keeps no state. Which handler a request reaches, the
  revisions and digests it quotes and replies that are lost are modelled.
* Flags, port, self check: input and output without state. Only the death and
  the start of the process are modelled.
* Power failures. Neither `snapshot.tmp` nor its directory is synced, so what the
  operating system had not written yet may be lost; `SnapshotStore` is about the
  process dying. A store without a directory, which the self check uses, does not
  persist at all and is left out.
* `AtomicWrite`, `ValidateSnapshot`, `WriteRevision`, `KeyLocker`, and the
  helpers of `geometry.go` and `mass.go`: no caller in the service. (`MergeSegments`
  and `Subtract` have none either, but they are the algebra the package offers.)
* `SaveCore`, `SaveCredential`, `SaveIdempotency`, `Idempotency`: store methods
  that no handler calls.
* The clock, from which ids are drawn: ids are taken to be unique.
* The wording of findings, violations and impacts: whether there is one matters
  to the workflow, its text does not. `PreviewCoreRevision` and the other lists
  only read.

## 8. Running it

    tlc -workers 2 -config rivals.cfg MCSampling
    tlapm ConcurrentProofs.tla

with the community modules and the TLAPS library on the path; `PROJECT.json` names
the module of each run. On two workers `concurrent` takes about two minutes,
`revisions` and `review` one each, all other runs less than half a minute. The proofs take some ten minutes on two processors.
