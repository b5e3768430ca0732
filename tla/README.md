# A TLA+ model of my-jira

my-jira is a project tracker with an API and worker processes in Go
(`src/apps/api`), a live-collaboration server in TypeScript (`src/apps/live`)
and a web front end. This directory holds TLA+ specifications of the parts of
the program whose correctness depends on the order in which several processes
act, the TLC configurations that check them on small instances, and theorems
about them that TLAPS proves for every value of their constants.

## The system

| component | state it keeps | operations | talks to |
|---|---|---|---|
| outbox and dispatcher (`platform/jobs`) | rows of `outbox_events`; tasks in Redis | Publish, Dispatch, the ticker | called inside other components' transactions; Asynq hands its tasks to handlers |
| automation runs (`internal/automation`) | `automation_runs`, `automation_policies`, plans and records | request, reconcile, run one event (claim, reserve a model call, analyse, commit, refresh, record a failure), cancel, retry, undo, external finding, change of policy | publishes to the outbox, applies change sets, reads pages, revisions and roles |
| automation analyses | forecasts, risks, improvements, decomposition plans | decompose, schedule, forecast, risk, efficiency | read by the commit of a run |
| requirements: change sets and events | `planning_change_batches`, `project_revisions`, `project_events` | apply a change set, undo, list and stream events | used by automation, the API and the front end |
| requirements page (`web/src/features/requirements`) | the store: a snapshot, extras, a stream, pending requests | enter, leave, reload, follow events, save | the API of requirements, over requests that overlap and one event stream |
| work items | items, relations, comments, histories | create, update, move, delete, bulk, comments, relations | every change emits an event through a trigger |
| quality | installations, bindings, requests, reports, repair actions | bind, unbind, revoke, request, synchronise, repair | GitHub; the outbox; creates items through `ApplyExternal` of automation |
| integrations | notifications, webhooks and their deliveries, exports, tokens | notify, mail, deliver, export, public API | the outbox, SMTP, receivers, the object store |
| documents and live server | pages, versions; in memory the shared documents and what is known to be stored of them | connect, load, edit, revalidate, store, unload; replace, restore, lock | the live server calls the API; browsers keep documents of their own |
| planning, resources, scenarios | cycles, estimates, projections, scenarios | CRUD, a greedy scheduler | requirements |
| files | assets, objects | upload, complete, expire | object store, the outbox |
| foundation | accounts, workspaces, projects, roles | sign in, invite, change roles | everything reads roles |

What is hard about it:

* **Concurrency.** Several worker processes and API processes share one
  Postgres database. Nearly every write of a project takes the project's
  graph lock (`LockProject`) first, so transactions of a project are serial - but a run of
  automation is *several* transactions with an analysis of up to minutes in
  between, and comments, links and reactions do not take that lock at all.
* **Failure.** A process may die between any two transactions, and also between
  the call to Redis and the commit around it. Asynq retries a task ten times
  and then archives it.
* **Ordering.** A commit must apply to the very input its analysis saw; a
  stream must not skip an event that commits late.
* **Timeouts.** A claim is a lease of two minutes which its owner does not
  extend; the owner may still be at work when another worker claims the run.
* **Chains.** A commit queues follow-up runs, a stale run queues a refreshed
  one, the scheduler queues runs because the project changed: automation can
  trigger automation.

What makes the components correct:

* *outbox*: a published event reaches a handler, once accepted never again, no
  event comes out of nothing, none is lost by a partial failure;
* *automation*: no two batches come from the same revision, a batch applies to
  exactly what its analysis read, a settled run stays settled, a refreshed run is
  never overtaken by the run it came from, chains are bounded and unique, automation does not trigger itself, the model budget is
  counted exactly, no run is forgotten;
* *change sets*: a repeated key changes nothing, an undo never overwrites what
  somebody else did since;
* *work items*: the hierarchy keeps its levels and dependencies stay acyclic;
* *events and the page*: a client that resumes misses no event, shows nothing it
  is no longer told it may see, and nothing older than what it has shown;
* *quality*: the latest report is of the newest evidence, a repair is made from
  present evidence only and stays linked to its finding, a revoked
  installation is never in use, every request is settled;
* *integrations*: an attempt that comes after another completes what it left,
  and repeats nothing that was recorded; an export's recorded scope is what is
  in its object;
* *live*: a save overwrites nothing that others did, accepted edits are stored,
  only a real replacement throws away what people have open, and they hear of
  it;
* *files*: an upload that is late does not bring back what expired.

## The modules

| module | models | extends / uses |
|---|---|---|
| `TaskDelivery` | what the outbox promises, without how | |
| `Outbox` | `outbox_events`, dispatchers, Redis | implements `TaskDelivery` |
| `OutboxProofs` | theorems about `Outbox`, the refinement among them | `Outbox`, TLAPS |
| `AutomationRuns` | the life of automation runs in one project | `TaskDelivery` for its events |
| `AutomationProps` | the properties of `AutomationRuns` and their strengthenings | `AutomationRuns` |
| `AutomationProofs` | theorems about `AutomationRuns` | `AutomationProps`, TLAPS |
| `WorkItemGraph` | hierarchy, story map and dependencies of work items | |
| `WorkItemProofs` | theorems about `WorkItemGraph` | `WorkItemGraph`, TLAPS |
| `AtomicPlanning` | what planning transactions promise, each at one moment, without locks | |
| `PlanningTransactions` | the locks of every writer of planning facts; change sets, commit and undo of a batch | extends and implements `AtomicPlanning` |
| `PlanningProofs` | theorems about `PlanningTransactions`, the refinement among them | `PlanningTransactions`, TLAPS |
| `EventStream` | revisions, events and the endpoint that streams them | |
| `RequirementsStore` | the client's store next to the server and the network | extends `EventStream` |
| `StoreProofs` | theorems about `RequirementsStore` | `RequirementsStore`, TLAPS |
| `QualitySync` | synchronisations, reports and repairs of one repository's binding | `TaskDelivery` for its events |
| `QualityProofs` | theorems about `QualitySync` | `QualitySync`, TLAPS |
| `Deliveries` | notices, mails, webhooks and exports that follow an event | extends `TaskDelivery` |
| `DeliveriesProofs` | theorems about `Deliveries` | `Deliveries`, TLAPS |
| `LiveDocument` | one collaborative document, its page and the browsers | |
| `LiveProofs` | theorems about `LiveDocument` | `LiveDocument`, TLAPS |
| `MCOutbox`, `MCAutomation`, `MCWorkItemGraph`, `MCPlanningTransactions`, `MCRequirementsStore`, `MCQualitySync`, `MCDeliveries`, `MCLiveDocument` | instances for TLC | |

Definitions are named after the code where it has a name for them;
`PROJECT.json` maps each to its lines. A definition whose comment begins with
"Slip" is no part of the model: it is a plausible bug in the definition that
follows it, kept so that every property can be shown to notice one.

### TaskDelivery and Outbox (`platform/jobs`)

`TaskDelivery` is the abstract view: an event is absent, ready, with a handler,
done or archived; publishing a known key changes nothing; a handler's error
gives the event back until the retries are used up.

`Outbox` refines it. `row` and `created` are `outbox_events`; `todo`, `held` and
`marked` are the open transaction of every dispatcher (what it selected with
`FOR UPDATE SKIP LOCKED` and has still to send, what it has locked, on what it
has set `dispatched_at`); `queue`, `retried` are the tasks in Redis. One call of
`Dispatch` is the steps `Select`, one send per row in the order of `created_at`
(`Turn`; `SendAccepted`, `SendFailed`, `SendReplyLost`) and `Commit` - or `Abort` anywhere in between,
after which Redis holds tasks whose rows are still pending. `Take`, `Ack`,
`GiveBack` and `Forget` are Asynq, which is not part of this repository.
The refinement mapping `EventView` is the view of a caller: an event that is
published and not in Redis is still "ready".

`Forget` (the end of Asynq's seven days of retention) is only taken once the row
is marked: a dispatcher that is away for seven days would send a finished
event again, a case the model leaves out.

A send fails for all events or for none (an outage). A row that Redis would never
accept, whatever its payload, is not in the model: since a failed send changes
neither `created_at` nor `dispatched_at`, fifty such rows would be every dispatch's
batch and younger ones would wait behind them. `PublishedIsTaken` says nothing of
that.

### AutomationRuns (`internal/automation`)

Every database transaction of a run takes the graph lock first, so one action
is one transaction (`PlanningTransactions` shows that it may be taken for one: it
implements `AtomicPlanning`), and a handler is the sequence of its transactions, kept in
`worker[w].pc`:

| action | code |
|---|---|
| `CreateRun`, `CancelRun`, `RetryRun`, `Undo`, `PutPolicy` | the handlers of `routes.go` / `service.go` / `undo.go` |
| `Reconcile` | the scheduler's look at a project |
| `ApplyExternal` | `ApplyExternal`: a run that is created and applied in one transaction, or replaced |
| `Claim`, `ClaimFails` | an event is handed to `Run`, whose first transaction claims the run |
| `Reserve` | `reserveModelCall` |
| `Analyze`, `AnalyzePrivate` | `analyze`: outside any transaction |
| `Commit` | `commitProposal` with the batch and `insertRun` of the follow-up |
| `RecordFailure`, `Refresh` | `recordFailure` and `refreshStale`, two further transactions |
| `Return` | `Run` returns nil or an error to Asynq |
| `InternalError`, `Crash`, `LeaseExpires` | what goes wrong |
| `Edit`, `EditPage`, `ChangeUser`, `NewMonth` | members, profiles and the instance's administrators, and the calendar |

What is abstracted: analyses may propose whatever their kind can propose; a
change set is one new revision, human or not; the fingerprint of an input is
its kind, revision, page version, resources and policy version, and because it leaves out
dates, tasks and quality reports, an equal one *may or may not* be the same
input; `resources` is what `resources.Snapshot` shows that no revision counts, the
names and the activity of users (work items, members, skills and calendars are events,
and so revisions); requests take the present page version; the shortest interval between
runs, the 14 day and per-day keys are left out as time is; a private source and
lost membership are `authority`; the lease is a Boolean that may be lost at any
time while its run is running. A run that is sent with a used key and another
input changes nothing in the code and is not a step here.

A stale run is not necessarily stale for ever. Revisions and page versions only
grow, but a user who is renamed or deactivated may be changed back, and with that
`checkInput` accepts the old run again. So its refreshed run does not quite replace
it: after the refresh an administrator may retry the old one, which applies, and
whose batch makes the refreshed one stale; and when it is retried and applied between
`recordFailure` and `refreshStale`, two transactions, both apply, one after the
other. `RefreshSeesTheOld` says what remains: the old one never applies on top of
its successor.

### WorkItemGraph (`internal/workitems`, activities of `internal/requirements`)

`item`, `activity` and `blocks` are the rows of `work_items`,
`requirement_activities` and of `work_item_relations` with type "blocks". Every
operation holds the graph lock of its projects (`lockGraphs`) for its whole
transaction, so one action is one transaction. `CreateItem` and `UpdateItem`
are `createItem` and `updateItem` with `validateFields`, `validateRequirement`
and `replaceDependencies`, `DeleteItem`, `MoveItem`, `AddRelation`,
`DeleteRelation` and the three operations on activities are what they are called
in the code, and `ArchiveItem` is what maintenance (`runProjectAutomation`) does
with an old item; a request may also create an item archived, archive it and
bring it back, with any other change. `DeleteActivity` includes the migration of the
activity's stories, each of which is an update that may be refused.

`Reachable` is what the recursive queries of the cycle checks compute; it is
written as an intersection of closed sets, without recursion, so that it can be
proved about. What is abstracted: versions (an operation with a wrong one is
refused), authorization and feature gates (an operation that is refused changes
nothing), fields that link nothing, the relation types "related" and
"duplicate". Bulk changes, change sets, duplicates and intake are sequences of
these operations in one transaction, whose results a sequence of single
operations also reaches. `MoveItem` refuses an item to which any activity row
refers, deleted ones included, since the foreign key of
`requirement_activities` includes the project.

### AtomicPlanning and PlanningTransactions (`internal/requirements`, `undo.go`, comments, attachments)

`AtomicPlanning` is what a caller may rely on: the rows of the project and what
one call does to them at one moment. A change set applies (`Change`) if its key
is free and the items are as its sender saw them, a run commits a batch on the
revision whose input it was captured from (`Commit`), an undo takes back items as
the batch left them (`Undo`). There are no connections, locks or reads.

`AutomationRuns` and `WorkItemGraph` take a transaction for one step because the
transactions they have hold the graph lock. Comments, links, reactions and
attachments change the planning facts of a project without it. This module
looks inside: a connection (`tx`) works through a *script* of locks and of reads
that decide whether it goes on, and writes when it commits.

| script | code |
|---|---|
| `ChangeScript` | `ApplyWithinTx`: graph, idempotency key, items in order, `CurrentScope`, revision |
| `EditScript` | `updateItem` and `deleteItem`, one item or in bulk: the first write's trigger takes the revision |
| `RemarkScript` | comments, links, reactions: item, then the trigger's revision and, by a foreign key, the project |
| `AttachScript` | `files.go`: an UPDATE and its trigger |
| `CommitScript`, `UndoScript` | `lockProject`, the run, `checkInput` or the items and fingerprints |

The effects are those of `AtomicPlanning`: `Finish...` is the rest of the handler,
once its reads have let it go on, by what it writes: the rows, the revision of the trigger,
`saved` answers, the values before and the fingerprints after a batch. `GiveUp`,
`Refuse` and `DeadlockVictim` roll back. Locks and deadlock detection are
PostgreSQL's (external in the map).

What is abstracted: an item's histories are one number, the highest revision
that concerns it (`fact`), which is all that `MutationFingerprint` reads; a
transaction that writes several rows makes one revision rather than several;
of the authorization rows only the project is here, the others are never taken
FOR UPDATE by these transactions; a member's change set changes items, a run's
batch creates at most one; `move`, relations and hierarchy changes are in
`WorkItemGraph`; uploads and the cleanup of files are left out.

### EventStream and RequirementsStore (`events.go`, `store.ts`)

`EventStream` has the tables of one project as far as one reader is concerned:
`revision` and the `guarded` revisions whose event is "authorization.changed",
the `oldest` event still stored, the reader's `role` (with its session) and
whether requirements are `enabled`. Every write raises the revision by one and
leaves its event, under the lock of the revision's row, so no event becomes
visible after a later one. A stream is a value: `Subscribed`, `Delivered` and
`Polled` are what `events` does up to its loop, in one turn of it and with the
next `Replay`; the role that was checked when the stream began and the batch
that was read before the role is checked again are part of it, and `wire` is
what is sent and not yet received.

`RequirementsStore` is a page. JavaScript runs one callback at a time, so one
action is one callback and the methods (`Leave`, `Revoke`, `Disable`, `Connect`,
`Reload`, `ReloadAuxiliary`, `HandleEvent`) are functions on `page`, the record
of the store's fields:

| field | in `store.ts` |
|---|---|
| `inside`, `revoked`, `disabled` | `base !== ""`, the flags |
| `shown`, `extra` | `snapshot.revision`; the revision at which scenarios, resources, states and members were read |
| `metadataCursor`, `invalidation`, `refreshing` | the same, and `refreshPromise !== null` |
| `reloads` | the calls of `reload()` that wait, with who called, for which target, and the answer |
| `saving`, `timers`, `stream` | how far `mutate` is, reconnects that are due, the EventSource |

`epoch`, `requestSequence`, `auxiliarySequence` and the abort controller are not
fields: a step that would raise one makes the reloads it outdates `"void"`, of
which only the caller's continuation is left, and drops those whose
continuation compares epochs. `connect` after `reload()` compares nothing, so
it survives even `Leave`. `Leave` cancels one timer in the code, the last one;
an earlier one compares epochs, which is why `timers` is a number that becomes 0.

`Trim` stands for a retention that removes old events: nothing in the repository
does, but `Replay` and its test expect it. Left out: filters, selection, dates,
what is drawn, the keys of changes whose answer was lost, and `retry` events
(an error of the database ends the stream, as `BreakStream` does).

### QualitySync (`internal/quality`, `ApplyExternal`)

One binding of a project to a repository. A request reads its evidence at
GitHub over many calls, then one transaction makes the report and publishes its
repair; a repair goes through the findings of the report, each by
`ApplyExternal` and an upsert of `quality_repair_actions`. Neither handler has a
lease: redelivery by the queue (`TaskDelivery`) is all that brings it back, so
every handler may find what an earlier one did. The time of the evidence is no part
of `source_revision`, so the same pull request, edited and read again, meets its
old report (`ON CONFLICT`) with a newer time; `EditPull` is that edit. The time of
a commit is its own, and that of a workflow run changes with its status and
attempt, which are part of the revision.

| state | in the code |
|---|---|
| `binding` | `github_bindings`: active, its creator, installation, sync status, latest report and the time of the evidence that made it so |
| `revoked`, `admins`, `enabled` | `github_installations.revoked_at`; the administrators; whether the policy allows quality repairs |
| `request`, `syncing` | `github_sync_requests`; how far `processSync` is with each |
| `reports`, `docs` | `quality_reports`; the documents a report was computed from |
| `sourceAt`, `syncing[q].at` | `updated_at` of a pull request (or the time of a run or commit) at GitHub; `evidence.SourceAt` as a handler read it |
| `committed` | history: which evidence made or met which report |
| `asking` | `quality.reconcile`: on whose behalf it asks GitHub, and an error |
| `run`, `action`, `repairing` | the run that `ApplyExternal` made for a finding; `quality_repair_actions`; how far `applyRepairs` is |

Steps of a handler are its statements and transactions; the `Crash...` and
`Break...` actions are what may happen between them. Left out: which rate limit
says to come back when (a delay is any), what the analysis finds (a fixed set of
findings for a source) and the flow that connects an installation. `Bind` and
`Revoke` are the transactions of the bind and of the webhook, which exclude each
other by the row of the installation (`FOR UPDATE`): the model takes that as
given and looks at their order, and at what handlers under way do before and
after either.

### Deliveries (`internal/integrations/jobs.go`, `entities.go`, notification mails)

Four handlers on top of `TaskDelivery`: `work_item.changed` tells the people
interested (a row of `notifications` and the event of a mail in one transaction
each) and publishes an event per webhook; `email.send`, `webhook.deliver` and
`export.generate` do what they are called. `at[k]` is where the handler of event
`k` is, `notices`, `row`, `export` are the rows, `mailed`, `received` what the
world has had, `left` the recipients or webhooks still to come.

`Break` is a crash, or a statement or request that fails; `exportJob` defers an
update of its status, which a crash skips. `Identity.Policy` answers a person
without access and a database that is away with an error, and most callers take
either for a refusal: that is `Misjudge`, and for exports the projects `missed`
and `refuse`. `steady` is a history variable: who had the right to be told from
the beginning, without a change of mind, of access or a misjudgement. `lost`
remembers that the last word on an export could not be written.

An item that is deleted keeps its row, so people still have their notice and no
mail; one that moved is looked up in its new project. Only administrators may
export deleted items, which is `DenyExport`. Comments publish events of their
own (`comment.changed`) which go the same way and are left out.

### LiveDocument (`apps/live`, `documents/pages.go`, `collaborative-editor.tsx`)

The page is a row that anybody may replace, restore, lock or rename (`Replace`,
`Restore`, `UpdateMetadata`, each a version). The server has one document in
memory, `persisted` (what it knows to be stored) and `invalidated`; every
browser has a document of its own, which it keeps while it is offline.

| action | code |
|---|---|
| `Connect`, `StartLoad`, `FinishLoad`, `Attach` | `onAuthenticate`, `onLoadDocument` around its `await`, the connection |
| `Edit`, `Validated`, `Applied` | a message: `beforeSync`'s two awaits, then Hocuspocus applies it |
| `StartCheck`, `FinishCheck` | `accessCheck` around the requests of `revalidate` |
| `StartStore`, `AskCandidate`, `RefuseStore` | `onStoreDocument`: the list of candidates, the answer for one of them, the end of the list: an error or `invalidate` |
| `SendStore`, `Update`, `FinishStore` | `onStoreDocument`: the comparison, the API's transaction, the reply |
| `Unload`, `UnloadLate` | Hocuspocus, with `beforeUnloadDocument` against a cleanup that comes twice |

JavaScript runs one callback at a time, so one action is what runs between two
awaits. A content is a set of pieces: a CRDT unites what it is given, a
replacement is a piece of its own. Documents have an identity of two values,
since a late cleanup must be told from the present document and there is one
late cleanup at a time. Left out: awareness, read-only members (whoever may read
may edit, until the page is locked), the title, more than one `accessCheck` at a
time; the requests of one `revalidate` are answered together, whereas those of a
store are answered one by one, since it is their order and their end that
decide. What `revalidate` finds it applies by the document's name, even if those
who were asked have left or the document was succeeded (`Revalidated`). Two
fields of `store` are bookkeeping: `left`, the candidates still to be asked, is
the position in the code's loop, and `able` is history: the candidates who could
edit all the time since the list was made.

## The runs

| run | question | bounds |
|---|---|---|
| `outbox` | does the outbox keep what `TaskDelivery` promises, is a row only ever marked when Redis has its task, is every published event handed out | three events, two dispatchers, batches of two, one fault (an abort, a lost reply or an outage), one retry |
| `automation_race` | two workers on a run and its refreshed successor, leases that expire while both analyse, a user who is changed and changed back: do settled runs stay settled, does an old run never apply on top of its refreshed one | two runs, two attempts, two changes of a user |
| `automation_chain` | requests, scheduler and external findings start chains next to each other, people edit meanwhile: bounded, unique, not self-triggered, one batch per revision, made from the input its analysis saw | three runs, two rounds, two roots, one human edit |
| `automation_live` | crashes, internal errors and redeliveries: is a claimed run still in the queue, does a new run have its event, is a queued run looked at, does a claimed run settle; are model calls counted exactly across policies and months | one run, one fault, two attempts, one retry, two versions of the page and the policy, two months |
| `automation_retry` | does every queued run have an event: **no**, see below | two attempts, one retry |
| `graph` | parents exist, levels hold, no cycle; activities have epics, stories agree with their activity; dependencies stay in a project and are acyclic | three items of every type, one activity, two projects, three dependencies |
| `planning` | does an undo spare what others did, even without the graph lock, and restore the rest; do reads hold until the write; does every transaction have an effect that it could have had at one moment (`ImplementsAtomicPlanning`); who can deadlock with whom (`DeadlocksAreMixed`); does every transaction end | two items (one to be created), two connections, one run, one key, no transaction begins at revision 3 |
| `requirements` | does a page show nothing it lost the right to, extras as new as its items, and in the end the last revision; is every newer revision still to come or being looked for; are live streams checked again | three revisions, one event per replay, three waiting reloads, two moves of the user, two faults |
| `requirements_access` | is lost access noticed without a live stream: **no**, see below | the same with one fault |
| `quality` | two requests and the repairs of their reports, in any order: is the latest report the newest, is a repair made from present evidence, are items linked, does every request settle | two requests of two sources, reports with one finding, one administrator and installation, one retry, one change of documents, an edit of the older source up to time 3, one move of anybody and one fault |
| `deliveries` | is everybody told who should be, nobody twice, and does an export end as its status says | two people, one webhook, two projects, one retry, two changes or faults |
| `live` | does a save overwrite nothing, are edits kept, is a replacement noticed and nothing else taken for one, does an invalidated document end | two tabs, two edits, one change by somebody or lost request |

Why the bounds are enough. A dispatcher conflicts with one other over one row;
three events let the second batch overlap the first, and one fault is a lost
reply, after which the same rows are sent again. A run is shared by at most its
present and its former owner, and a second run is what the first one is
serialised with; one more attempt or retry repeats a phase that two have shown.
`automation_race` has the two owners - a lease that expires under a worker covers one
that is dead and one that is late - and the two changes that bring a stale run back;
`automation_live` has one worker that fails and comes back. Batches are computed
while others change the project in `automation_chain`; that two workers with one run
keep `OneBatchPerRevision` and `BatchFollowsItsInput` is proved for any number. Chains of two rounds hold a root, a follow-up and a
refresh, which is every kind of link. A level violation needs a grandparent,
parent and child and an activity; what two checks could miss about longer
cycles is proved for any number of items, so `graph` keeps to three. An undo
meets one other transaction at a time, since whoever waits for the same lock
does nothing; revision 3 leaves room for a change before the batch, one after
it, and the undo. A page whose replay returns one event needs several for two
revisions, and three reloads hold a refresh, one that superseded it and one of a
button; the two faults let an expired cursor meet a lost reply.

Two requests of `quality` commit in either order, and reports of two sources,
before and after a change of the documents, are as many as supersede each other;
a finding takes its steps alone, and another one repeats them. The edit of a pull
request falls before, between or after two readings of it; that its old report
supersedes a newer push again takes a third request, which is left to
`LatestReportIsNewest`. What goes wrong
for a recipient, a webhook or an export goes wrong for it alone: `deliveries`
has a second person to be forgotten while the first is told and a second
project to be missing from an export, and a fault on the last retry needs two.
Two tabs of `live` are one that stores and one that comes back; a second
replacement does to the document what the first did, and the theorem about saves
is for any number of them.

All bounds are CONSTANTS and named where they are declared; the theorems hold
without them, that is for every value.

`CHECK_DEADLOCK FALSE` is set where a model stops because its bounds do: ids of
items and runs, revisions and months are used up, while the system goes on.
Symmetry is used for safety only, over items, activities, projects, runs and
workers, none of which is compared other than for equality. `NewId` is a
`CHOOSE` of a free run, which is why `automation_race` names its symmetry for
workers only.

### Fairness

`Outbox!Fairness`: the ticker of every dispatcher keeps calling `Dispatch` (a
loop in every worker process, restarted when the process is), Asynq's workers
keep taking tasks, and an outage ends. Aborts, lost replies and outages are not
fair and bounded by `MaxFaults`. `AutomationRuns!Fairness`: strong for taking an
event, because a slot may be busy with another event again and again while
Asynq's queue is first in first out; weak for the next step of a handler, which
has a timeout; weak for the expiry of a lease, which is the clock.
`RunsSettle` allows for an archived event, since every delivery that meets
a live lease costs a retry.

`PlanningTransactions!Fairness`: strong for taking a lock, because PostgreSQL
queues those who wait for one; weak for the next statement of a transaction and
for deadlock detection, which runs after `deadlock_timeout`.

`RequirementsStore!Fairness`: weak for everything the server, the network and the
event loop do of themselves; the user, other writers and faults are not fair.
Taking a snapshot is strongly fair, and has to be: a stream whose cursor has
expired says so at once, `handleEvent` aborts the reload before and `connect`
after an aborted `reload()` subscribes again at the old cursor. Were every
snapshot slower than that round trip the page would never catch up; the
assumption is that the snapshot wins at some time.

`QualitySync!Fairness`: weak for every step of a handler, which Asynq starts, and
which has a time limit, and for the end of a rate limit. `Deliveries!Fairness`:
weak for each of the four handlers, for the same reason. `LiveDocument!Fairness`:
weak for what the server has begun - a load, a check, a store, a message - and
for Hocuspocus unloading a document that nobody uses. In none of them does
anybody have to connect, edit, change access or fail.

### The disagreements

`automation_retry` checks `QueuedIsCovered` - every queued run has an event that
will start it - which is what `ROUTES.md` says of a retry and `scheduler.go`
of every stable input. The code publishes a retry under the key
`automation:<id>:retry:<attempts>`, and only a claim raises `attempts`. Retry,
cancel before a worker claims, retry: the second retry uses the first one's
key, the outbox keeps the old row, and when the event of the first retry was
handed out while the run was cancelled, nothing is left to start the run. It
also makes the project look busy to the scheduler until somebody cancels it.
The second half of `RunsAreCovered` is the part that does hold: a run nobody has
retried has its event.

`requirements_access` checks `LostAccessIsNoticed`. `ROUTES.md` says of requirements
"Membership and source-visibility changes are durable invalidations, including
changes between snapshot and subscription." They are as long as access remains:
the event is replayed. When access or the session is gone, the subscription is
refused before the stream begins, which the page takes for a broken stream:
`onerror` subscribes again every 1.5 seconds and fetches nothing, so what was
shown stays. `LiveStreamsAreRechecked` is the part that does hold, and the
reload button clears the page.

Of the requirements, three things that no run is spent on. A page that was
disabled can end up behind an open stream. `handleEvent`
only moves `metadataCursor` on while the page is disabled (store.ts:373), and
`reload` then accepts whatever snapshot comes (225-227), also one that was answered
before the last of those events: the page shows revision r as live, its stream is
past r, and the event is not sent again. The tests "catches a revision arriving
during refresh" and "replaces expired cursors with a new snapshot before
subscribing" (store.test.ts:316, 339) expect otherwise of a page that is not
disabled. It takes an event after the answer and before it is taken, while the
page is disabled and the feature on again: its cursor has expired past the event
that says so, or the late answer to a refused save disables a page that has a newer
snapshot, and "Check again" or entering anew fetches once more. The next event repairs it. `skipped` records just this, and
`NothingIsSkipped` and `ShownCatchesUp` except it; without the exception TLC finds
the former violated with four revisions, replays of two, three reloads, and two
moves and one fault or, without faults, entering, a save and "Check again"; and with the exception (or an `Accepted` that ignores what is older than
`metadataCursor`) it holds. After an
`authorization_changed` with
`reconnect`, `handleEvent` connects when `reload()` is over, even if it failed;
the page is then empty and subscribed past what it shows until the next change,
which is why `ShownCatchesUp` speaks of pages that show something. And the lock
orders are not one: `resources/service.go` speaks of "the shared graph -> resource
row -> authorization lock order", but `lockProject` of automation takes the
project row FOR UPDATE before any item, and a comment takes its item first and
the project row (KEY SHARE, by the foreign key of `project_events`) last. The
two can wait for each other; PostgreSQL ends one of them, which `httpapi`
reports as a conflict to retry, so `EveryoneEnds` holds with deadlock detection.
`DeadlocksAreMixed` says how far this can go: only a comment or an attachment
deadlocks with a planning transaction, never two of either kind with each other.

The opposite order has a use: while an undo holds the project row, an attachment
or comment cannot commit, with or without the revision lock that `Undo` takes
before it compares fingerprints. Either lock alone would do; with neither
(`UndoScriptHasty`) `DecisionsStillHold` fails.

What the models of quality, integrations and the live server show besides, each
of which they contain as the code has it:

* *quality*: `processSync` takes any error of `current` for a revocation, so a
  database that does not answer deactivates the binding. An attempt that began
  before the repository was bound again uses the old creator, and its late
  failure deactivates the fresh binding. Enqueueing a known request sets
  `sync_status` to queued although no task follows. `reuseRepair` looks for an
  action to reuse outside the transaction that would use it, so two reports of
  one commit may both create an item for a finding. "An older report cannot
  replace a newer source" (`internal/quality/README.md:46`) holds of evidence, not
  of sources: an edit of a pull request gives it a new `updated_at`, and the next
  synchronisation makes its old report the latest again, before that of a commit
  pushed and reported in between.
* *integrations*: an error of the policy's query counts as a refusal: a recipient,
  webhook or project is left out, an export "failed" as if access had been
  revoked. A completed export whose reply is lost is set back to queued or failed.
  A crash in the last attempt leaves it processing.
* *live*: `revalidate` may read the page after an own save committed and before
  `persisted` is set, or after the reply was lost, and takes it for a
  replacement. A browser that is away is not told `reload_required` and merges
  its old document back when it returns; a late `invalidate` closes the
  successor's connections, by name, without telling them. A client that attaches
  between `revalidate` and the application of a message is not checked again. A
  store that finds no candidate who may write invalidates the document although
  an editor has attached since the list was made, or one of those refused has
  the access again: `InvalidationsAreDue` allows just that, by `able`. A
  store that fails when the last connection is gone loses edits that were
  accepted, which is why `EditsAreKept` speaks of stores that do not fail.

## The proofs

`tlapm` checks every proof of the eight modules with `Proofs` in their names. They
assume nothing but the named assumptions on the constants
(`AutomationAssumption`, `GraphAssumption`, `LiveAssumption`, `OutboxAssumption`,
`DeliveriesAssumption`, `QualityAssumption`, `NoneAssumption`, `StreamAssumption`,
`StoreAssumption`, `PlanningAssumption`), which TLC evaluates on every run.

**AutomationRuns**, for any set of runs, workers and policies:

* `TypeCorrect`: one lemma per group of actions.
* `BatchesAreSerialised` and `BatchesFollowTheirInput` by `BatchInv`. Neither is
  inductive: that two batches do not share a revision needs to know that a
  batch lies in the past (`produced <= revision`), that it came from the
  revision right before, and that a run with a batch has settled, so no commit
  can use it again. Then a commit, which compares the captured revision with
  the present one, has a captured revision above that of every earlier batch.
* `SettledStay`, an action property, from the types alone: every action that
  writes a status looks at it in the same transaction.
* `ChainsBounded` by `EventsHaveRuns`: events and workers refer to rows that
  exist, so whoever refreshes or follows up has a row, keys are tagged by their
  maker, and a new row has one round more than its maker.
* `UsageCounted` by `UsageInv`: what is stored is of this month or older.
* `RunsCovered` by `CoverInv`. That a run has an event in the queue is not
  inductive: the event could be acknowledged. So the invariant says which event
  covers a run and that the worker who has it will not acknowledge it - it is at
  work on a running run, or about to fail on any other - and, since an active
  event has exactly one worker (`WorkersAlone`), no one else will either.
* `RefreshesSeeTheOld` by `RefreshInv`: a refreshed run captures the present revision,
  and no input is newer than that, so its own is not older than that of the run
  it came from. When both have applied, their revisions differ (`BatchInv`), and
  the batch of the old one is the revision right after its input.
* `NeverSelfTriggered` by `CauseInv`: a batch makes a revision above every human
  one, and the next human revision is above it.

**WorkItemGraph**, for any number of items, activities and projects: `GraphInv`
in `WorkItemProofs` joins the type invariant with all parts of `HierarchyHolds`,
`StoryMapHolds` and `DependenciesHold`, which lean on each other: `LevelsHold`
of an item needs the project of its parent, `StoriesMatchActivities` of its
activity, and so on. Two lemmas carry the argument about cycles.
`CheckedEdges`: adding edges into `i` from items that `i` does not lead to keeps
an acyclic relation acyclic. `EdgesWithin`: since dependencies stay within a
project, what `i` leads to along the project's own relations is all it leads to -
so the narrower check of `replaceDependencies` suffices exactly because
`BlocksStayInProject` holds, that is because `move` drops an item's relations.

**LiveDocument**, for any number of tabs, edits and moves: `SavesKeepThePage`,
the action property, by the invariant `SaveInv`. A save is checked by the API
against a version only, so the content that goes with it must contain whatever
the page had at that version. `Known` says so of everything the server holds:
`persisted`, an answer on its way, the version a store was given - each is the
page as of its version, or older than the page; and the document in memory,
unless invalidated, contains what is known to be stored. A late cleanup never
has the identity of the document in use (`late # doc.id`), else it could take
`persisted` away under an open store. `EditsReachThePage` follows an edit by
`EditsInv`: while no store is debounced, the document's edits are in the content
that is being sent, or stored, unless the last store failed; so `Unload`, which
waits for both, finds them stored. `InvalidationsHaveTheirReason` needs
`AnswersInv`: an answer is never newer than the page, so one that is newer than
`persisted` shows that the page is, even if an own save has come in between; and
`AskingInv`: while candidates are asked and no request has failed, the page has
moved on, or whoever could edit all the time is still to be asked. A page that
is closed while one of them is asked may be open again at the end of the list,
but has another version then (`PageStaysMoved`).

**Outbox**, for any number of events, dispatchers and faults: `OutboxTypes`, whose
`TypeOK` says more than types (a held row is pending and held once, a marked row
is in Redis, Redis holds only what was published), and `OutboxDelivers`, the
refinement of `TaskDelivery`. Initial states map to initial states, `Publish`,
`Take`, `Ack` and `GiveBack` to the steps of the same name, and everything a
dispatcher does is hidden: `EventView` looks at Redis and at whether a row
exists, and because what is sent is pending, a send can only put a "ready" event
where it is still "ready".

**Deliveries**, for any sets of people, webhooks and projects, with an invariant
per job (`ChangedInv`, `EmailInv`, `WebhookInv`, `ExportInv`) that only the job's
own steps disturb. `DeliveriesForgetNobody`: while the job of the change is at
work, whoever is steady has a notice or is still among those `left`; a silent
notice has its mail's event, since both are one transaction; and `steady` only
shrinks. `ExportScopeHolds` needs that the object is the one whose projects are
about to be recorded, `ExportsEnd` that what is processed is not completed, and
`RecordedStays` that a webhook at work was not delivered when it began.
`DuplicatesAreBounded`, which no run checks, says how often a receiver can be
sent the same event: `TriesInv` counts the attempts given back and the one that
is past its request, and since an attempt posts once and none is taken back
(`NoTryIsTakenBack`), a receiver has had at most one request more than attempts
were given back, and never more than the retries and one.

**QualitySync**, for any sets of requests, reports and findings. `Walks` says of a
repair handler, wherever it is, that every finding behind it has an answer, and
that an answer about to be recorded as applied belongs to an item that is
linked already: `RepairsStayRecorded`. `LatestReportIsNewest` and
`RevokedInstallationsStayOut` are invariants of the binding's row (the first
compares it with `committed`, all evidence that was ever reported);
`OldReportsRepairNothing` looks at the two steps that can make an action
"applied", whose own transactions check the latest report, its documents and
the binding.
`RequestsAreRemembered` is the safe half of `RequestsSettle`: a request that is
queued or running has an event that will be delivered, or is archived.
`Followed` is what makes it inductive: a handler runs exactly while it has the
event, and what accepts the event (`nil`) has settled the request, which no other
handler touches. TLC checked it on the instance of `quality` before it was proved.

**RequirementsStore**, for any number of revisions, reloads, moves and faults and any
size of a replay: since the methods of the store are functions, so is the
invariant: `Good(p, R, L)` of a page, the newest revision and the newest change of
authorization that the page was told of, with a lemma per method.
`StoreShowsAuthorized` needs that a reload which can still bring data belongs to
a page that is open and has an answer as new as `L` - whatever was asked before
is "void" by then - and that the server's messages speak of revisions that
exist. `StoreExtrasFollow` needs `Followed`: extras that are older than the items
have a request under way, whose answer (`Fresh`) will not be older.
`StoreSkipsNothing` is the safe half of `ShownCatchesUp`, which a prover can do.
Its invariant `Follows` speaks of the page's position, `metadataCursor`, for a page
that is still empty or disabled as well: each revision above it is in sight (not
yet sent, or on the wire) or sought by a refresh; who refreshes has a request under
way (`Busy`), and who does not has nothing left to look for. What the server does
to a stream keeps what was in sight (`Carries`): a batch is the revisions right
after the cursor, so sending one moves them to the wire and skips none. TLC checked
`Follows` with four revisions and replays of two before it was proved.

**PlanningTransactions**, for any finite set of items and any number of connections, runs, keys
and revisions: `Guarded` says of a script that every read has the lock of its
`Guard` before it, and is kept by concatenation (`Composed`), so there is one short lemma per
script. `Exclusion` - no two transactions hold conflicting locks - holds because
whoever takes a lock waits for all others. `ReadsStayTrue` follows: whoever
writes has all of its script behind it, the locks on what it writes included
(`ReadyHolds`), so nobody else can have a read of that behind them. Scripts
depend on the run, so `Fitting` is needed to know that a run does not change
while a transaction works for it. `UndosAreSafe` needs `Facts` besides: a fact's
revision is never reused, so an unchanged fingerprint means that the last fact
is the batch's own, comments and attachments included; and the batch followed its
input directly, so the old values it saved are those of the input.
`TransactionsAreAtomic` is the refinement of `AtomicPlanning`, and the reason why
the other modules may take a transaction for one step: locking makes them
serialisable, in the order of their commits. A step of the script, a rollback and
a deadlock's victim change no row. The step that finishes has to be shown to have
had its effect at that moment, although it decided on reads of earlier
ones: by `ReadsStayTrue` what it read still holds, so the versions its request
was made from are those of the rows it writes (`FittingRequestIsNew`), the revision
of the run is still the project's (`CommitIsAtomic`) and the fingerprints still
match (`UndoIsAtomic`). `PlanningTypes` is proved and, since the refinement says
more, not checked by the run. `DeadlocksNeedRemarks` follows from `Exclusion` and
the scripts alone: a cycle has no cycle within it, so somebody in it waits for each of its
members (`AllAreWaitedFor`), who therefore holds a lock. For a planning
transaction the first lock is the graph's (`GraphFirst`), which only one can hold. And
of comments and attachments, whoever waits for another of them waits for the
revision, whose holder wants the project, which none of them locks
exclusively (`RemarkWaits`); so no cycle is of them alone.

Only model-checked: everything temporal (`PublishedIsTaken`, `RunsSettle`,
`EveryoneEnds`, `ShownCatchesUp`, `LiveStreamsAreRechecked`, `RequestsSettle`,
`EventsSettle`, `InvalidatedEnds`, `NobodyStaysBehind`), which is out of the
prover's reach.

## The plan

In this order, the most important behaviour first.

1. **`PendingChanges`** - the keys that the store keeps for changes whose answer
   was lost, against the change sets of `PlanningTransactions`.
2. **`Files`** - upload, completion and expiry of an asset.
3. Foundation: the last administrator, invitations.
4. **`Schedule`** - the greedy scheduler as a function against its constraints.

## What is not modelled, and why

Most of the repository's code by lines is `src/apps/api/ent`, the persistence
layer that a generator writes from the schema (184,000 of 214,000 lines or so):
it has no logic of this program's own, and the models stand for it by what a
statement does. The analyses of automation, reports, search and analytics are
functions of what they read; the provider and parsing of quality are calls and
text. Of the web front end only the store of the requirements page and the
editor's part in `LiveDocument` keep state across overlapping requests or a
stream in a way this project looks at. Planning, resources and scenarios are
single-row operations in one transaction with one optimistic check each, and
come last. Everything else that is missing is in the plan, with its hazards in
`PROJECT.json`.
