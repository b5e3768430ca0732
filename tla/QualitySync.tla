---------------------------- MODULE QualitySync ----------------------------
(***************************************************************************)
(* internal/quality: the binding of a project to one GitHub repository,    *)
(* the requests that synchronise it, the reports they leave and the work   *)
(* items that repair what a report found.                                  *)
(*                                                                         *)
(* Every transaction takes the project's row first (current, lockProject), *)
(* so one action is one transaction; a handler is the sequence of its      *)
(* transactions, and what it read at its beginning (who bound the          *)
(* repository) is old when it is used.  One handler works on an event at a *)
(* time, handlers of different events at once.  Events go through          *)
(* TaskDelivery, which Outbox implements.                                  *)
(*                                                                         *)
(* A definition whose comment begins with "Slip" is no part of the model.  *)
(***************************************************************************)
EXTENDS Naturals, FiniteSets

CONSTANTS Users,          \* those who may be administrators of the project
          Installations,  \* of the GitHub App
          Requests,       \* ids of github_sync_requests
          Sources,        \* commits, pull requests and Actions runs
          FirstAt,        \* FirstAt[s]: when the evidence of s came into being
          Pulls,          \* the sources that are pull requests, which are edited
          Commit,         \* Commit[s]: the commit that it pins
          FindingCount,   \* actionable findings of a report
          MaxChanges,     \* the policy's limit on items of one report
          None,           \* NULL
          MaxRetry,       \* Asynq retries of one event (10)
          MaxDocs,        \* bound: changes of stories and pages
          MaxAt,          \* bound: the time of the last edit
          MaxMoves,       \* bound: what administrators do
          MaxFaults       \* bound: crashes, errors, lost commits, refusals of GitHub

ASSUME QualityAssumption ==
  /\ FirstAt \in [Sources -> Nat] /\ Pulls \subseteq Sources
  /\ FindingCount \in Nat /\ MaxChanges \in Nat /\ MaxRetry \in Nat
  /\ MaxDocs \in Nat /\ MaxAt \in Nat /\ MaxMoves \in Nat /\ MaxFaults \in Nat
  /\ None \notin Users \cup Sources \cup Installations

VARIABLES binding,   \* the row of github_bindings
          revoked,   \* installations with a revoked_at
          admins,    \* the users who are administrators
          enabled,   \* the automation policy allows quality repairs
          docs,      \* version of the stories and pages that reports use
          sourceAt,  \* sourceAt[s]: updated_at, as GitHub gives it now
          request,   \* rows of github_sync_requests
          reports,   \* rows of quality_reports
          committed, \* history: <<r, at>>: evidence of time at made the report r
          run,       \* run[k]: automation_runs, by idempotency key
          action,    \* action[k]: quality_repair_actions
          syncing,   \* syncing[q]: the handler of quality.sync for q
          repairing, \* repairing[r]: the handler of quality.repair for r
          asking,    \* quality.reconcile: on whose behalf it asks, and an error
          task,      \* TaskDelivery: the events ...
          retried,   \* ... and how often each was given back
          moves,     \* moves so far
          faults     \* faults so far

github   == <<binding, revoked>>
quality  == <<reports, committed>>
project  == <<admins, enabled, docs, sourceAt>>
repairs  == <<run, action>>
handlers == <<syncing, repairing, asking>>
delivery == <<task, retried>>
vars == <<github, project, request, quality, repairs, handlers, delivery, moves, faults>>

(* source_revision: the same evidence and documents make the same report,  *)
(* whatever the time of the evidence is, which is no part of it.           *)
Reports == [source : Sources, docs : 0 .. MaxDocs]

Findings == 1 .. FindingCount

(* The idempotency key "quality:<report>:<finding>".                       *)
RepairKeys == Reports \X Findings

ASSUME NoneAssumption == None \notin Reports \cup RepairKeys

SyncEvent(q)   == <<"sync", q>>
RepairEvent(r) == <<"repair", r>>
Events == {SyncEvent(q) : q \in Requests} \cup {RepairEvent(r) : r \in Reports}

Queue == INSTANCE TaskDelivery WITH Keys <- Events

-----------------------------------------------------------------------------
(* Records.                                                                *)

(* waiting is next_retry_at > now(), latestAt 0 where latest is NULL.      *)
Bindings == [active : BOOLEAN, creator : Users, installation : Installations,
             waiting : BOOLEAN, latest : Reports \cup {None}, latestAt : Nat]

RequestStatuses == {"none", "queued", "running", "completed", "failed", "revoked"}

Causes == {"none", "revoked", "source", "limit", "error"}

SyncSteps == {"idle", "begin", "read", "report", "fail", "nil", "error"}

(* The handler of quality.sync: by is b.CreatedBy, and at the SourceAt of  *)
(* the evidence, as they were read.                                        *)
Idle == [pc |-> "idle", by |-> None, cause |-> "none", at |-> 0]

RepairSteps == {"idle", "look", "reuse", "apply", "record", "nil", "error"}

Answers == {"none", "applied", "undone", "blocked", "revoked"}

(* The handler of quality.repair: next is the finding it is at, old the    *)
(* action it may reuse, answer the status it is about to record.           *)
Resting == [pc |-> "idle", by |-> None, next |-> 1, old |-> None, answer |-> "none"]

(* quality.reconcile does not run.                                         *)
Quiet == [by |-> None, cause |-> "none"]

NoAction == [status |-> "none", run |-> None]

TypeOK ==
  /\ binding \in Bindings
  /\ revoked \subseteq Installations /\ admins \subseteq Users
  /\ enabled \in BOOLEAN /\ docs \in 0 .. MaxDocs /\ sourceAt \in [Sources -> Nat]
  /\ request \in [Requests -> [status : RequestStatuses, source : Sources \cup {None},
                               report : Reports \cup {None}]]
  /\ \A q \in Requests : request[q].status = "none" \/ request[q].source \in Sources
  /\ reports \subseteq Reports /\ committed \subseteq Reports \X Nat
  /\ run \in [RepairKeys -> {"none", "applied", "undone"}]
  /\ action \in [RepairKeys -> [status : Answers, run : RepairKeys \cup {None}]]
  /\ syncing \in [Requests -> [pc : SyncSteps, by : Users \cup {None}, cause : Causes,
                              at : Nat]]
  /\ repairing \in [Reports -> [pc : RepairSteps, by : Users \cup {None},
                                next : 1 .. FindingCount + 1,
                                old : RepairKeys \cup {None}, answer : Answers]]
  /\ asking \in [by : Users \cup {None}, cause : Causes]
  /\ Queue!DeliveryTypeOK

(* A repository was bound, and perhaps lost again.                         *)
Init ==
  /\ revoked \in SUBSET Installations
  /\ \E active \in BOOLEAN, u \in Users, i \in Installations :
       /\ active => i \notin revoked
       /\ binding = [active |-> active, creator |-> u, installation |-> i,
                     waiting |-> FALSE, latest |-> None, latestAt |-> 0]
  /\ admins = Users /\ enabled = TRUE /\ docs = 0 /\ sourceAt = FirstAt
  /\ request = [q \in Requests |-> [status |-> "none", source |-> None, report |-> None]]
  /\ reports = {} /\ committed = {}
  /\ run = [k \in RepairKeys |-> "none"]
  /\ action = [k \in RepairKeys |-> NoAction]
  /\ syncing = [q \in Requests |-> Idle]
  /\ repairing = [r \in Reports |-> Resting]
  /\ asking = Quiet
  /\ Queue!DeliveryInit
  /\ moves = 0 /\ faults = 0

-----------------------------------------------------------------------------
(* What administrators and GitHub do                                       *)

Move ==
  /\ moves < MaxMoves
  /\ moves' = moves + 1
  /\ UNCHANGED faults

(* authorizeBinding, with the installation's row locked.                   *)
Authorized == binding.active /\ binding.installation \notin revoked

(* enqueue: a request with a new id, and its event in the same transaction. *)
Enqueue(s) ==
  LET q == CHOOSE q \in Requests : request[q].status = "none"
  IN  /\ \E other \in Requests : request[other].status = "none"
      /\ request' = [request EXCEPT ![q].status = "queued", ![q].source = s]
      /\ Queue!Publish(SyncEvent(q))

(* sync by an administrator, or webhook with a push, a pull request or a   *)
(* run that has ended.                                                     *)
RequestSync(s) ==
  /\ Authorized
  /\ Enqueue(s)
  /\ UNCHANGED <<github, project, quality, repairs, handlers, moves, faults>>

(* Slip: the tombstone is not looked at.                                   *)
BindAnyway(u, i) ==
  /\ Move
  /\ u \in admins
  /\ binding' = [binding EXCEPT !.active = TRUE, !.creator = u,
                                !.installation = i, !.waiting = FALSE]
  /\ UNCHANGED <<revoked, project, request, quality, repairs, handlers, delivery>>

(* bind, again or through another installation.                            *)
Bind(u, i) ==
  /\ Move
  /\ u \in admins /\ i \notin revoked
  /\ binding' = [binding EXCEPT !.active = TRUE, !.creator = u,
                                !.installation = i, !.waiting = FALSE]
  /\ UNCHANGED <<revoked, project, request, quality, repairs, handlers, delivery>>

(* unbind, or the repository was removed from its installation.            *)
Unbind ==
  /\ Move
  /\ binding.active
  /\ binding' = [binding EXCEPT !.active = FALSE]
  /\ UNCHANGED <<revoked, project, request, quality, repairs, handlers, delivery>>

(* webhook: the installation was deleted or suspended, which is for ever.  *)
Revoke(i) ==
  /\ Move
  /\ i \notin revoked
  /\ revoked' = revoked \cup {i}
  /\ binding' = [binding EXCEPT !.active = @ /\ binding.installation # i]
  /\ UNCHANGED <<project, request, quality, repairs, handlers, delivery>>

ChangeRole(u) ==
  /\ Move
  /\ admins' = IF u \in admins THEN admins \ {u} ELSE admins \cup {u}
  /\ UNCHANGED <<github, enabled, docs, sourceAt, request, quality, repairs, handlers,
                 delivery>>

PutPolicy ==
  /\ Move
  /\ enabled' = ~enabled
  /\ UNCHANGED <<github, admins, docs, sourceAt, request, quality, repairs, handlers,
                 delivery>>

EditDocuments ==
  /\ Move
  /\ docs < MaxDocs
  /\ docs' = docs + 1
  /\ UNCHANGED <<github, admins, enabled, sourceAt, request, quality, repairs, handlers,
                 delivery>>

(* GitHub: someone edits a pull request, or comments on it.                *)
EditPull(s) ==
  /\ Move
  /\ \E at \in sourceAt[s] + 1 .. MaxAt : sourceAt' = [sourceAt EXCEPT ![s] = at]
  /\ UNCHANGED <<github, admins, enabled, docs, request, quality, repairs, handlers,
                 delivery>>

UndoRepair(k) ==
  /\ Move
  /\ run[k] = "applied"
  /\ run' = [run EXCEPT ![k] = "undone"]
  /\ UNCHANGED <<github, project, request, quality, action, handlers, delivery>>

(* The end of a rate limit.                                                *)
WindowPasses ==
  /\ binding.waiting
  /\ binding' = [binding EXCEPT !.waiting = FALSE]
  /\ UNCHANGED <<revoked, project, request, quality, repairs, handlers, delivery,
                 moves, faults>>

-----------------------------------------------------------------------------
(* The handler of quality.sync (processSync, syncFailure)                  *)

Fault ==
  /\ faults < MaxFaults
  /\ faults' = faults + 1

(* The handler goes on at pc.                                              *)
SyncAt(q, pc) == syncing' = [syncing EXCEPT ![q].pc = pc]

(* An error: syncFailure comes next.                                       *)
SyncFails(q, cause) ==
  syncing' = [syncing EXCEPT ![q].pc = "fail", ![q].cause = cause]

(* current and authorizeBinding, for who bound the repository when the     *)
(* handler began.                                                          *)
May(u) == u \in admins /\ Authorized

Rest == <<project, repairs, repairing, asking, moves>>

(* Slip: a running request is taken for someone else's.                    *)
FirstStepUnlessRunning(q) ==
  IF request[q].status \in {"completed", "revoked", "running"} THEN "nil"
  ELSE IF binding.waiting THEN "error" ELSE "begin"

(* The early returns.                                                      *)
FirstStep(q) ==
  IF request[q].status \in {"completed", "revoked"} THEN "nil"
  ELSE IF binding.waiting THEN "error" ELSE "begin"

(* An event is handed over, and the request and its binding are read.      *)
StartSync(q) ==
  /\ Queue!Take(SyncEvent(q))
  /\ syncing' = [syncing EXCEPT ![q] =
       [Idle EXCEPT !.pc = FirstStep(q), !.by = binding.creator]]
  /\ UNCHANGED <<github, request, quality, Rest, faults>>

(* The first transaction: the request is running.                          *)
BeginSync(q) ==
  /\ syncing[q].pc = "begin"
  /\ IF May(syncing[q].by)
     THEN /\ request' = [request EXCEPT ![q].status = "running"]
          /\ SyncAt(q, "read")
     ELSE SyncFails(q, "revoked") /\ UNCHANGED request
  /\ UNCHANGED <<github, quality, delivery, Rest, faults>>

(* readEvidence, and authorize after it; GitHub may be slow, limit the     *)
(* rate, refuse, or know no such revision.                                 *)
ReadEvidence(q) ==
  /\ syncing[q].pc = "read"
  /\ \/ /\ May(syncing[q].by)
        /\ syncing' = [syncing EXCEPT ![q].pc = "report",
                                      ![q].at = sourceAt[request[q].source]]
        /\ UNCHANGED faults
     \/ /\ ~May(syncing[q].by) /\ SyncFails(q, "revoked")
        /\ UNCHANGED faults
     \/ Fault /\ \E cause \in Causes \ {"none"} : SyncFails(q, cause)
  /\ UNCHANGED <<github, request, quality, delivery, Rest>>

Newer(at) == binding.latest = None \/ binding.latestAt <= at

(* Slip: the last report to arrive is the latest.                          *)
SyncedInOrderOfArrival(r, at) ==
  [binding EXCEPT !.waiting = FALSE, !.latest = r, !.latestAt = at]

(* The binding after a report: older evidence does not replace it.  The    *)
(* time is that of the evidence, not the one in the row of the report,     *)
(* which may be there already, from before its pull request was edited.    *)
Synced(r, at) ==
  IF Newer(at)
  THEN [binding EXCEPT !.waiting = FALSE, !.latest = r, !.latestAt = at]
  ELSE [binding EXCEPT !.waiting = FALSE]

(* The second transaction: the report of the evidence and of the documents *)
(* as they are now.  Its commit may be reported as failed.                 *)
MakeReport(q) ==
  LET r  == [source |-> request[q].source, docs |-> docs]
      at == syncing[q].at
  IN  /\ syncing[q].pc = "report"
      /\ \/ /\ May(syncing[q].by)
            /\ reports' = reports \cup {r}
            /\ committed' = committed \cup {<<r, at>>}
            /\ request' = [request EXCEPT ![q].status = "completed", ![q].report = r]
            /\ binding' = Synced(r, at)
            /\ Queue!Publish(RepairEvent(r))
            /\ \/ SyncAt(q, "nil") /\ UNCHANGED faults
               \/ SyncFails(q, "error") /\ Fault
         \/ /\ ~May(syncing[q].by)
            /\ SyncFails(q, "revoked")
            /\ UNCHANGED <<binding, request, quality, delivery, faults>>
      /\ UNCHANGED <<revoked, Rest>>

(* A transaction ends in an error; where current meets one it says that    *)
(* access was revoked.                                                     *)
BreakSync(q) ==
  /\ syncing[q].pc \in {"begin", "report"}
  /\ Fault
  /\ \E cause \in {"error", "revoked"} : SyncFails(q, cause)
  /\ UNCHANGED <<github, request, quality, delivery, Rest>>

(* What syncFailure does to the binding, unless it is inactive by now.     *)
Failed(cause) ==
  IF binding.active
  THEN [binding EXCEPT !.waiting = (cause = "limit"), !.active = (cause # "revoked")]
  ELSE binding

StatusAfter(cause) ==
  CASE cause = "revoked" -> "revoked"
    [] cause = "limit"   -> "queued"
    [] OTHER             -> "failed"

(* ... and to the request, unless it is completed after all.               *)
RequestFailed(q, cause) ==
  IF request[q].status = "completed" THEN request
  ELSE [request EXCEPT ![q].status = StatusAfter(cause)]

(* The failures that are final; for any other the event is given back.     *)
ReturnsNil(cause) == cause \in {"revoked", "source"}

(* syncFailure.                                                            *)
FailSync(q) ==
  LET cause == syncing[q].cause
  IN  /\ syncing[q].pc = "fail"
      /\ request' = RequestFailed(q, cause)
      /\ binding' = Failed(cause)
      /\ SyncAt(q, IF ReturnsNil(cause) THEN "nil" ELSE "error")
      /\ UNCHANGED <<revoked, quality, delivery, Rest, faults>>

ReturnSync(q) ==
  /\ \/ syncing[q].pc = "nil" /\ Queue!Ack(SyncEvent(q))
     \/ syncing[q].pc = "error" /\ Queue!GiveBack(SyncEvent(q))
  /\ syncing' = [syncing EXCEPT ![q] = Idle]
  /\ UNCHANGED <<github, request, quality, Rest, faults>>

(* The process dies, or the database does not answer.                      *)
CrashSync(q) ==
  /\ syncing[q].pc \in {"begin", "read", "report", "fail"}
  /\ Fault
  /\ Queue!GiveBack(SyncEvent(q))
  /\ syncing' = [syncing EXCEPT ![q] = Idle]
  /\ UNCHANGED <<github, request, quality, Rest>>

-----------------------------------------------------------------------------
(* quality.reconcile, of which the scheduler keeps one at a time           *)

StartReconcile ==
  /\ asking = Quiet
  /\ ~binding.waiting /\ May(binding.creator)
  /\ asking' = [by |-> binding.creator, cause |-> "none"]
  /\ UNCHANGED <<github, project, request, quality, repairs, syncing, repairing,
                 delivery, moves, faults>>

(* Between two pages of answers: access is gone, or GitHub fails.          *)
BreakReconcile ==
  /\ asking.by # None /\ asking.cause = "none"
  /\ \/ /\ ~Authorized
        /\ asking' = [asking EXCEPT !.cause = "revoked"]
        /\ UNCHANGED faults
     \/ /\ Fault
        /\ \E cause \in {"revoked", "limit", "error"} :
             asking' = [asking EXCEPT !.cause = cause]
  /\ UNCHANGED <<github, project, request, quality, repairs, syncing, repairing,
                 delivery, moves>>

(* A request for what was missed, if it may still ask and does not know it *)
(* yet; or syncFailure with no request.                                    *)
FinishReconcile ==
  /\ asking # Quiet
  /\ asking' = Quiet
  /\ \/ /\ asking.cause = "none" /\ May(asking.by)
        /\ \E s \in Sources : Enqueue(s)
        /\ UNCHANGED binding
     \/ /\ asking.cause = "none"
        /\ UNCHANGED <<binding, request, delivery>>
     \/ /\ asking.cause # "none"
        /\ binding' = Failed(asking.cause)
        /\ UNCHANGED <<request, delivery>>
  /\ UNCHANGED <<revoked, project, quality, repairs, syncing, repairing, moves, faults>>

-----------------------------------------------------------------------------
(* The handler of quality.repair (applyRepairs)                            *)

Others == <<github, project, request, quality, syncing, asking, moves>>

RepairAt(r, pc) == repairing' = [repairing EXCEPT ![r].pc = pc]

(* The next finding, or the end.                                           *)
NextFinding(r) ==
  repairing' = [repairing EXCEPT ![r].pc = IF @ # "idle" /\ repairing[r].next = FindingCount
                                           THEN "nil" ELSE "look",
                                 ![r].next = @ + 1, ![r].old = None,
                                 ![r].answer = "none"]

Here(r) == <<r, repairing[r].next>>

StartRepair(r) ==
  /\ Queue!Take(RepairEvent(r))
  /\ repairing' = [repairing EXCEPT ![r] =
       [Resting EXCEPT !.pc = IF FindingCount = 0 THEN "nil" ELSE "look",
                       !.by = binding.creator]]
  /\ UNCHANGED <<Others, repairs, faults>>

Live(k) == run[k] = "applied"

(* Actions that repaired the same finding of the same commit before.       *)
Reusable(r, n) ==
  {k \in RepairKeys :
     /\ k[2] = n /\ k[1] # r
     /\ Commit[k[1].source] = Commit[r.source]
     /\ action[k].status = "applied" /\ Live(action[k].run)}

(* reuseRepair looks for one outside of any transaction.                   *)
LookForRepair(r) ==
  /\ repairing[r].pc = "look"
  /\ \/ /\ Reusable(r, repairing[r].next) = {}
        /\ RepairAt(r, "apply")
     \/ \E k \in Reusable(r, repairing[r].next) :
          repairing' = [repairing EXCEPT ![r].pc = "reuse", ![r].old = action[k].run]
  /\ UNCHANGED <<Others, repairs, delivery, faults>>

(* Slip: a report is used although a newer one has superseded it.          *)
CurrentIfUnchanged(r) == r.docs = docs

(* The latest report, and validateReportSources of the documents it read.  *)
Current(r) == binding.latest = r /\ r.docs = docs

(* The action that was found is of no use any more.                        *)
Declined(r) == RepairAt(r, "apply")

(* reuseRepair's transaction.                                              *)
ReuseRepair(r) ==
  LET old == repairing[r].old
  IN  /\ repairing[r].pc = "reuse"
      /\ \/ /\ May(repairing[r].by) /\ Current(r) /\ Live(old)
            /\ action' = IF action[Here(r)] # NoAction THEN action
                         ELSE [action EXCEPT ![Here(r)] = [status |-> "applied", run |-> old]]
            /\ NextFinding(r)
         \/ /\ ~(May(repairing[r].by) /\ Current(r) /\ Live(old))
            /\ Declined(r)
            /\ UNCHANGED action
      /\ UNCHANGED <<Others, run, delivery, faults>>

AnswerIs(r, answer) ==
  repairing' = [repairing EXCEPT ![r].pc = "record", ![r].answer = answer]

ItemsOf(r) == Cardinality({n \in Findings : run[<<r, n>>] = "applied"})

(* The batch of ApplyExternal with its item, and OnApplied.                *)
Applied(k) ==
  /\ run' = [run EXCEPT ![k] = "applied"]
  /\ action' = [action EXCEPT ![k] = [status |-> "applied", run |-> k]]

(* What ApplyExternal refuses before it looks at how often and how many.   *)
Refused(r) ==
  \/ repairing[r].by \notin admins
  \/ ~Current(r)
  \/ run[Here(r)] = "none" /\ ~enabled

Full(r) == run[Here(r)] = "none" /\ ItemsOf(r) >= MaxChanges

(* ApplyExternal: one transaction, whose commit may be reported as failed. *)
ApplyRepair(r) ==
  LET k == Here(r)
  IN  /\ repairing[r].pc = "apply"
      /\ \/ /\ repairing[r].by \in admins /\ ~Authorized
            /\ AnswerIs(r, "revoked") /\ UNCHANGED <<repairs, faults>>
         \/ /\ Authorized \/ repairing[r].by \notin admins
            /\ Refused(r) \/ Full(r)
            /\ AnswerIs(r, "blocked") /\ UNCHANGED <<repairs, faults>>
         \/ /\ Authorized /\ ~Refused(r)
            /\ run[k] # "none"
            /\ AnswerIs(r, run[k]) /\ UNCHANGED <<repairs, faults>>
         \/ /\ Authorized /\ ~Refused(r)
            /\ run[k] = "none" /\ ~Full(r)
            /\ Applied(k)
            /\ \/ AnswerIs(r, "applied") /\ UNCHANGED faults
               \/ RepairAt(r, "error") /\ Fault
      /\ UNCHANGED <<Others, delivery>>

(* Another report's item is younger than the policy's shortest interval.   *)
WaitForFrequency(r) ==
  /\ repairing[r].pc = "apply"
  /\ Authorized /\ ~Refused(r) /\ run[Here(r)] = "none"
  /\ \E k \in RepairKeys : k[1] # r /\ run[k] # "none"
  /\ RepairAt(r, "error")
  /\ UNCHANGED <<Others, repairs, delivery, faults>>

(* Slip: a later answer replaces "applied".                                *)
RecordedLast(k, answer) ==
  [action EXCEPT ![k] = [status |-> answer,
                         run    |-> IF answer \in {"applied", "undone"} THEN k ELSE @.run]]

(* The action after the answer is recorded: "applied" stays, and so does   *)
(* the run unless the answer came with one.                                *)
Recorded(k, answer) ==
  [action EXCEPT ![k] = [status |-> IF @.status = "applied" THEN @.status ELSE answer,
                         run    |-> IF answer \in {"applied", "undone"} THEN k ELSE @.run]]

RecordRepair(r) ==
  /\ repairing[r].pc = "record"
  /\ action' = Recorded(Here(r), repairing[r].answer)
  /\ IF repairing[r].answer = "revoked" THEN RepairAt(r, "nil") ELSE NextFinding(r)
  /\ UNCHANGED <<Others, run, delivery, faults>>

ReturnRepair(r) ==
  /\ \/ repairing[r].pc = "nil" /\ Queue!Ack(RepairEvent(r))
     \/ repairing[r].pc = "error" /\ Queue!GiveBack(RepairEvent(r))
  /\ repairing' = [repairing EXCEPT ![r] = Resting]
  /\ UNCHANGED <<Others, repairs, faults>>

CrashRepair(r) ==
  /\ repairing[r].pc \in {"look", "reuse", "apply", "record"}
  /\ Fault
  /\ Queue!GiveBack(RepairEvent(r))
  /\ repairing' = [repairing EXCEPT ![r] = Resting]
  /\ UNCHANGED <<Others, repairs>>

-----------------------------------------------------------------------------
SyncStep(q) ==
  \/ StartSync(q) \/ BeginSync(q) \/ ReadEvidence(q) \/ MakeReport(q)
  \/ FailSync(q) \/ ReturnSync(q)

RepairStep(r) ==
  \/ StartRepair(r) \/ LookForRepair(r) \/ ReuseRepair(r) \/ ApplyRepair(r)
  \/ WaitForFrequency(r) \/ RecordRepair(r) \/ ReturnRepair(r)

Next ==
  \/ \E s \in Sources : RequestSync(s)
  \/ \E u \in Users, i \in Installations : Bind(u, i)
  \/ Unbind
  \/ \E i \in Installations : Revoke(i)
  \/ \E u \in Users : ChangeRole(u)
  \/ PutPolicy \/ EditDocuments \/ WindowPasses
  \/ \E s \in Pulls : EditPull(s)
  \/ \E k \in RepairKeys : UndoRepair(k)
  \/ StartReconcile \/ BreakReconcile \/ FinishReconcile
  \/ \E q \in Requests : SyncStep(q) \/ BreakSync(q) \/ CrashSync(q)
  \/ \E r \in Reports : RepairStep(r) \/ CrashRepair(r)

Spec == Init /\ [][Next]_vars

(* Asynq hands every event to a slot, a handler has a timeout, and a rate  *)
(* limit ends.                                                             *)
Fairness ==
  /\ \A q \in Requests : WF_vars(SyncStep(q))
  /\ \A r \in Reports : WF_vars(RepairStep(r))
  /\ WF_vars(WindowPasses)

FairSpec == Spec /\ Fairness

-----------------------------------------------------------------------------
(* Properties                                                              *)

(* The report a project sees as the latest is that of the newest evidence  *)
(* that was ever read, in whatever order slow readers delivered it         *)
(* (processSync, latest_source_at).  The evidence, not its source: when a  *)
(* pull request is edited after a newer push was reported, the report it   *)
(* had before is the latest again.                                         *)
LatestIsNewest ==
  /\ (binding.latest = None) <=> (committed = {})
  /\ binding.latest # None =>
       /\ binding.latest \in reports
       /\ <<binding.latest, binding.latestAt>> \in committed
  /\ \A c \in committed : c[2] <= binding.latestAt

(* An active binding never uses an installation that was revoked, whatever *)
(* late callback, bind or failure comes after the webhook.                 *)
RevokedStaysOut == binding.active => binding.installation \notin revoked

(* An item that was created to repair a finding is linked to it at once    *)
(* and stays so, though the handler may die and answer differently next    *)
(* time (OnApplied, applyRepairs' upsert).  And a handler that is about to *)
(* report success has an answer to every finding, from itself or from one  *)
(* before it that died, unless the one it is at was refused because access *)
(* is gone.                                                                *)
RepairsAreRecorded ==
  /\ \A k \in RepairKeys : run[k] # "none" =>
       action[k] = [status |-> "applied", run |-> k]
  /\ \A r \in Reports : repairing[r].pc = "nil" =>
       \/ \A n \in Findings : action[<<r, n>>].status # "none"
       \/ repairing[r].answer = "revoked"

(* Whatever a handler read at its beginning, an action only becomes        *)
(* "applied" for the latest report while its documents are unchanged and   *)
(* its binding authorized ("Fresh policy, session, membership,             *)
(* installation, current-report, and source checks happen after lock       *)
(* waits").                                                                *)
HistoryRepairsNothing ==
  [][\A r \in Reports, n \in Findings :
       action'[<<r, n>>].status = "applied" /\ action[<<r, n>>].status # "applied" =>
         binding.latest = r /\ docs = r.docs /\ Authorized]_vars

(* Every request is settled in the end, unless its event is archived.      *)
RequestsSettle ==
  \A q \in Requests :
    request[q].status \in {"queued", "running"} ~>
      request[q].status \in {"completed", "failed", "revoked"}
        \/ task[SyncEvent(q)] = "archived"
=============================================================================
