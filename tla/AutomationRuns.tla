--------------------------- MODULE AutomationRuns ---------------------------
(***************************************************************************)
(* internal/automation: the life of automation runs in one project.  A run *)
(* captures its input (project revision, source page version, resources), *)
(* is queued with an event, claimed under a two minute lease, analysed outside of    *)
(* any transaction, and committed only when policy, authority and input    *)
(* are still the captured ones.  A commit may apply one batch of changes   *)
(* and queue a follow-up run; a stale run may queue a refreshed one.       *)
(*                                                                         *)
(* Every database transaction takes the project lock (lockProject) first,  *)
(* so one action is one transaction; what happens between two transactions *)
(* of a worker is up to everybody else.  Events go through TaskDelivery,   *)
(* which Outbox implements.                                                *)
(*                                                                         *)
(* A definition whose comment begins with "Slip" is no part of the model:  *)
(* it is a plausible bug in the definition that follows it, there to show  *)
(* that a property would notice.                                           *)
(***************************************************************************)
EXTENDS Naturals, FiniteSets

CONSTANTS Runs,         \* run ids
          Workers,      \* Asynq worker slots
          Policies,     \* the settings an administrator may PUT
          RequestKeys,  \* idempotency keys of members' manual requests
          Findings,     \* idempotency keys of external quality findings
          Snapshots,    \* what the users of a project may look like
          MaxAttempts,  \* claims of one run (10)
          MaxRetry,     \* Asynq retries of one event (10)
          MaxRounds,    \* bound on every policy's max_rounds
          MaxBudget,    \* bound on every policy's budget_calls
          MaxRevision,  \* bound: no human edit beyond this revision
          MaxPage,      \* bound: no page edit beyond this version
          MaxVersion,   \* bound: no policy PUT beyond this version
          MaxMonth,     \* bound: months that begin
          MaxChanges,   \* bound: changes of users
          MaxFaults,    \* bound: crashes and internal errors
          MaxRoots      \* bound: runs that start a chain

Kinds == {"decompose", "schedule", "forecast", "risk", "efficiency", "quality"}

ASSUME AutomationAssumption ==
  /\ MaxAttempts \in Nat \ {0}
  /\ MaxRetry \in Nat
  /\ MaxRounds \in Nat
  /\ MaxBudget \in Nat
  /\ Snapshots # {}
  /\ Policies \subseteq [enabled : BOOLEAN, kinds : SUBSET Kinds,
                         maxRounds : 1 .. MaxRounds, budget : 0 .. MaxBudget]

VARIABLES runs,        \* the rows of automation_runs
          revision,    \* project_revisions.revision
          human,       \* revisions whose event has no "automation:" cause
          page,        \* version of the source page
          resources,   \* the resources snapshot, in what no revision counts:
                       \* names and activity of the users
          changed,     \* how often it changed so far
          authority,   \* the authorizing admin and the requester keep their roles
          policy,      \* current settings, one of Policies
          version,     \* automation_policies.version
          month,       \* the current month
          usage,       \* budget_month and calls_used as stored
          spent,       \* provider calls really reserved this month
          worker,      \* what every worker slot is doing
          task,        \* TaskDelivery: the events ...
          retried,     \* ... and how often each was given back
          faults       \* faults so far

project   == <<revision, human, page, resources, changed, authority>>
settings  == <<policy, version>>
budget    == <<month, usage, spent>>
delivery  == <<task, retried>>
vars == <<runs, revision, human, page, resources, changed, authority,
          policy, version, month, usage, spent, worker, task, retried, faults>>

-----------------------------------------------------------------------------
(* Events.  <<r, 0>> is published when r is inserted ("automation:r:0"),   *)
(* <<r, n + 1>> when r is retried with n attempts ("automation:r:retry:n").*)
EventKeys == Runs \X (0 .. MaxAttempts)

Queue == INSTANCE TaskDelivery WITH Keys <- EventKeys

EventsOf(r) == {r} \X (0 .. MaxAttempts)

Statuses == {"absent", "queued", "running", "applied", "partial", "completed",
             "blocked", "failed", "cancelled", "undone"}

(* Idempotency keys, tagged by who makes them.                             *)
IdemKeys ==
  ({"request"} \X RequestKeys) \cup ({"external"} \X Findings)
  \cup ({"page"} \X Nat \X Nat) \cup ({"revision"} \X Nat \X Kinds \X Nat)
  \cup {<<"periodic">>}
  \cup ({"refresh"} \X Runs) \cup ({"followup"} \X Runs \X Kinds)

NoRun == [status |-> "absent", kind |-> "risk", key |-> <<"periodic">>,
          revision |-> 0, page |-> 0, resources |-> CHOOSE x \in Snapshots : TRUE,
          version |-> 0, round |-> 0, attempts |-> 0, lease |-> FALSE, batches |-> 0, produced |-> 0]

RunRecord ==
  [status : Statuses, kind : Kinds, key : IdemKeys,
   revision : Nat, page : Nat, resources : Snapshots, version : Nat, round : Nat,
   attempts : 0 .. MaxAttempts,
   lease : BOOLEAN,   \* lease_until > now(); only read of a running run
   batches : Nat,     \* history: batches this run has applied
   produced : Nat]    \* history: the revision its batch made

(* What an analysis proposes.  The commands of a blocked proposal are      *)
(* dropped (commitProposal).                                               *)
Proposals == {p \in [changes : BOOLEAN, partial : BOOLEAN, blocked : BOOLEAN] :
                p.blocked => ~p.changes /\ ~p.partial}
NoProposal == [changes |-> FALSE, partial |-> FALSE, blocked |-> FALSE]

(* What a worker is about to do with an event, and what it has seen.       *)
Reasons == {"stale", "rejected", "internal"}

WorkerRecord ==
  [pc : {"idle"}]
  \cup [pc : {"analyze", "provider", "refresh", "accept", "giveback"},
        event : EventKeys]
  \cup [pc : {"commit"}, event : EventKeys, proposal : Proposals]
  \cup [pc : {"record"}, event : EventKeys, reason : Reasons]

Present == {r \in Runs : runs[r].status # "absent"}
Free == Runs \ Present

TypeOK ==
  /\ runs \in [Runs -> RunRecord]
  /\ revision \in Nat /\ human \subseteq Nat /\ page \in Nat
  /\ resources \in Snapshots /\ changed \in Nat /\ authority \in BOOLEAN
  /\ policy \in Policies /\ version \in Nat
  /\ month \in Nat
  /\ usage \in [month : Nat, calls : Nat] /\ spent \in Nat
  /\ worker \in [Workers -> WorkerRecord]
  /\ Queue!DeliveryTypeOK
  /\ faults \in Nat

-----------------------------------------------------------------------------
(* currentPolicy: nothing but the settings the run was captured under.     *)
PolicyCurrent(r) ==
  /\ policy.enabled
  /\ version = runs[r].version
  /\ runs[r].kind \in policy.kinds
  /\ runs[r].round < policy.maxRounds
  /\ authority

SourcePage(kind) == IF kind = "decompose" THEN page ELSE 0

(* Slip: the project revision is forgotten.                                *)
InputCurrentPageOnly(r) ==
  /\ SourcePage(runs[r].kind) = runs[r].page
  /\ resources = runs[r].resources

(* checkInput: nothing has happened to the captured input, or what has     *)
(* happened to its users was taken back.                                   *)
InputCurrent(r) ==
  /\ revision = runs[r].revision
  /\ SourcePage(runs[r].kind) = runs[r].page
  /\ resources = runs[r].resources

(* Slip: last month's calls are still counted.                             *)
CallsUsedEver == usage.calls

(* policyAt: the stored count belongs to the stored month.                 *)
CallsUsed == IF usage.month = month THEN usage.calls ELSE 0

(* Why insertRun refuses a run, before it looks for an existing one.       *)
Insertable(kind, round) ==
  /\ policy.enabled
  /\ kind \in policy.kinds
  /\ round < policy.maxRounds
  /\ authority

(* Slip: the idempotency key is not looked up.                             *)
SameKeyIgnored(key) == {}

SameKey(key) == {r \in Present : runs[r].key = key}

(* Runs whose input has the same fingerprint, as far as the model knows:   *)
(* it leaves out a request's dates and tasks and the quality reports.      *)
SameInput(kind, rev) ==
  {r \in Present : /\ runs[r].kind = kind /\ runs[r].revision = rev
                   /\ runs[r].version = version
                   /\ runs[r].page = SourcePage(kind)
                   /\ runs[r].resources = resources}

NewId == CHOOSE r \in Free : TRUE

NewRun(kind, key, round, rev) ==
  [NoRun EXCEPT !.status = "queued", !.kind = kind, !.key = key,
                !.revision = rev, !.page = SourcePage(kind),
                !.resources = resources, !.version = version, !.round = round]

(* Slip: the event is published later, if at all.                          *)
AddRunAlone(rs, kind, key, round, rev) ==
  /\ Free # {}
  /\ runs' = [rs EXCEPT ![NewId] = NewRun(kind, key, round, rev)]
  /\ UNCHANGED delivery \/ Queue!Publish(<<NewId, 0>>)

(* A new queued run and its event, on top of the rows rs this transaction  *)
(* has already written.                                                    *)
AddRun(rs, kind, key, round, rev) ==
  /\ Free # {}
  /\ runs' = [rs EXCEPT ![NewId] = NewRun(kind, key, round, rev)]
  /\ Queue!Publish(<<NewId, 0>>)

(* insertRun: an existing run with the key or with the same input stands   *)
(* in for the new one.                                                     *)
InsertRun(rs, kind, key, round, rev) ==
  \/ /\ SameKey(key) \cup SameInput(kind, rev) # {}
     /\ runs' = rs /\ UNCHANGED delivery
  \/ /\ SameKey(key) = {}
     /\ AddRun(rs, kind, key, round, rev)

Roots == {r \in Present : runs[r].round = 0}

-----------------------------------------------------------------------------
(* Requests, the scheduler, external findings.                             *)

(* POST /runs: round zero, for the kinds a member may ask for.             *)
CreateRun(kind, k) ==
  /\ Cardinality(Roots) < MaxRoots
  /\ kind # "quality"
  /\ Insertable(kind, 0)
  /\ InsertRun(runs, kind, <<"request", k>>, 0, revision)
  /\ UNCHANGED <<project, settings, budget, worker, faults>>

Busy == \E r \in Runs : runs[r].status \in {"queued", "running"}

(* The source page was never captured at its present version.              *)
PageUnseen ==
  /\ "decompose" \in policy.kinds
  /\ \A r \in Present : runs[r].kind = "decompose" => runs[r].page # page

(* The kind the latest revision calls for.                                 *)
RevisionKind ==
  IF "schedule" \in policy.kinds THEN "schedule"
  ELSE IF "risk" \in policy.kinds THEN "risk" ELSE "forecast"

(* The latest revision is a human's and was not looked at under this       *)
(* policy: AI-origin revisions do not restart the chain at round zero.     *)
RevisionUnseen ==
  /\ revision \in human
  /\ RevisionKind \in policy.kinds
  /\ \A r \in Present :
       ~ (/\ runs[r].kind = RevisionKind /\ runs[r].revision = revision
          /\ runs[r].version = version)

EfficiencyDue ==
  /\ "efficiency" \in policy.kinds
  /\ \A r \in Present : runs[r].kind # "efficiency"

(* Reconcile, once per minute, for a project with nothing under way.       *)
Reconcile ==
  /\ Cardinality(Roots) < MaxRoots
  /\ policy.enabled /\ authority /\ ~Busy
  /\ \/ /\ PageUnseen
        /\ InsertRun(runs, "decompose", <<"page", page, version>>, 0, revision)
     \/ /\ ~PageUnseen /\ RevisionUnseen
        /\ InsertRun(runs, RevisionKind,
                     <<"revision", revision, RevisionKind, version>>, 0, revision)
     \/ /\ ~PageUnseen /\ ~RevisionUnseen /\ EfficiencyDue
        /\ InsertRun(runs, "efficiency", <<"periodic">>, 0, revision)
  /\ UNCHANGED <<project, settings, budget, worker, faults>>

-----------------------------------------------------------------------------
(* A worker's run of one event.                                            *)

At(w, pc) == worker[w].pc = pc
RunOf(w) == worker[w].event[1]
Start(w, e, pc) == worker' = [worker EXCEPT ![w] = [pc |-> pc, event |-> e]]
Goto(w, pc) == Start(w, worker[w].event, pc)
FailOn(w, e, reason) ==
  worker' = [worker EXCEPT ![w] = [pc |-> "record", event |-> e, reason |-> reason]]
Propose(w, p) ==
  worker' = [worker EXCEPT ![w] =
               [pc |-> "commit", event |-> @.event, proposal |-> p]]
Fail(w, reason) == FailOn(w, worker[w].event, reason)
Rest(w) == worker' = [worker EXCEPT ![w] = [pc |-> "idle"]]

(* Slip: a lease that expired is nobody's business.                        *)
ClaimableUnlessRunning(r) == runs[r].status \in {"queued", "failed"}

(* Slip: a cancellation is overlooked.                                     *)
ClaimableOnceCancelled(r) ==
  runs[r].status \in {"queued", "running", "failed", "cancelled"}

(* Run goes on with these, and acknowledges the event of any other run.    *)
Claimable(r) == runs[r].status \in {"queued", "running", "failed"}

Exhausted(r) == runs[r].attempts >= MaxAttempts

Leased(r) == runs[r].status = "running" /\ runs[r].lease

(* Asynq hands the event e to a free slot, and Run's first transaction     *)
(* looks at the run.                                                       *)
Claim(w, e) ==
  LET r == e[1] IN
  /\ At(w, "idle")
  /\ Queue!Take(e)
  /\ \/ ~Claimable(r) /\ Start(w, e, "accept") /\ UNCHANGED runs
     \/ Leased(r) /\ Start(w, e, "giveback") /\ UNCHANGED runs
     \/ /\ Claimable(r) /\ ~Leased(r)
        /\ \/ /\ Exhausted(r) \/ ~PolicyCurrent(r)
              /\ FailOn(w, e, "rejected") /\ UNCHANGED runs
           \/ /\ ~Exhausted(r) /\ PolicyCurrent(r) /\ ~InputCurrent(r)
              /\ FailOn(w, e, "stale") /\ UNCHANGED runs
           \/ /\ ~Exhausted(r) /\ PolicyCurrent(r) /\ InputCurrent(r)
              /\ runs' = [runs EXCEPT ![r].status = "running",
                                      ![r].attempts = @ + 1,
                                      ![r].lease = TRUE]
              /\ Start(w, e, "analyze")
  /\ UNCHANGED <<project, settings, budget, faults>>

(* ... or fails for a reason of its own.                                   *)
ClaimFails(w, e) ==
  /\ faults < MaxFaults /\ faults' = faults + 1
  /\ At(w, "idle")
  /\ Queue!Take(e)
  /\ FailOn(w, e, "internal")
  /\ UNCHANGED <<runs, project, settings, budget>>

(* reserveModelCall: recheck everything, then count the call.              *)
Reserve(w) ==
  LET r == RunOf(w) IN
  /\ At(w, "analyze") /\ runs[r].kind = "decompose"
  /\ \/ /\ runs[r].status # "running" \/ ~PolicyCurrent(r)
        /\ Fail(w, "rejected") /\ UNCHANGED budget
     \/ /\ runs[r].status = "running" /\ PolicyCurrent(r) /\ ~InputCurrent(r)
        /\ Fail(w, "stale") /\ UNCHANGED budget
     \/ /\ runs[r].status = "running" /\ PolicyCurrent(r) /\ InputCurrent(r)
        /\ CallsUsed >= policy.budget
        /\ Fail(w, "rejected") /\ UNCHANGED budget
     \/ /\ runs[r].status = "running" /\ PolicyCurrent(r) /\ InputCurrent(r)
        /\ CallsUsed < policy.budget
        /\ usage' = [month |-> month,
                     calls |-> IF usage.month = month THEN usage.calls + 1 ELSE 1]
        /\ spent' = spent + 1
        /\ UNCHANGED month
        /\ Goto(w, "provider")
  /\ UNCHANGED <<runs, project, settings, delivery, faults>>

(* What the analysis of a kind may propose: only a decomposition is ever   *)
(* partial, and forecasts change nothing.                                  *)
ProposalsOf(kind) ==
  {p \in Proposals :
     /\ p.blocked => kind \in {"decompose", "schedule"}
     /\ p.partial => kind = "decompose"
     /\ p.changes => kind # "forecast"}

(* analyze: the provider's answer, or the deterministic algorithms.  It    *)
(* may also refuse: no model configured, invalid output.                   *)
Analyze(w) ==
  LET r == RunOf(w) IN
  /\ \/ At(w, "provider")
     \/ At(w, "analyze") /\ runs[r].kind # "decompose"
  /\ \/ \E p \in ProposalsOf(runs[r].kind) : Propose(w, p)
     \/ Fail(w, "rejected")
  /\ UNCHANGED <<runs, project, settings, budget, delivery, faults>>

(* A private source is answered without a provider.                        *)
AnalyzePrivate(w) ==
  /\ At(w, "analyze") /\ runs[RunOf(w)].kind = "decompose"
  /\ \/ Propose(w, [NoProposal EXCEPT !.blocked = TRUE])
     \/ Fail(w, "rejected")
  /\ UNCHANGED <<runs, project, settings, budget, delivery, faults>>

(* commitProposal: the status a proposal leaves the run in.                *)
Outcome(p) ==
  IF p.blocked THEN "blocked"
  ELSE IF p.partial THEN "partial"
  ELSE IF p.changes THEN "applied" ELSE "completed"

(* ... and the kind of run it calls for next, "none" when there is none.   *)
NextKind(kind, p) ==
  CASE kind = "decompose" /\ p.changes -> "schedule"
    [] kind = "schedule"               -> "risk"
    [] kind = "quality" /\ p.changes   -> "risk"
    [] kind = "risk" /\ ~p.blocked     -> "efficiency"
    [] OTHER                           -> "none"

(* The revision after the proposal.                                        *)
After(p) == IF p.changes THEN revision + 1 ELSE revision

(* Slip: the events of a batch carry no cause.                             *)
RecordBatchAsHuman(p) ==
  /\ revision' = After(p)
  /\ human' = human \cup {After(p)}
  /\ UNCHANGED <<page, resources, changed, authority>>

(* ApplyWithinTx: a batch of changes emits events with the cause           *)
(* "automation:...", so none of them counts as human.                      *)
RecordBatch(p) ==
  /\ revision' = After(p)
  /\ UNCHANGED <<human, page, resources, changed, authority>>

(* The row of r after its proposal is committed.                           *)
Committed(r, p) ==
  [runs EXCEPT ![r].status = Outcome(p), ![r].lease = FALSE,
               ![r].batches = IF p.changes THEN @ + 1 ELSE @,
               ![r].produced = IF p.changes THEN revision + 1 ELSE @]

(* commitProposal on the rows rs, in which r is committed: with the        *)
(* follow-up, whose input is captured after the batch.                     *)
FollowUp(rs, r, p) ==
  LET next == NextKind(rs[r].kind, p) IN
  IF next \in policy.kinds /\ rs[r].round + 1 < policy.maxRounds
  THEN InsertRun(rs, next, <<"followup", r, next>>, rs[r].round + 1, After(p))
  ELSE runs' = rs /\ UNCHANGED delivery

(* The last transaction of Run.  validateProposal, a conflict found by the *)
(* change set or a schedule that breaks a rule reject a proposal.          *)
Commit(w) ==
  LET r == RunOf(w)
      p == worker[w].proposal IN
  /\ At(w, "commit")
  /\ \/ /\ runs[r].status # "running"
        /\ Goto(w, "accept") /\ UNCHANGED <<runs, project, delivery>>
     \/ /\ runs[r].status = "running" /\ ~PolicyCurrent(r)
        /\ Fail(w, "rejected") /\ UNCHANGED <<runs, project, delivery>>
     \/ /\ runs[r].status = "running" /\ PolicyCurrent(r) /\ ~InputCurrent(r)
        /\ Fail(w, "stale") /\ UNCHANGED <<runs, project, delivery>>
     \/ /\ runs[r].status = "running" /\ PolicyCurrent(r) /\ InputCurrent(r)
        /\ p.changes
        /\ Fail(w, "rejected") /\ UNCHANGED <<runs, project, delivery>>
     \/ /\ runs[r].status = "running" /\ PolicyCurrent(r) /\ InputCurrent(r)
        /\ RecordBatch(p)
        /\ FollowUp(Committed(r, p), r, p)
        /\ Goto(w, "accept")
  /\ UNCHANGED <<settings, budget, faults>>

(* The statuses recordFailure may overwrite.                               *)
Unsettled(r) == runs[r].status \in {"queued", "running", "failed"}

(* recordFailure: whoever is running the run by now, its status is changed *)
(* if it is still one of the three.  An internal error goes back to Asynq. *)
RecordFailure(w) ==
  LET r == RunOf(w)
      stays == IF worker[w].reason = "internal" THEN "failed" ELSE "blocked" IN
  /\ At(w, "record")
  /\ runs' = IF Unsettled(r)
             THEN [runs EXCEPT ![r].status = stays, ![r].lease = FALSE]
             ELSE runs
  /\ \/ worker[w].reason = "stale" /\ Goto(w, "refresh")
     \/ worker[w].reason = "rejected" /\ Goto(w, "accept")
     \/ worker[w].reason = "internal" /\ Goto(w, "giveback")
  /\ UNCHANGED <<project, settings, budget, delivery, faults>>

(* refreshStale may go on with r.                                          *)
Refreshable(r) ==
  /\ policy.enabled /\ version = runs[r].version
  /\ runs[r].round + 1 < policy.maxRounds

(* The refreshed run exists already, and asked for another page version.   *)
KeyTaken(r) ==
  \E s \in SameKey(<<"refresh", r>>) : runs[s].page # SourcePage(runs[r].kind)

(* refreshStale: the same request once more, one round further.  Without   *)
(* authority it gives up quietly when the requester lost theirs, and with  *)
(* an error when the administrator did.                                    *)
Refresh(w) ==
  LET r == RunOf(w) IN
  /\ At(w, "refresh")
  /\ \/ /\ ~Refreshable(r)
        /\ Goto(w, "accept") /\ UNCHANGED <<runs, delivery>>
     \/ /\ Refreshable(r) /\ ~authority
        /\ Goto(w, "accept") \/ Goto(w, "giveback")
        /\ UNCHANGED <<runs, delivery>>
     \/ /\ Refreshable(r) /\ authority
        /\ InsertRun(runs, runs[r].kind, <<"refresh", r>>, runs[r].round + 1, revision)
        /\ Goto(w, IF KeyTaken(r) THEN "giveback" ELSE "accept")
  /\ UNCHANGED <<project, settings, budget, faults>>

(* Run returns nil, or an error, to Asynq.                                 *)
Return(w) ==
  /\ \/ At(w, "accept") /\ Queue!Ack(worker[w].event)
     \/ At(w, "giveback") /\ Queue!GiveBack(worker[w].event)
  /\ Rest(w)
  /\ UNCHANGED <<runs, project, settings, budget, faults>>

(* A transaction or a provider call fails for a reason of its own: the     *)
(* analysis or the commit is as if it had never started.                   *)
InternalError(w) ==
  /\ faults < MaxFaults /\ faults' = faults + 1
  /\ worker[w].pc \in {"analyze", "provider", "commit"}
  /\ Fail(w, "internal")
  /\ UNCHANGED <<runs, project, settings, budget, delivery>>

(* The worker's process dies, or a database error makes Run return before  *)
(* it has recorded anything; Asynq takes the event back.                   *)
Crash(w) ==
  /\ faults < MaxFaults /\ faults' = faults + 1
  /\ ~At(w, "idle")
  /\ Queue!GiveBack(worker[w].event)
  /\ Rest(w)
  /\ UNCHANGED <<runs, project, settings, budget>>

LeaseExpires(r) ==
  /\ Leased(r)
  /\ runs' = [runs EXCEPT ![r].lease = FALSE]
  /\ UNCHANGED <<project, settings, budget, worker, delivery, faults>>

-----------------------------------------------------------------------------
(* People.                                                                 *)

CancelRun(r) ==
  /\ runs[r].status \in {"queued", "running"}
  /\ runs' = [runs EXCEPT ![r].status = "cancelled", ![r].lease = FALSE]
  /\ UNCHANGED <<project, settings, budget, worker, delivery, faults>>

(* Slip: a retry captures the input anew instead of insisting on it.       *)
RetryRecaptures(r) ==
  /\ runs[r].status \in {"failed", "blocked", "cancelled"}
  /\ PolicyCurrent(r)
  /\ runs[r].attempts < MaxAttempts
  /\ runs' = [runs EXCEPT ![r].status = "queued", ![r].revision = revision]
  /\ Queue!Publish(<<r, runs[r].attempts + 1>>)
  /\ UNCHANGED <<project, settings, budget, worker, faults>>

(* RetryRun: the event's key repeats when the run was not claimed since    *)
(* the last retry, and then nothing is published.                          *)
RetryRun(r) ==
  /\ runs[r].status \in {"failed", "blocked", "cancelled"}
  /\ PolicyCurrent(r) /\ InputCurrent(r)
  /\ runs[r].attempts < MaxAttempts
  /\ runs' = [runs EXCEPT ![r].status = "queued"]
  /\ Queue!Publish(<<r, runs[r].attempts + 1>>)
  /\ UNCHANGED <<project, settings, budget, worker, faults>>

HumanRevision ==
  /\ revision' = revision + 1
  /\ human' = human \cup {revision + 1}

(* Undo of an unchanged batch; a conflicting one changes nothing here.     *)
Undo(r) ==
  /\ runs[r].status \in {"applied", "partial"}
  /\ runs[r].batches > 0
  /\ runs' = [runs EXCEPT ![r].status = "undone"]
  /\ HumanRevision
  /\ UNCHANGED <<page, resources, changed, authority, settings, budget, worker, delivery,
                 faults>>

(* ApplyExternal: the run is inserted, applied and followed up in one      *)
(* transaction.                                                            *)
ApplyExternal(f) ==
  LET key == <<"external", f>>
      p == [NoProposal EXCEPT !.changes = TRUE]
      run == [NewRun("quality", key, 0, revision)
                EXCEPT !.status = "applied", !.page = 0, !.attempts = 1,
                       !.batches = 1, !.produced = revision + 1]
      rest == Free \ {NewId} IN
  /\ Cardinality(Roots) < MaxRoots
  /\ SameKey(key) = {}
  /\ Insertable("quality", 0)
  /\ rest # {}
  /\ RecordBatch(p)
  /\ IF "risk" \in policy.kinds /\ 1 < policy.maxRounds
     THEN LET child == CHOOSE r \in rest : TRUE IN
          /\ runs' = [runs EXCEPT
               ![NewId] = run,
               ![child] = NewRun("risk", <<"followup", NewId, "risk">>, 1, revision + 1)]
          /\ Queue!Publish(<<child, 0>>)
     ELSE runs' = [runs EXCEPT ![NewId] = run] /\ UNCHANGED delivery
  /\ UNCHANGED <<settings, budget, worker, faults>>

(* PUT /policy with the current version: the acting admin becomes the      *)
(* authorizing one and every run under way is cancelled.                   *)
PutPolicy(p) ==
  /\ version < MaxVersion
  /\ policy' = p
  /\ version' = version + 1
  /\ runs' = [r \in Runs |->
       IF runs[r].status \in {"queued", "running"}
       THEN [runs[r] EXCEPT !.status = "cancelled", !.lease = FALSE]
       ELSE runs[r]]
  /\ HumanRevision
  /\ authority' = TRUE
  /\ UNCHANGED <<page, resources, changed, budget, worker, delivery, faults>>

(* Any other change of the project that is an event, and so a revision:    *)
(* work items, members, roles, skills and calendars.                       *)
Edit(a) ==
  /\ revision < MaxRevision
  /\ HumanRevision
  /\ authority' = a
  /\ UNCHANGED <<runs, page, resources, changed, settings, budget, worker, delivery,
                 faults>>

EditPage ==
  /\ page < MaxPage
  /\ page' = page + 1
  /\ UNCHANGED <<runs, revision, human, resources, changed, authority, settings,
                 budget, worker, delivery, faults>>

(* A user is renamed, deactivated or activated again: what the run would   *)
(* see, and who is authorized, change, but no trigger counts a revision.   *)
ChangeUser ==
  /\ changed < MaxChanges /\ changed' = changed + 1
  /\ resources' \in Snapshots \ {resources}
  /\ authority' \in BOOLEAN
  /\ UNCHANGED <<runs, revision, human, page, settings, budget, worker,
                 delivery, faults>>

NewMonth ==
  /\ month < MaxMonth
  /\ month' = month + 1
  /\ spent' = 0
  /\ UNCHANGED <<runs, project, settings, usage, worker, delivery, faults>>

-----------------------------------------------------------------------------
Init ==
  /\ runs = [r \in Runs |-> NoRun]
  /\ revision = 1 /\ human = {1} /\ page = 1
  /\ resources = CHOOSE x \in Snapshots : TRUE
  /\ changed = 0 /\ authority = TRUE
  /\ policy \in {p \in Policies : p.enabled} /\ version = 1
  /\ month = 1 /\ usage = [month |-> 1, calls |-> 0] /\ spent = 0
  /\ worker = [w \in Workers |-> [pc |-> "idle"]]
  /\ Queue!DeliveryInit
  /\ faults = 0

WorkerStep(w) ==
  \/ Reserve(w) \/ Analyze(w) \/ AnalyzePrivate(w) \/ Commit(w)
  \/ RecordFailure(w) \/ Refresh(w) \/ Return(w)

Disturbance ==
  \/ \E w \in Workers, e \in EventKeys : ClaimFails(w, e)
  \/ \E w \in Workers : InternalError(w) \/ Crash(w)
  \/ \E r \in Runs : LeaseExpires(r)

People ==
  \/ \E kind \in Kinds, k \in RequestKeys : CreateRun(kind, k)
  \/ \E r \in Runs : CancelRun(r) \/ RetryRun(r) \/ Undo(r)
  \/ \E p \in Policies : PutPolicy(p)
  \/ \E a \in BOOLEAN : Edit(a)
  \/ EditPage
  \/ ChangeUser

Next ==
  \/ \E w \in Workers, e \in EventKeys : Claim(w, e)
  \/ \E w \in Workers : WorkerStep(w)
  \/ Disturbance
  \/ People
  \/ Reconcile
  \/ \E f \in Findings : ApplyExternal(f)
  \/ NewMonth

Spec == Init /\ [][Next]_vars

(* Asynq hands every ready event to a free slot, a handler that was        *)
(* started goes on, and the clock runs.                                    *)
Fairness ==
  /\ \A e \in EventKeys : SF_vars(\E w \in Workers : Claim(w, e))
  /\ \A w \in Workers : WF_vars(WorkerStep(w))
  /\ \A r \in Runs : WF_vars(LeaseExpires(r))

FairSpec == Spec /\ Fairness
=============================================================================
