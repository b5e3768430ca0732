----------------------------- MODULE Deliveries -----------------------------
(***************************************************************************)
(* internal/integrations: what follows from one event after its            *)
(* transaction.  A changed work item is notified to the people interested  *)
(* in it, by a row and by mail, and sent to webhooks; or an export is      *)
(* generated.                                                              *)
(*                                                                         *)
(* The four handlers run on the promise of TaskDelivery: a task is         *)
(* delivered until its handler accepts it or the retries are used up, so   *)
(* every handler may find that an earlier attempt has done part of it.     *)
(* One action is one transaction, one statement or one request.            *)
(*                                                                         *)
(* Identity.Policy answers with an error for a person without access and   *)
(* for a database that does not answer, and where the code takes both for  *)
(* a refusal, so does the model (Misjudge).                                *)
(*                                                                         *)
(* A definition whose comment begins with "Slip" is no part of the model.  *)
(***************************************************************************)
EXTENDS TaskDelivery, FiniteSets

CONSTANTS Users,      \* people who may be interested, without the actor
          Hooks,      \* webhooks that want the event
          Projects,   \* what the export covers ...
          Workspace,  \* ... and where they are
          MaxMoves    \* bound: changes, and faults

Changed == <<"work_item.changed">>
Email(u) == <<"email.send", u>>
Webhook(h) == <<"webhook.deliver", h>>
Export == <<"export.generate">>

Emails == {Email(u) : u \in Users}
Webhooks == {Webhook(h) : h \in Hooks}

ASSUME DeliveriesAssumption ==
  /\ Keys = {Changed, Export} \cup Emails \cup Webhooks
  /\ Users \cap Hooks = {} /\ Workspace \notin Projects
  /\ MaxMoves \in Nat /\ MaxRetry \in Nat

VARIABLES item,        \* the work item is there, deleted, or in another project
          interested,  \* subscribers, assignees, creator, mentioned
          readers,     \* who may read the item
          wants,       \* wants[u]: preferences in_app and email
          live,        \* webhooks that are active and whose owner may see the item
          member,      \* where the owner of the export is a Member
          notices,     \* notices[u]: the row of notifications
          mailed,      \* whose mail the SMTP server has accepted
          row,         \* row[h]: the row of webhook_deliveries
          received,    \* received[h]: requests that the receiver has had
          export,      \* the row of exports, and the object
          at,          \* at[k]: where the handler of k is
          left,        \* changedJob: recipients and hooks still to come
          outcome,     \* sendWebhook: the receiver's answer; exportJob: the records
          steady,      \* history: who had a right to be told all the time
          lost,        \* history: the last word on the export was not written
          moves        \* changes and faults so far

world == <<item, interested, readers, wants, live, member>>
told == <<notices, mailed, row, received>>
exports == <<export, lost>>
vars == <<task, retried, world, told, exports, at, left, outcome, steady, moves>>

Steps == {"idle", "notify", "hooks", "send", "post", "record", "process",
          "query", "put", "complete", "refuse", "accept", "fail"}

TypeOK ==
  /\ DeliveryTypeOK
  /\ item \in {"there", "deleted", "moved"} /\ lost \in BOOLEAN
  /\ interested \subseteq Users /\ readers \subseteq Users
  /\ wants \in [Users -> SUBSET {"in_app", "email"}]
  /\ live \subseteq Hooks /\ member \subseteq Projects \cup {Workspace}
  /\ notices \in [Users -> {"none", "shown", "silent"}]
  /\ mailed \subseteq Users
  /\ row \in [Hooks -> {"none", "open", "delivered"}]
  /\ received \in [Hooks -> Nat]
  /\ export \in [status : {"queued", "processing", "completed", "failed"},
                 scope : SUBSET Projects, object : SUBSET Projects]
  /\ at \in [Keys -> Steps] /\ left \subseteq Users \cup Hooks
  /\ outcome \in [hooks : [Hooks -> BOOLEAN], records : SUBSET Projects]
  /\ steady \subseteq Users \cup Hooks
  /\ \A k \in Keys : at[k] # "idle" <=> task[k] = "active"

Init ==
  /\ \E k \in {Changed, Export} : task = [j \in Keys |-> IF j = k THEN "ready" ELSE "absent"]
  /\ retried = [k \in Keys |-> 0]
  /\ item = "there" /\ interested = Users /\ readers = Users
  /\ \E w \in SUBSET {"in_app", "email"} : wants = [u \in Users |-> w]
  /\ live = Hooks /\ member = Projects \cup {Workspace}
  /\ notices = [u \in Users |-> "none"] /\ mailed = {}
  /\ row = [h \in Hooks |-> "none"] /\ received = [h \in Hooks |-> 0]
  /\ export = [status |-> "queued", scope |-> {}, object |-> {}]
  /\ at = [k \in Keys |-> "idle"] /\ left = {}
  /\ outcome = [hooks |-> [h \in Hooks |-> FALSE], records |-> {}]
  /\ steady = {u \in interested : wants[u] # {}} \cup Hooks
  /\ lost = FALSE /\ moves = 0

-----------------------------------------------------------------------------
(* The rest of the system                                                  *)

Move ==
  /\ moves < MaxMoves
  /\ moves' = moves + 1

Toggle(set, x) == IF x \in set THEN set \ {x} ELSE set \cup {x}

(* Nothing that the handlers do.                                           *)
NoStep == UNCHANGED <<task, retried, told, exports, at, left, outcome>>

(* A deleted item keeps its row: its change is notified but not mailed.    *)
RemoveItem ==
  /\ Move
  /\ item = "there"
  /\ \/ item' = "deleted" /\ steady' = steady \cap Hooks
     \/ item' = "moved" /\ steady' = {}
  /\ UNCHANGED <<interested, readers, wants, live, member>>
  /\ NoStep

ChangeUser(u) ==
  /\ Move
  /\ \/ interested' = Toggle(interested, u) /\ UNCHANGED <<readers, wants>>
     \/ readers' = Toggle(readers, u) /\ UNCHANGED <<interested, wants>>
     \/ \E w \in SUBSET {"in_app", "email"} :
          wants' = [wants EXCEPT ![u] = w] /\ UNCHANGED <<interested, readers>>
  /\ steady' = steady \ {u}
  /\ UNCHANGED <<item, live, member>>
  /\ NoStep

(* updateWebhook, deleteWebhook, or its owner's membership.                *)
ChangeHook(h) ==
  /\ Move
  /\ live' = Toggle(live, h)
  /\ steady' = steady \ {h}
  /\ UNCHANGED <<item, interested, readers, wants, member>>
  /\ NoStep

ChangeMember(p) ==
  /\ Move
  /\ member' = Toggle(member, p)
  /\ UNCHANGED <<item, interested, readers, wants, live, steady>>
  /\ NoStep

-----------------------------------------------------------------------------
(* Handlers in general                                                     *)

Goto(k, step) == at' = [at EXCEPT ![k] = step]

Begin(k, step) == Take(k) /\ Goto(k, step)

Accept(k) ==
  /\ at[k] = "accept"
  /\ Ack(k) /\ Goto(k, "idle")
  /\ UNCHANGED <<world, told, exports, left, outcome, steady, moves>>

(* The handler returns an error.                                           *)
Return(k) == GiveBack(k) /\ Goto(k, "idle")

(* The process dies, or a statement or request of the handler fails; what  *)
(* exportJob has deferred is not run in the first case.                    *)
Break(k) ==
  /\ Move
  /\ at[k] # "idle"
  /\ \/ /\ Return(k)
        /\ lost' = (lost \/ (k = Export /\ retried[k] = MaxRetry))
     \/ /\ k = Export /\ at[k] \notin {"refuse", "accept", "fail"}
        /\ Goto(k, "fail")
        /\ UNCHANGED <<task, retried, lost>>
  /\ UNCHANGED <<world, told, export, left, outcome, steady>>

(* The policy's query fails, and x is taken for somebody without access.   *)
Misjudge(x) == Move /\ steady' = steady \ {x}

Judge == UNCHANGED <<steady, moves>>

-----------------------------------------------------------------------------
(* changedJob                                                              *)

StartChanged ==
  /\ IF item # "moved" THEN Begin(Changed, "notify") /\ left' = interested
             ELSE Begin(Changed, "accept") /\ left' = {}
  /\ UNCHANGED <<world, told, exports, outcome, steady, moves>>

(* The row, unless an earlier attempt has made it, and the mail's event.   *)
Noticed(u) ==
  /\ notices' = IF notices[u] # "none" THEN notices
                ELSE [notices EXCEPT ![u] = IF "in_app" \in wants[u] THEN "shown" ELSE "silent"]
  /\ task' = IF "email" \in wants[u] THEN Published(Email(u)) ELSE task

(* Slip: a failed transaction does not keep the next recipients waiting.   *)
NotifyOrGoOn(u) ==
  /\ at[Changed] = "notify" /\ u \in left
  /\ left' = left \ {u}
  /\ \/ u \in readers /\ wants[u] # {} /\ Noticed(u) /\ UNCHANGED moves
     \/ ~(u \in readers /\ wants[u] # {}) /\ UNCHANGED <<notices, task, moves>>
     \/ Move /\ UNCHANGED <<notices, task>>
  /\ UNCHANGED <<retried, world, mailed, row, received, exports, at, outcome, steady>>

(* The next recipient, in the order of a Go map.                           *)
Notify(u) ==
  /\ at[Changed] = "notify" /\ u \in left
  /\ left' = left \ {u}
  /\ \/ u \in readers /\ wants[u] # {} /\ Noticed(u) /\ Judge
     \/ ~(u \in readers /\ wants[u] # {}) /\ UNCHANGED <<notices, task>> /\ Judge
     \/ u \in readers /\ Misjudge(u) /\ UNCHANGED <<notices, task>>
  /\ UNCHANGED <<retried, world, mailed, row, received, exports, at, outcome>>

(* Slip: nothing is done without webhooks.                                 *)
ListHooksIfAny ==
  /\ at[Changed] = "notify" /\ left = {} /\ live # {}
  /\ left' = live
  /\ Goto(Changed, "hooks")
  /\ UNCHANGED <<task, retried, world, told, exports, outcome, steady, moves>>

(* queueEntityHooks: the webhooks are listed ...                           *)
ListHooks ==
  /\ at[Changed] = "notify" /\ left = {}
  /\ left' = live
  /\ Goto(Changed, "hooks")
  /\ UNCHANGED <<task, retried, world, told, exports, outcome, steady, moves>>

(* ... and their events published in one transaction.                      *)
PublishHooks ==
  /\ at[Changed] = "hooks"
  /\ \E missed \in SUBSET (left \cap live) :
       /\ task' = [k \in Keys |->
            IF \E h \in (left \cap live) \ missed : k = Webhook(h) THEN Published(k)[k] ELSE task[k]]
       /\ IF missed = {} THEN Judge ELSE Move /\ steady' = steady \ missed
  /\ left' = {}
  /\ Goto(Changed, "accept")
  /\ UNCHANGED <<retried, world, told, exports, outcome>>

-----------------------------------------------------------------------------
(* email.send of a notification                                            *)

StartEmail(u) ==
  /\ Begin(Email(u), IF item = "there" /\ u \in readers /\ "email" \in wants[u] THEN "send" ELSE "accept")
  /\ UNCHANGED <<world, told, exports, left, outcome, steady, moves>>

SendEmail(u) ==
  /\ at[Email(u)] = "send"
  /\ mailed' = mailed \cup {u}
  /\ Goto(Email(u), "accept")
  /\ UNCHANGED <<task, retried, world, notices, row, received, exports, left, outcome, steady,
                 moves>>

-----------------------------------------------------------------------------
(* sendWebhook                                                             *)

(* Slip: the row is not looked at.                                         *)
DeliveredAlready(h) == FALSE

Delivered(h) == row[h] = "delivered"

StartWebhook(h) ==
  /\ Take(Webhook(h))
  /\ \/ /\ h \in live /\ ~Delivered(h) /\ Judge
        /\ row' = [row EXCEPT ![h] = "open"]
        /\ Goto(Webhook(h), "post")
     \/ /\ h \notin live \/ Delivered(h)
        /\ Judge
        /\ Goto(Webhook(h), "accept") /\ UNCHANGED row
     \/ /\ h \in live /\ Misjudge(h)
        /\ Goto(Webhook(h), "accept") /\ UNCHANGED row
  /\ UNCHANGED <<world, notices, mailed, received, exports, left, outcome>>

(* The receiver takes it and says so, or its answer is lost, or it refuses.*)
Post(h) ==
  /\ at[Webhook(h)] = "post"
  /\ Goto(Webhook(h), "record")
  /\ \/ /\ received' = [received EXCEPT ![h] = @ + 1]
        /\ outcome' = [outcome EXCEPT !.hooks[h] = TRUE]
        /\ UNCHANGED moves
     \/ /\ Move
        /\ received' \in {received, [received EXCEPT ![h] = @ + 1]}
        /\ outcome' = [outcome EXCEPT !.hooks[h] = FALSE]
  /\ UNCHANGED <<task, retried, world, notices, mailed, row, exports, left, steady>>

(* delivered_at is set to this attempt's, and a failure is returned.       *)
Record(h) ==
  /\ at[Webhook(h)] = "record"
  /\ IF outcome.hooks[h]
     THEN /\ row' = [row EXCEPT ![h] = "delivered"]
          /\ Goto(Webhook(h), "accept") /\ UNCHANGED <<task, retried>>
     ELSE /\ row' = [row EXCEPT ![h] = "open"]
          /\ Return(Webhook(h))
  /\ UNCHANGED <<world, notices, mailed, received, exports, left, outcome, steady, moves>>
-----------------------------------------------------------------------------
(* exportJob                                                               *)

Exporting == UNCHANGED <<world, told, left, steady>>

Reach == IF Workspace \in member THEN member \ {Workspace} ELSE {}

StartExport ==
  /\ Take(Export)
  /\ \/ export.status = "completed" /\ Goto(Export, "accept") /\ UNCHANGED moves
     \/ /\ export.status # "completed" /\ Workspace \in member
        /\ Goto(Export, "process") /\ UNCHANGED moves
     \/ /\ export.status # "completed"
        /\ IF Workspace \in member THEN Move ELSE UNCHANGED moves
        /\ Goto(Export, "refuse")
  /\ UNCHANGED <<exports, outcome>>
  /\ Exporting

(* The access was revoked; an error of this UPDATE is ignored.             *)
RefuseExport ==
  /\ at[Export] = "refuse"
  /\ \/ export' = [export EXCEPT !.status = "failed"] /\ UNCHANGED <<lost, moves>>
     \/ Move /\ lost' = TRUE /\ UNCHANGED export
  /\ Goto(Export, "accept")
  /\ UNCHANGED <<task, retried, outcome>>
  /\ Exporting

ProcessExport ==
  /\ at[Export] = "process"
  /\ export' = [export EXCEPT !.status = "processing"]
  /\ Goto(Export, "query")
  /\ UNCHANGED <<task, retried, lost, outcome, moves>>
  /\ Exporting

(* The records, without those of projects that the policy does not allow.  *)
QueryExport ==
  /\ at[Export] = "query"
  /\ \E missed \in SUBSET Reach :
       /\ outcome' = [outcome EXCEPT !.records = Reach \ missed]
       /\ IF missed = {} THEN UNCHANGED moves ELSE Move
  /\ Goto(Export, "put")
  /\ UNCHANGED <<task, retried, exports>>
  /\ Exporting

(* Only administrators may export what is deleted.                         *)
DenyExport ==
  /\ at[Export] = "query"
  /\ Move
  /\ export' = [export EXCEPT !.status = "failed"]
  /\ Goto(Export, "accept")
  /\ UNCHANGED <<task, retried, lost, outcome>>
  /\ Exporting

PutObject ==
  /\ at[Export] = "put"
  /\ export' = [export EXCEPT !.object = outcome.records]
  /\ Goto(Export, "complete")
  /\ UNCHANGED <<task, retried, lost, outcome, moves>>
  /\ Exporting

(* Slip: the scope is what the owner reaches by now.                       *)
CompletedNow == [export EXCEPT !.status = "completed", !.scope = Reach]

Completed == [export EXCEPT !.status = "completed", !.scope = outcome.records]

(* The row is completed, and the reply may be lost.                        *)
CompleteExport ==
  /\ at[Export] = "complete"
  /\ export' = Completed
  /\ \/ Goto(Export, "accept") /\ UNCHANGED moves
     \/ Goto(Export, "fail") /\ Move
  /\ UNCHANGED <<task, retried, lost, outcome>>
  /\ Exporting

(* Slip: the last retry is taken for one before it.                        *)
StatusPastLast == IF retried[Export] > MaxRetry THEN "failed" ELSE "queued"

NextStatus == IF retried[Export] >= MaxRetry THEN "failed" ELSE "queued"

(* What is deferred, an error of which is ignored.                         *)
FailExport ==
  /\ at[Export] = "fail"
  /\ \/ export' = [export EXCEPT !.status = NextStatus] /\ UNCHANGED <<lost, moves>>
     \/ /\ Move
        /\ lost' = (lost \/ retried[Export] = MaxRetry)
        /\ UNCHANGED export
  /\ Return(Export)
  /\ UNCHANGED outcome
  /\ Exporting

-----------------------------------------------------------------------------
Changes ==
  \/ RemoveItem
  \/ \E u \in Users : ChangeUser(u)
  \/ \E h \in Hooks : ChangeHook(h)
  \/ \E p \in Projects \cup {Workspace} : ChangeMember(p)

ChangedJob ==
  \/ StartChanged \/ ListHooks \/ PublishHooks \/ Accept(Changed)
  \/ \E u \in Users : Notify(u)

EmailJob(u) == StartEmail(u) \/ SendEmail(u) \/ Accept(Email(u))

WebhookJob(h) == StartWebhook(h) \/ Post(h) \/ Record(h) \/ Accept(Webhook(h))

ExportJob ==
  \/ StartExport \/ RefuseExport \/ ProcessExport \/ QueryExport \/ DenyExport \/ PutObject
  \/ CompleteExport \/ FailExport \/ Accept(Export)

Next ==
  \/ Changes \/ ChangedJob \/ ExportJob
  \/ \E u \in Users : EmailJob(u)
  \/ \E h \in Hooks : WebhookJob(h)
  \/ \E k \in Keys : Break(k)

(* The worker takes what is ready, and what a handler waits for has a time *)
(* limit.                                                                  *)
Fairness ==
  /\ WF_vars(ChangedJob) /\ WF_vars(ExportJob)
  /\ \A u \in Users : WF_vars(EmailJob(u))
  /\ \A h \in Hooks : WF_vars(WebhookJob(h))

Spec == Init /\ [][Next]_vars /\ Fairness

-----------------------------------------------------------------------------
(* Properties                                                              *)

(* When the job of a change is accepted, however often it was begun, every *)
(* person and every webhook that had the right to be told all the time has *)
(* a notice or an event; and those events are accepted only when the mail  *)
(* is sent and the receiver has it.  A silent notice is there for its mail *)
(* only: that event was published with it, even if the job never gets any  *)
(* further.                                                                *)
NobodyIsForgotten ==
  /\ task[Changed] = "done" =>
       /\ \A u \in steady \cap Users : notices[u] # "none"
       /\ \A h \in steady \cap Hooks : task[Webhook(h)] # "absent"
  /\ \A u \in steady \cap Users : task[Email(u)] = "done" => u \in mailed
  /\ \A h \in steady \cap Hooks :
       task[Webhook(h)] = "done" => row[h] = "delivered" /\ received[h] > 0
  /\ \A u \in Users : notices[u] = "silent" => task[Email(u)] # "absent"

(* A download checks the projects that are recorded with an export: they   *)
(* are those of the records in the object, whichever attempt wrote it.     *)
ScopeCoversObject == export.status = "completed" => export.object \subseteq export.scope

(* What is recorded as done is not done again by an event that is         *)
(* delivered again: a delivered webhook is not sent and stays delivered,   *)
(* and a completed export is left as it is; only the attempt that never    *)
(* heard of its own success takes it back.                                 *)
RecordedIsFinal ==
  [][/\ \A h \in Hooks : row[h] = "delivered" =>
          row'[h] = "delivered" /\ received'[h] = received[h]
     /\ export.status = "completed" => export' = export \/ at[Export] = "fail"]_vars

(* When nothing will work on an export any more its status says so, unless *)
(* the last attempt could not write it.                                    *)
ExportEnds ==
  task[Export] \in {"done", "archived"} /\ ~lost
    => export.status \in {"completed", "failed"}

(* Every event that was published comes to an end.                         *)
EventsSettle ==
  \A k \in Keys : task[k] # "absent" ~> task[k] \in {"done", "archived"}
=============================================================================
