-------------------------- MODULE DeliveriesProofs --------------------------
(***************************************************************************)
(* Proofs about Deliveries, for any number of people, webhooks, projects,  *)
(* retries, changes and faults.                                            *)
(*                                                                         *)
(* The invariant has a part for the job of every event.  A part speaks of  *)
(* the job's own place, of what it has done and of those with a right to   *)
(* be told; it is disturbed by the steps of that job and, since the last   *)
(* only get fewer, by no other.                                            *)
(***************************************************************************)
EXTENDS Deliveries, TLAPS

Handlers ==
  /\ DeliveryTypeOK
  /\ at \in [Keys -> Steps]
  /\ \A k \in Keys : at[k] # "idle" <=> task[k] = "active"

WorldTypes ==
  /\ item \in {"there", "deleted", "moved"}
  /\ interested \subseteq Users /\ readers \subseteq Users
  /\ wants \in [Users -> SUBSET {"in_app", "email"}]
  /\ live \subseteq Hooks /\ member \subseteq Projects \cup {Workspace}
  /\ steady \subseteq Users \cup Hooks

ToldTypes ==
  /\ notices \in [Users -> {"none", "shown", "silent"}]
  /\ mailed \subseteq Users
  /\ row \in [Hooks -> {"none", "open", "delivered"}]
  /\ received \in [Hooks -> Nat]

Outcomes == [hooks : [Hooks -> BOOLEAN], records : SUBSET Projects]

Exports == [status : {"queued", "processing", "completed", "failed"},
            scope : SUBSET Projects, object : SUBSET Projects]

JobTypes ==
  /\ export \in Exports /\ lost \in BOOLEAN
  /\ left \subseteq Users \cup Hooks
  /\ outcome \in Outcomes

(* Who has a right to be told has had it all the time.                     *)
SteadyInv ==
  /\ \A u \in steady \cap Users :
       item = "there" /\ u \in interested /\ u \in readers /\ wants[u] # {}
  /\ steady \cap Hooks \subseteq live
  /\ item = "moved" => steady = {}

ExportInv ==
  /\ at[Export] \in {"refuse", "process", "query", "put", "complete"} =>
       export.status # "completed"
  /\ at[Export] = "complete" => export.object = outcome.records
  /\ at[Export] = "accept" /\ ~lost => export.status \in {"completed", "failed"}
  /\ ScopeCoversObject /\ ExportEnds

(* Who is not told yet is still to come.                                   *)
ChangedInv ==
  /\ \A u \in steady \cap Users :
       /\ at[Changed] = "notify" => u \in left \/ notices[u] # "none"
       /\ at[Changed] \in {"hooks", "accept"} \/ task[Changed] = "done" =>
            notices[u] # "none"
  /\ \A h \in steady \cap Hooks :
       /\ at[Changed] = "hooks" => h \in left
       /\ at[Changed] = "accept" \/ task[Changed] = "done" =>
            task[Webhook(h)] # "absent"

EmailInv(u) ==
  /\ notices[u] = "silent" => task[Email(u)] # "absent"
  /\ u \in steady =>
       /\ task[Email(u)] # "absent" => "email" \in wants[u]
       /\ at[Email(u)] = "accept" \/ task[Email(u)] = "done" => u \in mailed

WebhookInv(h) ==
  /\ row[h] = "delivered" => received[h] > 0
  /\ at[Webhook(h)] \in {"post", "record"} => row[h] # "delivered"
  /\ at[Webhook(h)] = "record" /\ outcome.hooks[h] => received[h] > 0
  /\ h \in steady /\ (at[Webhook(h)] = "accept" \/ task[Webhook(h)] = "done") =>
       row[h] = "delivered"

JobsInv ==
  /\ ExportInv
  /\ ChangedInv
  /\ \A u \in Users : EmailInv(u)
  /\ \A h \in Hooks : WebhookInv(h)

IInv == Handlers /\ WorldTypes /\ ToldTypes /\ JobTypes /\ SteadyInv /\ JobsInv

-----------------------------------------------------------------------------
(* Keys, and what a handler's step does to them                            *)

LEMMA KeysAreApart ==
  /\ Changed \in Keys /\ Export \in Keys /\ Changed # Export
  /\ \A u \in Users : Email(u) \in Keys /\ Email(u) # Changed /\ Email(u) # Export
  /\ \A h \in Hooks : Webhook(h) \in Keys /\ Webhook(h) # Changed /\ Webhook(h) # Export
  /\ \A u, v \in Users : Email(u) = Email(v) => u = v
  /\ \A g, h \in Hooks : Webhook(g) = Webhook(h) => g = h
  /\ \A u \in Users, h \in Hooks : Email(u) # Webhook(h)
BY DeliveriesAssumption DEF Changed, Export, Email, Webhook, Emails, Webhooks

Only(k) ==
  \A j \in Keys \ {k} : at'[j] = at[j] /\ task'[j] = task[j] /\ retried'[j] = retried[j]

LEMMA TakeTypes ==
  ASSUME Handlers, NEW k \in Keys, NEW step \in Steps \ {"idle"},
         Take(k), Goto(k, step)
  PROVE  /\ Handlers' /\ Only(k)
         /\ at[k] = "idle" /\ task[k] = "ready"
         /\ at'[k] = step /\ task'[k] = "active"
BY DEF Handlers, DeliveryTypeOK, Take, Goto, Only, TaskStates

LEMMA GotoTypes ==
  ASSUME Handlers, NEW k \in Keys, NEW step \in Steps \ {"idle"},
         at[k] # "idle", Goto(k, step), UNCHANGED <<task, retried>>
  PROVE  Handlers' /\ Only(k) /\ at'[k] = step /\ task'[k] = "active" /\ task[k] = "active"
BY DEF Handlers, DeliveryTypeOK, Goto, Only

LEMMA AckTypes ==
  ASSUME Handlers, NEW k \in Keys, Ack(k), Goto(k, "idle")
  PROVE  Handlers' /\ Only(k) /\ at'[k] = "idle" /\ task'[k] = "done"
BY DEF Handlers, DeliveryTypeOK, Ack, Goto, Only, TaskStates, Steps

LEMMA ReturnTypes ==
  ASSUME Handlers, NEW k \in Keys, Return(k)
  PROVE  /\ Handlers' /\ Only(k)
         /\ at'[k] = "idle" /\ task[k] = "active" /\ task'[k] \in {"ready", "archived"}
         /\ task'[k] = "archived" => retried[k] = MaxRetry
<1>1. task[k] = "active" /\ at' = [at EXCEPT ![k] = "idle"]
  BY DEF Return, GiveBack, Goto
<1>2. CASE /\ retried[k] < MaxRetry
           /\ task' = [task EXCEPT ![k] = "ready"]
           /\ retried' = [retried EXCEPT ![k] = @ + 1]
  BY <1>1, <1>2, DeliveriesAssumption DEF Handlers, DeliveryTypeOK, Only, TaskStates, Steps
<1>3. CASE /\ retried[k] = MaxRetry
           /\ task' = [task EXCEPT ![k] = "archived"]
           /\ UNCHANGED retried
  BY <1>1, <1>3 DEF Handlers, DeliveryTypeOK, Only, TaskStates, Steps
<1> QED  BY <1>2, <1>3 DEF Return, GiveBack

LEMMA PublishTypes ==
  ASSUME Handlers, UNCHANGED <<at, retried>>, task' \in [Keys -> TaskStates],
         \A j \in Keys : task'[j] = task[j] \/ (task[j] = "absent" /\ task'[j] = "ready")
  PROVE  Handlers'
BY DEF Handlers, DeliveryTypeOK, TaskStates

-----------------------------------------------------------------------------
(* What another job's step leaves as it is                                 *)

Fewer == steady' \subseteq steady

LEMMA ExportStays ==
  ASSUME ExportInv, UNCHANGED <<export, lost, outcome>>,
         at'[Export] = at[Export], task'[Export] = task[Export]
  PROVE  ExportInv'
BY Zenon DEF ExportInv, ScopeCoversObject, ExportEnds

LEMMA ChangedStays ==
  ASSUME ChangedInv, Fewer, UNCHANGED <<left, notices>>,
         at'[Changed] = at[Changed], task'[Changed] = task[Changed],
         \A h \in Hooks : task'[Webhook(h)] = "absent" => task[Webhook(h)] = "absent"
  PROVE  ChangedInv'
BY DEF ChangedInv, Fewer

LEMMA EmailStays ==
  ASSUME NEW u \in Users, EmailInv(u), Fewer, u \in steady' => wants'[u] = wants[u],
         notices'[u] = notices[u], u \in mailed => u \in mailed',
         at'[Email(u)] = at[Email(u)], task'[Email(u)] = task[Email(u)]
  PROVE  EmailInv(u)'
BY DEF EmailInv, Fewer

LEMMA WebhookStays ==
  ASSUME NEW h \in Hooks, WebhookInv(h), Fewer,
         UNCHANGED <<row, received>>, outcome'.hooks[h] = outcome.hooks[h],
         at'[Webhook(h)] = at[Webhook(h)], task'[Webhook(h)] = task[Webhook(h)]
  PROVE  WebhookInv(h)'
BY DEF WebhookInv, Fewer

LEMMA WorldStays ==
  ASSUME WorldTypes, SteadyInv, Fewer, UNCHANGED world
  PROVE  WorldTypes' /\ SteadyInv'
BY DEF WorldTypes, SteadyInv, Fewer, world

(* A step of the export's job and of nothing else.                         *)
LEMMA OnlyExport ==
  ASSUME IInv, Handlers', Only(Export), Exporting,
         outcome'.hooks = outcome.hooks
  PROVE  /\ WorldTypes' /\ ToldTypes' /\ SteadyInv'
         /\ ChangedInv' /\ (\A u \in Users : EmailInv(u)') /\ \A h \in Hooks : WebhookInv(h)'
<1> USE KeysAreApart
<1>1. Fewer /\ UNCHANGED <<world, notices, mailed, row, received, left, wants>>
  BY DEF Exporting, Fewer, told, world
<1>2. WorldTypes' /\ SteadyInv'
  BY <1>1, WorldStays DEF IInv
<1>3. ToldTypes'
  BY <1>1 DEF IInv, ToldTypes
<1>4. ChangedInv'
  BY <1>1, ChangedStays DEF IInv, JobsInv, Only
<1>5. ASSUME NEW u \in Users  PROVE EmailInv(u)'
  BY <1>1, EmailStays DEF IInv, JobsInv, Only
<1>6. ASSUME NEW h \in Hooks  PROVE WebhookInv(h)'
  BY <1>1, WebhookStays DEF IInv, JobsInv, Only
<1> QED  BY <1>2, <1>3, <1>4, <1>5, <1>6

LEMMA ReachIsProjects == WorldTypes => Reach \subseteq Projects
BY DEF WorldTypes, Reach

LEMMA ExportSteps == IInv /\ ExportJob => IInv'
<1> SUFFICES ASSUME IInv, ExportJob  PROVE IInv'
  OBVIOUS
<1> USE KeysAreApart
<1> DEFINE Moves == Handlers' /\ Only(Export) /\ Exporting /\ outcome'.hooks = outcome.hooks
<1>a. ASSUME Moves, JobTypes', ExportInv'  PROVE IInv'
  <2>1. /\ WorldTypes' /\ ToldTypes' /\ SteadyInv'
        /\ ChangedInv' /\ (\A u \in Users : EmailInv(u)') /\ \A h \in Hooks : WebhookInv(h)'
    BY <1>a, OnlyExport, Zenon
  <2> QED  BY <1>a, <2>1 DEF IInv, JobsInv
<1>b. export \in Exports /\ outcome \in Outcomes /\ left \subseteq Users \cup Hooks /\ lost \in BOOLEAN
  BY DEF IInv, JobTypes
<1>c. Handlers /\ ExportInv
  BY DEF IInv, JobsInv
<1>1. CASE StartExport
  <2>1. UNCHANGED <<export, lost, outcome>> /\ Exporting /\ Take(Export)
    BY <1>1 DEF StartExport, exports
  <2>2. PICK step \in {"accept", "process", "refuse"} :
          /\ Goto(Export, step)
          /\ step = "accept" <=> export.status = "completed"
    <3>1. \/ export.status = "completed" /\ Goto(Export, "accept")
          \/ export.status # "completed" /\ Goto(Export, "process")
          \/ export.status # "completed" /\ Goto(Export, "refuse")
      BY <1>1, Zenon DEF StartExport
    <3> QED  BY <3>1, Zenon
  <2>3. /\ Handlers' /\ Only(Export) /\ at'[Export] = step /\ task'[Export] = "active"
    BY <1>c, <2>1, <2>2, TakeTypes DEF Steps
  <2>4. ExportInv'
    BY <1>c, <2>1, <2>2, <2>3 DEF ExportInv, ScopeCoversObject, ExportEnds
  <2> QED  BY <1>a, <1>b, <2>1, <2>3, <2>4 DEF JobTypes, Exporting
<1>2. CASE RefuseExport
  <2>1. /\ at[Export] = "refuse" /\ Goto(Export, "accept") /\ UNCHANGED <<task, retried, outcome>>
        /\ Exporting
        /\ \/ export' = [export EXCEPT !.status = "failed"] /\ UNCHANGED lost
           \/ lost' = TRUE /\ UNCHANGED export
    BY <1>2 DEF RefuseExport
  <2>2. Handlers' /\ Only(Export) /\ at'[Export] = "accept" /\ task'[Export] = "active"
    BY <1>c, <2>1, GotoTypes DEF Steps
  <2>3. JobTypes'
    BY <1>b, <2>1 DEF JobTypes, Exports, Exporting
  <2>4. ExportInv'
    BY <1>b, <1>c, <2>1, <2>2 DEF ExportInv, ScopeCoversObject, ExportEnds, Exports
  <2> QED  BY <1>a, <2>1, <2>2, <2>3, <2>4
<1>3. CASE ProcessExport
  <2>1. /\ at[Export] = "process" /\ Goto(Export, "query") /\ UNCHANGED <<task, retried, lost, outcome>>
        /\ Exporting
        /\ export' = [export EXCEPT !.status = "processing"]
    BY <1>3 DEF ProcessExport
  <2>2. Handlers' /\ Only(Export) /\ at'[Export] = "query" /\ task'[Export] = "active"
    BY <1>c, <2>1, GotoTypes DEF Steps
  <2>3. JobTypes'
    BY <1>b, <2>1 DEF JobTypes, Exports, Exporting
  <2>4. ExportInv'
    BY <1>b, <1>c, <2>1, <2>2 DEF ExportInv, ScopeCoversObject, ExportEnds, Exports
  <2> QED  BY <1>a, <2>1, <2>2, <2>3, <2>4
<1>4. CASE QueryExport
  <2>1. /\ at[Export] = "query" /\ Goto(Export, "put") /\ UNCHANGED <<task, retried, export, lost>>
        /\ Exporting
    BY <1>4 DEF QueryExport, exports
  <2>2. PICK missed \in SUBSET Reach : outcome' = [outcome EXCEPT !.records = Reach \ missed]
    BY <1>4 DEF QueryExport
  <2>3. Handlers' /\ Only(Export) /\ at'[Export] = "put" /\ task'[Export] = "active"
    BY <1>c, <2>1, GotoTypes DEF Steps
  <2>4. outcome' \in Outcomes /\ outcome'.hooks = outcome.hooks
    BY <1>b, <2>2, ReachIsProjects DEF Outcomes, IInv
  <2>5. JobTypes'
    BY <1>b, <2>1, <2>4 DEF JobTypes, Exporting
  <2>6. ExportInv'
    BY <1>c, <2>1, <2>3 DEF ExportInv, ScopeCoversObject, ExportEnds
  <2> QED  BY <1>a, <2>1, <2>3, <2>4, <2>5, <2>6
<1>5. CASE DenyExport
  <2>1. /\ at[Export] = "query" /\ Goto(Export, "accept") /\ UNCHANGED <<task, retried, lost, outcome>>
        /\ Exporting
        /\ export' = [export EXCEPT !.status = "failed"]
    BY <1>5 DEF DenyExport
  <2>2. Handlers' /\ Only(Export) /\ at'[Export] = "accept" /\ task'[Export] = "active"
    BY <1>c, <2>1, GotoTypes DEF Steps
  <2>3. JobTypes'
    BY <1>b, <2>1 DEF JobTypes, Exports, Exporting
  <2>4. ExportInv'
    BY <1>b, <1>c, <2>1, <2>2 DEF ExportInv, ScopeCoversObject, ExportEnds, Exports
  <2> QED  BY <1>a, <2>1, <2>2, <2>3, <2>4
<1>6. CASE PutObject
  <2>1. /\ at[Export] = "put" /\ Goto(Export, "complete") /\ UNCHANGED <<task, retried, lost, outcome>>
        /\ Exporting
        /\ export' = [export EXCEPT !.object = outcome.records]
    BY <1>6 DEF PutObject
  <2>2. Handlers' /\ Only(Export) /\ at'[Export] = "complete" /\ task'[Export] = "active"
    BY <1>c, <2>1, GotoTypes DEF Steps
  <2>3. JobTypes'
    BY <1>b, <2>1 DEF JobTypes, Exports, Outcomes, Exporting
  <2>4. ExportInv'
    BY <1>b, <1>c, <2>1, <2>2 DEF ExportInv, ScopeCoversObject, ExportEnds, Exports
  <2> QED  BY <1>a, <2>1, <2>2, <2>3, <2>4
<1>7. CASE CompleteExport
  <2>1. /\ at[Export] = "complete" /\ UNCHANGED <<task, retried, lost, outcome>>
        /\ Exporting /\ export' = Completed
    BY <1>7 DEF CompleteExport
  <2>2. PICK step \in {"accept", "fail"} : Goto(Export, step)
    BY <1>7 DEF CompleteExport
  <2>3. Handlers' /\ Only(Export) /\ at'[Export] = step /\ task'[Export] = "active"
    BY <1>c, <2>1, <2>2, GotoTypes DEF Steps
  <2>4. JobTypes'
    BY <1>b, <2>1 DEF JobTypes, Exports, Outcomes, Exporting, Completed
  <2>5. ExportInv'
    BY <1>b, <1>c, <2>1, <2>3 DEF ExportInv, ScopeCoversObject, ExportEnds, Exports, Completed
  <2> QED  BY <1>a, <2>1, <2>3, <2>4, <2>5
<1>8. CASE FailExport
  <2>1. at[Export] = "fail" /\ UNCHANGED outcome /\ Exporting /\ Return(Export)
    BY <1>8 DEF FailExport
  <2>2. \/ export' = [export EXCEPT !.status = NextStatus] /\ lost' = lost
        \/ lost' = (lost \/ retried[Export] = MaxRetry) /\ export' = export
    BY <1>8 DEF FailExport
  <2>3. /\ Handlers' /\ Only(Export) /\ at'[Export] = "idle"
        /\ task'[Export] \in {"ready", "archived"}
        /\ task'[Export] = "archived" => retried[Export] = MaxRetry
    BY <1>c, <2>1, ReturnTypes
  <2>4. retried[Export] = MaxRetry => NextStatus = "failed"
    BY DeliveriesAssumption DEF NextStatus
  <2>5. NextStatus \in {"failed", "queued"}
    BY DEF NextStatus
  <2>6. JobTypes'
    BY <1>b, <2>1, <2>2, <2>5 DEF JobTypes, Exports, Exporting
  <2>7. ExportInv'
    BY <1>b, <1>c, <2>1, <2>2, <2>3, <2>4, <2>5 DEF ExportInv, ScopeCoversObject, ExportEnds, Exports
  <2> QED  BY <1>a, <2>1, <2>3, <2>6, <2>7
<1>9. CASE Accept(Export)
  <2>1. /\ at[Export] = "accept" /\ Ack(Export) /\ Goto(Export, "idle")
        /\ UNCHANGED <<export, lost, outcome>> /\ Exporting
    BY <1>9 DEF Accept, exports, Exporting
  <2>2. Handlers' /\ Only(Export) /\ at'[Export] = "idle" /\ task'[Export] = "done"
    BY <1>c, <2>1, AckTypes
  <2>3. ExportInv'
    BY <1>c, <2>1, <2>2 DEF ExportInv, ScopeCoversObject, ExportEnds
  <2> QED  BY <1>a, <1>b, <2>1, <2>2, <2>3 DEF JobTypes, Exporting
<1> QED
  BY <1>1, <1>2, <1>3, <1>4, <1>5, <1>6, <1>7, <1>8, <1>9 DEF ExportJob

-----------------------------------------------------------------------------
(* A step of another job, which leaves the export alone.                   *)
LEMMA NotExport ==
  ASSUME IInv, UNCHANGED <<exports, outcome>>,
         at'[Export] = at[Export], task'[Export] = task[Export],
         left' \subseteq Users \cup Hooks
  PROVE  JobTypes' /\ ExportInv'
BY ExportStays DEF IInv, JobsInv, JobTypes, exports

(* Rights change, and nobody becomes one who had a right all the time.     *)
LEMMA ChangeSteps == IInv /\ Changes => IInv'
<1> SUFFICES ASSUME IInv, Changes  PROVE IInv'
  OBVIOUS
<1> USE KeysAreApart
<1>a. WorldTypes /\ SteadyInv
  BY DEF IInv
<1>1. ASSUME NoStep, WorldTypes', SteadyInv', Fewer, \A u \in steady' \cap Users : wants'[u] = wants[u]
      PROVE  IInv'
  <2>1. UNCHANGED <<task, retried, at, left, outcome, notices, mailed, row, received, export, lost>>
    BY <1>1 DEF NoStep, told, exports
  <2>2. Handlers' /\ ToldTypes' /\ JobTypes'
    BY <2>1 DEF IInv, Handlers, DeliveryTypeOK, ToldTypes, JobTypes
  <2>3. ExportInv' /\ ChangedInv'
    BY <1>1, <2>1, ExportStays, ChangedStays DEF IInv, JobsInv
  <2>4. ASSUME NEW u \in Users  PROVE EmailInv(u)'
    BY <1>1, <2>1, EmailStays DEF IInv, JobsInv
  <2>5. ASSUME NEW h \in Hooks  PROVE WebhookInv(h)'
    BY <1>1, <2>1, WebhookStays DEF IInv, JobsInv
  <2> QED  BY <1>1, <2>2, <2>3, <2>4, <2>5 DEF IInv, JobsInv
<1>2. CASE RemoveItem
  BY <1>a, <1>1, <1>2, DeliveriesAssumption DEF RemoveItem, WorldTypes, SteadyInv, Fewer
<1>3. ASSUME NEW u \in Users, ChangeUser(u)  PROVE IInv'
  <2>1. /\ steady' = steady \ {u} /\ UNCHANGED <<item, live, member>> /\ NoStep
        /\ interested' \in {interested, Toggle(interested, u)}
        /\ readers' \in {readers, Toggle(readers, u)}
        /\ wants' = wants \/ \E w \in SUBSET {"in_app", "email"} : wants' = [wants EXCEPT ![u] = w]
    BY <1>3 DEF ChangeUser
  <2>2. Fewer /\ u \notin steady' /\ \A v \in steady' \cap Users : wants'[v] = wants[v]
    BY <1>a, <2>1 DEF WorldTypes, Fewer
  <2>3. wants' \in [Users -> SUBSET {"in_app", "email"}]
    BY <1>a, <2>1 DEF WorldTypes
  <2>4. \A v \in Users \ {u} : (v \in interested' <=> v \in interested) /\ (v \in readers' <=> v \in readers)
    BY <2>1 DEF Toggle
  <2>5. interested' \subseteq Users /\ readers' \subseteq Users
    BY <1>a, <2>1 DEF Toggle, WorldTypes
  <2>6. WorldTypes'
    BY <1>a, <2>1, <2>3, <2>5 DEF WorldTypes
  <2>7. SteadyInv'
    BY <1>a, <2>1, <2>2, <2>4 DEF SteadyInv
  <2> QED  BY <1>1, <2>1, <2>2, <2>6, <2>7
<1>4. ASSUME NEW h \in Hooks, ChangeHook(h)  PROVE IInv'
  <2>1. /\ steady' = steady \ {h} /\ live' = Toggle(live, h) /\ NoStep
        /\ UNCHANGED <<item, interested, readers, wants, member>>
    BY <1>4 DEF ChangeHook
  <2>2. WorldTypes' /\ Fewer
    BY <1>a, <2>1 DEF WorldTypes, Fewer, Toggle
  <2>3. SteadyInv'
    BY <1>a, <2>1 DEF SteadyInv, Toggle
  <2> QED  BY <1>1, <2>1, <2>2, <2>3
<1>5. ASSUME NEW p \in Projects \cup {Workspace}, ChangeMember(p)  PROVE IInv'
  <2>1. /\ member' = Toggle(member, p) /\ NoStep
        /\ UNCHANGED <<item, interested, readers, wants, live, steady>>
    BY <1>5 DEF ChangeMember
  <2>2. member' \subseteq Projects \cup {Workspace}
    BY <1>a, <2>1 DEF WorldTypes, Toggle
  <2>3. WorldTypes' /\ SteadyInv' /\ Fewer
    BY <1>a, <2>1, <2>2 DEF WorldTypes, SteadyInv, Fewer
  <2> QED  BY <1>1, <2>1, <2>3
<1> QED  BY <1>2, <1>3, <1>4, <1>5 DEF Changes

(* The process dies or a statement fails.                                  *)
LEMMA BreakSteps == ASSUME IInv, NEW k \in Keys, Break(k)  PROVE IInv'
<1> USE KeysAreApart
<1>1. /\ at[k] # "idle" /\ UNCHANGED <<world, notices, mailed, row, received, export, left, outcome, steady>>
      /\ \/ Return(k) /\ lost' = (lost \/ (k = Export /\ retried[k] = MaxRetry))
         \/ /\ k = Export /\ at[k] \notin {"refuse", "accept", "fail"}
            /\ Goto(k, "fail") /\ UNCHANGED <<task, retried, lost>>
  BY DEF Break, told
<1>2. /\ Handlers' /\ Only(k) /\ at'[k] \in {"idle", "fail"} /\ task[k] = "active"
      /\ task'[k] \in {"active", "ready", "archived"}
      /\ task'[k] = "archived" => retried[k] = MaxRetry
  BY <1>1, ReturnTypes, GotoTypes DEF IInv, Steps
<1>3. Fewer /\ WorldTypes' /\ SteadyInv' /\ ToldTypes'
  BY <1>1, WorldStays DEF IInv, Fewer, ToldTypes
<1>4. JobTypes'
  BY <1>1 DEF IInv, JobTypes
<1>5. ExportInv'
  <2>1. CASE k = Export
    <3>1. task'[k] = "archived" => lost'
      BY <1>1, <1>2, <2>1 DEF IInv, Handlers
    <3> QED  BY <1>1, <1>2, <2>1, <3>1 DEF IInv, JobsInv, ExportInv, ScopeCoversObject, ExportEnds
  <2>2. CASE k # Export
    <3>1. lost' = lost
      BY <1>1, <2>2 DEF IInv, JobTypes
    <3> QED  BY <1>1, <1>2, <2>2, <3>1, ExportStays DEF IInv, JobsInv, Only
  <2> QED  BY <2>1, <2>2
<1>6. \A j \in Keys : task'[j] = "absent" => task[j] = "absent"
  BY <1>2 DEF Only
<1>7. ChangedInv'
  <2>1. CASE k = Changed
    BY <1>1, <1>2, <1>6, <2>1 DEF IInv, JobsInv, ChangedInv
  <2>2. CASE k # Changed
    BY <1>1, <1>2, <1>3, <1>6, <2>2, ChangedStays DEF IInv, JobsInv, Only
  <2> QED  BY <2>1, <2>2
<1>8. ASSUME NEW u \in Users  PROVE EmailInv(u)'
  <2>1. wants' = wants
    BY <1>1 DEF world
  <2>2. CASE k = Email(u)
    BY <1>1, <1>2, <2>1, <2>2 DEF IInv, JobsInv, EmailInv
  <2>3. CASE k # Email(u)
    BY <1>1, <1>2, <1>3, <2>1, <2>3, EmailStays DEF IInv, JobsInv, Only
  <2> QED  BY <2>2, <2>3
<1>9. ASSUME NEW h \in Hooks  PROVE WebhookInv(h)'
  <2>1. CASE k = Webhook(h)
    BY <1>1, <1>2, <2>1 DEF IInv, JobsInv, WebhookInv
  <2>2. CASE k # Webhook(h)
    BY <1>1, <1>2, <1>3, <2>2, WebhookStays DEF IInv, JobsInv, Only
  <2> QED  BY <2>1, <2>2
<1> QED  BY <1>2, <1>3, <1>4, <1>5, <1>7, <1>8, <1>9 DEF IInv, JobsInv

(* A step of changedJob: it may publish events and make rows.              *)
LEMMA OnlyChanged ==
  ASSUME IInv, Handlers', Fewer,
         UNCHANGED <<world, mailed, row, received, exports, outcome>>,
         left' \subseteq Users \cup Hooks,
         notices' \in [Users -> {"none", "shown", "silent"}],
         \A j \in Keys \ {Changed} : at'[j] = at[j],
         task'[Export] = task[Export],
         \A j \in Keys \ {Changed} : task'[j] = task[j] \/ task'[j] = "ready",
         \A u \in Users :
           /\ task'[Email(u)] = task[Email(u)] \/ "email" \in wants[u]
           /\ task'[Email(u)] = "absent" => task[Email(u)] = "absent"
           /\ notices'[u] = "silent" => notices[u] = "silent" \/ task'[Email(u)] # "absent",
         ChangedInv'
  PROVE  IInv'
<1> USE KeysAreApart
<1>1. UNCHANGED <<wants, live, interested, readers, item, member, export, lost>>
  BY DEF world, exports
<1>2. WorldTypes' /\ SteadyInv' /\ ToldTypes'
  BY WorldStays DEF IInv, ToldTypes
<1>3. JobTypes' /\ ExportInv'
  BY NotExport
<1>4. ASSUME NEW u \in Users  PROVE EmailInv(u)'
  BY <1>1 DEF IInv, JobsInv, EmailInv, Fewer
<1>5. ASSUME NEW h \in Hooks  PROVE WebhookInv(h)'
  BY DEF IInv, JobsInv, WebhookInv, Fewer
<1> QED  BY <1>2, <1>3, <1>4, <1>5 DEF IInv, JobsInv

LEMMA NotifySteps == ASSUME IInv, NEW u \in Users, Notify(u)  PROVE IInv'
<1> USE KeysAreApart
<1>a. /\ at[Changed] = "notify" /\ u \in left /\ left' = left \ {u}
      /\ UNCHANGED <<retried, world, wants, readers, mailed, row, received, exports, at, outcome>>
  BY DEF Notify, world
<1>b. /\ Handlers /\ ToldTypes /\ SteadyInv /\ ChangedInv
      /\ left \subseteq Users \cup Hooks /\ task \in [Keys -> TaskStates]
      /\ wants[u] \subseteq {"in_app", "email"}
  BY DEF IInv, JobsInv, JobTypes, Handlers, DeliveryTypeOK, WorldTypes
<1>1. CASE u \in readers /\ wants[u] # {} /\ Noticed(u) /\ Judge
  <2>1. Fewer /\ steady' = steady
    BY <1>1 DEF Judge, Fewer
  <2>2. /\ notices' \in [Users -> {"none", "shown", "silent"}]
        /\ notices'[u] # "none"
        /\ \A v \in Users \ {u} : notices'[v] = notices[v]
        /\ notices'[u] = "silent" => notices[u] = "silent" \/ "in_app" \notin wants[u]
    BY <1>b, <1>1 DEF Noticed, ToldTypes
  <2>3. /\ "email" \notin wants[u] => task' = task
        /\ "email" \in wants[u] =>
             task' = [task EXCEPT ![Email(u)] = IF @ = "absent" THEN "ready" ELSE @]
    BY <1>b, <1>1 DEF Noticed, Published
  <2>4. /\ task' \in [Keys -> TaskStates]
        /\ \A j \in Keys : task'[j] = task[j] \/ (task[j] = "absent" /\ task'[j] = "ready")
        /\ \A j \in Keys \ {Email(u)} : task'[j] = task[j]
        /\ "email" \in wants[u] => task'[Email(u)] # "absent"
        /\ "email" \notin wants[u] => task'[Email(u)] = task[Email(u)]
    BY <1>b, <2>3 DEF TaskStates
  <2>5. Handlers'
    BY <1>a, <1>b, <2>4, PublishTypes
  <2>6. ChangedInv'
    BY <1>a, <1>b, <2>1, <2>2, <2>4 DEF ChangedInv
  <2>7. \A v \in Users :
          /\ task'[Email(v)] = task[Email(v)] \/ "email" \in wants[v]
          /\ task'[Email(v)] = "absent" => task[Email(v)] = "absent"
          /\ notices'[v] = "silent" => notices[v] = "silent" \/ task'[Email(v)] # "absent"
    BY <1>b, <1>1, <2>2, <2>4
  <2> QED  BY <1>a, <1>b, <2>1, <2>2, <2>4, <2>5, <2>6, <2>7, OnlyChanged
<1>2. CASE UNCHANGED <<notices, task>> /\ Fewer /\ u \notin steady'
  <2>1. ChangedInv'
    BY <1>a, <1>b, <1>2 DEF ChangedInv, Fewer
  <2>2. Handlers'
    BY <1>a, <1>b, <1>2 DEF Handlers, DeliveryTypeOK
  <2>3. notices \in [Users -> {"none", "shown", "silent"}]
    BY <1>b DEF ToldTypes
  <2> QED  BY <1>a, <1>b, <1>2, <2>1, <2>2, <2>3, OnlyChanged
<1>3. CASE ~(u \in readers /\ wants[u] # {}) /\ UNCHANGED <<notices, task>> /\ Judge
  BY <1>b, <1>2, <1>3 DEF Judge, SteadyInv, Fewer
<1>4. CASE u \in readers /\ Misjudge(u) /\ UNCHANGED <<notices, task>>
  BY <1>2, <1>4 DEF Misjudge, Fewer
<1> QED  BY <1>1, <1>3, <1>4 DEF Notify

LEMMA ChangedSteps == IInv /\ ChangedJob => IInv'
<1> SUFFICES ASSUME IInv, ChangedJob  PROVE IInv'
  OBVIOUS
<1> USE KeysAreApart
<1>a. /\ Handlers /\ SteadyInv /\ WorldTypes /\ ChangedInv /\ task \in [Keys -> TaskStates]
      /\ notices \in [Users -> {"none", "shown", "silent"}]
  BY DEF IInv, JobsInv, Handlers, DeliveryTypeOK, ToldTypes
<1>1. ASSUME Handlers', Only(Changed), left' \subseteq Users \cup Hooks, ChangedInv',
             UNCHANGED <<world, told, exports, outcome, steady>>
      PROVE  IInv'
  <2>1. UNCHANGED <<notices, mailed, row, received>> /\ Fewer
    BY <1>1 DEF told, Fewer
  <2> QED  BY <1>a, <1>1, <2>1, OnlyChanged DEF Only
<1>2. CASE StartChanged
  <2>1. UNCHANGED <<world, told, notices, exports, outcome, steady>>
    BY <1>2 DEF StartChanged, told
  <2>2. CASE item # "moved"
    <3>1. Begin(Changed, "notify") /\ left' = interested
      BY <1>2, <2>2 DEF StartChanged
    <3>2. Handlers' /\ Only(Changed) /\ at'[Changed] = "notify" /\ task'[Changed] = "active"
      BY <1>a, <3>1, TakeTypes DEF Begin, Steps
    <3>3. ChangedInv'
      BY <1>a, <2>1, <3>1, <3>2 DEF ChangedInv, SteadyInv
    <3> QED  BY <1>a, <1>1, <2>1, <3>1, <3>2, <3>3 DEF WorldTypes
  <2>3. CASE item = "moved"
    <3>1. Begin(Changed, "accept") /\ left' = {} /\ steady' = {}
      BY <1>a, <1>2, <2>1, <2>3 DEF StartChanged, SteadyInv
    <3>2. Handlers' /\ Only(Changed)
      BY <1>a, <3>1, TakeTypes DEF Begin, Steps
    <3>3. ChangedInv'
      BY <3>1 DEF ChangedInv
    <3> QED  BY <1>1, <2>1, <3>1, <3>2, <3>3
  <2> QED  BY <2>2, <2>3
<1>3. CASE ListHooks
  <2>1. /\ at[Changed] = "notify" /\ left = {} /\ left' = live /\ Goto(Changed, "hooks")
        /\ UNCHANGED <<task, retried, world, told, notices, exports, outcome, steady>>
    BY <1>3 DEF ListHooks, told
  <2>2. Handlers' /\ Only(Changed) /\ at'[Changed] = "hooks" /\ task'[Changed] = "active"
    BY <1>a, <2>1, GotoTypes DEF Steps
  <2>3. ChangedInv'
    BY <1>a, <2>1, <2>2 DEF ChangedInv, SteadyInv
  <2> QED  BY <1>a, <1>1, <2>1, <2>2, <2>3 DEF WorldTypes
<1>4. CASE PublishHooks
  <2>1. /\ at[Changed] = "hooks" /\ left' = {} /\ at' = [at EXCEPT ![Changed] = "accept"]
        /\ UNCHANGED <<retried, world, notices, mailed, row, received, exports, outcome>>
    BY <1>4 DEF PublishHooks, Goto, told
  <2>2. PICK missed \in SUBSET (left \cap live) :
          /\ task' = [k \in Keys |->
               IF \E h \in (left \cap live) \ missed : k = Webhook(h) THEN Published(k)[k] ELSE task[k]]
          /\ IF missed = {} THEN Judge ELSE Move /\ steady' = steady \ missed
    BY <1>4 DEF PublishHooks
  <2>3. Fewer /\ \A h \in missed : h \notin steady'
    BY <2>2 DEF Judge, Fewer
  <2>4. \A k \in Keys : Published(k)[k] = IF task[k] = "absent" THEN "ready" ELSE task[k]
    BY <1>a DEF Published
  <2>5. /\ task' \in [Keys -> TaskStates]
        /\ \A j \in Keys : task'[j] = task[j] \/ (task[j] = "absent" /\ task'[j] = "ready")
    BY <1>a, <2>2, <2>4 DEF TaskStates
  <2>6. \A h \in Hooks : h \in (left \cap live) \ missed => task'[Webhook(h)] # "absent"
    BY <2>2, <2>4
  <2>7. \A j \in Keys : (\A h \in Hooks : j # Webhook(h)) => task'[j] = task[j]
    BY <1>a, <2>2 DEF WorldTypes
  <2>8. task'[Export] = task[Export] /\ task'[Changed] = task[Changed]
        /\ \A u \in Users : task'[Email(u)] = task[Email(u)]
    BY <2>7
  <2>9. /\ Handlers' /\ at'[Changed] = "accept"
        /\ \A j \in Keys \ {Changed} : at'[j] = at[j]
    <3>1. at[Changed] = "hooks" /\ task[Changed] = "active" /\ at' \in [Keys -> Steps]
      BY <1>a, <2>1 DEF Handlers, Steps
    <3>2. \A k \in Keys : at'[k] # "idle" <=> task'[k] = "active"
      BY <1>a, <2>1, <2>5, <2>8, <3>1 DEF Handlers
    <3> QED  BY <1>a, <2>1, <2>5, <3>1, <3>2 DEF Handlers, DeliveryTypeOK
  <2>10. ChangedInv'
    <3>1. \A h \in steady' \cap Hooks : h \in (left \cap live) \ missed
      BY <1>a, <2>1, <2>3 DEF ChangedInv, SteadyInv, Fewer
    <3>2. \A h \in steady' \cap Hooks : task'[Webhook(h)] # "absent"
      BY <2>6, <3>1
    <3>3. \A u \in steady' \cap Users : notices'[u] # "none"
      BY <1>a, <2>1, <2>3 DEF ChangedInv, Fewer
    <3> QED  BY <2>9, <3>2, <3>3 DEF ChangedInv
  <2>11. UNCHANGED wants
    BY <2>1 DEF world
  <2> QED
    BY <1>a, <2>1, <2>3, <2>5, <2>8, <2>9, <2>10, OnlyChanged
<1>5. CASE Accept(Changed)
  <2>1. /\ at[Changed] = "accept" /\ Ack(Changed) /\ Goto(Changed, "idle")
        /\ UNCHANGED <<world, told, notices, exports, left, outcome, steady>>
    BY <1>5 DEF Accept, told
  <2>2. Handlers' /\ Only(Changed) /\ at'[Changed] = "idle" /\ task'[Changed] = "done"
    BY <1>a, <2>1, AckTypes
  <2>3. ChangedInv'
    BY <1>a, <2>1, <2>2 DEF ChangedInv, Only
  <2> QED  BY <1>1, <2>1, <2>2, <2>3 DEF IInv, JobTypes
<1>6. ASSUME NEW u \in Users, Notify(u)  PROVE IInv'
  BY <1>6, NotifySteps
<1> QED  BY <1>2, <1>3, <1>4, <1>5, <1>6 DEF ChangedJob

LEMMA EmailSteps == ASSUME IInv, NEW u \in Users, EmailJob(u)  PROVE IInv'
<1> USE KeysAreApart
<1>a. Handlers /\ SteadyInv /\ EmailInv(u) /\ left \subseteq Users \cup Hooks /\ ToldTypes
  BY DEF IInv, JobsInv, JobTypes
<1>1. ASSUME Handlers', Only(Email(u)), EmailInv(u)',
             mailed' = mailed \/ mailed' = mailed \cup {u},
             UNCHANGED <<world, notices, row, received, exports, left, outcome, steady>>
      PROVE  IInv'
  <2>1. Fewer /\ UNCHANGED wants
    BY <1>1 DEF Fewer, world
  <2>2. WorldTypes' /\ SteadyInv'
    BY <1>1, <2>1, WorldStays DEF IInv
  <2>3. ToldTypes' /\ \A v \in Users : v \in mailed => v \in mailed'
    BY <1>a, <1>1 DEF ToldTypes
  <2>4. JobTypes' /\ ExportInv'
    BY <1>a, <1>1, NotExport DEF Only
  <2>5. ChangedInv'
    BY <1>1, <2>1, ChangedStays DEF IInv, JobsInv, Only
  <2>6. ASSUME NEW v \in Users  PROVE EmailInv(v)'
    <3>1. CASE v = u
      BY <1>1, <3>1
    <3>2. CASE v # u
      BY <1>1, <2>1, <2>3, <3>2, EmailStays DEF IInv, JobsInv, Only
    <3> QED  BY <3>1, <3>2
  <2>7. ASSUME NEW h \in Hooks  PROVE WebhookInv(h)'
    BY <1>1, <2>1, WebhookStays DEF IInv, JobsInv, Only
  <2> QED  BY <1>1, <2>2, <2>3, <2>4, <2>5, <2>6, <2>7 DEF IInv, JobsInv
<1>2. CASE StartEmail(u)
  <2>1. PICK step \in {"send", "accept"} :
          /\ Begin(Email(u), step)
          /\ step = "accept" => item # "there" \/ u \notin readers \/ "email" \notin wants[u]
    <3>1. CASE item = "there" /\ u \in readers /\ "email" \in wants[u]
      BY <1>2, <3>1 DEF StartEmail
    <3>2. CASE ~(item = "there" /\ u \in readers /\ "email" \in wants[u])
      BY <1>2, <3>2 DEF StartEmail
    <3> QED  BY <3>1, <3>2
  <2>2. UNCHANGED <<world, notices, mailed, row, received, exports, left, outcome, steady, wants>>
    BY <1>2 DEF StartEmail, told, world
  <2>3. /\ Handlers' /\ Only(Email(u)) /\ task[Email(u)] = "ready"
        /\ at'[Email(u)] = step /\ task'[Email(u)] = "active"
    BY <1>a, <2>1, TakeTypes DEF Begin, Steps
  <2>4. EmailInv(u)'
    BY <1>a, <2>1, <2>2, <2>3 DEF EmailInv, SteadyInv
  <2> QED  BY <1>1, <2>2, <2>3, <2>4
<1>3. CASE SendEmail(u)
  <2>1. /\ at[Email(u)] = "send" /\ mailed' = mailed \cup {u} /\ Goto(Email(u), "accept")
        /\ UNCHANGED <<task, retried, world, notices, row, received, exports, left, outcome, steady, wants>>
    BY <1>3 DEF SendEmail, world
  <2>2. /\ Handlers' /\ Only(Email(u)) /\ at'[Email(u)] = "accept" /\ task'[Email(u)] = "active"
    BY <1>a, <2>1, GotoTypes DEF Steps
  <2>3. EmailInv(u)'
    BY <1>a, <2>1, <2>2 DEF EmailInv
  <2> QED  BY <1>1, <2>1, <2>2, <2>3
<1>4. CASE Accept(Email(u))
  <2>1. /\ at[Email(u)] = "accept" /\ Ack(Email(u)) /\ Goto(Email(u), "idle")
        /\ UNCHANGED <<world, notices, mailed, row, received, exports, left, outcome, steady, wants>>
    BY <1>4 DEF Accept, told, world
  <2>2. /\ Handlers' /\ Only(Email(u)) /\ at'[Email(u)] = "idle" /\ task'[Email(u)] = "done"
    BY <1>a, <2>1, AckTypes
  <2>3. task[Email(u)] # "absent"
    BY <2>1 DEF Ack
  <2>4. EmailInv(u)'
    BY <1>a, <2>1, <2>2, <2>3 DEF EmailInv
  <2> QED  BY <1>1, <2>1, <2>2, <2>4
<1> QED  BY <1>2, <1>3, <1>4 DEF EmailJob

LEMMA WebhookSteps == ASSUME IInv, NEW h \in Hooks, WebhookJob(h)  PROVE IInv'
<1> USE KeysAreApart
<1>a. /\ Handlers /\ SteadyInv /\ WebhookInv(h) /\ ToldTypes
      /\ outcome \in Outcomes /\ export \in Exports /\ lost \in BOOLEAN
      /\ left \subseteq Users \cup Hooks
  BY DEF IInv, JobsInv, JobTypes
<1>1. ASSUME Handlers', Only(Webhook(h)), WebhookInv(h)', Fewer,
             \E to \in {"none", "open", "delivered"} : row' = [row EXCEPT ![h] = to],
             received' = received \/ received' = [received EXCEPT ![h] = @ + 1],
             \E b \in BOOLEAN : outcome' = [outcome EXCEPT !.hooks[h] = b],
             UNCHANGED <<world, notices, mailed, exports, left>>
      PROVE  IInv'
  <2>1. UNCHANGED <<wants, export, lost>>
    BY <1>1 DEF world, exports
  <2>2. WorldTypes' /\ SteadyInv'
    BY <1>1, WorldStays DEF IInv
  <2>3. ToldTypes' /\ \A g \in Hooks \ {h} : row'[g] = row[g] /\ received'[g] = received[g]
    BY <1>a, <1>1 DEF ToldTypes
  <2>4. /\ outcome' \in Outcomes /\ outcome'.records = outcome.records
        /\ \A g \in Hooks \ {h} : outcome'.hooks[g] = outcome.hooks[g]
    BY <1>a, <1>1 DEF Outcomes
  <2>5. JobTypes'
    BY <1>a, <1>1, <2>1, <2>4 DEF JobTypes
  <2>6. ExportInv'
    BY <1>1, <2>1, <2>4 DEF IInv, JobsInv, ExportInv, ScopeCoversObject, ExportEnds, Only
  <2>7. task[Webhook(h)] # "absent" \/ task'[Webhook(h)] = task[Webhook(h)] \/ task'[Webhook(h)] # "absent"
    OBVIOUS
  <2>8. task'[Webhook(h)] = "absent" => task[Webhook(h)] = "absent"
    BY DEF WebhookJob, StartWebhook, Post, Record, Accept, Take, Ack, Return, GiveBack,
           IInv, Handlers, DeliveryTypeOK
  <2>9. ChangedInv'
    BY <1>1, <2>8, ChangedStays DEF IInv, JobsInv, Only
  <2>10. ASSUME NEW u \in Users  PROVE EmailInv(u)'
    BY <1>1, <2>1, EmailStays DEF IInv, JobsInv, Only
  <2>11. ASSUME NEW g \in Hooks  PROVE WebhookInv(g)'
    <3>1. CASE g = h
      BY <1>1, <3>1
    <3>2. CASE g # h
      BY <1>1, <2>3, <2>4, <3>2 DEF IInv, JobsInv, WebhookInv, Only, Fewer
    <3> QED  BY <3>1, <3>2
  <2> QED  BY <1>1, <2>2, <2>3, <2>5, <2>6, <2>9, <2>10, <2>11 DEF IInv, JobsInv
<1>b. /\ row = [row EXCEPT ![h] = row[h]] /\ row[h] \in {"none", "open", "delivered"}
      /\ outcome = [outcome EXCEPT !.hooks[h] = outcome.hooks[h]] /\ outcome.hooks[h] \in BOOLEAN
      /\ received[h] \in Nat
  BY <1>a DEF ToldTypes, Outcomes
<1>2. CASE StartWebhook(h)
  <2>1. Take(Webhook(h)) /\ UNCHANGED <<world, notices, mailed, received, exports, left, outcome>>
    BY <1>2 DEF StartWebhook, exports
  <2>2. CASE /\ h \in live /\ ~Delivered(h) /\ Judge
             /\ row' = [row EXCEPT ![h] = "open"]
             /\ Goto(Webhook(h), "post")
    <3>1. Handlers' /\ Only(Webhook(h)) /\ at'[Webhook(h)] = "post" /\ task'[Webhook(h)] = "active"
      BY <1>a, <2>1, <2>2, TakeTypes DEF Steps
    <3>2. Fewer /\ row'[h] = "open"
      BY <1>a, <2>2 DEF Judge, Fewer, ToldTypes
    <3>3. WebhookInv(h)'
      BY <2>1, <3>1, <3>2 DEF WebhookInv
    <3> QED  BY <1>1, <1>b, <2>1, <2>2, <3>1, <3>2, <3>3
  <2>3. CASE Goto(Webhook(h), "accept") /\ row' = row /\ Fewer /\ (Delivered(h) \/ h \notin steady')
    <3>1. Handlers' /\ Only(Webhook(h)) /\ at'[Webhook(h)] = "accept" /\ task'[Webhook(h)] = "active"
      BY <1>a, <2>1, <2>3, TakeTypes DEF Steps
    <3>2. WebhookInv(h)'
      BY <1>a, <2>1, <2>3, <3>1 DEF WebhookInv, Delivered
    <3> QED  BY <1>1, <1>b, <2>1, <2>3, <3>1, <3>2
  <2>4. CASE (h \notin live \/ Delivered(h)) /\ Judge /\ Goto(Webhook(h), "accept") /\ row' = row
    BY <1>a, <2>3, <2>4 DEF Judge, Fewer, SteadyInv
  <2>5. CASE Misjudge(h) /\ Goto(Webhook(h), "accept") /\ row' = row
    BY <2>3, <2>5 DEF Misjudge, Fewer
  <2> QED  BY <1>2, <2>2, <2>4, <2>5 DEF StartWebhook
<1>3. CASE Post(h)
  <2>1. /\ at[Webhook(h)] = "post" /\ Goto(Webhook(h), "record")
        /\ UNCHANGED <<task, retried, world, notices, mailed, row, exports, left, steady>>
    BY <1>3 DEF Post
  <2>2. PICK b \in BOOLEAN :
          /\ outcome' = [outcome EXCEPT !.hooks[h] = b]
          /\ received' = received \/ received' = [received EXCEPT ![h] = @ + 1]
          /\ b => received' = [received EXCEPT ![h] = @ + 1]
    BY <1>3 DEF Post
  <2>3. /\ Handlers' /\ Only(Webhook(h)) /\ at'[Webhook(h)] = "record" /\ task'[Webhook(h)] = "active"
    BY <1>a, <2>1, GotoTypes DEF Steps
  <2>4. Fewer
    BY <2>1 DEF Fewer
  <2>5. outcome'.hooks[h] = b /\ (b => received'[h] > 0) /\ row[h] # "delivered"
    BY <1>a, <1>b, <2>1, <2>2 DEF Outcomes, ToldTypes, WebhookInv
  <2>6. WebhookInv(h)'
    BY <2>1, <2>3, <2>5 DEF WebhookInv
  <2> QED  BY <1>1, <1>b, <2>1, <2>2, <2>3, <2>4, <2>6
<1>4. CASE Record(h)
  <2>1. /\ at[Webhook(h)] = "record"
        /\ UNCHANGED <<world, notices, mailed, received, exports, left, outcome, steady>>
    BY <1>4 DEF Record
  <2>2. Fewer
    BY <2>1 DEF Fewer
  <2>3. CASE /\ outcome.hooks[h] /\ row' = [row EXCEPT ![h] = "delivered"]
             /\ Goto(Webhook(h), "accept") /\ UNCHANGED <<task, retried>>
    <3>1. Handlers' /\ Only(Webhook(h)) /\ at'[Webhook(h)] = "accept" /\ task'[Webhook(h)] = "active"
      BY <1>a, <2>1, <2>3, GotoTypes DEF Steps
    <3>2. row'[h] = "delivered" /\ received'[h] > 0
      BY <1>a, <2>1, <2>3 DEF WebhookInv, ToldTypes
    <3>3. WebhookInv(h)'
      BY <3>1, <3>2 DEF WebhookInv
    <3> QED  BY <1>1, <1>b, <2>1, <2>2, <2>3, <3>1, <3>3
  <2>4. CASE /\ row' = [row EXCEPT ![h] = "open"] /\ Return(Webhook(h))
    <3>1. Handlers' /\ Only(Webhook(h)) /\ at'[Webhook(h)] = "idle" /\ task'[Webhook(h)] \in {"ready", "archived"}
      BY <1>a, <2>4, ReturnTypes
    <3>2. row'[h] = "open"
      BY <1>a, <2>4 DEF ToldTypes
    <3>3. WebhookInv(h)'
      BY <3>1, <3>2 DEF WebhookInv
    <3> QED  BY <1>1, <1>b, <2>1, <2>2, <2>4, <3>1, <3>3
  <2> QED  BY <1>4, <2>3, <2>4 DEF Record
<1>5. CASE Accept(Webhook(h))
  <2>1. /\ at[Webhook(h)] = "accept" /\ Ack(Webhook(h)) /\ Goto(Webhook(h), "idle")
        /\ UNCHANGED <<world, notices, mailed, row, received, exports, left, outcome, steady>>
    BY <1>5 DEF Accept, told
  <2>2. /\ Handlers' /\ Only(Webhook(h)) /\ at'[Webhook(h)] = "idle" /\ task'[Webhook(h)] = "done"
    BY <1>a, <2>1, AckTypes
  <2>3. WebhookInv(h)' /\ Fewer
    BY <1>a, <2>1, <2>2 DEF WebhookInv, Fewer
  <2> QED  BY <1>1, <1>b, <2>1, <2>2, <2>3
<1> QED  BY <1>2, <1>3, <1>4, <1>5 DEF WebhookJob

-----------------------------------------------------------------------------
LEMMA InvInit == Init => IInv
<1> SUFFICES ASSUME Init  PROVE IInv
  OBVIOUS
<1> USE KeysAreApart DEF Init
<1>1. Handlers
  BY DeliveriesAssumption DEF Handlers, DeliveryTypeOK, TaskStates, Steps
<1>2. wants \in [Users -> SUBSET {"in_app", "email"}]
  OBVIOUS
<1>3. WorldTypes
  BY <1>2 DEF WorldTypes
<1>4. ToldTypes /\ JobTypes
  BY DEF ToldTypes, JobTypes, Exports, Outcomes
<1>5. SteadyInv
  BY DeliveriesAssumption DEF SteadyInv
<1>6. task[Export] \in {"ready", "absent"} /\ task[Changed] \in {"ready", "absent"}
      /\ (\A u \in Users : task[Email(u)] = "absent") /\ \A h \in Hooks : task[Webhook(h)] = "absent"
  OBVIOUS
<1>7. ExportInv /\ ChangedInv
  BY <1>6 DEF ExportInv, ChangedInv, ScopeCoversObject, ExportEnds
<1>8. ASSUME NEW u \in Users  PROVE EmailInv(u)
  BY <1>6 DEF EmailInv
<1>9. ASSUME NEW h \in Hooks  PROVE WebhookInv(h)
  BY <1>6 DEF WebhookInv
<1> QED  BY <1>1, <1>3, <1>4, <1>5, <1>7, <1>8, <1>9 DEF IInv, JobsInv

LEMMA InvStep == IInv /\ [Next]_vars => IInv'
<1> SUFFICES ASSUME IInv, [Next]_vars  PROVE IInv'
  OBVIOUS
<1>1. CASE UNCHANGED vars
  BY <1>1 DEF vars, world, told, exports, IInv, JobsInv, Handlers, DeliveryTypeOK, WorldTypes,
              ToldTypes, JobTypes, SteadyInv, ExportInv, ScopeCoversObject, ExportEnds,
              ChangedInv, EmailInv, WebhookInv
<1> QED
  BY <1>1, ChangeSteps, ChangedSteps, ExportSteps, EmailSteps, WebhookSteps, BreakSteps DEF Next

LEMMA InvHolds == Spec => []IInv
BY InvInit, InvStep, PTL DEF Spec

(* Types, and a handler is at work on exactly the events that are taken.   *)
THEOREM DeliveriesTypes == Spec => []TypeOK
<1>1. IInv => TypeOK
  BY DEF IInv, TypeOK, Handlers, WorldTypes, ToldTypes, JobTypes, Outcomes, Exports
<1> QED  BY <1>1, InvHolds, PTL

(* Nobody with a right to be told is left out, however often the handlers  *)
(* fail, die and begin again (changedJob, emailJob, sendWebhook).          *)
THEOREM DeliveriesForgetNobody == Spec => []NobodyIsForgotten
<1>1. IInv => NobodyIsForgotten
  <2> SUFFICES ASSUME IInv  PROVE NobodyIsForgotten
    OBVIOUS
  <2>1. ChangedInv /\ (\A u \in Users : EmailInv(u)) /\ \A h \in Hooks : WebhookInv(h)
    BY DEF IInv, JobsInv
  <2> QED  BY <2>1 DEF NobodyIsForgotten, ChangedInv, EmailInv, WebhookInv
<1> QED  BY <1>1, InvHolds, PTL

(* The recorded scope covers the stored object (exportJob).                *)
THEOREM ExportScopeHolds == Spec => []ScopeCoversObject
<1>1. IInv => ScopeCoversObject
  BY DEF IInv, JobsInv, ExportInv
<1> QED  BY <1>1, InvHolds, PTL

(* An export whose task is over says so (exportJob's deferred UPDATE).     *)
THEOREM ExportsEnd == Spec => []ExportEnds
<1>1. IInv => ExportEnds
  BY DEF IInv, JobsInv, ExportInv
<1> QED  BY <1>1, InvHolds, PTL

-----------------------------------------------------------------------------
(* What one step does to what is recorded as done.                         *)
Final ==
  /\ \A h \in Hooks : row[h] = "delivered" =>
       row'[h] = "delivered" /\ received'[h] = received[h]
  /\ export.status = "completed" => export' = export \/ at[Export] = "fail"

LEMMA FinalStep == IInv /\ [Next]_vars => [Final]_vars
<1> SUFFICES ASSUME IInv, Next  PROVE Final
  OBVIOUS
<1>a. ExportInv /\ (\A h \in Hooks : WebhookInv(h)) /\ ToldTypes
  BY DEF IInv, JobsInv
<1>1. CASE UNCHANGED <<row, received, export>>
  BY <1>1 DEF Final
<1>2. CASE ExportJob
  <2>1. UNCHANGED <<row, received>>
    BY <1>2 DEF ExportJob, StartExport, RefuseExport, ProcessExport, QueryExport, DenyExport,
                PutObject, CompleteExport, FailExport, Accept, Exporting, told
  <2>2. export.status = "completed" => export' = export \/ at[Export] = "fail"
    BY <1>a, <1>2 DEF ExportInv, ExportJob, StartExport, RefuseExport, ProcessExport, QueryExport,
                      DenyExport, PutObject, CompleteExport, FailExport, Accept, exports
  <2> QED  BY <2>1, <2>2 DEF Final
<1>3. ASSUME NEW h \in Hooks, WebhookJob(h)  PROVE Final
  <2>1. export' = export
    BY <1>3 DEF WebhookJob, StartWebhook, Post, Record, Accept, exports
  <2>2. \A g \in Hooks \ {h} : row'[g] = row[g] /\ received'[g] = received[g]
    BY <1>a, <1>3 DEF WebhookJob, StartWebhook, Post, Record, Accept, told, ToldTypes
  <2>3. row[h] = "delivered" => row'[h] = row[h] /\ received'[h] = received[h]
    BY <1>a, <1>3 DEF WebhookJob, StartWebhook, Post, Record, Accept, told, WebhookInv, Delivered
  <2> QED  BY <2>1, <2>2, <2>3 DEF Final
<1>4. CASE Changes
  BY <1>1, <1>4 DEF Changes, RemoveItem, ChangeUser, ChangeHook, ChangeMember, NoStep, told, exports
<1>5. CASE ChangedJob
  BY <1>1, <1>5 DEF ChangedJob, StartChanged, ListHooks, PublishHooks, Notify, Accept, told, exports
<1>6. ASSUME NEW u \in Users, EmailJob(u)  PROVE Final
  BY <1>1, <1>6 DEF EmailJob, StartEmail, SendEmail, Accept, told, exports
<1>7. ASSUME NEW k \in Keys, Break(k)  PROVE Final
  BY <1>1, <1>7 DEF Break, told
<1> QED  BY <1>2, <1>3, <1>4, <1>5, <1>6, <1>7 DEF Next

(* What is delivered is not sent again, and what is completed stays (the   *)
(* first lines of sendWebhook and exportJob), except by the attempt that   *)
(* did not hear of its own success.                                        *)
THEOREM RecordedStays == Spec => RecordedIsFinal
<1>1. RecordedIsFinal <=> [][Final]_vars
  BY Zenon DEF RecordedIsFinal, Final
<1> QED  BY <1>1, FinalStep, InvHolds, PTL DEF Spec

-----------------------------------------------------------------------------
(* Every request that a receiver has had was an attempt of its own: the    *)
(* attempts given back, and the one that is past its request.              *)
Spent(k) == at[k] \in {"record", "accept"} \/ task[k] \in {"done", "archived"}

TriesInv(h) == received[h] <= retried[Webhook(h)] + (IF Spent(Webhook(h)) THEN 1 ELSE 0)

(* No step of the queue or of a handler takes an attempt back.             *)
NoTryIsTakenBack(k) ==
  \/ retried'[k] = retried[k] /\ (Spent(k) => Spent(k)')
  \/ retried'[k] = retried[k] + 1

LEMMA TakeKeepsTries ==
  ASSUME Handlers, NEW j \in Keys, NEW k \in Keys, NEW step \in Steps, Take(k), Goto(k, step)
  PROVE  NoTryIsTakenBack(j)
BY DEF Handlers, DeliveryTypeOK, Take, Goto, Spent, NoTryIsTakenBack

LEMMA GotoKeepsTries ==
  ASSUME Handlers, NEW j \in Keys, NEW k \in Keys, NEW step \in Steps, Goto(k, step),
         UNCHANGED <<task, retried>>,
         j # k \/ at[k] \notin {"record", "accept"} \/ step = "accept"
  PROVE  NoTryIsTakenBack(j)
BY DEF Handlers, DeliveryTypeOK, Goto, Spent, NoTryIsTakenBack

LEMMA AckKeepsTries ==
  ASSUME Handlers, NEW j \in Keys, NEW k \in Keys, Ack(k), Goto(k, "idle")
  PROVE  NoTryIsTakenBack(j)
BY DEF Handlers, DeliveryTypeOK, Ack, Goto, Spent, NoTryIsTakenBack

LEMMA ReturnKeepsTries ==
  ASSUME Handlers, NEW j \in Keys, NEW k \in Keys, Return(k)
  PROVE  NoTryIsTakenBack(j)
<1>1. task[k] = "active" /\ at' = [at EXCEPT ![k] = "idle"]
  BY DEF Return, GiveBack, Goto
<1>2. CASE /\ task' = [task EXCEPT ![k] = "ready"]
           /\ retried' = [retried EXCEPT ![k] = @ + 1]
  BY <1>1, <1>2 DEF Handlers, DeliveryTypeOK, Spent, NoTryIsTakenBack
<1>3. CASE task' = [task EXCEPT ![k] = "archived"] /\ UNCHANGED retried
  BY <1>1, <1>3 DEF Handlers, DeliveryTypeOK, Spent, NoTryIsTakenBack
<1> QED  BY <1>2, <1>3 DEF Return, GiveBack

LEMMA PublishKeepsTries ==
  ASSUME Handlers, NEW j \in Keys, UNCHANGED retried,
         at'[j] = at[j], task'[j] = task[j] \/ task[j] = "absent"
  PROVE  NoTryIsTakenBack(j)
BY DEF Handlers, Steps, Spent, NoTryIsTakenBack

LEMMA TriesStay ==
  ASSUME IInv, NEW h \in Hooks, TriesInv(h), received'[h] = received[h],
         NoTryIsTakenBack(Webhook(h))
  PROVE  TriesInv(h)'
<1>1. retried[Webhook(h)] \in Nat /\ received[h] \in Nat
  BY KeysAreApart DEF IInv, Handlers, DeliveryTypeOK, ToldTypes
<1> QED  BY <1>1 DEF TriesInv, NoTryIsTakenBack

LEMMA TriesStep == ASSUME IInv, NEW h \in Hooks, TriesInv(h), [Next]_vars  PROVE TriesInv(h)'
<1> USE KeysAreApart
<1> DEFINE k == Webhook(h)
<1>a. Handlers /\ received \in [Hooks -> Nat]
  BY DEF IInv, ToldTypes
<1>b. "idle" \in Steps /\ k \in Keys
  BY DEF Steps
<1>c. ASSUME UNCHANGED <<task, retried, at, received>>  PROVE TriesInv(h)'
  BY <1>c DEF TriesInv, Spent
<1>1. CASE UNCHANGED vars
  BY <1>1, <1>c DEF vars, told
<1>2. CASE Changes
  BY <1>2, <1>c DEF Changes, RemoveItem, ChangeUser, ChangeHook, ChangeMember, NoStep, told
<1>3. CASE ChangedJob
  <2>1. received' = received
    BY <1>3 DEF ChangedJob, StartChanged, ListHooks, PublishHooks, Notify, Accept, told
  <2>2. NoTryIsTakenBack(k)
    <3>1. CASE StartChanged
      BY <1>a, <3>1, TakeKeepsTries DEF StartChanged, Begin, Steps
    <3>2. CASE ListHooks
      BY <1>a, <3>2, GotoKeepsTries DEF ListHooks, Steps
    <3>3. CASE PublishHooks
      <4>1. UNCHANGED retried /\ at' = [at EXCEPT ![Changed] = "accept"]
        BY <3>3 DEF PublishHooks, Goto
      <4>2. task'[k] = task[k] \/ task'[k] = Published(k)[k]
        BY <3>3 DEF PublishHooks
      <4>3. task'[k] = task[k] \/ task[k] = "absent"
        BY <4>2 DEF Published
      <4> QED  BY <1>a, <4>1, <4>3, PublishKeepsTries DEF Handlers
    <3>4. CASE Accept(Changed)
      BY <1>a, <3>4, AckKeepsTries DEF Accept
    <3>5. ASSUME NEW u \in Users, Notify(u)  PROVE NoTryIsTakenBack(k)
      BY <1>a, <3>5, PublishKeepsTries DEF Notify, Noticed, Published, Handlers, DeliveryTypeOK
    <3> QED  BY <1>3, <3>1, <3>2, <3>3, <3>4, <3>5 DEF ChangedJob
  <2> QED  BY <2>1, <2>2, TriesStay
<1>4. CASE ExportJob
  <2>1. received' = received
    BY <1>4 DEF ExportJob, StartExport, RefuseExport, ProcessExport, QueryExport, DenyExport,
                PutObject, CompleteExport, FailExport, Accept, Exporting, told
  <2>2. CASE StartExport
    BY <1>a, <2>1, <2>2, TakeKeepsTries, TriesStay DEF StartExport, Steps
  <2>3. CASE FailExport
    BY <1>a, <2>1, <2>3, ReturnKeepsTries, TriesStay DEF FailExport
  <2>4. CASE Accept(Export)
    BY <1>a, <2>1, <2>4, AckKeepsTries, TriesStay DEF Accept
  <2>5. CASE RefuseExport \/ ProcessExport \/ QueryExport \/ DenyExport \/ PutObject \/ CompleteExport
    <3>1. UNCHANGED <<task, retried>> /\ \E step \in Steps : Goto(Export, step)
      BY <2>5 DEF RefuseExport, ProcessExport, QueryExport, DenyExport, PutObject,
                  CompleteExport, Steps
    <3> QED  BY <1>a, <2>1, <3>1, GotoKeepsTries, TriesStay
  <2> QED  BY <1>4, <2>2, <2>3, <2>4, <2>5 DEF ExportJob
<1>5. ASSUME NEW u \in Users, EmailJob(u)  PROVE TriesInv(h)'
  <2>1. received' = received
    BY <1>5 DEF EmailJob, StartEmail, SendEmail, Accept, told
  <2>2. CASE StartEmail(u)
    BY <1>a, <2>1, <2>2, TakeKeepsTries, TriesStay DEF StartEmail, Begin, Steps
  <2>3. CASE SendEmail(u)
    BY <1>a, <2>1, <2>3, GotoKeepsTries, TriesStay DEF SendEmail, Steps
  <2>4. CASE Accept(Email(u))
    BY <1>a, <2>1, <2>4, AckKeepsTries, TriesStay DEF Accept
  <2> QED  BY <1>5, <2>2, <2>3, <2>4 DEF EmailJob
<1>6. ASSUME NEW g \in Hooks, WebhookJob(g)  PROVE TriesInv(h)'
  <2>1. CASE StartWebhook(g)
    <3>1. Take(Webhook(g)) /\ received' = received /\ \E step \in Steps : Goto(Webhook(g), step)
      BY <2>1 DEF StartWebhook, Steps
    <3> QED  BY <1>a, <3>1, TakeKeepsTries, TriesStay
  <2>2. CASE Post(g)
    <3>1. /\ at[Webhook(g)] = "post" /\ Goto(Webhook(g), "record") /\ UNCHANGED <<task, retried>>
          /\ received' = received \/ received' = [received EXCEPT ![g] = @ + 1]
      BY <2>2 DEF Post
    <3>2. CASE g # h
      BY <1>a, <3>1, <3>2, GotoKeepsTries, TriesStay DEF Steps
    <3>3. CASE g = h
      <4>1. ~Spent(k) /\ Spent(k)' /\ retried'[k] = retried[k] /\ retried[k] \in Nat
        BY <1>a, <3>1, <3>3 DEF Spent, Goto, Handlers, DeliveryTypeOK
      <4>2. received'[h] <= received[h] + 1 /\ received[h] \in Nat /\ received'[h] \in Nat
        BY <1>a, <3>1, <3>3
      <4> QED  BY <4>1, <4>2 DEF TriesInv
    <3> QED  BY <3>2, <3>3
  <2>3. CASE Record(g)
    <3>1. received' = received
      BY <2>3 DEF Record
    <3>2. CASE Goto(Webhook(g), "accept") /\ UNCHANGED <<task, retried>>
      BY <1>a, <3>1, <3>2, GotoKeepsTries, TriesStay DEF Steps
    <3>3. CASE Return(Webhook(g))
      BY <1>a, <3>1, <3>3, ReturnKeepsTries, TriesStay
    <3> QED  BY <2>3, <3>2, <3>3 DEF Record
  <2>4. CASE Accept(Webhook(g))
    BY <1>a, <2>4, AckKeepsTries, TriesStay DEF Accept, told
  <2> QED  BY <1>6, <2>1, <2>2, <2>3, <2>4 DEF WebhookJob
<1>7. ASSUME NEW j \in Keys, Break(j)  PROVE TriesInv(h)'
  <2>1. received' = received
    BY <1>7 DEF Break, told
  <2>2. CASE Return(j)
    BY <1>a, <2>1, <2>2, ReturnKeepsTries, TriesStay
  <2>3. CASE j = Export /\ Goto(j, "fail") /\ UNCHANGED <<task, retried>>
    BY <1>a, <2>1, <2>3, GotoKeepsTries, TriesStay DEF Steps
  <2> QED  BY <1>7, <2>2, <2>3 DEF Break
<1> QED  BY <1>1, <1>2, <1>3, <1>4, <1>5, <1>6, <1>7 DEF Next

(* What a receiver gets twice is paid for: a webhook has had at most one   *)
(* request more than attempts of sendWebhook were given back to the queue, *)
(* so never more than the retries and one, wherever an answer or a process *)
(* was lost on the way.                                                    *)
THEOREM DuplicatesAreBounded ==
  Spec => [](\A h \in Hooks : /\ received[h] <= retried[Webhook(h)] + 1
                             /\ received[h] <= MaxRetry + 1)
<1> DEFINE Tries == \A h \in Hooks : TriesInv(h)
           Bounded == \A h \in Hooks : /\ received[h] <= retried[Webhook(h)] + 1
                                      /\ received[h] <= MaxRetry + 1
<1>1. Init => Tries
  BY KeysAreApart DEF Init, TriesInv, Spent
<1>2. IInv /\ Tries /\ [Next]_vars => Tries'
  BY TriesStep
<1>3. IInv /\ Tries => Bounded
  <2> SUFFICES ASSUME IInv, Tries, NEW h \in Hooks
               PROVE  received[h] <= retried[Webhook(h)] + 1 /\ received[h] <= MaxRetry + 1
    OBVIOUS
  <2>1. retried[Webhook(h)] \in 0 .. MaxRetry /\ received[h] \in Nat /\ MaxRetry \in Nat
    BY KeysAreApart, DeliveriesAssumption DEF IInv, Handlers, DeliveryTypeOK, ToldTypes
  <2>2. received[h] <= retried[Webhook(h)] + (IF Spent(Webhook(h)) THEN 1 ELSE 0)
    BY DEF TriesInv
  <2> QED  BY <2>1, <2>2
<1> QED  BY <1>1, <1>2, <1>3, InvHolds, PTL DEF Spec
=============================================================================
