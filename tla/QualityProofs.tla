---------------------------- MODULE QualityProofs ----------------------------
(***************************************************************************)
(* Proofs about QualitySync, for any number of requests, sources, findings *)
(* and administrators.                                                     *)
(*                                                                         *)
(* A repair walks over the findings of its report.  Walks says what is     *)
(* behind it wherever it is: every finding it has passed has an answer,    *)
(* and an answer it is about to record as "applied" is that of an item     *)
(* which is linked already.  Followed says of a request that its event is  *)
(* with its handler, or was accepted once the request was settled.         *)
(***************************************************************************)
EXTENDS QualitySync, TLAPS

RequestRows == [status : RequestStatuses, source : Sources \cup {None},
                report : Reports \cup {None}]

Syncs == [pc : SyncSteps, by : Users \cup {None}, cause : Causes, at : Nat]

Repairs == [pc : RepairSteps, by : Users \cup {None}, next : 1 .. FindingCount + 1,
            old : RepairKeys \cup {None}, answer : Answers]

Actions == [status : Answers, run : RepairKeys \cup {None}]

(* The binding and the reports.                                            *)
BindingInv ==
  /\ binding \in Bindings
  /\ revoked \subseteq Installations
  /\ reports \subseteq Reports /\ committed \subseteq Reports \X Nat
  /\ LatestIsNewest /\ RevokedStaysOut

ProjectTypes ==
  /\ admins \subseteq Users /\ enabled \in BOOLEAN /\ docs \in 0 .. MaxDocs
  /\ sourceAt \in [Sources -> Nat]
  /\ asking \in [by : Users \cup {None}, cause : Causes]

(* The requests; one that an event or a handler speaks of is there.        *)
SyncInv ==
  /\ Queue!DeliveryTypeOK
  /\ request \in [Requests -> RequestRows]
  /\ syncing \in [Requests -> Syncs]
  /\ \A q \in Requests :
       /\ request[q].status = "none" \/ request[q].source \in Sources
       /\ request[q].status = "none" => task[SyncEvent(q)] = "absent" /\ syncing[q].pc = "idle"

Linked(k) == action[k] = [status |-> "applied", run |-> k]

(* The work items of findings.                                             *)
ActionInv ==
  /\ run \in [RepairKeys -> {"none", "applied", "undone"}]
  /\ action \in [RepairKeys -> Actions]
  /\ \A k \in RepairKeys :
       /\ run[k] # "none" => Linked(k)
       /\ action[k].status = "none" => action[k] = NoAction

AtFinding == {"look", "reuse", "apply", "record"}

Walks(r) ==
  /\ repairing[r].pc \in AtFinding => repairing[r].next <= FindingCount
  /\ repairing[r].pc = "record" => repairing[r].answer # "none"
  /\ repairing[r].pc = "record" /\ repairing[r].answer \in {"applied", "undone"} =>
       run[Here(r)] # "none"
  /\ \A n \in Findings : n < repairing[r].next => action[<<r, n>>].status # "none"
  /\ repairing[r].pc = "nil" =>
       \/ \A n \in Findings : action[<<r, n>>].status # "none"
       \/ repairing[r].answer = "revoked"

RepairInv ==
  /\ ActionInv
  /\ repairing \in [Reports -> Repairs]
  /\ \A r \in Reports : Walks(r)

IInv == BindingInv /\ ProjectTypes /\ SyncInv /\ RepairInv

-----------------------------------------------------------------------------
(* What leaves a part as it is                                             *)

LEMMA NoneIsNothing ==
  /\ \A r \in Reports : r # None
  /\ \A k \in RepairKeys : k # None
  /\ \A u \in Users : u # None
  /\ \A s \in Sources : s # None
BY NoneAssumption, QualityAssumption

LEMMA EventsAreApart ==
  /\ \A q \in Requests : SyncEvent(q) \in Events
  /\ \A r \in Reports : RepairEvent(r) \in Events
  /\ \A q, p \in Requests : SyncEvent(q) = SyncEvent(p) => q = p
  /\ \A q \in Requests, r \in Reports : SyncEvent(q) # RepairEvent(r)
BY DEF SyncEvent, RepairEvent, Events

LEMMA BindingStays ==
  ASSUME BindingInv, UNCHANGED <<binding, revoked, quality>>  PROVE BindingInv'
BY DEF BindingInv, LatestIsNewest, RevokedStaysOut, Authorized, quality

LEMMA ProjectStays ==
  ASSUME ProjectTypes, UNCHANGED <<project, asking>>  PROVE ProjectTypes'
BY DEF ProjectTypes, project

LEMMA SyncStays ==
  ASSUME SyncInv, UNCHANGED <<request, syncing, delivery>>  PROVE SyncInv'
BY DEF SyncInv, delivery, Queue!DeliveryTypeOK

LEMMA RepairStays ==
  ASSUME RepairInv, UNCHANGED <<repairs, repairing>>  PROVE RepairInv'
BY DEF RepairInv, repairs, ActionInv, Walks, Here, Linked

(* A failure deactivates the binding or makes it wait.                     *)
LEMMA FailedBinding ==
  ASSUME BindingInv, NEW cause \in Causes, binding' = Failed(cause), UNCHANGED <<revoked, quality>>
  PROVE  BindingInv'
BY DEF BindingInv, Failed, Bindings, LatestIsNewest, RevokedStaysOut, quality

LEMMA SyncedBinding ==
  ASSUME BindingInv, NEW r \in Reports, NEW at \in Nat, binding' = Synced(r, at),
         reports' = reports \cup {r}, committed' = committed \cup {<<r, at>>},
         UNCHANGED revoked
  PROVE  BindingInv'
<1> USE QualityAssumption, NoneIsNothing
<1>1. /\ binding \in Bindings /\ binding.latestAt \in Nat
      /\ reports \subseteq Reports /\ committed \subseteq Reports \X Nat
  BY DEF BindingInv, Bindings
<1>2. binding' \in Bindings /\ binding'.active = binding.active
      /\ binding'.installation = binding.installation
  BY <1>1 DEF Synced, Bindings
<1>3. RevokedStaysOut'
  BY <1>2 DEF BindingInv, RevokedStaysOut
<1>4. \A c \in committed : c[2] \in Nat
  BY <1>1
<1>5. \A c \in committed' : c \in committed \/ c[2] = at
  OBVIOUS
<1>6. LatestIsNewest'
  <2>1. CASE Newer(at)
    <3>1. binding'.latest = r /\ binding'.latestAt = at
      BY <1>1, <2>1 DEF Synced, Bindings
    <3>2. \A c \in committed : c[2] <= at
      <4>1. CASE binding.latest = None
        BY <4>1 DEF BindingInv, LatestIsNewest
      <4>2. CASE binding.latestAt <= at
        BY <1>1, <1>4, <4>2 DEF BindingInv, LatestIsNewest
      <4> QED  BY <2>1, <4>1, <4>2 DEF Newer
    <3>3. \A c \in committed' : c[2] <= binding'.latestAt
      BY <1>5, <3>1, <3>2
    <3>4. binding'.latest # None /\ binding'.latest \in reports'
          /\ <<binding'.latest, binding'.latestAt>> \in committed' /\ committed' # {}
      BY <3>1
    <3> QED  BY <3>3, <3>4 DEF LatestIsNewest
  <2>2. CASE ~Newer(at)
    <3>1. binding'.latest = binding.latest /\ binding'.latestAt = binding.latestAt
      BY <1>1, <2>2 DEF Synced, Bindings
    <3>2. binding.latest # None /\ at <= binding.latestAt
      BY <1>1, <2>2 DEF Newer
    <3> QED  BY <1>5, <3>1, <3>2 DEF BindingInv, LatestIsNewest
  <2> QED  BY <2>1, <2>2
<1> QED  BY <1>1, <1>2, <1>3, <1>6 DEF BindingInv

-----------------------------------------------------------------------------
(* Queue steps                                                             *)

LEMMA TakeTypes ==
  ASSUME Queue!DeliveryTypeOK, NEW k \in Events, Queue!Take(k)
  PROVE  /\ Queue!DeliveryTypeOK' /\ task[k] = "ready" /\ task'[k] = "active"
         /\ \A j \in Events \ {k} : task'[j] = task[j]
BY DEF Queue!DeliveryTypeOK, Queue!Take, Queue!TaskStates

LEMMA AckTypes ==
  ASSUME Queue!DeliveryTypeOK, NEW k \in Events, Queue!Ack(k)
  PROVE  /\ Queue!DeliveryTypeOK' /\ task[k] = "active" /\ task'[k] = "done"
         /\ \A j \in Events \ {k} : task'[j] = task[j]
BY DEF Queue!DeliveryTypeOK, Queue!Ack, Queue!TaskStates

LEMMA GiveBackTypes ==
  ASSUME Queue!DeliveryTypeOK, NEW k \in Events, Queue!GiveBack(k)
  PROVE  /\ Queue!DeliveryTypeOK' /\ task[k] = "active" /\ task'[k] \in {"ready", "archived"}
         /\ \A j \in Events \ {k} : task'[j] = task[j]
<1>1. CASE /\ retried[k] < MaxRetry
           /\ task' = [task EXCEPT ![k] = "ready"]
           /\ retried' = [retried EXCEPT ![k] = @ + 1]
  BY <1>1, QualityAssumption DEF Queue!DeliveryTypeOK, Queue!GiveBack, Queue!TaskStates
<1>2. CASE task' = [task EXCEPT ![k] = "archived"] /\ UNCHANGED retried
  BY <1>2 DEF Queue!DeliveryTypeOK, Queue!GiveBack, Queue!TaskStates
<1> QED  BY <1>1, <1>2 DEF Queue!GiveBack

LEMMA PublishTypes ==
  ASSUME Queue!DeliveryTypeOK, NEW k \in Events, Queue!Publish(k)
  PROVE  /\ Queue!DeliveryTypeOK'
         /\ \A j \in Events \ {k} : task'[j] = task[j]
BY DEF Queue!DeliveryTypeOK, Queue!Publish, Queue!Published, Queue!TaskStates

-----------------------------------------------------------------------------
(* Administrators and GitHub                                               *)

LEMMA EnqueuesOne ==
  ASSUME NEW s, Enqueue(s)
  PROVE  \E q \in Requests :
           /\ request[q].status = "none"
           /\ request' = [request EXCEPT ![q].status = "queued", ![q].source = s]
           /\ Queue!Publish(SyncEvent(q))
<1> DEFINE free(p) == request[p].status = "none"
           q == CHOOSE p \in Requests : free(p)
<1>1. \E p \in Requests : free(p)
  BY DEF Enqueue
<1>2. q \in Requests /\ free(q)
  BY <1>1, Zenon
<1>3. /\ request' = [request EXCEPT ![q].status = "queued", ![q].source = s]
      /\ Queue!Publish(SyncEvent(q))
  BY Zenon DEF Enqueue
<1> QED  BY <1>2, <1>3

LEMMA Enqueues ==
  ASSUME SyncInv, NEW s \in Sources, Enqueue(s), UNCHANGED syncing
  PROVE  SyncInv'
<1> USE EventsAreApart
<1>1. PICK q \in Requests :
        /\ request[q].status = "none"
        /\ request' = [request EXCEPT ![q].status = "queued", ![q].source = s]
        /\ Queue!Publish(SyncEvent(q))
  BY EnqueuesOne
<1>2. request' \in [Requests -> RequestRows]
  BY <1>1 DEF SyncInv, RequestRows, RequestStatuses
<1>3. /\ Queue!DeliveryTypeOK'
      /\ \A j \in Events \ {SyncEvent(q)} : task'[j] = task[j]
  BY <1>1, PublishTypes DEF SyncInv
<1>4. request'[q].status = "queued" /\ request'[q].source = s
  BY <1>1 DEF SyncInv, RequestRows
<1>5. \A p \in Requests \ {q} : request'[p] = request[p]
  BY <1>1 DEF SyncInv
<1> QED  BY <1>2, <1>3, <1>4, <1>5 DEF SyncInv

LEMMA OutsideSteps ==
  ASSUME IInv,
         \/ \E s \in Sources : RequestSync(s)
         \/ \E u \in Users, i \in Installations : Bind(u, i)
         \/ Unbind
         \/ \E i \in Installations : Revoke(i)
         \/ \E u \in Users : ChangeRole(u)
         \/ PutPolicy \/ EditDocuments \/ WindowPasses
         \/ \E s \in Pulls : EditPull(s)
         \/ \E k \in RepairKeys : UndoRepair(k)
  PROVE  IInv'
<1>a. BindingInv /\ ProjectTypes /\ SyncInv /\ RepairInv
  BY DEF IInv
<1>b. ASSUME UNCHANGED <<project, request, quality, repairs, handlers, delivery>>, BindingInv'
      PROVE  IInv'
  BY <1>a, <1>b, ProjectStays, SyncStays, RepairStays DEF IInv, handlers
<1>c. ASSUME UNCHANGED <<github, request, quality, repairs, handlers, delivery>>, ProjectTypes'
      PROVE  IInv'
  BY <1>a, <1>c, BindingStays, SyncStays, RepairStays DEF IInv, handlers, github
<1>1. ASSUME NEW s \in Sources, RequestSync(s)  PROVE IInv'
  <2>1. Enqueue(s) /\ UNCHANGED <<github, project, quality, repairs, syncing, repairing, asking>>
    BY <1>1 DEF RequestSync, handlers
  <2> QED  BY <1>a, <2>1, Enqueues, BindingStays, ProjectStays, RepairStays DEF IInv, github
<1>2. ASSUME NEW u \in Users, NEW i \in Installations, Bind(u, i)  PROVE IInv'
  <2>1. /\ i \notin revoked
        /\ binding' = [binding EXCEPT !.active = TRUE, !.creator = u,
                                      !.installation = i, !.waiting = FALSE]
        /\ UNCHANGED <<revoked, project, request, quality, repairs, handlers, delivery>>
    BY <1>2 DEF Bind
  <2>2. BindingInv'
    BY <1>a, <2>1 DEF BindingInv, Bindings, LatestIsNewest, RevokedStaysOut, quality
  <2> QED  BY <1>b, <2>1, <2>2
<1>3. CASE Unbind
  <2>1. /\ binding' = [binding EXCEPT !.active = FALSE]
        /\ UNCHANGED <<revoked, project, request, quality, repairs, handlers, delivery>>
    BY <1>3 DEF Unbind
  <2>2. BindingInv'
    BY <1>a, <2>1 DEF BindingInv, Bindings, LatestIsNewest, RevokedStaysOut, quality
  <2> QED  BY <1>b, <2>1, <2>2
<1>4. ASSUME NEW i \in Installations, Revoke(i)  PROVE IInv'
  <2>1. /\ revoked' = revoked \cup {i}
        /\ binding' = [binding EXCEPT !.active = @ /\ binding.installation # i]
        /\ UNCHANGED <<project, request, quality, repairs, handlers, delivery>>
    BY <1>4 DEF Revoke
  <2>2. /\ binding' \in Bindings /\ (binding'.active <=> binding.active /\ binding.installation # i)
        /\ binding'.installation = binding.installation /\ binding'.latest = binding.latest
        /\ binding'.latestAt = binding.latestAt
    BY <1>a, <2>1 DEF BindingInv, Bindings
  <2>3. BindingInv'
    BY <1>a, <2>1, <2>2 DEF BindingInv, LatestIsNewest, RevokedStaysOut, quality
  <2> QED  BY <1>b, <2>1, <2>3
<1>5. ASSUME NEW u \in Users, ChangeRole(u)  PROVE IInv'
  <2>1. ProjectTypes'
    BY <1>a, <1>5 DEF ChangeRole, ProjectTypes, handlers
  <2> QED  BY <1>5, <1>c, <2>1 DEF ChangeRole
<1>6. CASE PutPolicy
  <2>1. ProjectTypes'
    BY <1>a, <1>6 DEF PutPolicy, ProjectTypes, handlers
  <2> QED  BY <1>6, <1>c, <2>1 DEF PutPolicy
<1>7. CASE EditDocuments
  <2>1. ProjectTypes'
    BY <1>a, <1>7, QualityAssumption DEF EditDocuments, ProjectTypes, handlers
  <2> QED  BY <1>7, <1>c, <2>1 DEF EditDocuments
<1>8. CASE WindowPasses
  <2>1. BindingInv'
    BY <1>a, <1>8 DEF WindowPasses, BindingInv, Bindings, LatestIsNewest, RevokedStaysOut,
                         quality
  <2> QED  BY <1>8, <1>b, <2>1 DEF WindowPasses
<1>10. ASSUME NEW s \in Pulls, EditPull(s)  PROVE IInv'
  <2>1. ProjectTypes'
    BY <1>a, <1>10, QualityAssumption DEF EditPull, ProjectTypes, handlers
  <2> QED  BY <1>10, <1>c, <2>1 DEF EditPull
<1>9. ASSUME NEW k \in RepairKeys, UndoRepair(k)  PROVE IInv'
  <2>1. /\ run[k] = "applied" /\ run' = [run EXCEPT ![k] = "undone"]
        /\ UNCHANGED <<github, project, request, quality, action, syncing, repairing, asking, delivery>>
    BY <1>9 DEF UndoRepair, handlers
  <2>2. ActionInv'
    BY <1>a, <2>1 DEF RepairInv, ActionInv, Linked
  <2>3. \A j \in RepairKeys : run[j] # "none" => run'[j] # "none"
    BY <1>a, <2>1 DEF RepairInv, ActionInv
  <2>4. \A r \in Reports : repairing[r].pc \in AtFinding => Here(r) \in RepairKeys
    BY <1>a, QualityAssumption DEF RepairInv, Walks, Here, RepairKeys, Findings, Repairs
  <2>5. RepairInv'
    BY <1>a, <2>1, <2>2, <2>3, <2>4 DEF RepairInv, Walks, Here, AtFinding
  <2> QED  BY <1>a, <2>1, <2>5, BindingStays, ProjectStays, SyncStays DEF IInv, github
<1> QED  BY <1>1, <1>2, <1>3, <1>4, <1>5, <1>6, <1>7, <1>8, <1>9, <1>10

LEMMA ReconcileSteps ==
  ASSUME IInv, StartReconcile \/ BreakReconcile \/ FinishReconcile
  PROVE  IInv'
<1>a. BindingInv /\ ProjectTypes /\ SyncInv /\ RepairInv
  BY DEF IInv
<1>1. CASE StartReconcile \/ BreakReconcile
  <2>1. UNCHANGED <<github, project, request, quality, repairs, syncing, repairing, delivery>>
    BY <1>1 DEF StartReconcile, BreakReconcile
  <2>2. asking' \in [by : Users \cup {None}, cause : Causes]
    BY <1>a, <1>1 DEF StartReconcile, BreakReconcile, ProjectTypes, BindingInv, Bindings, Causes
  <2>3. ProjectTypes'
    BY <1>a, <2>1, <2>2 DEF ProjectTypes, project
  <2> QED  BY <1>a, <2>1, <2>3, BindingStays, SyncStays, RepairStays DEF IInv, github
<1>2. CASE FinishReconcile
  <2>1. /\ asking' = Quiet
        /\ UNCHANGED <<revoked, project, quality, repairs, syncing, repairing>>
        /\ \/ (\E s \in Sources : Enqueue(s)) /\ UNCHANGED binding
           \/ UNCHANGED <<binding, request, delivery>>
           \/ binding' = Failed(asking.cause) /\ UNCHANGED <<request, delivery>>
    BY <1>2 DEF FinishReconcile
  <2>2. ProjectTypes'
    BY <1>a, <2>1 DEF ProjectTypes, Quiet, Causes, project
  <2>3. RepairInv'
    BY <1>a, <2>1, RepairStays
  <2>4. SyncInv'
    BY <1>a, <2>1, SyncStays, Enqueues
  <2>5. BindingInv'
    BY <1>a, <2>1, BindingStays, FailedBinding DEF ProjectTypes
  <2> QED  BY <2>2, <2>3, <2>4, <2>5 DEF IInv
<1> QED  BY <1>1, <1>2

-----------------------------------------------------------------------------
(* The handler of quality.sync                                             *)

LEMMA SyncGoesOn ==
  ASSUME SyncInv, NEW q \in Requests, request[q].status # "none",
         syncing' \in [Requests -> Syncs],
         \A p \in Requests \ {q} : syncing'[p] = syncing[p],
         \/ UNCHANGED request
         \/ \E st \in RequestStatuses \ {"none"} : request' = [request EXCEPT ![q].status = st],
         Queue!DeliveryTypeOK',
         \A p \in Requests \ {q} : task'[SyncEvent(p)] = task[SyncEvent(p)]
  PROVE  SyncInv'
<1>1. request' \in [Requests -> RequestRows]
  BY DEF SyncInv, RequestRows
<1>2. \A p \in Requests \ {q} : request'[p] = request[p]
  BY DEF SyncInv
<1>3. request'[q].status # "none" /\ request'[q].source = request[q].source
  BY DEF SyncInv, RequestRows
<1> QED  BY <1>1, <1>2, <1>3 DEF SyncInv

LEMMA SyncHandler ==
  ASSUME IInv, NEW q \in Requests, SyncStep(q) \/ BreakSync(q) \/ CrashSync(q)
  PROVE  IInv'
<1> USE EventsAreApart
<1>a. BindingInv /\ ProjectTypes /\ SyncInv /\ RepairInv
  BY DEF IInv
<1>b. syncing \in [Requests -> Syncs] /\ Queue!DeliveryTypeOK /\ request \in [Requests -> RequestRows]
  BY <1>a DEF SyncInv
<1>c. /\ syncing[q].pc # "idle" => request[q].status # "none"
      /\ task[SyncEvent(q)] # "absent" => request[q].status # "none"
  BY <1>a DEF SyncInv
<1> DEFINE On == /\ syncing' \in [Requests -> Syncs]
                 /\ \A p \in Requests \ {q} : syncing'[p] = syncing[p]
<1>d. ASSUME NEW pc \in SyncSteps, SyncAt(q, pc)  PROVE On
  BY <1>b, <1>d DEF SyncAt, Syncs
<1>e. ASSUME NEW cause \in Causes, SyncFails(q, cause)  PROVE On
  BY <1>b, <1>e DEF SyncFails, Syncs, SyncSteps
<1>f. ASSUME SyncInv', BindingInv', UNCHANGED Rest  PROVE IInv'
  <2>1. UNCHANGED <<project, asking, repairs, repairing>>
    BY <1>f DEF Rest
  <2> QED  BY <1>a, <1>f, <2>1, ProjectStays, RepairStays DEF IInv
<1>g. ASSUME UNCHANGED <<github, quality, Rest>>, SyncInv'  PROVE IInv'
  BY <1>a, <1>f, <1>g, BindingStays DEF github
<1>h. ASSUME On, UNCHANGED <<request, delivery>>, syncing[q].pc # "idle"  PROVE SyncInv'
  <2>1. Queue!DeliveryTypeOK' /\ UNCHANGED task
    BY <1>b, <1>h DEF delivery, Queue!DeliveryTypeOK
  <2> QED  BY <1>a, <1>c, <1>h, <2>1, SyncGoesOn
<1>1. CASE StartSync(q)
  <2>1. /\ Queue!Take(SyncEvent(q)) /\ UNCHANGED <<github, request, quality, Rest>>
        /\ syncing' = [syncing EXCEPT ![q] =
             [Idle EXCEPT !.pc = FirstStep(q), !.by = binding.creator]]
    BY <1>1 DEF StartSync
  <2>2. FirstStep(q) \in SyncSteps /\ binding.creator \in Users /\ "none" \in Causes
    BY <1>a DEF FirstStep, SyncSteps, BindingInv, Bindings, Causes
  <2>3. On
    BY <1>b, <2>1, <2>2 DEF Syncs, Idle
  <2>4. /\ Queue!DeliveryTypeOK' /\ task[SyncEvent(q)] = "ready"
        /\ \A p \in Requests \ {q} : task'[SyncEvent(p)] = task[SyncEvent(p)]
    BY <1>b, <2>1, TakeTypes
  <2>5. SyncInv'
    BY <1>a, <1>c, <2>1, <2>3, <2>4, SyncGoesOn
  <2> QED  BY <1>g, <2>1, <2>5
<1>2. CASE BeginSync(q)
  <2>1. syncing[q].pc = "begin" /\ UNCHANGED <<github, quality, delivery, Rest>>
    BY <1>2 DEF BeginSync
  <2>2. CASE request' = [request EXCEPT ![q].status = "running"] /\ SyncAt(q, "read")
    <3>1. On /\ Queue!DeliveryTypeOK' /\ UNCHANGED task
      BY <1>b, <1>d, <2>1, <2>2 DEF SyncSteps, delivery, Queue!DeliveryTypeOK
    <3>2. SyncInv'
      BY <1>a, <1>c, <2>1, <2>2, <3>1, SyncGoesOn DEF RequestStatuses
    <3> QED  BY <1>g, <2>1, <3>2
  <2>3. CASE SyncFails(q, "revoked") /\ UNCHANGED request
    BY <1>e, <1>g, <1>h, <2>1, <2>3 DEF Causes
  <2> QED  BY <1>2, <2>2, <2>3 DEF BeginSync
<1>3. CASE ReadEvidence(q)
  <2>1. syncing[q].pc = "read" /\ UNCHANGED <<github, request, quality, delivery, Rest>>
    BY <1>3 DEF ReadEvidence
  <2>2. CASE syncing' = [syncing EXCEPT ![q].pc = "report", ![q].at = sourceAt[request[q].source]]
    <3>1. sourceAt[request[q].source] \in Nat
      BY <1>a, <1>c, <2>1 DEF SyncInv, ProjectTypes
    <3>2. On
      BY <1>b, <2>2, <3>1 DEF Syncs, SyncSteps
    <3> QED  BY <1>g, <1>h, <2>1, <3>2
  <2>3. CASE \E cause \in Causes : SyncFails(q, cause)
    BY <1>e, <1>g, <1>h, <2>1, <2>3
  <2> QED  BY <1>3, <2>2, <2>3 DEF ReadEvidence, Causes
<1>4. CASE MakeReport(q)
  <2> DEFINE r  == [source |-> request[q].source, docs |-> docs]
             at == syncing[q].at
  <2>1. syncing[q].pc = "report" /\ UNCHANGED <<revoked, Rest>>
    BY <1>4 DEF MakeReport
  <2>2. request[q].status # "none" /\ r \in Reports /\ at \in Nat
    BY <1>a, <1>b, <1>c, <2>1 DEF SyncInv, Reports, ProjectTypes, Syncs
  <2>3. CASE /\ reports' = reports \cup {r}
             /\ request' = [request EXCEPT ![q].status = "completed", ![q].report = r]
             /\ committed' = committed \cup {<<r, at>>}
             /\ binding' = Synced(r, at)
             /\ Queue!Publish(RepairEvent(r))
             /\ SyncAt(q, "nil") \/ SyncFails(q, "error")
    <3>1. On
      BY <1>d, <1>e, <2>3 DEF SyncSteps, Causes
    <3>2. /\ Queue!DeliveryTypeOK'
          /\ \A p \in Requests : task'[SyncEvent(p)] = task[SyncEvent(p)]
      BY <1>b, <2>2, <2>3, PublishTypes
    <3>3. /\ request' \in [Requests -> RequestRows]
          /\ \A p \in Requests \ {q} : request'[p] = request[p]
          /\ request'[q].status = "completed" /\ request'[q].source = request[q].source
      BY <1>b, <2>2, <2>3 DEF RequestRows, RequestStatuses
    <3>4. SyncInv'
      BY <1>a, <2>2, <3>1, <3>2, <3>3 DEF SyncInv
    <3>5. BindingInv'
      BY <1>a, <2>1, <2>2, <2>3, SyncedBinding
    <3> QED  BY <1>f, <2>1, <3>4, <3>5
  <2>4. CASE SyncFails(q, "revoked") /\ UNCHANGED <<binding, request, quality, delivery>>
    <3>1. UNCHANGED github
      BY <2>1, <2>4 DEF github
    <3> QED  BY <1>e, <1>g, <1>h, <2>1, <2>4, <3>1 DEF Causes
  <2> QED  BY <1>4, <2>3, <2>4 DEF MakeReport
<1>5. CASE FailSync(q)
  <2> DEFINE cause == syncing[q].cause
  <2>1. /\ syncing[q].pc = "fail" /\ request' = RequestFailed(q, cause) /\ binding' = Failed(cause)
        /\ SyncAt(q, IF ReturnsNil(cause) THEN "nil" ELSE "error")
        /\ UNCHANGED <<revoked, quality, delivery, Rest>>
    BY <1>5 DEF FailSync
  <2>2. On
    BY <1>d, <2>1 DEF SyncSteps
  <2>3. /\ cause \in Causes
        /\ \/ UNCHANGED request
           \/ \E st \in RequestStatuses \ {"none"} : request' = [request EXCEPT ![q].status = st]
    BY <1>b, <2>1 DEF Syncs, RequestFailed, StatusAfter, RequestStatuses
  <2>4. Queue!DeliveryTypeOK' /\ UNCHANGED task
    BY <1>b, <2>1 DEF delivery, Queue!DeliveryTypeOK
  <2>5. SyncInv'
    BY <1>a, <1>c, <2>1, <2>2, <2>3, <2>4, SyncGoesOn
  <2>6. BindingInv'
    BY <1>a, <2>1, <2>3, FailedBinding
  <2> QED  BY <1>f, <2>1, <2>5, <2>6
<1>6. CASE ReturnSync(q) \/ CrashSync(q)
  <2>1. /\ Queue!Ack(SyncEvent(q)) \/ Queue!GiveBack(SyncEvent(q))
        /\ syncing[q].pc # "idle" /\ syncing' = [syncing EXCEPT ![q] = Idle]
        /\ UNCHANGED <<github, request, quality, Rest>>
    BY <1>6 DEF ReturnSync, CrashSync
  <2>2. On
    BY <1>b, <2>1 DEF Syncs, Idle, SyncSteps, Causes
  <2>3. Queue!DeliveryTypeOK' /\ \A p \in Requests \ {q} : task'[SyncEvent(p)] = task[SyncEvent(p)]
    BY <1>b, <2>1, AckTypes, GiveBackTypes
  <2>4. SyncInv'
    BY <1>a, <1>c, <2>1, <2>2, <2>3, SyncGoesOn
  <2> QED  BY <1>g, <2>1, <2>4
<1>7. CASE BreakSync(q)
  <2>1. /\ syncing[q].pc \in {"begin", "report"} /\ \E cause \in Causes : SyncFails(q, cause)
        /\ UNCHANGED <<github, request, quality, delivery, Rest>>
    BY <1>7 DEF BreakSync, Causes
  <2> QED  BY <1>e, <1>g, <1>h, <2>1
<1> QED  BY <1>1, <1>2, <1>3, <1>4, <1>5, <1>6, <1>7 DEF SyncStep

-----------------------------------------------------------------------------
(* The handler of quality.repair                                           *)

(* Answers and items are never lost, and only those of r's own finding     *)
(* change.                                                                 *)
Kept(r) ==
  /\ \A k \in RepairKeys : action[k].status # "none" => action'[k].status # "none"
  /\ \A k \in RepairKeys : run[k] # "none" => run'[k] # "none"

LEMMA HereIsKey ==
  ASSUME RepairInv, NEW r \in Reports, repairing[r].pc \in AtFinding
  PROVE  Here(r) \in RepairKeys /\ repairing[r].next \in Findings
<1>1. repairing[r].next \in 1 .. FindingCount + 1 /\ repairing[r].next <= FindingCount
  BY DEF RepairInv, Repairs, Walks
<1>2. repairing[r].next \in Findings
  BY <1>1, QualityAssumption DEF Findings
<1> QED  BY <1>2 DEF Here, RepairKeys

(* It is enough that r itself walks on.                                    *)
LEMMA RepairGoesOn ==
  ASSUME IInv, NEW r \in Reports, UNCHANGED Others,
         ActionInv', Kept(r), Queue!DeliveryTypeOK',
         \A q \in Requests : task'[SyncEvent(q)] = task[SyncEvent(q)],
         repairing' \in [Reports -> Repairs],
         \A p \in Reports \ {r} : repairing'[p] = repairing[p],
         Walks(r)'
  PROVE  IInv'
<1>a. BindingInv /\ ProjectTypes /\ SyncInv /\ RepairInv
  BY DEF IInv
<1>1. BindingInv' /\ ProjectTypes'
  BY <1>a, BindingStays, ProjectStays DEF Others, github
<1>2. SyncInv'
  BY <1>a DEF Others, SyncInv
<1>3. ASSUME NEW p \in Reports \ {r}  PROVE Walks(p)'
  <2>1. Walks(p) /\ repairing'[p] = repairing[p]
    BY <1>a DEF RepairInv
  <2>2. \A n \in Findings : <<p, n>> \in RepairKeys
    BY DEF RepairKeys
  <2>3. repairing[p].pc = "record" => Here(p) \in RepairKeys
    BY <1>a, HereIsKey DEF AtFinding
  <2> QED  BY <2>1, <2>2, <2>3 DEF Walks, Kept, Here
<1>4. RepairInv'
  BY <1>3 DEF RepairInv
<1> QED  BY <1>1, <1>2, <1>4 DEF IInv

(* The finding it is at has its answer.                                    *)
LEMMA WalksToNext ==
  ASSUME IInv, NEW r \in Reports, repairing[r].pc \in AtFinding, NextFinding(r), Kept(r),
         action'[Here(r)].status # "none"
  PROVE  /\ repairing' \in [Reports -> Repairs]
         /\ \A p \in Reports \ {r} : repairing'[p] = repairing[p]
         /\ Walks(r)'
<1> USE QualityAssumption
<1> DEFINE m == repairing[r].next
<1>a. RepairInv /\ repairing \in [Reports -> Repairs] /\ Walks(r)
  BY DEF IInv, RepairInv
<1>b. m \in Findings /\ m \in Nat /\ m <= FindingCount /\ Here(r) = <<r, m>>
  BY <1>a, HereIsKey DEF Findings, Here
<1>c. repairing[r].pc # "idle"
  BY DEF AtFinding
<1>1. repairing'[r] = [repairing[r] EXCEPT !.pc = IF m = FindingCount THEN "nil" ELSE "look",
                                           !.next = m + 1, !.old = None, !.answer = "none"]
  BY <1>a, <1>c DEF NextFinding, Repairs
<1>2. /\ repairing'[r] \in Repairs
      /\ repairing'[r].pc = (IF m = FindingCount THEN "nil" ELSE "look")
      /\ repairing'[r].next = m + 1
  <2>1. m + 1 \in 1 .. FindingCount + 1
    BY <1>b
  <2>2. (IF m = FindingCount THEN "nil" ELSE "look") \in RepairSteps /\ "none" \in Answers
    BY DEF RepairSteps, Answers
  <2>3. repairing[r] \in Repairs
    BY <1>a
  <2> HIDE DEF m
  <2> QED  BY <1>1, <2>1, <2>2, <2>3 DEF Repairs
<1>3. repairing' \in [Reports -> Repairs] /\ \A p \in Reports \ {r} : repairing'[p] = repairing[p]
  BY <1>a, <1>2 DEF NextFinding
<1>4. \A n \in Findings : n < m + 1 => action'[<<r, n>>].status # "none"
  <2> SUFFICES ASSUME NEW n \in Findings, n < m + 1  PROVE action'[<<r, n>>].status # "none"
    OBVIOUS
  <2>1. CASE n = m
    BY <1>b, <2>1
  <2>2. CASE n # m
    <3>1. n < m
      BY <1>b, <2>2 DEF Findings
    <3> QED  BY <1>a, <3>1 DEF Walks, Kept, RepairKeys
  <2> QED  BY <2>1, <2>2
<1>5. m = FindingCount => \A n \in Findings : action'[<<r, n>>].status # "none"
  BY <1>b, <1>4 DEF Findings
<1>6. m # FindingCount => m + 1 <= FindingCount
  BY <1>b
<1>7. Walks(r)'
  BY <1>2, <1>4, <1>5, <1>6 DEF Walks, AtFinding
<1> QED  BY <1>3, <1>7

LEMMA RepairHandler ==
  ASSUME IInv, NEW r \in Reports, RepairStep(r) \/ CrashRepair(r)
  PROVE  IInv'
<1> USE EventsAreApart, NoneIsNothing
<1>a. /\ RepairInv /\ ActionInv /\ repairing \in [Reports -> Repairs] /\ Walks(r)
      /\ Queue!DeliveryTypeOK /\ binding.creator \in Users
  BY DEF IInv, RepairInv, SyncInv, BindingInv, Bindings
<1>b. /\ run \in [RepairKeys -> {"none", "applied", "undone"}]
      /\ action \in [RepairKeys -> Actions]
      /\ \A k \in RepairKeys : run[k] # "none" => Linked(k)
      /\ \A k \in RepairKeys : action[k].status = "none" => action[k] = NoAction
  BY <1>a DEF ActionInv
<1>c. ASSUME UNCHANGED <<run, action>>  PROVE ActionInv' /\ Kept(r)
  BY <1>a, <1>c DEF ActionInv, Kept, Linked
<1>d. ASSUME UNCHANGED delivery
      PROVE  Queue!DeliveryTypeOK' /\ \A q \in Requests : task'[SyncEvent(q)] = task[SyncEvent(q)]
  BY <1>a, <1>d DEF delivery, Queue!DeliveryTypeOK
<1> DEFINE On == /\ repairing' \in [Reports -> Repairs]
                 /\ \A p \in Reports \ {r} : repairing'[p] = repairing[p]
           m == repairing[r].next
<1>e. ASSUME UNCHANGED <<Others, run, action, delivery>>, On, Walks(r)'  PROVE IInv'
  BY <1>c, <1>d, <1>e, RepairGoesOn
<1>f. repairing[r].pc \in AtFinding => Here(r) \in RepairKeys /\ m \in Findings /\ m <= FindingCount
  BY <1>a, HereIsKey DEF Walks
<1>g. \A n \in Findings : <<r, n>> \in RepairKeys
  BY DEF RepairKeys
<1>1. CASE StartRepair(r)
  <2>1. /\ Queue!Take(RepairEvent(r)) /\ UNCHANGED <<Others, run, action>>
        /\ repairing' = [repairing EXCEPT ![r] =
             [Resting EXCEPT !.pc = IF FindingCount = 0 THEN "nil" ELSE "look",
                             !.by = binding.creator]]
    BY <1>1 DEF StartRepair, repairs
  <2>2. Queue!DeliveryTypeOK' /\ \A q \in Requests : task'[SyncEvent(q)] = task[SyncEvent(q)]
    BY <1>a, <2>1, TakeTypes
  <2>3. /\ repairing'[r] = [pc |-> IF FindingCount = 0 THEN "nil" ELSE "look",
                            by |-> binding.creator, next |-> 1, old |-> None, answer |-> "none"]
        /\ \A p \in Reports \ {r} : repairing'[p] = repairing[p]
    BY <1>a, <2>1 DEF Resting
  <2>4. repairing'[r] \in Repairs
    BY <1>a, <2>3, QualityAssumption DEF Repairs, RepairSteps, Answers
  <2>5. On
    BY <1>a, <2>1, <2>3, <2>4
  <2>6. Walks(r)'
    BY <2>3, QualityAssumption DEF Walks, AtFinding, Findings
  <2> QED  BY <1>c, <2>1, <2>2, <2>5, <2>6, RepairGoesOn
<1>2. CASE LookForRepair(r)
  <2>1. repairing[r].pc = "look" /\ UNCHANGED <<Others, run, action, delivery>>
    BY <1>2 DEF LookForRepair, repairs
  <2>2. PICK pc \in {"apply", "reuse"}, old \in RepairKeys \cup {None} :
          repairing' = [repairing EXCEPT ![r].pc = pc, ![r].old = old]
    <3>1. CASE RepairAt(r, "apply")
      <4>1. repairing' = [repairing EXCEPT ![r].pc = "apply", ![r].old = repairing[r].old]
        BY <1>a, <3>1 DEF RepairAt, Repairs
      <4> QED  BY <1>a, <4>1 DEF Repairs
    <3>2. CASE \E k \in Reusable(r, m) :
                 repairing' = [repairing EXCEPT ![r].pc = "reuse", ![r].old = action[k].run]
      <4>1. \A k \in Reusable(r, m) : action[k].run \in RepairKeys \cup {None}
        BY <1>b DEF Reusable, Actions
      <4> QED  BY <3>2, <4>1
    <3> QED  BY <1>2, <3>1, <3>2 DEF LookForRepair
  <2>3. /\ repairing'[r].pc = pc /\ repairing'[r].next = m /\ repairing'[r] \in Repairs
        /\ On
    BY <1>a, <2>2 DEF Repairs, RepairSteps
  <2>4. Walks(r)'
    BY <1>a, <2>1, <2>3 DEF Walks, AtFinding
  <2> QED  BY <1>e, <2>1, <2>3, <2>4
<1>3. ASSUME NEW pc \in {"apply", "error"}, repairing[r].pc \in AtFinding, RepairAt(r, pc),
             ActionInv', Kept(r), UNCHANGED <<Others, delivery>>
      PROVE  IInv'
  <2>1. repairing'[r].pc = pc /\ repairing'[r].next = m /\ On
    BY <1>a, <1>3 DEF RepairAt, Repairs, RepairSteps
  <2>2. Walks(r)'
    BY <1>a, <1>3, <1>g, <2>1 DEF Walks, AtFinding, Kept
  <2> QED  BY <1>3, <1>d, <2>1, <2>2, RepairGoesOn
<1>4. CASE ReuseRepair(r)
  <2>1. repairing[r].pc = "reuse" /\ UNCHANGED <<Others, run, delivery>>
    BY <1>4 DEF ReuseRepair
  <2>2. CASE UNCHANGED action /\ Declined(r)
    BY <1>3, <1>c, <2>1, <2>2 DEF Declined, AtFinding
  <2>3. CASE /\ action' = IF action[Here(r)] # NoAction THEN action
                          ELSE [action EXCEPT ![Here(r)] =
                                  [status |-> "applied", run |-> repairing[r].old]]
             /\ NextFinding(r)
    <3>1. Here(r) \in RepairKeys /\ repairing[r].old \in RepairKeys \cup {None}
      BY <1>a, <1>f, <2>1 DEF AtFinding, Repairs
    <3>2. /\ action' \in [RepairKeys -> Actions]
          /\ action'[Here(r)].status # "none"
          /\ \A k \in RepairKeys : action[k] # NoAction => action'[k] = action[k]
          /\ \A k \in RepairKeys : action'[k] = action[k] \/ action'[k].status = "applied"
      BY <1>b, <2>3, <3>1 DEF Actions, Answers
    <3>3. ActionInv'
      BY <1>b, <2>1, <3>2 DEF ActionInv, Linked, NoAction
    <3>4. Kept(r)
      BY <2>1, <3>2 DEF Kept, NoAction
    <3>5. On /\ Walks(r)'
      BY <2>1, <2>3, <3>2, <3>4, WalksToNext DEF AtFinding
    <3> QED  BY <1>d, <2>1, <3>3, <3>4, <3>5, RepairGoesOn
  <2> QED  BY <1>4, <2>2, <2>3 DEF ReuseRepair
<1>5. CASE ApplyRepair(r)
  <2> DEFINE k == Here(r)
  <2>1. repairing[r].pc = "apply" /\ UNCHANGED <<Others, delivery>> /\ k \in RepairKeys
    BY <1>5, <1>f DEF ApplyRepair, AtFinding
  <2>2. ASSUME NEW answer \in Answers \ {"none"}, AnswerIs(r, answer), ActionInv', Kept(r),
               answer \in {"applied", "undone"} => run'[k] # "none"
        PROVE  IInv'
    <3>1. /\ repairing'[r].pc = "record" /\ repairing'[r].next = m /\ repairing'[r].answer = answer
          /\ On
      BY <1>a, <2>2 DEF AnswerIs, Repairs, RepairSteps
    <3>2. Here(r)' = k
      BY <3>1 DEF Here
    <3>3. Walks(r)'
      BY <1>a, <1>f, <1>g, <2>1, <2>2, <3>1, <3>2 DEF Walks, AtFinding, Kept
    <3> QED  BY <1>d, <2>1, <2>2, <3>1, <3>3, RepairGoesOn
  <2>3. CASE (AnswerIs(r, "revoked") \/ AnswerIs(r, "blocked")) /\ UNCHANGED repairs
    BY <1>c, <2>2, <2>3 DEF repairs, Answers
  <2>4. CASE run[k] # "none" /\ AnswerIs(r, run[k]) /\ UNCHANGED repairs
    BY <1>b, <1>c, <2>1, <2>2, <2>4 DEF repairs, Answers
  <2>5. CASE run[k] = "none" /\ Applied(k) /\ (AnswerIs(r, "applied") \/ RepairAt(r, "error"))
    <3>1. /\ run' = [run EXCEPT ![k] = "applied"]
          /\ action' = [action EXCEPT ![k] = [status |-> "applied", run |-> k]]
      BY <2>5 DEF Applied
    <3>2. ActionInv' /\ Kept(r) /\ run'[k] # "none"
      BY <1>b, <2>1, <3>1 DEF ActionInv, Kept, Linked, Actions, Answers
    <3> QED  BY <1>3, <2>1, <2>2, <2>5, <3>2 DEF Answers, AtFinding
  <2> QED  BY <1>5, <2>3, <2>4, <2>5 DEF ApplyRepair
<1>6. CASE WaitForFrequency(r)
  BY <1>3, <1>6, <1>c DEF WaitForFrequency, repairs, AtFinding
<1>7. CASE RecordRepair(r)
  <2> DEFINE k == Here(r)
             answer == repairing[r].answer
  <2>1. /\ repairing[r].pc = "record" /\ UNCHANGED <<Others, run, delivery>> /\ k \in RepairKeys
        /\ action' = Recorded(k, answer)
        /\ answer \in Answers \ {"none"}
    BY <1>7, <1>a, <1>f DEF RecordRepair, AtFinding, Walks, Repairs
  <2>2. /\ action' \in [RepairKeys -> Actions]
        /\ action'[k].status # "none"
        /\ \A j \in RepairKeys \ {k} : action'[j] = action[j]
        /\ Linked(k) => action'[k] = action[k]
    BY <1>b, <2>1 DEF Recorded, Actions, Linked
  <2>3. ActionInv' /\ Kept(r)
    BY <1>b, <2>1, <2>2 DEF ActionInv, Kept, Linked
  <2>4. CASE NextFinding(r)
    <3>1. On /\ Walks(r)'
      BY <2>1, <2>2, <2>3, <2>4, WalksToNext DEF AtFinding
    <3> QED  BY <1>d, <2>1, <2>3, <3>1, RepairGoesOn
  <2>5. CASE answer = "revoked" /\ RepairAt(r, "nil")
    <3>1. /\ repairing'[r].pc = "nil" /\ repairing'[r].next = m /\ repairing'[r].answer = "revoked"
          /\ On
      BY <1>a, <2>5 DEF RepairAt, Repairs, RepairSteps
    <3>2. Walks(r)'
      BY <1>a, <1>g, <2>3, <3>1 DEF Walks, AtFinding, Kept
    <3> QED  BY <1>d, <2>1, <2>3, <3>1, <3>2, RepairGoesOn
  <2> QED  BY <1>7, <2>4, <2>5 DEF RecordRepair
<1>8. CASE ReturnRepair(r) \/ CrashRepair(r)
  <2>1. /\ Queue!Ack(RepairEvent(r)) \/ Queue!GiveBack(RepairEvent(r))
        /\ repairing' = [repairing EXCEPT ![r] = Resting]
        /\ UNCHANGED <<Others, run, action>>
    BY <1>8 DEF ReturnRepair, CrashRepair, repairs
  <2>2. Queue!DeliveryTypeOK' /\ \A q \in Requests : task'[SyncEvent(q)] = task[SyncEvent(q)]
    BY <1>a, <2>1, AckTypes, GiveBackTypes
  <2>3. Resting \in Repairs
    BY QualityAssumption DEF Resting, Repairs, RepairSteps, Answers
  <2>4. On /\ repairing'[r] = Resting
    BY <1>a, <2>1, <2>3
  <2>5. Walks(r)'
    BY <2>4 DEF Walks, Resting, AtFinding, Findings
  <2> QED  BY <1>c, <2>1, <2>2, <2>4, <2>5, RepairGoesOn
<1> QED  BY <1>1, <1>2, <1>4, <1>5, <1>6, <1>7, <1>8 DEF RepairStep

-----------------------------------------------------------------------------
LEMMA InvInit == Init => IInv
<1> SUFFICES ASSUME Init  PROVE IInv
  OBVIOUS
<1> USE QualityAssumption, NoneIsNothing DEF Init
<1>1. BindingInv
  BY DEF BindingInv, Bindings, LatestIsNewest, RevokedStaysOut
<1>2. ProjectTypes
  BY DEF ProjectTypes, Quiet, Causes
<1>3. SyncInv
  BY DEF SyncInv, Queue!DeliveryInit, Queue!DeliveryTypeOK, Queue!TaskStates, RequestRows,
         RequestStatuses, Syncs, SyncSteps, Causes, Idle, Events, SyncEvent
<1>4. ActionInv
  BY DEF ActionInv, Actions, Answers, NoAction, Linked
<1>5. Resting \in Repairs
  BY DEF Resting, Repairs, RepairSteps, Answers
<1>6. RepairInv
  BY <1>4, <1>5 DEF RepairInv, Walks, Resting, AtFinding, Findings
<1> QED  BY <1>1, <1>2, <1>3, <1>6 DEF IInv

LEMMA InvStep == IInv /\ [Next]_vars => IInv'
<1> SUFFICES ASSUME IInv, [Next]_vars  PROVE IInv'
  OBVIOUS
<1>1. CASE UNCHANGED vars
  <2>1. UNCHANGED <<github, project, request, quality, repairs, syncing, repairing, asking, delivery>>
    BY <1>1 DEF vars, handlers
  <2> QED  BY <2>1, BindingStays, ProjectStays, SyncStays, RepairStays DEF IInv, github
<1> QED
  BY <1>1, OutsideSteps, ReconcileSteps, SyncHandler, RepairHandler DEF Next

LEMMA InvHolds == Spec => []IInv
BY InvInit, InvStep, PTL DEF Spec

(* Types of the binding, the requests, the reports and the repairs.        *)
THEOREM QualityTypes == Spec => []TypeOK
<1>1. IInv => TypeOK
  BY DEF IInv, TypeOK, BindingInv, ProjectTypes, SyncInv, RepairInv, ActionInv, RequestRows,
         Syncs, Repairs, Actions
<1> QED  BY <1>1, InvHolds, PTL

(* The latest report is of the newest source, in whatever order slow       *)
(* readers deliver their evidence (processSync).                           *)
THEOREM LatestReportIsNewest == Spec => []LatestIsNewest
<1>1. IInv => LatestIsNewest
  BY DEF IInv, BindingInv
<1> QED  BY <1>1, InvHolds, PTL

(* An active binding does not use a revoked installation (bind, webhook).  *)
THEOREM RevokedInstallationsStayOut == Spec => []RevokedStaysOut
<1>1. IInv => RevokedStaysOut
  BY DEF IInv, BindingInv
<1> QED  BY <1>1, InvHolds, PTL

(* Every item is linked to its finding, and a handler that is about to     *)
(* report success has an answer to every finding (applyRepairs, OnApplied).*)
THEOREM RepairsStayRecorded == Spec => []RepairsAreRecorded
<1>1. IInv => RepairsAreRecorded
  BY DEF IInv, RepairInv, ActionInv, Walks, Linked, RepairsAreRecorded
<1> QED  BY <1>1, InvHolds, PTL

-----------------------------------------------------------------------------
(* A finding is only repaired for the latest report.                       *)
Fresh ==
  \A r \in Reports, n \in Findings :
    action'[<<r, n>>].status = "applied" /\ action[<<r, n>>].status # "applied" =>
      binding.latest = r /\ docs = r.docs /\ Authorized

LEMMA FreshStep == IInv /\ [Next]_vars => [Fresh]_vars
<1> SUFFICES ASSUME IInv, Next  PROVE Fresh
  OBVIOUS
<1>1. CASE UNCHANGED action
  BY <1>1 DEF Fresh
<1>2. ASSUME NEW r \in Reports, RepairStep(r)  PROVE Fresh
  <2>a. /\ RepairInv /\ Walks(r) /\ action \in [RepairKeys -> Actions]
        /\ \A k \in RepairKeys : run[k] # "none" => Linked(k)
    BY DEF IInv, RepairInv, ActionInv
  <2>b. repairing[r].pc \in AtFinding => Here(r) \in RepairKeys
    BY <2>a, HereIsKey
  <2>1. ASSUME repairing[r].pc \in AtFinding,
               \A k \in RepairKeys \ {Here(r)} : action'[k] = action[k],
               (Current(r) /\ Authorized) \/ action'[Here(r)].status = action[Here(r)].status
                 \/ action'[Here(r)].status # "applied"
        PROVE  Fresh
    <3> SUFFICES ASSUME NEW p \in Reports, NEW n \in Findings,
                        action'[<<p, n>>].status = "applied", action[<<p, n>>].status # "applied"
                 PROVE  binding.latest = p /\ docs = p.docs /\ Authorized
      BY DEF Fresh
    <3>1. <<p, n>> \in RepairKeys
      BY DEF RepairKeys
    <3>2. <<p, n>> = Here(r)
      BY <2>1, <3>1
    <3>3. p = r
      BY <3>2 DEF Here
    <3> QED  BY <2>1, <3>2, <3>3 DEF Current
  <2>2. CASE ReuseRepair(r)
    <3>1. repairing[r].pc \in AtFinding
      BY <2>2 DEF ReuseRepair, AtFinding
    <3>2. CASE UNCHANGED action
      BY <1>1, <3>2
    <3>3. CASE /\ Current(r) /\ Authorized
               /\ action' = [action EXCEPT ![Here(r)] =
                               [status |-> "applied", run |-> repairing[r].old]]
      BY <2>1, <2>a, <2>b, <3>1, <3>3
    <3> QED  BY <2>2, <3>2, <3>3 DEF ReuseRepair, May
  <2>3. CASE ApplyRepair(r)
    <3>1. repairing[r].pc \in AtFinding
      BY <2>3 DEF ApplyRepair, AtFinding
    <3>2. CASE UNCHANGED action
      BY <1>1, <3>2
    <3>3. CASE Authorized /\ ~Refused(r) /\ Applied(Here(r))
      <4>1. Current(r)
        BY <3>3 DEF Refused
      <4>2. \A k \in RepairKeys \ {Here(r)} : action'[k] = action[k]
        BY <2>a, <3>3 DEF Applied
      <4> QED  BY <2>1, <3>1, <3>3, <4>1, <4>2
    <3> QED  BY <2>3, <3>2, <3>3 DEF ApplyRepair, repairs
  <2>4. CASE RecordRepair(r)
    <3> DEFINE k == Here(r)
               answer == repairing[r].answer
    <3>1. repairing[r].pc = "record" /\ k \in RepairKeys /\ action' = Recorded(k, answer)
      BY <2>4, <2>b DEF RecordRepair, AtFinding
    <3>2. answer = "applied" => action[k].status = "applied"
      BY <2>a, <3>1 DEF Walks, Linked
    <3>3. /\ \A j \in RepairKeys \ {k} : action'[j] = action[j]
          /\ action'[k].status = IF action[k].status = "applied" THEN "applied" ELSE answer
      BY <2>a, <3>1 DEF Recorded, Actions
    <3> QED  BY <2>1, <3>1, <3>2, <3>3 DEF AtFinding
  <2> QED
    BY <1>1, <1>2, <2>2, <2>3, <2>4
       DEF RepairStep, StartRepair, LookForRepair, WaitForFrequency, ReturnRepair, repairs
<1>3. ASSUME NEW r \in Reports, CrashRepair(r)  PROVE Fresh
  BY <1>1, <1>3 DEF CrashRepair, repairs
<1>4. ASSUME NEW q \in Requests, SyncStep(q) \/ BreakSync(q) \/ CrashSync(q)  PROVE Fresh
  <2>1. UNCHANGED Rest
    BY <1>4 DEF SyncStep, StartSync, BeginSync, ReadEvidence, MakeReport, FailSync, ReturnSync,
                BreakSync, CrashSync
  <2> QED  BY <1>1, <2>1 DEF Rest, repairs
<1>5. CASE \/ \E s \in Sources : RequestSync(s)
           \/ \E u \in Users, i \in Installations : Bind(u, i)
           \/ Unbind
           \/ \E i \in Installations : Revoke(i)
           \/ \E u \in Users : ChangeRole(u)
           \/ PutPolicy \/ EditDocuments \/ WindowPasses
           \/ \E s \in Pulls : EditPull(s)
           \/ \E k \in RepairKeys : UndoRepair(k)
           \/ StartReconcile \/ BreakReconcile \/ FinishReconcile
  BY <1>1, <1>5 DEF RequestSync, Bind, Unbind, Revoke, ChangeRole, PutPolicy, EditDocuments,
                    WindowPasses, EditPull, UndoRepair, StartReconcile, BreakReconcile,
                    FinishReconcile, repairs
<1> QED  BY <1>2, <1>3, <1>4, <1>5 DEF Next

(* Whatever a handler read at its beginning, an action becomes "applied"   *)
(* only for the latest report, with its documents unchanged and its        *)
(* binding authorized (ApplyExternal's and reuseRepair's checks).          *)
THEOREM OldReportsRepairNothing == Spec => HistoryRepairsNothing
<1>1. HistoryRepairsNothing <=> [][Fresh]_vars
  BY Zenon DEF HistoryRepairsNothing, Fresh
<1> QED  BY <1>1, FreshStep, InvHolds, PTL DEF Spec

-----------------------------------------------------------------------------
(* Requests and reports are not forgotten                                  *)

Settled == {"completed", "failed", "revoked"}

(* The event of a request is with its handler, or returned once the        *)
(* request was settled.                                                    *)
Followed(q) ==
  /\ (syncing[q].pc = "idle") <=> (task[SyncEvent(q)] # "active")
  /\ request[q].status # "none" => task[SyncEvent(q)] # "absent"
  /\ task[SyncEvent(q)] = "done" \/ syncing[q].pc = "nil" => request[q].status \in Settled
  /\ request[q].status = "completed" => request[q].report \in reports

FollowInv ==
  /\ \A q \in Requests : Followed(q)
  /\ \A r \in reports : task[RepairEvent(r)] # "absent"

(* A request that waits will be taken up again, or its event is archived   *)
(* where an operator finds it; a completed one has its report, and every   *)
(* report was handed to quality.repair.                                    *)
NothingWaitsInVain ==
  /\ \A q \in Requests :
       /\ request[q].status \in {"queued", "running"} => Queue!Kept(SyncEvent(q))
       /\ request[q].status = "completed" => request[q].report \in reports
  /\ \A r \in reports : task[RepairEvent(r)] # "absent"

LEMMA FollowStays ==
  ASSUME FollowInv, UNCHANGED <<request, syncing, reports>>,
         \A q \in Requests : task'[SyncEvent(q)] = task[SyncEvent(q)],
         \A r \in reports : task'[RepairEvent(r)] # "absent"
  PROVE  FollowInv'
BY DEF FollowInv, Followed

(* Only the request q, its handler and its event change.                   *)
LEMMA OneFollows ==
  ASSUME FollowInv, NEW q \in Requests, Followed(q)', reports \subseteq reports',
         \A p \in Requests \ {q} : /\ request'[p] = request[p] /\ syncing'[p] = syncing[p]
                                   /\ task'[SyncEvent(p)] = task[SyncEvent(p)],
         \A r \in reports' : task'[RepairEvent(r)] # "absent"
  PROVE  FollowInv'
BY DEF FollowInv, Followed

LEMMA EnqueueFollows ==
  ASSUME SyncInv, BindingInv, FollowInv, NEW s \in Sources, Enqueue(s),
         UNCHANGED <<syncing, reports>>
  PROVE  FollowInv'
<1> USE EventsAreApart
<1>1. PICK q \in Requests :
        /\ request[q].status = "none"
        /\ request' = [request EXCEPT ![q].status = "queued", ![q].source = s]
        /\ Queue!Publish(SyncEvent(q))
  BY EnqueuesOne
<1>2. \A j \in Events \ {SyncEvent(q)} : task'[j] = task[j]
  BY <1>1, PublishTypes DEF SyncInv
<1>3. task[SyncEvent(q)] = "absent" /\ syncing[q].pc = "idle" /\ task'[SyncEvent(q)] = "ready"
  BY <1>1 DEF SyncInv, Queue!DeliveryTypeOK, Queue!Publish, Queue!Published
<1>4. /\ request'[q].status = "queued"
      /\ \A p \in Requests \ {q} : request'[p] = request[p]
  BY <1>1 DEF SyncInv, RequestRows
<1>5. Followed(q)'
  BY <1>3, <1>4 DEF Followed
<1>6. \A r \in reports : task'[RepairEvent(r)] # "absent"
  BY <1>2 DEF FollowInv, BindingInv
<1> QED  BY <1>2, <1>4, <1>5, <1>6, OneFollows

LEMMA SyncFollows ==
  ASSUME IInv, FollowInv, NEW q \in Requests, SyncStep(q) \/ BreakSync(q) \/ CrashSync(q)
  PROVE  FollowInv'
<1> USE EventsAreApart
<1> DEFINE e == SyncEvent(q)
<1>a. /\ Queue!DeliveryTypeOK /\ syncing \in [Requests -> Syncs]
      /\ request \in [Requests -> RequestRows] /\ e \in Events /\ reports \subseteq Reports
  BY DEF IInv, SyncInv, BindingInv
<1>b. Followed(q) /\ \A r \in reports : task[RepairEvent(r)] # "absent"
  BY DEF FollowInv
<1>c. ASSUME UNCHANGED <<reports, request>>,
             \A p \in Requests \ {q} : syncing'[p] = syncing[p],
             \A j \in Events \ {e} : task'[j] = task[j],
             Followed(q)'
      PROVE  FollowInv'
  <2>1. \A r \in reports' : task'[RepairEvent(r)] # "absent"
    BY <1>a, <1>b, <1>c
  <2> QED  BY <1>c, <2>1, OneFollows
<1>d. ASSUME UNCHANGED <<reports, delivery>>, syncing[q].pc # "idle",
             NEW pc \in SyncSteps \ {"idle"}, syncing'[q].pc = pc,
             \A p \in Requests \ {q} : syncing'[p] = syncing[p] /\ request'[p] = request[p],
             request'[q].status # "none",
             request'[q].status = "completed" => request'[q].report \in reports,
             pc = "nil" => request'[q].status \in Settled
      PROVE  FollowInv'
  <2>1. UNCHANGED task /\ task[e] = "active"
    BY <1>b, <1>d DEF delivery, Followed
  <2>2. Followed(q)'
    BY <1>d, <2>1 DEF Followed
  <2> QED  BY <1>b, <1>d, <2>1, <2>2, OneFollows
<1>e. ASSUME NEW pc \in SyncSteps, SyncAt(q, pc)
      PROVE  syncing'[q].pc = pc /\ \A p \in Requests \ {q} : syncing'[p] = syncing[p]
  BY <1>a, <1>e DEF SyncAt, Syncs
<1>f. ASSUME NEW cause, SyncFails(q, cause)
      PROVE  syncing'[q].pc = "fail" /\ \A p \in Requests \ {q} : syncing'[p] = syncing[p]
  BY <1>a, <1>f DEF SyncFails, Syncs
<1>g. syncing[q].pc # "idle" => /\ request[q].status # "none"
                                /\ request[q].status = "completed" => request[q].report \in reports
  BY <1>b DEF IInv, SyncInv, Followed
<1>1. CASE StartSync(q)
  <2>1. /\ Queue!Take(e) /\ UNCHANGED <<reports, request>>
        /\ syncing' = [syncing EXCEPT ![q] =
             [Idle EXCEPT !.pc = FirstStep(q), !.by = binding.creator]]
    BY <1>1 DEF StartSync, Idle, quality
  <2>2. task[e] = "ready" /\ task'[e] = "active" /\ \A j \in Events \ {e} : task'[j] = task[j]
    BY <1>a, <2>1, TakeTypes
  <2>3. /\ syncing'[q].pc = FirstStep(q) /\ FirstStep(q) # "idle"
        /\ FirstStep(q) = "nil" => request[q].status \in Settled
        /\ \A p \in Requests \ {q} : syncing'[p] = syncing[p]
    BY <1>a, <2>1 DEF FirstStep, Settled
  <2>4. Followed(q)'
    BY <1>b, <2>1, <2>2, <2>3 DEF Followed
  <2> QED  BY <1>c, <2>1, <2>2, <2>3, <2>4
<1>2. CASE BeginSync(q)
  <2>1. syncing[q].pc = "begin" /\ UNCHANGED <<reports, delivery>>
    BY <1>2 DEF BeginSync, quality
  <2>2. CASE request' = [request EXCEPT ![q].status = "running"] /\ SyncAt(q, "read")
    <3>1. request'[q].status = "running" /\ \A p \in Requests \ {q} : request'[p] = request[p]
      BY <1>a, <2>2 DEF RequestRows
    <3> QED  BY <1>d, <1>e, <2>1, <2>2, <3>1 DEF SyncSteps
  <2>3. CASE SyncFails(q, "revoked") /\ UNCHANGED request
    BY <1>d, <1>f, <1>g, <2>1, <2>3 DEF SyncSteps
  <2> QED  BY <1>2, <2>2, <2>3 DEF BeginSync
<1>3. CASE ReadEvidence(q) \/ BreakSync(q)
  <2>1. syncing[q].pc \in {"begin", "read", "report"} /\ UNCHANGED <<request, reports, delivery>>
    BY <1>3 DEF ReadEvidence, BreakSync, quality
  <2>2. \/ syncing' = [syncing EXCEPT ![q].pc = "report", ![q].at = sourceAt[request[q].source]]
        \/ \E cause : SyncFails(q, cause)
    BY <1>3 DEF ReadEvidence, BreakSync
  <2>3. /\ syncing'[q].pc \in {"report", "fail"}
        /\ \A p \in Requests \ {q} : syncing'[p] = syncing[p]
    BY <1>a, <1>f, <2>2 DEF Syncs
  <2> QED  BY <1>d, <1>g, <2>1, <2>3 DEF SyncSteps
<1>4. CASE MakeReport(q)
  <2> DEFINE r == [source |-> request[q].source, docs |-> docs]
  <2>1. syncing[q].pc = "report"
    BY <1>4 DEF MakeReport
  <2>2. r \in Reports
    BY <1>g, <2>1 DEF IInv, SyncInv, Reports, ProjectTypes
  <2>3. CASE /\ reports' = reports \cup {r}
             /\ request' = [request EXCEPT ![q].status = "completed", ![q].report = r]
             /\ Queue!Publish(RepairEvent(r))
             /\ SyncAt(q, "nil") \/ SyncFails(q, "error")
    <3>1. /\ syncing'[q].pc \in {"nil", "fail"}
          /\ \A p \in Requests \ {q} : syncing'[p] = syncing[p]
      BY <1>e, <1>f, <2>3 DEF SyncSteps
    <3>2. /\ request'[q].status = "completed" /\ request'[q].report = r
          /\ \A p \in Requests \ {q} : request'[p] = request[p]
      BY <1>a, <2>3 DEF RequestRows
    <3>3. /\ task'[RepairEvent(r)] # "absent"
          /\ \A j \in Events \ {RepairEvent(r)} : task'[j] = task[j]
      BY <1>a, <2>2, <2>3 DEF Queue!DeliveryTypeOK, Queue!Publish, Queue!Published
    <3>4. \A p \in Requests : task'[SyncEvent(p)] = task[SyncEvent(p)]
      BY <2>2, <3>3
    <3>5. \A x \in reports' : task'[RepairEvent(x)] # "absent"
      BY <1>a, <1>b, <2>2, <2>3, <3>3
    <3>6. task[e] = "active"
      BY <1>b, <2>1 DEF Followed
    <3>7. Followed(q)'
      BY <2>3, <3>1, <3>2, <3>4, <3>6 DEF Followed, Settled
    <3> QED  BY <2>3, <3>1, <3>2, <3>4, <3>5, <3>7, OneFollows
  <2>4. CASE SyncFails(q, "revoked") /\ UNCHANGED <<request, reports, delivery>>
    BY <1>d, <1>f, <1>g, <2>1, <2>4 DEF SyncSteps
  <2> QED  BY <1>4, <2>3, <2>4 DEF MakeReport, quality
<1>5. CASE FailSync(q)
  <2> DEFINE cause == syncing[q].cause
             end == IF ReturnsNil(cause) THEN "nil" ELSE "error"
  <2>1. /\ syncing[q].pc = "fail" /\ request' = RequestFailed(q, cause)
        /\ SyncAt(q, end) /\ UNCHANGED <<reports, delivery>>
    BY <1>5 DEF FailSync, quality
  <2>2. /\ syncing'[q].pc = end /\ end \in SyncSteps \ {"idle"}
        /\ \A p \in Requests \ {q} : syncing'[p] = syncing[p]
    BY <1>e, <2>1 DEF SyncSteps
  <2>3. /\ \/ request[q].status = "completed" /\ request' = request
           \/ request[q].status # "completed" /\ request'[q].status = StatusAfter(cause)
        /\ \A p \in Requests \ {q} : request'[p] = request[p]
    BY <1>a, <2>1 DEF RequestFailed, RequestRows
  <2>4. StatusAfter(cause) \notin {"none", "completed"}
        /\ (end = "nil" => StatusAfter(cause) \in Settled)
    BY DEF StatusAfter, ReturnsNil, Settled
  <2>5. /\ request'[q].status # "none"
        /\ request'[q].status = "completed" => request'[q].report \in reports
        /\ end = "nil" => request'[q].status \in Settled
    BY <1>g, <2>1, <2>3, <2>4 DEF Settled
  <2> HIDE DEF end
  <2> QED  BY <1>d, <2>1, <2>2, <2>3, <2>5
<1>6. CASE ReturnSync(q) \/ CrashSync(q)
  <2>1. /\ \/ Queue!Ack(e) /\ syncing[q].pc = "nil"
           \/ Queue!GiveBack(e)
        /\ syncing' = [syncing EXCEPT ![q] = Idle] /\ UNCHANGED <<request, reports>>
    BY <1>6 DEF ReturnSync, CrashSync, quality
  <2>2. /\ \/ task'[e] = "done" /\ request[q].status \in Settled
           \/ task'[e] \in {"ready", "archived"}
        /\ \A j \in Events \ {e} : task'[j] = task[j]
    BY <1>a, <1>b, <2>1, AckTypes, GiveBackTypes DEF Followed
  <2>3. syncing'[q].pc = "idle" /\ \A p \in Requests \ {q} : syncing'[p] = syncing[p]
    BY <1>a, <2>1 DEF Idle
  <2>4. Followed(q)'
    BY <1>b, <2>1, <2>2, <2>3 DEF Followed
  <2> QED  BY <1>c, <2>1, <2>2, <2>3, <2>4
<1> QED  BY <1>1, <1>2, <1>3, <1>4, <1>5, <1>6 DEF SyncStep

LEMMA RepairFollows ==
  ASSUME IInv, FollowInv, NEW r \in Reports, RepairStep(r) \/ CrashRepair(r)
  PROVE  FollowInv'
<1> USE EventsAreApart
<1>a. Queue!DeliveryTypeOK /\ reports \subseteq Reports /\ RepairEvent(r) \in Events
  BY DEF IInv, SyncInv, BindingInv
<1>1. UNCHANGED <<request, syncing, reports>>
  BY DEF RepairStep, StartRepair, LookForRepair, ReuseRepair, ApplyRepair, WaitForFrequency,
         RecordRepair, ReturnRepair, CrashRepair, Others, quality
<1>2. \/ UNCHANGED delivery
      \/ Queue!Take(RepairEvent(r)) \/ Queue!Ack(RepairEvent(r)) \/ Queue!GiveBack(RepairEvent(r))
  BY DEF RepairStep, StartRepair, LookForRepair, ReuseRepair, ApplyRepair, WaitForFrequency,
         RecordRepair, ReturnRepair, CrashRepair
<1>3. \/ UNCHANGED task
      \/ /\ task'[RepairEvent(r)] # "absent"
         /\ \A j \in Events \ {RepairEvent(r)} : task'[j] = task[j]
  BY <1>a, <1>2, TakeTypes, AckTypes, GiveBackTypes DEF delivery
<1>4. \A q \in Requests : task'[SyncEvent(q)] = task[SyncEvent(q)]
  BY <1>3
<1>5. \A x \in reports : task'[RepairEvent(x)] # "absent"
  BY <1>a, <1>3 DEF FollowInv
<1> QED  BY <1>1, <1>4, <1>5, FollowStays

LEMMA FollowStep == IInv /\ FollowInv /\ [Next]_vars => FollowInv'
<1> SUFFICES ASSUME IInv, FollowInv, [Next]_vars  PROVE FollowInv'
  OBVIOUS
<1>a. SyncInv /\ BindingInv
  BY DEF IInv
<1>b. ASSUME UNCHANGED <<request, syncing, reports, delivery>>  PROVE FollowInv'
  BY <1>b, FollowStays DEF delivery, FollowInv
<1>1. CASE UNCHANGED vars
  BY <1>1, <1>b DEF vars, handlers, quality
<1>2. CASE \E s \in Sources : RequestSync(s)
  BY <1>2, <1>a, EnqueueFollows DEF RequestSync, handlers, quality
<1>3. CASE \/ \E u \in Users, i \in Installations : Bind(u, i)
           \/ Unbind
           \/ \E i \in Installations : Revoke(i)
           \/ \E u \in Users : ChangeRole(u)
           \/ PutPolicy \/ EditDocuments \/ WindowPasses
           \/ \E s \in Pulls : EditPull(s)
           \/ \E k \in RepairKeys : UndoRepair(k)
           \/ StartReconcile \/ BreakReconcile
  BY <1>3, <1>b DEF Bind, Unbind, Revoke, ChangeRole, PutPolicy, EditDocuments, WindowPasses,
                    EditPull, UndoRepair, StartReconcile, BreakReconcile, handlers,
                    quality
<1>4. CASE FinishReconcile
  <2>1. /\ UNCHANGED <<syncing, reports>>
        /\ (\E s \in Sources : Enqueue(s)) \/ UNCHANGED <<request, delivery>>
    BY <1>4 DEF FinishReconcile, quality
  <2> QED  BY <1>a, <1>b, <2>1, EnqueueFollows
<1> QED  BY <1>1, <1>2, <1>3, <1>4, SyncFollows, RepairFollows DEF Next

(* No request waits in vain and no report goes unrepaired: whoever changes *)
(* a row publishes the event in the same transaction, and a handler gives  *)
(* its event back unless the request is settled (processSync, syncFailure  *)
(* and what they return).                                                  *)
THEOREM RequestsAreRemembered == Spec => []NothingWaitsInVain
<1>1. Init => FollowInv
  BY DEF Init, Queue!DeliveryInit, FollowInv, Followed, Idle, Events, SyncEvent
<1>2. IInv /\ FollowInv => NothingWaitsInVain
  <2> SUFFICES ASSUME IInv, FollowInv, NEW q \in Requests,
                      request[q].status \in {"queued", "running"}
               PROVE  Queue!Kept(SyncEvent(q))
    BY DEF NothingWaitsInVain, FollowInv, Followed
  <2>1. task[SyncEvent(q)] \in {"absent", "ready", "active", "done", "archived"}
    BY EventsAreApart DEF IInv, SyncInv, Queue!DeliveryTypeOK, Queue!TaskStates
  <2>2. task[SyncEvent(q)] \notin {"absent", "done"}
    BY DEF FollowInv, Followed, Settled
  <2> QED  BY <2>1, <2>2 DEF Queue!Kept
<1> QED  BY <1>1, <1>2, FollowStep, InvHolds, PTL DEF Spec
=============================================================================
