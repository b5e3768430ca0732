------------------------------- MODULE Outbox -------------------------------
(***************************************************************************)
(* platform/jobs: the transactional outbox.  A caller's transaction        *)
(* publishes an event as a row; a dispatcher in every worker process polls *)
(* the rows and enqueues them in Redis under a task id that is the row's   *)
(* id; Asynq (external) hands tasks to handlers.  A dispatch is ONE        *)
(* database transaction that talks to Redis in the middle, so it can stop  *)
(* with Redis already changed and the row not marked.                      *)
(*                                                                         *)
(* A definition whose comment begins with "Slip" is no part of the model:  *)
(* it is a plausible bug in the definition that follows it.                *)
(***************************************************************************)
EXTENDS Naturals, Sequences, FiniteSets

CONSTANTS Keys,         \* deduplication keys
          Dispatchers,  \* worker processes, each running one dispatcher
          BatchLimit,   \* rows one dispatch selects (LIMIT 50)
          MaxRetry,     \* Asynq retries of a task (10)
          MaxFaults     \* bound: aborted dispatches, lost replies, outages

ASSUME OutboxAssumption ==
  /\ BatchLimit \in Nat \ {0}
  /\ MaxRetry \in Nat
  /\ MaxFaults \in Nat

VARIABLES row,      \* row[k]: the row of outbox_events with that key
          created,  \* the rows in the order of created_at
          todo,     \* todo[d]: selected rows dispatcher d has yet to send
          held,     \* held[d]: rows d's open transaction has locked
          marked,   \* marked[d]: rows it set dispatched_at on, uncommitted
          queue,    \* queue[k]: the Asynq task whose id is the row's
          retried,  \* retried[k]: deliveries Asynq took back
          redisUp,  \* Redis answers
          faults    \* faults so far, at most MaxFaults

tables    == <<row, created>>
dispatch  == <<todo, held, marked>>
redis     == <<queue, retried>>
outboxVars == <<row, created, todo, held, marked, queue, retried, redisUp, faults>>

QueueStates == {"absent", "ready", "active", "done", "archived"}

(* Also: a row is only marked dispatched, even inside a transaction that   *)
(* may yet abort, when Redis holds its task; a row that is locked by one   *)
(* dispatcher is in no other's transaction; and what is locked or queued   *)
(* has been published.                                                     *)
TypeOK ==
  /\ row \in [Keys -> {"none", "pending", "dispatched"}]
  /\ created \in Seq(Keys)
  /\ todo \in [Dispatchers -> SUBSET Keys]
  /\ held \in [Dispatchers -> SUBSET Keys]
  /\ marked \in [Dispatchers -> SUBSET Keys]
  /\ queue \in [Keys -> QueueStates]
  /\ retried \in [Keys -> 0 .. MaxRetry]
  /\ redisUp \in BOOLEAN
  /\ faults \in 0 .. MaxFaults
  /\ \A d \in Dispatchers :
       /\ marked[d] \subseteq held[d] /\ todo[d] \subseteq held[d]
       /\ \A k \in held[d] : row[k] = "pending"
       /\ \A k \in marked[d] : queue[k] # "absent"
       /\ \A e \in Dispatchers \ {d} : held[d] \cap held[e] = {}
  /\ \A k \in Keys : queue[k] # "absent" => row[k] # "none"

Init ==
  /\ row = [k \in Keys |-> "none"]
  /\ created = <<>>
  /\ todo = [d \in Dispatchers |-> {}]
  /\ held = [d \in Dispatchers |-> {}]
  /\ marked = [d \in Dispatchers |-> {}]
  /\ queue = [k \in Keys |-> "absent"]
  /\ retried = [k \in Keys |-> 0]
  /\ redisUp = TRUE
  /\ faults = 0

-----------------------------------------------------------------------------
(* INSERT ... ON CONFLICT(deduplication_key) DO NOTHING, committed with    *)
(* the caller's own writes.                                                *)
Publish(k) ==
  /\ IF row[k] = "none"
     THEN /\ row' = [row EXCEPT ![k] = "pending"]
          /\ created' = Append(created, k)
     ELSE UNCHANGED tables
  /\ UNCHANGED <<dispatch, redis, redisUp, faults>>

Locked == UNION {held[d] : d \in Dispatchers}

Before(j, k) ==
  \E m, n \in DOMAIN created : m < n /\ created[m] = j /\ created[n] = k

Free == {k \in Keys : row[k] = "pending" /\ k \notin Locked}

(* Slip: the limit is applied before the filter.                           *)
SelectableAmongFirst ==
  {k \in Free : Cardinality({j \in Keys : Before(j, k)}) < BatchLimit}

(* SELECT ... WHERE dispatched_at IS NULL ORDER BY created_at LIMIT n      *)
(* FOR UPDATE SKIP LOCKED.                                                 *)
Selectable == {k \in Free : Cardinality({j \in Free : Before(j, k)}) < BatchLimit}

Idle(d) == held[d] = {}

Select(d) ==
  /\ Idle(d)
  /\ Selectable # {}
  /\ todo' = [todo EXCEPT ![d] = Selectable]
  /\ held' = [held EXCEPT ![d] = Selectable]
  /\ UNCHANGED <<tables, marked, redis, redisUp, faults>>

(* Slip: the task gets an id of its own.                                   *)
EnqueuedAnew(k) == [queue EXCEPT ![k] = "ready"]

(* What an enqueue with the row's id as the task id leaves in Redis: a     *)
(* task that already exists is kept (ErrTaskIDConflict).                   *)
Enqueued(k) ==
  IF queue[k] = "absent" THEN [queue EXCEPT ![k] = "ready"] ELSE queue

(* The rows are sent in the order in which they were selected.             *)
Turn(d, k) ==
  /\ k \in todo[d]
  /\ \A j \in todo[d] : ~Before(j, k)

(* The enqueue returned nil or ErrTaskIDConflict: dispatched_at is set.    *)
SendAccepted(d, k) ==
  /\ Turn(d, k)
  /\ redisUp
  /\ queue' = Enqueued(k)
  /\ marked' = [marked EXCEPT ![d] = @ \cup {k}]
  /\ todo' = [todo EXCEPT ![d] = @ \ {k}]
  /\ UNCHANGED <<tables, held, retried, redisUp, faults>>

(* Slip: the row is marked although the enqueue failed.                    *)
SendFailedMarks(d, k) ==
  /\ Turn(d, k)
  /\ ~redisUp
  /\ marked' = [marked EXCEPT ![d] = @ \cup {k}]
  /\ todo' = [todo EXCEPT ![d] = @ \ {k}]
  /\ UNCHANGED <<tables, held, redis, redisUp, faults>>

(* The enqueue returned any other error: last_error is set and the row     *)
(* stays pending.                                                          *)
SendFailed(d, k) ==
  /\ Turn(d, k)
  /\ ~redisUp
  /\ todo' = [todo EXCEPT ![d] = @ \ {k}]
  /\ UNCHANGED <<tables, held, marked, redis, redisUp, faults>>

(* Redis stored the task but its reply was lost: an error for the          *)
(* dispatcher, a task for the handlers.                                    *)
SendReplyLost(d, k) ==
  /\ Turn(d, k)
  /\ redisUp
  /\ faults < MaxFaults
  /\ queue' = Enqueued(k)
  /\ todo' = [todo EXCEPT ![d] = @ \ {k}]
  /\ faults' = faults + 1
  /\ UNCHANGED <<tables, held, marked, retried, redisUp>>

Released(d) ==
  /\ held' = [held EXCEPT ![d] = {}]
  /\ marked' = [marked EXCEPT ![d] = {}]
  /\ todo' = [todo EXCEPT ![d] = {}]

Commit(d) ==
  /\ ~Idle(d)
  /\ todo[d] = {}
  /\ row' = [k \in Keys |-> IF k \in marked[d] THEN "dispatched" ELSE row[k]]
  /\ Released(d)
  /\ UNCHANGED <<created, redis, redisUp, faults>>

(* The process died or an UPDATE failed: the transaction is rolled back,   *)
(* whatever Redis already holds.                                           *)
Abort(d) ==
  /\ ~Idle(d)
  /\ faults < MaxFaults
  /\ Released(d)
  /\ faults' = faults + 1
  /\ UNCHANGED <<tables, redis, redisUp>>

-----------------------------------------------------------------------------
(* Asynq and Redis.                                                        *)
Take(k) ==
  /\ redisUp
  /\ queue[k] = "ready"
  /\ queue' = [queue EXCEPT ![k] = "active"]
  /\ UNCHANGED <<tables, dispatch, retried, redisUp, faults>>

Ack(k) ==
  /\ redisUp
  /\ queue[k] = "active"
  /\ queue' = [queue EXCEPT ![k] = "done"]
  /\ UNCHANGED <<tables, dispatch, retried, redisUp, faults>>

MayRetry(k) == retried[k] < MaxRetry

GiveBack(k) ==
  /\ redisUp
  /\ queue[k] = "active"
  /\ \/ /\ MayRetry(k)
        /\ queue' = [queue EXCEPT ![k] = "ready"]
        /\ retried' = [retried EXCEPT ![k] = @ + 1]
     \/ /\ ~MayRetry(k)
        /\ queue' = [queue EXCEPT ![k] = "archived"]
        /\ UNCHANGED retried
  /\ UNCHANGED <<tables, dispatch, redisUp, faults>>

(* Redis drops a completed task when its retention (seven days) is over.   *)
(* The dispatch that enqueued it is repeated every second, so the row is   *)
(* taken to be marked by then.                                             *)
Forget(k) ==
  /\ queue[k] = "done"
  /\ row[k] = "dispatched"
  /\ queue' = [queue EXCEPT ![k] = "absent"]
  /\ UNCHANGED <<tables, dispatch, retried, redisUp, faults>>

Outage ==
  /\ redisUp
  /\ faults < MaxFaults
  /\ redisUp' = FALSE
  /\ faults' = faults + 1
  /\ UNCHANGED <<tables, dispatch, redis>>

Recover ==
  /\ ~redisUp
  /\ redisUp' = TRUE
  /\ UNCHANGED <<tables, dispatch, redis, faults>>

-----------------------------------------------------------------------------
DispatchStep(d) ==
  \/ Select(d) \/ Commit(d) \/ Abort(d)
  \/ \E k \in Keys : SendAccepted(d, k) \/ SendFailed(d, k) \/ SendReplyLost(d, k)

QueueStep(k) == Take(k) \/ Ack(k) \/ GiveBack(k) \/ Forget(k)

Next ==
  \/ \E k \in Keys : Publish(k) \/ QueueStep(k)
  \/ \E d \in Dispatchers : DispatchStep(d)
  \/ Outage \/ Recover

Spec == Init /\ [][Next]_outboxVars

(* The dispatcher's ticker and Asynq's workers keep running, a process     *)
(* that died is restarted, and Redis comes back.                           *)
Fairness ==
  /\ \A d \in Dispatchers :
       WF_outboxVars(\/ Select(d) \/ Commit(d)
                     \/ \E k \in Keys : SendAccepted(d, k) \/ SendFailed(d, k))
  /\ \A k \in Keys : WF_outboxVars(Take(k))
  /\ WF_outboxVars(Recover)

FairSpec == Spec /\ Fairness

-----------------------------------------------------------------------------
(* Where a caller that only knows TaskDelivery sees the event: published   *)
(* but not yet in Redis looks "ready", dispatched and dropped by Redis     *)
(* looks "done".                                                           *)
EventView ==
  [k \in Keys |->
     IF row[k] = "none" THEN "absent"
     ELSE IF queue[k] # "absent" THEN queue[k]
     ELSE IF row[k] = "pending" THEN "ready" ELSE "done"]

Delivery == INSTANCE TaskDelivery WITH task <- EventView, retried <- retried

(* The outbox implements TaskDelivery: whatever is aborted, lost or sent   *)
(* twice between the row and Redis, no published event is lost, none comes *)
(* out of nothing, and none is handed out again once a handler accepted    *)
(* it (jobs.go: one transaction around the enqueue, the row id as task id).*)
ImplementsDelivery == Delivery!DeliverySpec

(* A published event reaches a handler, however often dispatches abort and *)
(* Redis is away in between (Dispatch retries every undispatched row).     *)
PublishedIsTaken ==
  \A k \in Keys : (EventView[k] = "ready") ~> (EventView[k] # "ready")
=============================================================================
