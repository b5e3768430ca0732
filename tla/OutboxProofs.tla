---------------------------- MODULE OutboxProofs ----------------------------
(***************************************************************************)
(* The outbox implements TaskDelivery, for any number of events,           *)
(* dispatchers, retries and faults and for any size of a batch.            *)
(*                                                                         *)
(* Each step of the outbox is a step of TaskDelivery on its event, or none *)
(* at all: a published event looks ready before Redis has its task, so     *)
(* that selecting, sending, losing the reply, rolling back and marking the *)
(* row are nothing a caller could notice.  TypeOK says why: what is being  *)
(* sent is still pending, and what is marked is in Redis.                  *)
(***************************************************************************)
EXTENDS Outbox, SequenceTheorems, TLAPS

(* Only one dispatcher's transaction changes.                              *)
LEMMA DispatchTypes ==
  ASSUME TypeOK, NEW d \in Dispatchers, DispatchStep(d)
  PROVE  TypeOK'
<1> USE OutboxAssumption
<1>1. CASE Select(d)
  <2>1. /\ Selectable \subseteq Keys
        /\ \A k \in Selectable : row[k] = "pending" /\ \A e \in Dispatchers : k \notin held[e]
    BY Zenon DEF Selectable, Free, Locked
  <2>2. marked[d] = {} /\ marked' = marked
    BY <1>1 DEF Select, Idle, TypeOK
  <2>3. held' = [held EXCEPT ![d] = Selectable] /\ todo' = [todo EXCEPT ![d] = Selectable]
    BY <1>1 DEF Select
  <2>4. held' \in [Dispatchers -> SUBSET Keys] /\ todo' \in [Dispatchers -> SUBSET Keys]
    BY <2>1, <2>3 DEF TypeOK
  <2> HIDE DEF Selectable
  <2> QED  BY <1>1, <2>1, <2>2, <2>3, <2>4 DEF TypeOK, Select, tables, redis
<1>2. ASSUME NEW k \in Keys, SendAccepted(d, k) \/ SendFailed(d, k) \/ SendReplyLost(d, k)
      PROVE  TypeOK'
  <2>1. k \in held[d] /\ row[k] = "pending"
    BY <1>2 DEF SendAccepted, SendFailed, SendReplyLost, Turn, TypeOK
  <2>2. CASE SendAccepted(d, k)
    BY <2>1, <2>2 DEF TypeOK, SendAccepted, Enqueued, tables, QueueStates
  <2>3. CASE SendFailed(d, k)
    BY <2>1, <2>3 DEF TypeOK, SendFailed, tables, redis
  <2>4. CASE SendReplyLost(d, k)
    BY <2>1, <2>4 DEF TypeOK, SendReplyLost, Enqueued, tables, QueueStates
  <2> QED  BY <1>2, <2>2, <2>3, <2>4
<1>3. CASE Commit(d)
  <2>1. /\ held' = [held EXCEPT ![d] = {}] /\ marked' = [marked EXCEPT ![d] = {}]
        /\ todo' = [todo EXCEPT ![d] = {}]
        /\ row' = [k \in Keys |-> IF k \in marked[d] THEN "dispatched" ELSE row[k]]
        /\ UNCHANGED <<created, queue, retried, redisUp, faults>>
    BY <1>3 DEF Commit, Released, redis
  <2>2. \A e \in Dispatchers \ {d} : \A k \in held[e] : row'[k] = "pending"
    BY <2>1 DEF TypeOK
  <2> QED  BY <2>1, <2>2 DEF TypeOK
<1>4. CASE Abort(d)
  BY <1>4 DEF TypeOK, Abort, Released, tables, redis
<1> QED  BY <1>1, <1>2, <1>3, <1>4 DEF DispatchStep

LEMMA QueueTypes ==
  ASSUME TypeOK, NEW k \in Keys, QueueStep(k)
  PROVE  TypeOK'
<1> USE OutboxAssumption DEF tables, dispatch, redis, QueueStates
<1>1. CASE Take(k)
  BY <1>1 DEF TypeOK, Take
<1>2. CASE Ack(k)
  BY <1>2 DEF TypeOK, Ack
<1>3. CASE GiveBack(k)
  <2>1. UNCHANGED <<row, created, todo, held, marked, redisUp, faults>>
    BY <1>3 DEF GiveBack
  <2>2. retried' \in [Keys -> 0 .. MaxRetry]
    BY <1>3 DEF GiveBack, MayRetry, TypeOK
  <2>3. /\ queue' \in [Keys -> QueueStates]
        /\ \A j \in Keys : queue'[j] = "absent" <=> queue[j] = "absent"
    <3>1. /\ queue[k] = "active" /\ queue \in [Keys -> QueueStates]
          /\ \/ queue' = [queue EXCEPT ![k] = "ready"]
             \/ queue' = [queue EXCEPT ![k] = "archived"]
      BY <1>3, Zenon DEF GiveBack, TypeOK
    <3> QED  BY <3>1
  <2> QED  BY <2>1, <2>2, <2>3 DEF TypeOK
<1>4. CASE Forget(k)
  <2>1. \A d \in Dispatchers : k \notin marked[d]
    BY <1>4 DEF TypeOK, Forget
  <2> QED  BY <1>4, <2>1 DEF TypeOK, Forget
<1> QED  BY <1>1, <1>2, <1>3, <1>4 DEF QueueStep

LEMMA StepTypes == TypeOK /\ [Next]_outboxVars => TypeOK'
<1> SUFFICES ASSUME TypeOK, [Next]_outboxVars  PROVE TypeOK'
  OBVIOUS
<1> USE OutboxAssumption
<1>1. ASSUME NEW k \in Keys, Publish(k)  PROVE TypeOK'
  <2>1. CASE row[k] = "none"
    <3>1. \A d \in Dispatchers : k \notin held[d]
      BY <2>1 DEF TypeOK
    <3>2. /\ row' = [row EXCEPT ![k] = "pending"]
          /\ created' = Append(created, k)
          /\ UNCHANGED <<todo, held, marked, queue, retried, redisUp, faults>>
      BY <1>1, <2>1 DEF Publish, dispatch, redis
    <3>3. created' \in Seq(Keys)
      BY <3>2, AppendProperties DEF TypeOK
    <3>4. \A j \in Keys : queue[j] # "absent" => row'[j] # "none"
      BY <3>2 DEF TypeOK
    <3> QED  BY <3>1, <3>2, <3>3, <3>4 DEF TypeOK
  <2>2. CASE row[k] # "none"
    <3>1. UNCHANGED <<row, created, todo, held, marked, queue, retried, redisUp, faults>>
      BY <1>1, <2>2 DEF Publish, tables, dispatch, redis
    <3> QED  BY <3>1 DEF TypeOK
  <2> QED  BY <2>1, <2>2
<1>2. CASE Outage \/ Recover
  <2>1. UNCHANGED <<row, created, todo, held, marked, queue, retried>>
    BY <1>2 DEF Outage, Recover, tables, dispatch, redis
  <2>2. redisUp' \in BOOLEAN
    BY <1>2, Zenon DEF Outage, Recover
  <2>3. \/ faults' = faults
        \/ faults < MaxFaults /\ faults' = faults + 1
    BY <1>2 DEF Outage, Recover, tables, dispatch, redis
  <2>4. faults' \in 0 .. MaxFaults
    BY <2>3 DEF TypeOK
  <2> QED  BY <2>1, <2>2, <2>4 DEF TypeOK
<1>3. CASE UNCHANGED outboxVars
  BY <1>3 DEF TypeOK, outboxVars
<1> QED  BY <1>1, <1>2, <1>3, DispatchTypes, QueueTypes DEF Next

LEMMA InitTypes == Init => TypeOK
BY OutboxAssumption DEF Init, TypeOK, QueueStates

(* What is locked is pending and in one transaction only, a row is marked  *)
(* only when Redis holds its task, and Redis holds only what has been      *)
(* published (Dispatch: FOR UPDATE SKIP LOCKED, the enqueue before the     *)
(* UPDATE, one transaction around both).                                   *)
THEOREM OutboxTypes == Spec => []TypeOK
BY InitTypes, StepTypes, PTL DEF Spec

-----------------------------------------------------------------------------
(* The refinement                                                          *)

LEMMA InitDelivers == Init => Delivery!DeliveryInit
BY DEF Init, Delivery!DeliveryInit, EventView

(* A dispatcher does nothing that a caller could notice.                   *)
LEMMA DispatchIsHidden ==
  ASSUME TypeOK, NEW d \in Dispatchers, DispatchStep(d)
  PROVE  EventView' = EventView /\ retried' = retried
<1> DEFINE View(k) == EventView[k]
<1>1. CASE Select(d) \/ Abort(d)
  BY <1>1 DEF Select, Abort, EventView, tables, redis
<1>2. ASSUME NEW k \in Keys, SendAccepted(d, k) \/ SendFailed(d, k) \/ SendReplyLost(d, k)
      PROVE  EventView' = EventView /\ retried' = retried
  <2>1. k \in Keys /\ row[k] = "pending" /\ row' = row /\ retried' = retried
    BY <1>2 DEF SendAccepted, SendFailed, SendReplyLost, Turn, TypeOK, tables, redis
  <2>2. queue' = queue \/ (queue[k] = "absent" /\ queue' = [queue EXCEPT ![k] = "ready"])
    BY <1>2 DEF SendAccepted, SendFailed, SendReplyLost, Enqueued, redis
  <2>3. CASE queue' = queue
    BY <2>1, <2>3 DEF EventView
  <2>4. CASE queue[k] = "absent" /\ queue' = [queue EXCEPT ![k] = "ready"]
    BY <2>1, <2>4 DEF EventView, TypeOK
  <2> QED  BY <2>1, <2>2, <2>3, <2>4
<1>3. CASE Commit(d)
  <2>1. \A k \in marked[d] : k \in Keys /\ row[k] = "pending" /\ queue[k] # "absent"
    BY DEF TypeOK
  <2>2. /\ row' = [k \in Keys |-> IF k \in marked[d] THEN "dispatched" ELSE row[k]]
        /\ queue' = queue /\ retried' = retried
    BY <1>3 DEF Commit, redis
  <2> QED  BY <2>1, <2>2 DEF EventView
<1> QED  BY <1>1, <1>2, <1>3 DEF DispatchStep

(* A new row is a new event; a known key changes nothing.                  *)
LEMMA PublishDelivers ==
  ASSUME TypeOK, NEW k \in Keys, Publish(k)
  PROVE  Delivery!Publish(k)
<1>1. CASE row[k] = "none"
  <2>1. queue[k] = "absent"
    BY <1>1 DEF TypeOK
  <2>2. row' = [row EXCEPT ![k] = "pending"] /\ queue' = queue /\ retried' = retried
    BY <1>1 DEF Publish, redis
  <2>3. EventView[k] = "absent"
    BY <1>1 DEF EventView
  <2>4. EventView' = [EventView EXCEPT ![k] = "ready"]
    BY <2>1, <2>2 DEF EventView, TypeOK
  <2> QED  BY <2>2, <2>3, <2>4 DEF Delivery!Publish, Delivery!Published
<1>2. CASE row[k] # "none"
  <2>1. UNCHANGED <<row, queue, retried>>
    BY <1>2 DEF Publish, tables, redis
  <2>2. EventView[k] # "absent"
    BY <1>2 DEF EventView
  <2>3. EventView' = EventView
    BY <2>1 DEF EventView
  <2> QED  BY <2>1, <2>2, <2>3 DEF Delivery!Publish, Delivery!Published
<1> QED  BY <1>1, <1>2

(* A task that Redis holds is seen as it is.                               *)
LEMMA QueueDelivers ==
  ASSUME TypeOK, NEW k \in Keys, QueueStep(k)
  PROVE  \/ Delivery!Take(k) \/ Delivery!Ack(k) \/ Delivery!GiveBack(k)
         \/ EventView' = EventView /\ retried' = retried
<1> USE OutboxAssumption
<1>1. queue[k] # "absent" /\ row[k] # "none" /\ EventView[k] = queue[k]
  BY DEF QueueStep, Take, Ack, GiveBack, Forget, TypeOK, EventView
<1>2. ASSUME NEW s \in {"ready", "active", "done", "archived"},
             queue' = [queue EXCEPT ![k] = s], row' = row
      PROVE  EventView' = [EventView EXCEPT ![k] = s]
  BY <1>1, <1>2 DEF EventView, TypeOK
<1>3. CASE Take(k)
  BY <1>1, <1>2, <1>3 DEF Take, Delivery!Take, tables
<1>4. CASE Ack(k)
  BY <1>1, <1>2, <1>4 DEF Ack, Delivery!Ack, tables
<1>5. CASE GiveBack(k)
  <2>1. CASE MayRetry(k)
    BY <1>1, <1>2, <1>5, <2>1 DEF GiveBack, MayRetry, Delivery!GiveBack, tables
  <2>2. CASE ~MayRetry(k)
    <3>1. retried[k] = MaxRetry
      BY <2>2 DEF MayRetry, TypeOK
    <3> QED  BY <1>1, <1>2, <1>5, <2>2, <3>1 DEF GiveBack, Delivery!GiveBack, tables
  <2> QED  BY <2>1, <2>2
<1>6. CASE Forget(k)
  BY <1>6 DEF Forget, EventView, TypeOK, tables
<1> QED  BY <1>3, <1>4, <1>5, <1>6 DEF QueueStep

LEMMA StepDelivers ==
  TypeOK /\ [Next]_outboxVars => [Delivery!DeliveryNext]_(Delivery!deliveryVars)
<1> SUFFICES ASSUME TypeOK, [Next]_outboxVars
             PROVE  Delivery!DeliveryNext \/ (EventView' = EventView /\ retried' = retried)
  BY DEF Delivery!deliveryVars
<1>1. ASSUME NEW k \in Keys, Publish(k)  PROVE Delivery!DeliveryNext
  BY <1>1, PublishDelivers DEF Delivery!DeliveryNext
<1>2. ASSUME NEW k \in Keys, QueueStep(k)
      PROVE  Delivery!DeliveryNext \/ (EventView' = EventView /\ retried' = retried)
  BY <1>2, QueueDelivers DEF Delivery!DeliveryNext
<1>3. CASE (Outage \/ Recover) \/ UNCHANGED outboxVars
  BY <1>3 DEF Outage, Recover, outboxVars, EventView, tables, redis
<1> QED  BY <1>1, <1>2, <1>3, DispatchIsHidden DEF Next

(* No published event is lost, none comes out of nothing, and none is      *)
(* handed out again once a handler accepted it, whatever is aborted, lost  *)
(* or sent twice between the row and Redis (jobs.go: one transaction       *)
(* around the enqueue, the row id as task id).                             *)
THEOREM OutboxDelivers == Spec => ImplementsDelivery
<1>1. TypeOK /\ [Next]_outboxVars => [Delivery!DeliveryNext]_(Delivery!deliveryVars)
  BY StepDelivers
<1> QED
  BY <1>1, InitDelivers, OutboxTypes, PTL
     DEF Spec, ImplementsDelivery, Delivery!DeliverySpec
=============================================================================
