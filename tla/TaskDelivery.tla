---------------------------- MODULE TaskDelivery ----------------------------
(***************************************************************************)
(* What the durable job queue promises to the code that publishes events   *)
(* and to the handlers that run them: an event is known by its             *)
(* deduplication key, a key that was published once is never published     *)
(* again, a published event is handed to a handler until the handler       *)
(* accepts it or the retries are used up, and an accepted event is never   *)
(* handed out again.                                                       *)
(*                                                                         *)
(* Outbox.tla shows that the outbox table, the dispatchers and the Redis   *)
(* queue keep this promise; AutomationRuns.tla is written on top of it.    *)
(***************************************************************************)
EXTENDS Naturals

CONSTANTS Keys,      \* deduplication keys of events
          MaxRetry   \* retries of one event before it is archived

VARIABLES task,      \* task[k]: where the event with key k is
          retried    \* retried[k]: how many deliveries of it were given back

deliveryVars == <<task, retried>>

TaskStates == {"absent", "ready", "active", "done", "archived"}

DeliveryTypeOK ==
  /\ task \in [Keys -> TaskStates]
  /\ retried \in [Keys -> 0 .. MaxRetry]

DeliveryInit ==
  /\ task = [k \in Keys |-> "absent"]
  /\ retried = [k \in Keys |-> 0]

(* The queue after the event k is published in the transaction at hand.    *)
Published(k) ==
  IF task[k] = "absent" THEN [task EXCEPT ![k] = "ready"] ELSE task

Publish(k) ==
  /\ task' = Published(k)
  /\ UNCHANGED retried

(* A handler starts on the event.                                          *)
Take(k) ==
  /\ task[k] = "ready"
  /\ task' = [task EXCEPT ![k] = "active"]
  /\ UNCHANGED retried

(* The handler returned nil.                                               *)
Ack(k) ==
  /\ task[k] = "active"
  /\ task' = [task EXCEPT ![k] = "done"]
  /\ UNCHANGED retried

(* The handler returned an error, or its process died and the queue's      *)
(* recoverer noticed: deliver again, or archive after the last retry.      *)
GiveBack(k) ==
  /\ task[k] = "active"
  /\ \/ /\ retried[k] < MaxRetry
        /\ task' = [task EXCEPT ![k] = "ready"]
        /\ retried' = [retried EXCEPT ![k] = @ + 1]
     \/ /\ retried[k] = MaxRetry
        /\ task' = [task EXCEPT ![k] = "archived"]
        /\ UNCHANGED retried

DeliveryNext ==
  \E k \in Keys : Publish(k) \/ Take(k) \/ Ack(k) \/ GiveBack(k)

DeliverySpec == DeliveryInit /\ [][DeliveryNext]_deliveryVars

(* A delivery of the event is still to come or under way.                  *)
Undelivered(k) == task[k] \in {"ready", "active"}

(* The queue has not forgotten the event: it will be delivered, or it is   *)
(* archived where an operator finds it.                                    *)
Kept(k) == task[k] \in {"ready", "active", "archived"}
=============================================================================
