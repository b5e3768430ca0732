------------------------ MODULE PlanningTransactions ------------------------
(***************************************************************************)
(* The transactions that change the planning facts of one project, down to *)
(* the locks they take: change sets, edits, comments and the like, file    *)
(* attachments, and the commit and the undo of an automation run.  Every   *)
(* change of a fact moves the project's revision (the triggers of          *)
(* migrations/0009), which is a row and therefore a lock.                  *)
(*                                                                         *)
(* AtomicPlanning says what they change as if each of them were one step,  *)
(* and AutomationRuns takes that for granted, although comments and        *)
(* attachments do not take the graph lock.  Here is why it may.            *)
(*                                                                         *)
(* A transaction is its script: the locks it takes one by one, and the     *)
(* reads in between that decide whether it goes on.  What it writes is     *)
(* seen when it commits, and its locks are kept until then, so all writes  *)
(* are made in the last step (Finish).                                     *)
(*                                                                         *)
(* A definition whose comment begins with "Slip" is no part of the model.  *)
(***************************************************************************)
EXTENDS AtomicPlanning, Sequences

CONSTANTS Txs,          \* database connections
          Active,       \* bound: the kinds of transaction that begin
          MaxRevision   \* bound: no transaction begins at it or beyond

VARIABLE tx  \* what every connection is doing

vars == <<item, revision, run, saved, tx>>

-----------------------------------------------------------------------------
(* Records.                                                                *)

Kinds == {"change", "edit", "delete", "remark", "attach", "commit", "undo"}

NoTx == [kind |-> "none"]

Busy(t) == tx[t].kind # "none"

TypeOK ==
  /\ item \in [Items -> ItemRecord]
  /\ revision \in Nat
  /\ \A r \in Runs :
       /\ run[r].status \in {"new", "running", "applied", "undone"}
       /\ run[r].revision \in Nat
       /\ run[r].items \subseteq Items /\ run[r].creates \in BOOLEAN
       /\ DOMAIN run[r].before \subseteq DOMAIN run[r].after
       /\ DOMAIN run[r].after \subseteq Items
  /\ saved \in [Keys -> Requests \cup {None}]
  /\ \A t \in Txs : Busy(t) =>
       /\ tx[t].kind \in Kinds
       /\ tx[t].got \in Nat
       /\ tx[t].request \in Requests \cup {None}
       /\ tx[t].run \in Runs \cup {None}

-----------------------------------------------------------------------------
(* Scripts.                                                                *)

(* What is locked: the graph's advisory lock, rows, and items' rows.       *)
Graph    == <<"graph", 0>>
Project  == <<"project", 0>>
Revision == <<"revision", 0>>

Exclusive(x) == [step |-> "lock", on |-> x, shared |-> FALSE]
Shared(x) == [step |-> "lock", on |-> x, shared |-> TRUE]
Look(what) == [step |-> "look", on |-> what, shared |-> TRUE]

(* ORDER BY id.                                                            *)
InOrder(S) ==
  LET Nth(n) == CHOOSE i \in S : Cardinality({j \in S : j <= i}) = n
  IN  [n \in 1 .. Cardinality(S) |-> Exclusive(<<"item", Nth(n)>>)]

(* ApplyWithinTx for a member.                                             *)
ChangeScript(S) ==
  <<Exclusive(Graph), Look("key")>> \o InOrder(S)
  \o <<Shared(Project), Exclusive(Revision)>>

(* updateItem and deleteItem, in bulk one item after the other: the first  *)
(* write takes the revision.                                               *)
EditScript(S) ==
  <<Exclusive(Graph), Head(InOrder(S)), Shared(Project), Exclusive(Revision)>>
  \o Tail(InOrder(S))

(* Comments, links and reactions: the item, then the trigger's revision    *)
(* and, for the foreign key of project_events, the project.                *)
RemarkScript(S) == InOrder(S) \o <<Exclusive(Revision), Shared(Project)>>

(* An attachment is renamed, removed or restored: no item is locked.       *)
AttachScript == <<Exclusive(Revision), Shared(Project)>>

(* Slip: the input is checked before the run computes, and no more.        *)
CommitScriptUnchecked(S) ==
  <<Exclusive(Graph), Exclusive(Project), Look("running"), Exclusive(Revision)>>
  \o InOrder(S)

(* The commit of Run: lockProject, the run, checkInput, ApplyWithinTx.     *)
CommitScript(S) ==
  <<Exclusive(Graph), Exclusive(Project), Look("running"),
    Exclusive(Revision), Look("input")>> \o InOrder(S)

(* Slip: it locks like any other change set, not knowing attachments.      *)
UndoScriptHasty(S) ==
  <<Exclusive(Graph), Look("applied")>> \o InOrder(S)
  \o <<Look("unchanged"), Shared(Project), Exclusive(Revision)>>

(* Slip: the project's row first, the graph only before the items.         *)
UndoScriptProjectFirst(S) ==
  <<Exclusive(Project), Look("applied"), Exclusive(Graph)>> \o InOrder(S)
  \o <<Exclusive(Revision), Look("unchanged")>>

(* Undo: lockProject, the run, the items, the revision, the fingerprints.  *)
UndoScript(S) ==
  <<Exclusive(Graph), Exclusive(Project), Look("applied")>> \o InOrder(S)
  \o <<Exclusive(Revision), Look("unchanged")>>

Script(t) ==
  CASE tx[t].kind = "change" -> ChangeScript(tx[t].request.items)
    [] tx[t].kind \in {"edit", "delete"} -> EditScript(tx[t].request.items)
    [] tx[t].kind = "remark" -> RemarkScript(tx[t].request.items)
    [] tx[t].kind = "attach" -> AttachScript
    [] tx[t].kind = "commit" -> CommitScript(run[tx[t].run].items)
    [] tx[t].kind = "undo"   -> UndoScript(DOMAIN run[tx[t].run].after)

Ready(t) == Busy(t) /\ tx[t].got = Len(Script(t))
Pending(t) == Busy(t) /\ tx[t].got < Len(Script(t))
NextStep(t) == Script(t)[tx[t].got + 1]

(* The steps that t has behind it.                                         *)
Done(t) ==
  IF Busy(t) THEN {Script(t)[n] : n \in 1 .. tx[t].got} ELSE {}

Conflict(a, b) ==
  /\ a.step = "lock" /\ b.step = "lock"
  /\ a.on = b.on /\ ~(a.shared /\ b.shared)

(* t wants a lock that u holds.                                            *)
WaitsFor(t, u) ==
  t # u /\ Pending(t) /\ \E held \in Done(u) : Conflict(NextStep(t), held)

(* What a transaction reads, and must find to go on.                       *)
Holds(t, what) ==
  LET r == tx[t].run IN
  CASE what = "key"       -> saved[tx[t].request.key] = None
    [] what = "running"   -> run[r].status = "running"
    [] what = "input"     -> revision = run[r].revision
    [] what = "applied"   -> run[r].status = "applied"
    [] what = "unchanged" -> Untouched(r)

-----------------------------------------------------------------------------
(* Transactions begin.                                                     *)

Init == AtomicInit /\ tx = [t \in Txs |-> NoTx]

Begin(t, kind, request, r) ==
  /\ ~Busy(t) /\ kind \in Active /\ revision < MaxRevision
  /\ tx' = [tx EXCEPT ![t] = [kind |-> kind, got |-> 0, request |-> request, run |-> r]]
  /\ UNCHANGED <<item, revision, run, saved>>

(* A client that got no answer sends its change set again.                 *)
Resent == ({saved[k] : k \in Keys} \ {None})
          \cup {tx[t].request : t \in {u \in Txs : tx[u].kind = "change"}}

BeginChange(t) ==
  \/ \E k \in Keys, S \in (SUBSET Live) \ {{}} :
       \E request \in NewRequests(k, S) : Begin(t, "change", request, None)
  \/ \E request \in Resent : Begin(t, "change", request, None)

BeginEdit(t) ==
  \E kind \in {"edit", "delete"}, S \in (SUBSET Live) \ {{}} :
    \E request \in NewRequests(None, S) : Begin(t, kind, request, None)

BeginRemark(t) ==
  \E i \in Live, kind \in {"remark", "attach"} :
    \E request \in NewRequests(None, {i}) : Begin(t, kind, request, None)

BeginCommit(t) == \E r \in Runs : run[r].status = "running" /\ Begin(t, "commit", None, r)

BeginUndo(t) == \E r \in Runs : run[r].status = "applied" /\ Begin(t, "undo", None, r)

-----------------------------------------------------------------------------
(* ... go on ...                                                           *)

Advance(t) ==
  /\ tx' = [tx EXCEPT ![t].got = @ + 1]
  /\ UNCHANGED <<item, revision, run, saved>>

Acquire(t) ==
  /\ Pending(t) /\ NextStep(t).step = "lock"
  /\ \A u \in Txs : ~WaitsFor(t, u)
  /\ Advance(t)

LookAround(t) ==
  /\ Pending(t) /\ NextStep(t).step = "look"
  /\ Holds(t, NextStep(t).on)
  /\ Advance(t)

(* Slip: an error leaves the transaction open.                             *)
RollbackForgotten(t) == UNCHANGED vars

(* WithinTx: any error rolls back.                                         *)
Rollback(t) ==
  /\ tx' = [tx EXCEPT ![t] = NoTx]
  /\ UNCHANGED <<item, revision, run, saved>>

(* A read says no: the saved answer, or an error.                          *)
Refuse(t) ==
  /\ Pending(t) /\ NextStep(t).step = "look"
  /\ ~Holds(t, NextStep(t).on)
  /\ Rollback(t)

(* The client or the worker goes away, and with it the request's context,  *)
(* or a statement fails.                                                   *)
GiveUp(t) == Pending(t) /\ Rollback(t)

(* S is a cycle of transactions that wait for each other.                  *)
Cycle(S) ==
  /\ S # {} /\ \A t \in S : \E u \in S : WaitsFor(t, u)
  /\ \A R \in (SUBSET S) \ {{}, S} : \E t \in R : \A u \in R : ~WaitsFor(t, u)

(* Postgres ends a deadlock by an error in one of them (SQLSTATE 40P01).   *)
DeadlockVictim(t) ==
  /\ \E S \in SUBSET Txs : t \in S /\ Cycle(S)
  /\ Rollback(t)

-----------------------------------------------------------------------------
(* ... and commit.                                                         *)

End(t) == tx' = [tx EXCEPT ![t] = NoTx]

FinishChange(t) ==
  /\ Ready(t) /\ tx[t].kind \in {"change", "edit"}
  /\ Change(tx[t].request) /\ End(t)

FinishDelete(t) ==
  /\ Ready(t) /\ tx[t].kind = "delete"
  /\ Delete(tx[t].request.items) /\ End(t)

(* An attachment's item may be gone.                                       *)
FinishRemark(t) ==
  /\ Ready(t) /\ tx[t].kind \in {"remark", "attach"}
  /\ tx[t].kind = "remark" => tx[t].request.items \subseteq Live
  /\ Remark(tx[t].request.items) /\ End(t)

FinishCommit(t) == Ready(t) /\ tx[t].kind = "commit" /\ Batch(tx[t].run) /\ End(t)

FinishUndo(t) == Ready(t) /\ tx[t].kind = "undo" /\ TakeBack(tx[t].run) /\ End(t)

(* Versions changed, items are gone, the key is taken by now, or the       *)
(* changes or the schedule they make are not valid.                        *)
FinishFails(t) == Ready(t) /\ Rollback(t)

Finish(t) ==
  \/ FinishChange(t) \/ FinishDelete(t) \/ FinishRemark(t)
  \/ FinishCommit(t) \/ FinishUndo(t) \/ FinishFails(t)

Next ==
  \/ \E t \in Txs :
       \/ BeginChange(t) \/ BeginEdit(t) \/ BeginRemark(t)
       \/ BeginCommit(t) \/ BeginUndo(t)
       \/ Acquire(t) \/ LookAround(t) \/ Refuse(t) \/ GiveUp(t)
       \/ DeadlockVictim(t)
       \/ Finish(t)
  \/ \E r \in Runs : Capture(r) /\ UNCHANGED tx

Spec == Init /\ [][Next]_vars

(* Locks are queued for, statements are executed, and deadlocks are found. *)
Fairness ==
  \A t \in Txs :
    /\ SF_vars(Acquire(t))
    /\ WF_vars(LookAround(t) \/ Refuse(t) \/ Finish(t))
    /\ WF_vars(DeadlockVictim(t))

FairSpec == Spec /\ Fairness

-----------------------------------------------------------------------------
(* Properties.                                                             *)

(* Serialisability: to whoever sees only the rows, each transaction is one *)
(* step of AtomicPlanning.  All it has read by then, versions, the saved   *)
(* key, the run's status, its input's revision or the fingerprints, is     *)
(* read as if at the moment of its commit (the locks of service.go,        *)
(* worker.go and undo.go, and the revision's row that triggers lock).      *)
ImplementsAtomicPlanning == AtomicSpec

(* What a transaction has read still holds until it writes, whoever else   *)
(* is at work: a key that was free is not taken, a run that was running or *)
(* applied still is, its input is still current and the items of an undo   *)
(* are still those of the batch (service.go and undo.go read under locks   *)
(* that also guard whatever would change the answer).                      *)
DecisionsStillHold ==
  \A t \in Txs : \A s \in Done(t) : s.step = "look" => Holds(t, s.on)

(* An undo never takes back what somebody did after the batch: nobody has  *)
(* edited, commented, attached to or deleted any of its items since, even  *)
(* by a transaction that held no lock the undo waits for first.  And it    *)
(* leaves the items as the run's input had them; what the batch created is *)
(* gone.                                                                   *)
UndoTakesBackItsOwn ==
  [][\A r \in Runs :
       run[r].status = "applied" /\ run'[r].status = "undone" =>
         /\ \A i \in DOMAIN run[r].after : item[i].by = r
         /\ \A i \in run[r].items : item'[i].value = run[r].input[i]
         /\ \A i \in DOMAIN run[r].after \ run[r].items :
              item'[i].status = "deleted"]_vars

(* Transactions that take the graph's lock never wait for each other in a  *)
(* cycle, and neither do comments and attachments: whatever deadlock there *)
(* is joins exactly one of the former with some of the latter, although    *)
(* commits and undos lock the project, the items and the revision in       *)
(* orders of their own (LockProject comes first in all of them).           *)
DeadlocksAreMixed ==
  \A S \in SUBSET Txs : Cycle(S) =>
    \E g \in S :
      /\ tx[g].kind \notin {"remark", "attach"}
      /\ \A t \in S \ {g} : tx[t].kind \in {"remark", "attach"}

(* Every transaction ends, also when it waits in a cycle.                  *)
EveryoneEnds == \A t \in Txs : Busy(t) ~> ~Busy(t)
=============================================================================
