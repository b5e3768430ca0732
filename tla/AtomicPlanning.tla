--------------------------- MODULE AtomicPlanning ---------------------------
(***************************************************************************)
(* What the planning transactions of one project promise to each other and *)
(* to their callers: each takes place at one moment.  A change set commits *)
(* as if its sender had looked at the items just then, a run's batch       *)
(* commits on the revision whose input the run was captured from, and an   *)
(* undo on the items as the batch has left them.                           *)
(*                                                                         *)
(* There are no connections, locks or reads here.  PlanningTransactions    *)
(* shows that the transactions of the code, which read and lock step by    *)
(* step, keep this promise; AutomationRuns is written on top of it.        *)
(*                                                                         *)
(* A definition whose comment begins with "Slip" is no part of the model.  *)
(***************************************************************************)
EXTENDS Naturals, FiniteSets

CONSTANTS Items,        \* ids of work items, numbers for their order
          Existing,     \* the items that exist at first
          Runs,         \* automation runs
          Keys,         \* idempotency keys of members' change sets
          Values,       \* what the fields of an item may be set to
          None          \* NULL

ASSUME PlanningAssumption ==
  /\ Items \subseteq Nat /\ IsFiniteSet(Items) /\ Existing \subseteq Items
  /\ None \notin Runs \cup Keys \cup Values

VARIABLES item,      \* rows of work_items and the facts about them
          revision,  \* project_revisions.revision
          run,       \* rows of automation_runs
          saved      \* planning_change_batches: the request saved for a key

facts == <<item, revision, run, saved>>

-----------------------------------------------------------------------------
(* Records.                                                                *)

(* "fact" is the highest revision in the item's history, "by" whose it is. *)
ItemRecord == [status : {"absent", "live", "deleted"}, version : Nat,
               value : Values \cup {None}, fact : Nat,
               by : Runs \cup {None, "person"}]

(* A request: a value for some items, whose versions its sender saw.       *)
Requests == [key : Keys \cup {None}, items : SUBSET Items, value : Values,
             saw : UNION {[S -> Nat] : S \in SUBSET Items}]

Seen(S) == [i \in S |-> item[i].version]

Live == {i \in Items : item[i].status = "live"}

(* What somebody asks for who looks at the items now.                      *)
NewRequests(key, S) ==
  [key : {key}, items : {S}, value : Values, saw : {Seen(S)}]

(* Slip: history is left out of the digest.                                *)
FingerprintRowOnly(it) == <<it.version, it.status>>

(* What MutationFingerprint digests.                                       *)
Fingerprint(it) == <<it.version, it.status, it.fact>>

AtomicInit ==
  /\ item = [i \in Items |->
       [status |-> IF i \in Existing THEN "live" ELSE "absent", version |-> 0,
        value |-> None, fact |-> 0, by |-> None]]
  /\ revision = 0
  /\ run = [r \in Runs |->
       [status |-> "new", revision |-> 0, items |-> {}, creates |-> FALSE, value |-> None,
        input |-> <<>>, before |-> <<>>, after |-> <<>>]]
  /\ saved = [k \in Keys |-> None]

-----------------------------------------------------------------------------
(* What people do.                                                         *)

(* The trigger's history row for i at the next revision.                   *)
WithFact(it, who) == [it EXCEPT !.fact = revision + 1, !.by = who]

(* An update of i, with its trigger.                                       *)
Updated(it, v, who) ==
  WithFact([it EXCEPT !.version = @ + 1, !.value = v], who)

Deleted(it, who) == WithFact([it EXCEPT !.version = @ + 1, !.status = "deleted"], who)

(* Nobody else has changed the items, or used up the key.                  *)
Fits(request) ==
  /\ request.key \in Keys => saved[request.key] = None
  /\ request.items \subseteq Live /\ request.saw = Seen(request.items)

(* A change set, with the answer that is saved for its key, and an edit.   *)
Change(request) ==
  /\ Fits(request)
  /\ item' = [i \in Items |-> IF i \in request.items
                               THEN Updated(item[i], request.value, "person")
                               ELSE item[i]]
  /\ saved' = IF request.key \in Keys THEN [saved EXCEPT ![request.key] = request]
              ELSE saved
  /\ revision' = revision + 1
  /\ UNCHANGED run

Delete(S) ==
  /\ S \subseteq Live
  /\ item' = [i \in Items |-> IF i \in S THEN Deleted(item[i], "person") ELSE item[i]]
  /\ revision' = revision + 1
  /\ UNCHANGED <<run, saved>>

(* A comment or the like, or an attachment.                                *)
Remark(S) ==
  /\ item' = [i \in Items |-> IF i \in S THEN WithFact(item[i], "person") ELSE item[i]]
  /\ revision' = revision + 1
  /\ UNCHANGED <<run, saved>>

-----------------------------------------------------------------------------
(* What runs do.                                                           *)

(* A run captures its input, and its analysis proposes to change some      *)
(* items and to create one or none.                                        *)
Capture(r) ==
  /\ run[r].status = "new"
  /\ \E S \in SUBSET Live, creates \in BOOLEAN, v \in Values :
       /\ S # {} \/ creates
       /\ run' = [run EXCEPT ![r] =
            [@ EXCEPT !.status = "running", !.revision = revision, !.items = S,
                      !.creates = creates, !.value = v,
                      !.input = [i \in S |-> item[i].value]]]
  /\ UNCHANGED <<item, revision, saved>>

OldValues(S) == [i \in S |-> item[i].value]

(* The items of a batch that changed S and created C.                      *)
Compared(S, C) == S \cup C

(* commitProposal: the old values are read before the batch, the           *)
(* fingerprints after it.                                                  *)
Batch(r) ==
  LET S == run[r].items IN
  /\ \E C \in SUBSET {i \in Items : item[i].status = "absent"} :
       /\ Cardinality(C) = IF run[r].creates THEN 1 ELSE 0
       /\ item' = [i \in Items |->
            IF i \in S THEN Updated(item[i], run[r].value, r)
            ELSE IF i \in C
              THEN Updated([item[i] EXCEPT !.status = "live"], run[r].value, r)
            ELSE item[i]]
       /\ run' = [run EXCEPT ![r] =
            [@ EXCEPT !.status = "applied",
                      !.before = OldValues(S),
                      !.after = [i \in Compared(S, C) |-> Fingerprint(item'[i])]]]
  /\ revision' = revision + 1
  /\ UNCHANGED saved

(* The input of the run is still that of its revision.                     *)
Commit(r) ==
  /\ run[r].status = "running" /\ revision = run[r].revision
  /\ Batch(r)

(* Old values return, and what the run created is deleted.                 *)
TakeBack(r) ==
  /\ item' = [i \in Items |->
       IF i \in DOMAIN run[r].before THEN Updated(item[i], run[r].before[i], "person")
       ELSE IF i \in DOMAIN run[r].after THEN Deleted(item[i], "person")
       ELSE item[i]]
  /\ run' = [run EXCEPT ![r].status = "undone"]
  /\ revision' = revision + 1
  /\ UNCHANGED saved

(* The items are still those of the batch.                                 *)
Untouched(r) == \A i \in DOMAIN run[r].after : Fingerprint(item[i]) = run[r].after[i]

Undo(r) == run[r].status = "applied" /\ Untouched(r) /\ TakeBack(r)

-----------------------------------------------------------------------------
AtomicNext ==
  \/ \E key \in Keys \cup {None}, S \in SUBSET Live :
       \E request \in NewRequests(key, S) : Change(request)
  \/ \E S \in SUBSET Live : Delete(S)
  \/ \E S \in SUBSET Items : Remark(S)
  \/ \E r \in Runs : Capture(r) \/ Commit(r) \/ Undo(r)

AtomicSpec == AtomicInit /\ [][AtomicNext]_facts
=============================================================================
