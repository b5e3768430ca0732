-------------------------- MODULE AutomationProps ---------------------------
(***************************************************************************)
(* What automation runs promise: the properties of AutomationRuns.         *)
(***************************************************************************)
EXTENDS AutomationRuns

HasBatch(r) == runs[r].batches > 0

(* Runs of one project are serialised: a run applies at most one batch,    *)
(* and no two batches were computed from the same project revision, so     *)
(* none overwrites what it has not seen - whoever claimed the runs, and    *)
(* however often (worker.go commits under the project lock, on the         *)
(* captured revision).                                                     *)
OneBatchPerRevision ==
  /\ \A r \in Runs : runs[r].batches <= 1
  /\ \A r, s \in Runs :
       r # s /\ HasBatch(r) /\ HasBatch(s) => runs[r].revision # runs[s].revision

(* A batch is the very next change after the input it was computed from:   *)
(* whatever people, other runs and other workers did while the analysis    *)
(* took its time, nothing lies between the revision a run captured and the *)
(* one its batch produced (worker.go rechecks inside the applying          *)
(* transaction, insertRun captures a follow-up's input after the batch).   *)
BatchFollowsItsInput ==
  \A r \in Runs : HasBatch(r) => runs[r].produced = runs[r].revision + 1

(* The inductive strengthening of the two: a run with a batch has settled, *)
(* so nothing makes it apply another, and its batch lies in the past, so   *)
(* whoever commits now captured a later revision.                          *)
BatchInv ==
  /\ \A r \in Runs :
       \/ runs[r].batches = 0
       \/ /\ runs[r].batches = 1
          /\ runs[r].status \in {"applied", "partial", "undone"}
          /\ runs[r].produced = runs[r].revision + 1
          /\ runs[r].produced <= revision
  /\ OneBatchPerRevision

(* A settled run stays settled: a cancelled one only comes back by an      *)
(* administrator's retry and an applied one is at most undone, even when a *)
(* worker that claimed it long ago is still at work (recordFailure and the *)
(* commit look at the current status).                                     *)
SettledRunsStay ==
  [][\A r \in Runs :
       LET before == runs[r].status
           after  == runs'[r].status
       IN  /\ before \in {"applied", "partial"} => after \in {before, "undone"}
           /\ before \in {"completed", "undone"} => after = before
           /\ before = "cancelled" => after \in {"cancelled", "queued"}]_vars

(* A refreshed run sees what the run it replaces has done.  A stale run    *)
(* may come back: the user whose change made it stale is changed back, an  *)
(* administrator retries it, and it applies after all, even while its      *)
(* refreshed run is being inserted.  But never after the refreshed one:    *)
(* when both have applied, the refreshed run captured a project in which   *)
(* the batch of the old one was already there (refreshStale, checkInput).  *)
RefreshSeesTheOld ==
  \A r \in Runs, s \in Present :
    runs[s].key = <<"refresh", r>> /\ HasBatch(r) /\ HasBatch(s)
      => runs[r].produced <= runs[s].revision

(* Its inductive strengthening: captured input is never newer than the     *)
(* project's, so a refreshed run's is not older than that of its cause.    *)
RefreshInv ==
  /\ \A r \in Present : runs[r].revision <= revision
  /\ \A s \in Present, r \in Runs :
       runs[s].key = <<"refresh", r>> => runs[r].revision <= runs[s].revision

(* The keys of the runs that r may cause.                                  *)
ChildKeys(r) == {<<"refresh", r>>} \cup {<<"followup", r, kind>> : kind \in Kinds}

(* Cause chains are bounded: no two runs have the same idempotency key, so *)
(* a run has one refresh and one follow-up of a kind, and each is one      *)
(* round further than the run it comes from (insertRun, ROUTES.md "bounded *)
(* reason chain").                                                         *)
ChainsAreBounded ==
  /\ \A r \in Present : runs[r].round < MaxRounds
  /\ \A r, s \in Present : r # s => runs[r].key # runs[s].key
  /\ \A s \in Present, r \in Runs :
       runs[s].key \in ChildKeys(r) =>
         r \in Present /\ runs[s].round = runs[r].round + 1

(* Its inductive strengthening: events and workers are those of inserted   *)
(* runs, so a run that is refreshed has its row.                           *)
EventsHaveRuns ==
  /\ \A e \in EventKeys : task[e] # "absent" => e[1] \in Present
  /\ \A w \in Workers : ~At(w, "idle") => RunOf(w) \in Present

(* Automation does not feed itself: the scheduler never starts a chain     *)
(* from a revision that a batch made (scheduler.go, the event's cause).    *)
NoSelfTrigger ==
  \A r, s \in Present :
    runs[r].key[1] = "revision" /\ HasBatch(s) => runs[r].revision # runs[s].produced

(* Its inductive strengthening: a batch makes a revision that is no        *)
(* human's, and it stays that way.                                         *)
CauseInv ==
  /\ \A h \in human : h <= revision
  /\ \A r \in Runs : HasBatch(r) => runs[r].produced \notin human
  /\ \A r \in Present : runs[r].key[1] = "revision" => runs[r].revision \in human

(* The count the policy reports is the number of calls reserved in the     *)
(* current month, across months, policy changes and crashed workers, and   *)
(* it never passes the largest budget (reserveModelCall, policyAt).        *)
UsageIsExact == CallsUsed = spent /\ spent <= MaxBudget

(* Its inductive strengthening: what is stored is of this month or older.  *)
UsageInv == usage.month <= month /\ UsageIsExact

(* No run is forgotten.  A claimed or failed one still has an event in the *)
(* queue, or archived, so that an expired lease is found again             *)
(* (errLeaseActive and recordFailure give the event back).  A queued one   *)
(* that no administrator has retried has its first event: insertRun        *)
(* publishes in the same transaction, and no worker accepts the event of a *)
(* run that it leaves queued.                                              *)
NotRetried(r) == \A n \in 1 .. MaxAttempts : task[<<r, n>>] = "absent"

RunsAreCovered ==
  \A r \in Runs :
    /\ runs[r].status \in {"running", "failed"} =>
         \E e \in EventsOf(r) : Queue!Kept(e)
    /\ runs[r].status = "queued" /\ NotRetried(r) => Queue!Kept(<<r, 0>>)

(* Its inductive strengthening: an active event is in the hands of one     *)
(* worker, and the worker with the event that covers a run is not about to *)
(* acknowledge it: it is at work on the run, or it will fail.              *)
Failing == {"record", "giveback"}
Working == {"analyze", "provider", "commit"} \cup Failing

Busied(w, e) == ~At(w, "idle") /\ worker[w].event = e

Held(e, pcs) ==
  /\ Queue!Kept(e)
  /\ \A w \in Workers : Busied(w, e) => worker[w].pc \in pcs

WorkersAlone ==
  \A e \in EventKeys, v, w \in Workers :
    /\ Busied(w, e) => task[e] = "active"
    /\ Busied(v, e) /\ Busied(w, e) => v = w

Covered(r) ==
  /\ runs[r].status = "running" => \E e \in EventsOf(r) : Held(e, Working)
  /\ runs[r].status = "failed" => \E e \in EventsOf(r) : Held(e, Failing)
  /\ runs[r].status = "queued" /\ NotRetried(r) => Held(<<r, 0>>, Failing)

CoverInv == WorkersAlone /\ \A r \in Runs : Covered(r)

(* Every queued run has an event that will start it, or an archived one.   *)
QueuedIsCovered ==
  \A r \in Runs : runs[r].status = "queued" =>
    \E e \in EventsOf(r) : Queue!Kept(e)

Archived(r) == \E e \in EventsOf(r) : task[e] = "archived"

(* A queued run with an event in the queue is looked at, and a claimed run *)
(* is settled, although workers crash and leases are left behind; the only *)
(* way out is an event that used up its retries.                           *)
RunsSettle ==
  /\ \A e \in EventKeys :
       (runs[e[1]].status = "queued" /\ task[e] = "ready")
         ~> (runs[e[1]].status # "queued" \/ Archived(e[1]))
  /\ \A r \in Runs :
       (runs[r].status = "running") ~> (runs[r].status # "running" \/ Archived(r))
=============================================================================
