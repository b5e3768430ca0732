-------------------------- MODULE AutomationProofs ---------------------------
(***************************************************************************)
(* Proofs about AutomationRuns for every number of runs, workers, retries, *)
(* policies and faults.                                                    *)
(***************************************************************************)
EXTENDS AutomationProps, TLAPS

-----------------------------------------------------------------------------
(* Helpers.                                                                *)

(* insertRun takes a row that is not there yet.                            *)
LEMMA NewIdIsFree == Free # {} => NewId \in Runs /\ runs[NewId].status = "absent"
  BY DEF NewId, Free, Present

(* The queue keeps its type, whatever a transaction does to it.            *)
LEMMA QueueTyped ==
  ASSUME Queue!DeliveryTypeOK,
         \/ UNCHANGED delivery
         \/ \E e \in EventKeys :
              Queue!Publish(e) \/ Queue!Take(e) \/ Queue!Ack(e) \/ Queue!GiveBack(e)
  PROVE  Queue!DeliveryTypeOK'
<1> USE AutomationAssumption DEF AutomationAssumption, Queue!DeliveryTypeOK, Queue!TaskStates
<1>1. CASE UNCHANGED delivery
  BY <1>1 DEF delivery
<1>2. ASSUME NEW e \in EventKeys, Queue!Publish(e)
      PROVE  Queue!DeliveryTypeOK'
  BY <1>2 DEF Queue!Publish, Queue!Published
<1>3. ASSUME NEW e \in EventKeys, Queue!Take(e) \/ Queue!Ack(e)
      PROVE  Queue!DeliveryTypeOK'
  BY <1>3 DEF Queue!Take, Queue!Ack
<1>4. ASSUME NEW e \in EventKeys, Queue!GiveBack(e)
      PROVE  Queue!DeliveryTypeOK'
  BY <1>4 DEF Queue!GiveBack
<1> QED BY <1>1, <1>2, <1>3, <1>4

(* Every kind of idempotency key that the actions make is one.             *)
LEMMA KeysTyped ==
  /\ \A k \in RequestKeys : <<"request", k>> \in IdemKeys
  /\ \A f \in Findings : <<"external", f>> \in IdemKeys
  /\ \A p, v \in Nat : <<"page", p, v>> \in IdemKeys
  /\ \A n, v \in Nat, kind \in Kinds : <<"revision", n, kind, v>> \in IdemKeys
  /\ <<"periodic">> \in IdemKeys
  /\ \A r \in Runs : <<"refresh", r>> \in IdemKeys
  /\ \A r \in Runs, kind \in Kinds : <<"followup", r, kind>> \in IdemKeys
  BY DEF IdemKeys

(* A new row is a row.                                                     *)
LEMMA NewRunTyped ==
  ASSUME TypeOK, NEW kind \in Kinds, NEW key \in IdemKeys,
         NEW round \in Nat, NEW rev \in Nat
  PROVE  NewRun(kind, key, round, rev) \in RunRecord
<1>1. SourcePage(kind) \in Nat
  BY DEF TypeOK, SourcePage
<1>2. 0 \in 0 .. MaxAttempts
  BY AutomationAssumption DEF AutomationAssumption
<1> QED
  BY <1>1, <1>2 DEF TypeOK, NewRun, NoRun, RunRecord, Statuses

(* A row stays a row when it settles or loses its lease.                   *)
LEMMA RowTyped ==
  ASSUME TypeOK, NEW r \in Runs, NEW s \in Statuses
  PROVE  /\ [runs EXCEPT ![r].lease = FALSE] \in [Runs -> RunRecord]
         /\ [runs EXCEPT ![r].status = s, ![r].lease = FALSE] \in [Runs -> RunRecord]
         /\ [runs EXCEPT ![r].status = s] \in [Runs -> RunRecord]
<1>1. runs[r] \in RunRecord
  BY DEF TypeOK
<1>2. [runs[r] EXCEPT !.lease = FALSE] \in RunRecord
  BY <1>1 DEF RunRecord
<1>3. [runs[r] EXCEPT !.status = s] \in RunRecord
  BY <1>1 DEF RunRecord
<1>4. [runs[r] EXCEPT !.status = s, !.lease = FALSE] \in RunRecord
  BY <1>1 DEF RunRecord
<1> QED BY <1>2, <1>3, <1>4 DEF TypeOK

(* insertRun keeps the rows and the queue well typed.                      *)
LEMMA InsertTyped ==
  ASSUME TypeOK, NEW rs \in [Runs -> RunRecord], NEW kind \in Kinds,
         NEW key \in IdemKeys, NEW round \in Nat, NEW rev \in Nat,
         InsertRun(rs, kind, key, round, rev)
  PROVE  runs' \in [Runs -> RunRecord] /\ Queue!DeliveryTypeOK'
<1>1. CASE runs' = rs /\ UNCHANGED delivery
  BY <1>1, QueueTyped DEF TypeOK
<1>2. CASE SameKey(key) = {} /\ AddRun(rs, kind, key, round, rev)
  <2>1. /\ runs' = [rs EXCEPT ![NewId] = NewRun(kind, key, round, rev)]
        /\ Queue!Publish(<<NewId, 0>>)
        /\ Free # {}
    BY <1>2 DEF AddRun
  <2>2. NewRun(kind, key, round, rev) \in RunRecord
    BY NewRunTyped
  <2>3. <<NewId, 0>> \in EventKeys
    BY <2>1, NewIdIsFree, AutomationAssumption DEF EventKeys, AutomationAssumption
  <2> QED BY <2>1, <2>2, <2>3, QueueTyped DEF TypeOK
<1> QED BY <1>1, <1>2 DEF InsertRun

(* What a worker does next is well typed.                                  *)
LEMMA WorkerTyped ==
  ASSUME TypeOK, NEW w \in Workers, NEW e \in EventKeys,
         \/ \E pc \in {"analyze", "provider", "refresh", "accept", "giveback"} :
              Start(w, e, pc)
         \/ \E reason \in Reasons : FailOn(w, e, reason)
         \/ Rest(w)
         \/ UNCHANGED worker
  PROVE  worker' \in [Workers -> WorkerRecord]
  BY DEF TypeOK, Start, FailOn, Rest, WorkerRecord

(* A worker that is not idle has an event.                                 *)
LEMMA WorkerEvent ==
  ASSUME TypeOK, NEW w \in Workers, ~At(w, "idle")
  PROVE  worker[w].event \in EventKeys /\ RunOf(w) \in Runs
  BY DEF TypeOK, WorkerRecord, At, RunOf, EventKeys

LEMMA PolicyTyped ==
  ASSUME TypeOK
  PROVE  policy.kinds \subseteq Kinds /\ policy.maxRounds \in Nat
  BY AutomationAssumption DEF TypeOK, AutomationAssumption

-----------------------------------------------------------------------------
(* Type correctness, one step per action.                                  *)

LEMMA InitTyped == Init => TypeOK
<1> SUFFICES ASSUME Init PROVE TypeOK OBVIOUS
<1> USE AutomationAssumption DEF AutomationAssumption, Init
<1>1. runs \in [Runs -> RunRecord]
  BY DEF NoRun, RunRecord, Statuses, Kinds, IdemKeys
<1>2. Queue!DeliveryTypeOK
  BY DEF Queue!DeliveryInit, Queue!DeliveryTypeOK, Queue!TaskStates
<1>3. worker \in [Workers -> WorkerRecord]
  BY DEF WorkerRecord
<1> QED BY <1>1, <1>2, <1>3 DEF TypeOK

LEMMA RequestTyped ==
  ASSUME TypeOK,
         \/ \E kind \in Kinds, k \in RequestKeys : CreateRun(kind, k)
         \/ Reconcile
  PROVE  TypeOK'
<1> USE DEF project, settings, budget
<1>1. ASSUME NEW kind \in Kinds, NEW k \in RequestKeys, CreateRun(kind, k)
      PROVE  TypeOK'
  <2>1. runs' \in [Runs -> RunRecord] /\ Queue!DeliveryTypeOK'
    BY <1>1, InsertTyped, KeysTyped DEF CreateRun, TypeOK
  <2> QED BY <1>1, <2>1 DEF CreateRun, TypeOK
<1>2. ASSUME Reconcile PROVE TypeOK'
  <2>1. /\ "decompose" \in Kinds /\ "efficiency" \in Kinds
        /\ RevisionKind \in Kinds
    BY DEF Kinds, RevisionKind
  <2>2. PICK kind \in Kinds, key \in IdemKeys : InsertRun(runs, kind, key, 0, revision)
    BY <1>2, <2>1, KeysTyped DEF Reconcile, TypeOK
  <2>3. runs' \in [Runs -> RunRecord] /\ Queue!DeliveryTypeOK'
    BY <2>2, InsertTyped DEF TypeOK
  <2> QED BY <1>2, <2>3 DEF Reconcile, TypeOK
<1> QED BY <1>1, <1>2

LEMMA ClaimTyped ==
  ASSUME TypeOK, NEW w \in Workers, NEW e \in EventKeys,
         Claim(w, e) \/ ClaimFails(w, e)
  PROVE  TypeOK'
<1> USE DEF project, settings, budget
<1>1. CASE Claim(w, e)
  <2>1. e[1] \in Runs BY DEF EventKeys
  <2>2. runs' \in [Runs -> RunRecord]
    BY <1>1, <2>1, AutomationAssumption
    DEF Claim, TypeOK, RunRecord, Statuses, Exhausted, AutomationAssumption
  <2>3. worker' \in [Workers -> WorkerRecord]
    BY <1>1, WorkerTyped DEF Claim, Reasons
  <2>4. Queue!DeliveryTypeOK'
    BY <1>1, QueueTyped DEF Claim, TypeOK
  <2> QED BY <1>1, <2>2, <2>3, <2>4 DEF Claim, TypeOK
<1>2. CASE ClaimFails(w, e)
  <2>1. worker' \in [Workers -> WorkerRecord]
    BY <1>2, WorkerTyped DEF ClaimFails, Reasons
  <2>2. Queue!DeliveryTypeOK'
    BY <1>2, QueueTyped DEF ClaimFails, TypeOK
  <2> QED BY <1>2, <2>1, <2>2 DEF ClaimFails, TypeOK
<1> QED BY <1>1, <1>2

LEMMA AnalysisTyped ==
  ASSUME TypeOK, NEW w \in Workers, Reserve(w) \/ Analyze(w) \/ AnalyzePrivate(w)
  PROVE  TypeOK'
<1> USE DEF project, settings, budget
<1>1. ~At(w, "idle")
  BY DEF Reserve, Analyze, AnalyzePrivate, At
<1>2. CASE Reserve(w)
  <2>1. worker' \in [Workers -> WorkerRecord]
    BY <1>1, <1>2, WorkerTyped, WorkerEvent DEF Reserve, Goto, Fail, Reasons
  <2>2. usage' \in [month : Nat, calls : Nat] /\ spent' \in Nat /\ month' = month
    BY <1>2 DEF Reserve, TypeOK
  <2>3. UNCHANGED delivery
    BY <1>2 DEF Reserve
  <2> QED BY <1>2, <2>1, <2>2, <2>3, QueueTyped DEF Reserve, TypeOK
<1>3. CASE Analyze(w) \/ AnalyzePrivate(w)
  <2>1. \/ \E p \in Proposals : Propose(w, p)
        \/ Fail(w, "rejected")
    BY <1>3 DEF Analyze, AnalyzePrivate, ProposalsOf, Proposals, NoProposal
  <2>2. worker' \in [Workers -> WorkerRecord]
    <3>1. CASE Fail(w, "rejected")
      BY <1>1, <3>1, WorkerTyped, WorkerEvent DEF Fail, Reasons
    <3>2. ASSUME NEW p \in Proposals, Propose(w, p)
          PROVE  worker' \in [Workers -> WorkerRecord]
      BY <1>1, <3>2, WorkerEvent DEF Propose, TypeOK, WorkerRecord
    <3> QED BY <2>1, <3>1, <3>2
  <2>3. UNCHANGED <<runs, project, settings, budget, delivery, faults>>
    BY <1>3 DEF Analyze, AnalyzePrivate
  <2> QED BY <2>2, <2>3, QueueTyped DEF TypeOK
<1> QED BY <1>2, <1>3

(* A proposal that is committed is well typed, and so is its run's row.    *)
LEMMA CommittedTyped ==
  ASSUME TypeOK, NEW w \in Workers, At(w, "commit")
  PROVE  /\ worker[w].proposal \in Proposals
         /\ Committed(RunOf(w), worker[w].proposal) \in [Runs -> RunRecord]
         /\ After(worker[w].proposal) \in Nat
<1>1. worker[w].proposal \in Proposals
  BY DEF TypeOK, WorkerRecord, At
<1>2. RunOf(w) \in Runs
  BY WorkerEvent DEF At
<1>3. Outcome(worker[w].proposal) \in Statuses
  BY DEF Outcome, Statuses
<1>4. runs[RunOf(w)] \in RunRecord /\ revision + 1 \in Nat
  BY <1>2 DEF TypeOK
<1>5. ASSUME NEW b \in Nat, NEW n \in Nat, NEW s \in Statuses
      PROVE  [runs[RunOf(w)] EXCEPT !.status = s, !.lease = FALSE,
                                    !.batches = b, !.produced = n] \in RunRecord
  BY <1>4 DEF RunRecord
<1>6. runs[RunOf(w)].batches \in Nat /\ runs[RunOf(w)].produced \in Nat
  BY <1>4 DEF RunRecord
<1>7. After(worker[w].proposal) \in Nat
  BY <1>4 DEF After, TypeOK
<1>8. ASSUME NEW p \in Proposals, Outcome(p) \in Statuses
      PROVE  Committed(RunOf(w), p) \in [Runs -> RunRecord]
  <2> DEFINE b == IF p.changes THEN runs[RunOf(w)].batches + 1 ELSE runs[RunOf(w)].batches
             n == IF p.changes THEN revision + 1 ELSE runs[RunOf(w)].produced
             row == [runs[RunOf(w)] EXCEPT !.status = Outcome(p), !.lease = FALSE,
                                           !.batches = b, !.produced = n]
  <2>1. b \in Nat /\ n \in Nat
    BY <1>4, <1>6
  <2>2. row \in RunRecord
    BY <2>1, <1>5, <1>8
  <2>3. Committed(RunOf(w), p) = [runs EXCEPT ![RunOf(w)] = row]
    BY DEF Committed
  <2> QED BY <1>2, <2>2, <2>3 DEF TypeOK
<1> QED BY <1>1, <1>3, <1>7, <1>8

LEMMA FollowUpTyped ==
  ASSUME TypeOK, NEW rs \in [Runs -> RunRecord], NEW r \in Runs, NEW p \in Proposals,
         After(p) \in Nat, FollowUp(rs, r, p)
  PROVE  runs' \in [Runs -> RunRecord] /\ Queue!DeliveryTypeOK'
<1> DEFINE next == NextKind(rs[r].kind, p)
<1>1. CASE next \in policy.kinds /\ rs[r].round + 1 < policy.maxRounds
  <2>1. next \in Kinds
    BY <1>1, PolicyTyped
  <2>2. rs[r].round + 1 \in Nat
    BY DEF RunRecord
  <2> HIDE DEF next
  <2>3. InsertRun(rs, next, <<"followup", r, next>>, rs[r].round + 1, After(p))
    BY <1>1 DEF FollowUp, next
  <2> QED BY <2>1, <2>2, <2>3, InsertTyped, KeysTyped
<1>2. CASE ~(next \in policy.kinds /\ rs[r].round + 1 < policy.maxRounds)
  BY <1>2, QueueTyped DEF FollowUp, TypeOK
<1> QED BY <1>1, <1>2

LEMMA CommitTyped ==
  ASSUME TypeOK, NEW w \in Workers, Commit(w)
  PROVE  TypeOK'
<1> USE DEF settings, budget
<1> DEFINE r == RunOf(w)
           p == worker[w].proposal
<1>1. At(w, "commit") /\ ~At(w, "idle")
  BY DEF Commit, At
<1>2. worker' \in [Workers -> WorkerRecord]
  BY <1>1, WorkerTyped, WorkerEvent DEF Commit, Goto, Fail, Reasons
<1>3. \/ UNCHANGED <<runs, project, delivery>>
      \/ RecordBatch(p) /\ FollowUp(Committed(r, p), r, p)
  BY DEF Commit
<1>4. CASE UNCHANGED <<runs, project, delivery>>
  BY <1>2, <1>4, QueueTyped DEF Commit, project, TypeOK
<1>5. CASE RecordBatch(p) /\ FollowUp(Committed(r, p), r, p)
  <2>1. runs' \in [Runs -> RunRecord] /\ Queue!DeliveryTypeOK'
    BY <1>1, <1>5, CommittedTyped, FollowUpTyped, WorkerEvent
  <2>2. revision' \in Nat /\ UNCHANGED <<human, page, resources, changed, authority>>
    BY <1>1, <1>5, CommittedTyped DEF RecordBatch
  <2> QED BY <1>2, <2>1, <2>2 DEF Commit, TypeOK
<1> QED BY <1>3, <1>4, <1>5

LEMMA SettleTyped ==
  ASSUME TypeOK, NEW w \in Workers, RecordFailure(w) \/ Refresh(w) \/ Return(w)
  PROVE  TypeOK'
<1> USE DEF project, settings, budget
<1>1. ~At(w, "idle")
  BY DEF RecordFailure, Refresh, Return, At
<1>2. worker[w].event \in EventKeys /\ RunOf(w) \in Runs
  BY <1>1, WorkerEvent
<1>3. worker' \in [Workers -> WorkerRecord]
  BY <1>2, WorkerTyped DEF RecordFailure, Refresh, Return, Goto
<1>4. CASE RecordFailure(w)
  <2>1. runs' \in [Runs -> RunRecord]
    <3>1. "failed" \in Statuses /\ "blocked" \in Statuses
      BY DEF Statuses
    <3> QED BY <1>2, <1>4, <3>1, RowTyped DEF RecordFailure, TypeOK
  <2> QED BY <1>3, <1>4, <2>1, QueueTyped DEF RecordFailure, TypeOK
<1>5. CASE Refresh(w)
  <2>1. runs[RunOf(w)].kind \in Kinds /\ runs[RunOf(w)].round + 1 \in Nat
    BY <1>2 DEF TypeOK, RunRecord
  <2>2. \/ InsertRun(runs, runs[RunOf(w)].kind, <<"refresh", RunOf(w)>>,
                     runs[RunOf(w)].round + 1, revision)
        \/ UNCHANGED <<runs, delivery>>
    BY <1>5 DEF Refresh
  <2>3. runs' \in [Runs -> RunRecord] /\ Queue!DeliveryTypeOK'
    BY <1>2, <2>1, <2>2, InsertTyped, KeysTyped, QueueTyped DEF TypeOK
  <2> QED BY <1>3, <1>5, <2>3 DEF Refresh, TypeOK
<1>6. CASE Return(w)
  <2>1. Queue!DeliveryTypeOK'
    BY <1>2, <1>6, QueueTyped DEF Return, TypeOK
  <2> QED BY <1>3, <1>6, <2>1 DEF Return, TypeOK
<1> QED BY <1>4, <1>5, <1>6

LEMMA DisturbanceTyped ==
  ASSUME TypeOK, \/ \E w \in Workers : InternalError(w) \/ Crash(w)
                 \/ \E r \in Runs : LeaseExpires(r)
  PROVE  TypeOK'
<1> USE DEF project, settings, budget
<1>1. ASSUME NEW w \in Workers, InternalError(w) PROVE TypeOK'
  <2>1. worker[w].event \in EventKeys
    BY <1>1, WorkerEvent DEF InternalError, At
  <2>2. worker' \in [Workers -> WorkerRecord]
    BY <1>1, <2>1, WorkerTyped DEF InternalError, Fail, Reasons
  <2> QED BY <1>1, <2>2, QueueTyped DEF InternalError, TypeOK
<1>2. ASSUME NEW w \in Workers, Crash(w) PROVE TypeOK'
  <2>1. worker[w].event \in EventKeys
    BY <1>2, WorkerEvent DEF Crash
  <2>2. worker' \in [Workers -> WorkerRecord]
    BY <1>2, <2>1, WorkerTyped DEF Crash
  <2>3. Queue!DeliveryTypeOK'
    BY <1>2, <2>1, QueueTyped DEF Crash, TypeOK
  <2> QED BY <1>2, <2>2, <2>3 DEF Crash, TypeOK
<1>3. ASSUME NEW r \in Runs, LeaseExpires(r) PROVE TypeOK'
  <2>1. runs' \in [Runs -> RunRecord]
    BY <1>3, RowTyped DEF LeaseExpires, Statuses
  <2> QED BY <1>3, <2>1, QueueTyped DEF LeaseExpires, TypeOK
<1> QED BY <1>1, <1>2, <1>3

LEMMA PeopleTyped ==
  ASSUME TypeOK,
         \/ \E r \in Runs : CancelRun(r) \/ RetryRun(r) \/ Undo(r)
         \/ \E p \in Policies : PutPolicy(p)
         \/ \E a \in BOOLEAN : Edit(a)
         \/ EditPage \/ ChangeUser
         \/ NewMonth
  PROVE  TypeOK'
<1> USE DEF project, settings, budget
<1>0. {"cancelled", "queued", "undone"} \subseteq Statuses
  BY DEF Statuses
<1>1. ASSUME NEW r \in Runs, CancelRun(r) PROVE TypeOK'
  <2>1. runs' \in [Runs -> RunRecord]
    BY <1>0, <1>1, RowTyped DEF CancelRun
  <2> QED BY <1>1, <2>1, QueueTyped DEF CancelRun, TypeOK
<1>2. ASSUME NEW r \in Runs, RetryRun(r) PROVE TypeOK'
  <2>1. runs' \in [Runs -> RunRecord]
    BY <1>0, <1>2, RowTyped DEF RetryRun
  <2>2. <<r, runs[r].attempts + 1>> \in EventKeys
    BY <1>2, AutomationAssumption
    DEF RetryRun, TypeOK, RunRecord, EventKeys, AutomationAssumption
  <2>3. Queue!DeliveryTypeOK'
    BY <1>2, <2>2, QueueTyped DEF RetryRun, TypeOK
  <2> QED BY <1>2, <2>1, <2>3 DEF RetryRun, TypeOK
<1>3. ASSUME NEW r \in Runs, Undo(r) PROVE TypeOK'
  <2>1. runs' \in [Runs -> RunRecord]
    BY <1>0, <1>3, RowTyped DEF Undo
  <2> QED BY <1>3, <2>1, QueueTyped DEF Undo, HumanRevision, TypeOK
<1>4. ASSUME NEW p \in Policies, PutPolicy(p) PROVE TypeOK'
  <2>1. ASSUME NEW r \in Runs
        PROVE  [runs[r] EXCEPT !.status = "cancelled", !.lease = FALSE] \in RunRecord
    BY <1>0 DEF TypeOK, RunRecord
  <2>2. runs' \in [Runs -> RunRecord]
    BY <1>4, <2>1 DEF PutPolicy, TypeOK
  <2>3. /\ policy' = p /\ version' = version + 1 /\ authority' = TRUE
        /\ HumanRevision
        /\ UNCHANGED <<page, resources, changed, budget, worker, delivery, faults>>
    BY <1>4, Zenon DEF PutPolicy
  <2> QED BY <2>2, <2>3, QueueTyped DEF HumanRevision, TypeOK
<1>5. ASSUME NEW a \in BOOLEAN, Edit(a) PROVE TypeOK'
  BY <1>5, QueueTyped DEF Edit, HumanRevision, TypeOK
<1>6. CASE EditPage
  BY <1>6, QueueTyped DEF EditPage, TypeOK
<1>8. CASE ChangeUser
  BY <1>8, QueueTyped DEF ChangeUser, TypeOK
<1>7. ASSUME NewMonth PROVE TypeOK'
  BY <1>7, QueueTyped DEF NewMonth, TypeOK
<1> QED BY <1>1, <1>2, <1>3, <1>4, <1>5, <1>6, <1>7, <1>8

(* The run that ApplyExternal inserts already applied.                     *)
LEMMA ExternalRowTyped ==
  ASSUME TypeOK, NEW key \in IdemKeys
  PROVE  [NewRun("quality", key, 0, revision)
            EXCEPT !.status = "applied", !.page = 0, !.attempts = 1,
                   !.batches = 1, !.produced = revision + 1] \in RunRecord
<1>1. NewRun("quality", key, 0, revision) \in RunRecord
  BY NewRunTyped DEF TypeOK, Kinds
<1>2. 1 \in 0 .. MaxAttempts /\ "applied" \in Statuses /\ revision + 1 \in Nat
  BY AutomationAssumption DEF AutomationAssumption, Statuses, TypeOK
<1> DEFINE queued == NewRun("quality", key, 0, revision)
<1>3. [queued EXCEPT !.status = "applied", !.page = 0, !.attempts = 1] \in RunRecord
  BY <1>1, <1>2 DEF RunRecord
<1>4. ASSUME NEW row \in RunRecord
      PROVE  [row EXCEPT !.batches = 1, !.produced = revision + 1] \in RunRecord
  BY <1>2 DEF RunRecord
<1> HIDE DEF queued
<1>5. [queued EXCEPT !.status = "applied", !.page = 0, !.attempts = 1,
                     !.batches = 1, !.produced = revision + 1]
      = [[queued EXCEPT !.status = "applied", !.page = 0, !.attempts = 1]
           EXCEPT !.batches = 1, !.produced = revision + 1]
  OBVIOUS
<1> QED BY <1>3, <1>4, <1>5 DEF queued

LEMMA ExternalTyped ==
  ASSUME TypeOK, NEW f \in Findings, ApplyExternal(f)
  PROVE  TypeOK'
<1> USE DEF settings, budget
<1> DEFINE key == <<"external", f>>
           row == [NewRun("quality", key, 0, revision)
                     EXCEPT !.status = "applied", !.page = 0, !.attempts = 1,
                            !.batches = 1, !.produced = revision + 1]
           rest == Free \ {NewId}
           child == CHOOSE r \in rest : TRUE
           next == NewRun("risk", <<"followup", NewId, "risk">>, 1, revision + 1)
<1>1. row \in RunRecord
  BY ExternalRowTyped, KeysTyped
<1>2. NewId \in Runs /\ child \in Runs
  <2>1. rest # {} BY DEF ApplyExternal
  <2>2. child \in rest /\ Free # {} BY <2>1
  <2> QED BY <2>2, NewIdIsFree DEF Free
<1>3. next \in RunRecord
  <2>1. "risk" \in Kinds
    BY DEF Kinds
  <2>2. <<"followup", NewId, "risk">> \in IdemKeys
    BY <1>2, <2>1, KeysTyped
  <2>3. revision + 1 \in Nat
    BY DEF TypeOK
  <2> QED BY <2>1, <2>2, <2>3, NewRunTyped
<1>4. revision' \in Nat /\ UNCHANGED <<human, page, resources, changed, authority>>
  BY DEF ApplyExternal, RecordBatch, After, NoProposal, TypeOK
<1> HIDE DEF row, next, child
<1>5. \/ /\ runs' = [runs EXCEPT ![NewId] = row, ![child] = next]
         /\ Queue!Publish(<<child, 0>>)
      \/ runs' = [runs EXCEPT ![NewId] = row] /\ UNCHANGED delivery
  BY DEF ApplyExternal, row, next, child
<1>6. runs' \in [Runs -> RunRecord]
  <2>1. ASSUME NEW f1 \in [Runs -> RunRecord], NEW r \in Runs, NEW v \in RunRecord
        PROVE  [f1 EXCEPT ![r] = v] \in [Runs -> RunRecord]
    OBVIOUS
  <2>2. [runs EXCEPT ![NewId] = row] \in [Runs -> RunRecord]
    BY <1>1, <1>2, <2>1 DEF TypeOK
  <2> QED BY <1>2, <1>3, <1>5, <2>1, <2>2
<1>7. <<child, 0>> \in EventKeys
  BY <1>2, AutomationAssumption DEF EventKeys, AutomationAssumption
<1>8. Queue!DeliveryTypeOK'
  BY <1>5, <1>7, QueueTyped DEF TypeOK
<1> QED BY <1>4, <1>6, <1>8 DEF ApplyExternal, TypeOK

LEMMA NextTyped == ASSUME TypeOK, [Next]_vars PROVE TypeOK'
<1>1. CASE UNCHANGED vars
  BY <1>1, QueueTyped DEF vars, delivery, TypeOK
<1>2. CASE \E w \in Workers, e \in EventKeys : Claim(w, e) \/ ClaimFails(w, e)
  BY <1>2, ClaimTyped
<1>3. CASE \E w \in Workers : WorkerStep(w)
  BY <1>3, AnalysisTyped, CommitTyped, SettleTyped DEF WorkerStep
<1>4. CASE \/ \E w \in Workers : InternalError(w) \/ Crash(w)
           \/ \E r \in Runs : LeaseExpires(r)
  BY <1>4, DisturbanceTyped
<1>5. CASE \/ \E kind \in Kinds, k \in RequestKeys : CreateRun(kind, k)
           \/ Reconcile
  BY <1>5, RequestTyped
<1>6. CASE \/ \E r \in Runs : CancelRun(r) \/ RetryRun(r) \/ Undo(r)
           \/ \E p \in Policies : PutPolicy(p)
           \/ \E a \in BOOLEAN : Edit(a)
           \/ EditPage \/ ChangeUser
           \/ NewMonth
  BY <1>6, PeopleTyped
<1>7. CASE \E f \in Findings : ApplyExternal(f)
  BY <1>7, ExternalTyped
<1> QED
  BY <1>1, <1>2, <1>3, <1>4, <1>5, <1>6, <1>7 DEF Next, Disturbance, People

(* Every reachable state of AutomationRuns is well typed: rows, events,    *)
(* workers and counters, for every number of each.                         *)
THEOREM TypeCorrect == Spec => []TypeOK
<1>1. Init => TypeOK
  BY InitTyped
<1>2. TypeOK /\ [Next]_vars => TypeOK'
  BY NextTyped
<1> QED BY <1>1, <1>2, PTL DEF Spec

-----------------------------------------------------------------------------
(* Batches.                                                                *)

Applied == {"applied", "partial", "undone"}

(* The step leaves what r's batch was as it is.                            *)
KeepsBatch(r) ==
  \/ runs[r].batches = 0 /\ runs'[r].batches = 0
  \/ /\ runs'[r].batches = runs[r].batches
     /\ runs'[r].revision = runs[r].revision
     /\ runs'[r].produced = runs[r].produced
     /\ runs[r].status \in Applied => runs'[r].status \in Applied

(* The step lets r apply its batch at the present revision.                *)
AddsBatch(r) ==
  /\ runs[r].batches = 0 /\ runs'[r].batches = 1
  /\ runs'[r].status \in Applied
  /\ runs'[r].revision = revision
  /\ runs'[r].produced = revision + 1
  /\ revision' = revision + 1

LEMMA KeepingBatches ==
  ASSUME TypeOK, TypeOK', BatchInv, \A r \in Runs : KeepsBatch(r), revision <= revision'
  PROVE  BatchInv'
<1>1. ASSUME NEW r \in Runs
      PROVE  \/ runs'[r].batches = 0
             \/ /\ runs'[r].batches = 1 /\ runs[r].batches = 1
                /\ runs'[r].status \in Applied
                /\ runs'[r].revision = runs[r].revision
                /\ runs'[r].produced = runs'[r].revision + 1
                /\ runs'[r].produced <= revision'
  <2>1. runs[r] \in RunRecord BY DEF TypeOK
  <2> QED BY <2>1 DEF KeepsBatch, BatchInv, Applied, TypeOK, RunRecord
<1> QED BY <1>1 DEF BatchInv, OneBatchPerRevision, HasBatch, Applied

LEMMA AddingABatch ==
  ASSUME TypeOK, TypeOK', BatchInv, NEW r \in Runs, AddsBatch(r),
         \A s \in Runs \ {r} : KeepsBatch(s)
  PROVE  BatchInv'
<1>1. ASSUME NEW s \in Runs \ {r}
      PROVE  \/ runs'[s].batches = 0
             \/ /\ runs'[s].batches = 1 /\ runs[s].batches = 1
                /\ runs'[s].status \in Applied
                /\ runs'[s].revision = runs[s].revision
                /\ runs'[s].produced = runs'[s].revision + 1
                /\ runs'[s].produced <= revision
  <2>1. runs[s] \in RunRecord BY DEF TypeOK
  <2> QED BY <2>1 DEF KeepsBatch, BatchInv, Applied, TypeOK, RunRecord
<1>2. \A s \in Runs \ {r} : runs'[s].batches = 1 =>
         /\ runs'[s].revision + 1 <= revision
         /\ runs'[s].revision \in Nat
  BY <1>1 DEF TypeOK, RunRecord
<1>3. /\ runs'[r].batches = 1 /\ runs'[r].status \in Applied
      /\ runs'[r].revision = revision /\ runs'[r].produced = revision + 1
      /\ revision' = revision + 1 /\ revision \in Nat
  BY DEF AddsBatch, TypeOK
<1>4. \A s \in Runs \ {r} : runs'[s].batches = 1 => runs'[s].revision # revision
  BY <1>2, <1>3
<1>5. \A s \in Runs : \/ runs'[s].batches = 0
                      \/ /\ runs'[s].batches = 1
                         /\ runs'[s].status \in Applied
                         /\ runs'[s].produced = runs'[s].revision + 1
                         /\ runs'[s].produced <= revision'
  BY <1>1, <1>2, <1>3
<1>6. OneBatchPerRevision'
  <2>1. ASSUME NEW s \in Runs PROVE runs'[s].batches <= 1
    BY <1>5
  <2>2. ASSUME NEW s \in Runs, NEW t \in Runs, s # t, HasBatch(s)', HasBatch(t)'
        PROVE  runs'[s].revision # runs'[t].revision
    <3>1. runs'[s].batches = 1 /\ runs'[t].batches = 1
      BY <1>5, <2>2 DEF HasBatch
    <3>2. CASE s = r
      BY <1>3, <1>4, <2>2, <3>1, <3>2
    <3>3. CASE t = r
      BY <1>3, <1>4, <2>2, <3>1, <3>3
    <3>4. CASE s # r /\ t # r
      <4>1. /\ runs[s].batches = 1 /\ runs[t].batches = 1
            /\ runs'[s].revision = runs[s].revision
            /\ runs'[t].revision = runs[t].revision
        BY <1>1, <3>1, <3>4
      <4> QED BY <2>2, <4>1 DEF BatchInv, OneBatchPerRevision, HasBatch
    <3> QED BY <3>2, <3>3, <3>4
  <2> QED BY <2>1, <2>2 DEF OneBatchPerRevision, HasBatch
<1> QED BY <1>5, <1>6 DEF BatchInv, Applied

(* insertRun touches at most one row, one that was absent.                 *)
LEMMA InsertedRow ==
  ASSUME TypeOK, NEW rs \in [Runs -> RunRecord], NEW kind, NEW key, NEW round, NEW rev,
         InsertRun(rs, kind, key, round, rev), NEW r \in Runs
  PROVE  \/ runs'[r] = rs[r]
         \/ /\ runs[r].status = "absent"
            /\ runs'[r].status = "queued" /\ runs'[r].batches = 0
<1>1. CASE runs' = rs /\ UNCHANGED delivery
  BY <1>1
<1>2. CASE SameKey(key) = {} /\ AddRun(rs, kind, key, round, rev)
  <2>1. /\ runs' = [rs EXCEPT ![NewId] = NewRun(kind, key, round, rev)]
        /\ Free # {}
    BY <1>2 DEF AddRun
  <2>2. runs[NewId].status = "absent"
    BY <2>1, NewIdIsFree
  <2>3. /\ NewRun(kind, key, round, rev).status = "queued"
        /\ NewRun(kind, key, round, rev).batches = 0
    BY DEF NewRun, NoRun
  <2> QED BY <2>1, <2>2, <2>3
<1> QED BY <1>1, <1>2 DEF InsertRun

LEMMA AbsentHasNoBatch ==
  ASSUME BatchInv, NEW r \in Runs, runs[r].status \notin Applied
  PROVE  runs[r].batches = 0
  BY DEF BatchInv, Applied

LEMMA InsertKeepsBatches ==
  ASSUME TypeOK, BatchInv, NEW kind, NEW key, NEW round, NEW rev,
         InsertRun(runs, kind, key, round, rev)
  PROVE  \A r \in Runs : KeepsBatch(r)
<1> TAKE r \in Runs
<1>1. runs \in [Runs -> RunRecord]
  BY DEF TypeOK
<1>2. \/ runs'[r] = runs[r]
      \/ runs[r].status = "absent" /\ runs'[r].status = "queued" /\ runs'[r].batches = 0
  BY <1>1, InsertedRow
<1>3. CASE runs'[r] = runs[r]
  BY <1>3 DEF KeepsBatch
<1>4. CASE runs[r].status = "absent" /\ runs'[r].batches = 0
  BY <1>4, AbsentHasNoBatch DEF KeepsBatch, Applied
<1> QED BY <1>2, <1>3, <1>4

(* A step that changes no more of a row than its status, attempts and      *)
(* lease, and takes no applied run back.                                   *)
LEMMA StatusKeepsBatch ==
  ASSUME TypeOK, NEW r \in Runs, runs'[r].batches = runs[r].batches,
         runs'[r].revision = runs[r].revision, runs'[r].produced = runs[r].produced,
         runs[r].status \in Applied => runs'[r].status \in Applied
  PROVE  KeepsBatch(r)
  BY DEF KeepsBatch

LEMMA ClaimKeeps ==
  ASSUME TypeOK, BatchInv, NEW w \in Workers, NEW e \in EventKeys,
         Claim(w, e) \/ ClaimFails(w, e)
  PROVE  (\A r \in Runs : KeepsBatch(r)) /\ revision' = revision
<1>1. e[1] \in Runs /\ runs \in [Runs -> RunRecord]
  BY DEF EventKeys, TypeOK
<1>2. \/ UNCHANGED runs
      \/ /\ Claimable(e[1])
         /\ runs' = [runs EXCEPT ![e[1]].status = "running",
                                 ![e[1]].attempts = @ + 1, ![e[1]].lease = TRUE]
  BY Zenon DEF Claim, ClaimFails
<1>3. \A r \in Runs : KeepsBatch(r)
  BY <1>1, <1>2, StatusKeepsBatch DEF Claimable, Applied, RunRecord
<1> QED BY <1>3 DEF Claim, ClaimFails, project

LEMMA SettleKeeps ==
  ASSUME TypeOK, BatchInv, NEW w \in Workers,
         RecordFailure(w) \/ Refresh(w) \/ Return(w)
  PROVE  (\A r \in Runs : KeepsBatch(r)) /\ revision' = revision
<1>1. revision' = revision
  BY DEF RecordFailure, Refresh, Return, project
<1>2. CASE RecordFailure(w)
  <2>1. PICK st \in {"failed", "blocked"} :
          \/ UNCHANGED runs
          \/ /\ Unsettled(RunOf(w))
             /\ runs' = [runs EXCEPT ![RunOf(w)].status = st, ![RunOf(w)].lease = FALSE]
    BY <1>2, Zenon DEF RecordFailure
  <2>2. ASSUME NEW r \in Runs PROVE KeepsBatch(r)
    <3>1. runs[r] \in RunRecord BY DEF TypeOK
    <3>2. /\ runs'[r].batches = runs[r].batches
          /\ runs'[r].revision = runs[r].revision
          /\ runs'[r].produced = runs[r].produced
      BY <2>1, <3>1 DEF TypeOK, RunRecord
    <3>3. runs[r].status \in Applied => runs'[r].status \in Applied
      BY <2>1, <3>1 DEF TypeOK, RunRecord, Unsettled, Applied
    <3> QED BY <3>2, <3>3, StatusKeepsBatch
  <2> QED BY <1>1, <2>2
<1>3. CASE Refresh(w)
  <2>1. \/ InsertRun(runs, runs[RunOf(w)].kind, <<"refresh", RunOf(w)>>,
                     runs[RunOf(w)].round + 1, revision)
        \/ UNCHANGED runs
    BY <1>3 DEF Refresh
  <2> QED BY <1>1, <2>1, InsertKeepsBatches, StatusKeepsBatch
<1>4. CASE Return(w)
  BY <1>1, <1>4, StatusKeepsBatch DEF Return
<1> QED BY <1>1, <1>2, <1>3, <1>4

LEMMA PeopleKeep ==
  ASSUME TypeOK, BatchInv,
         \/ \E r \in Runs : CancelRun(r) \/ RetryRun(r) \/ Undo(r) \/ LeaseExpires(r)
         \/ \E p \in Policies : PutPolicy(p)
  PROVE  (\A r \in Runs : KeepsBatch(r)) /\ revision <= revision'
<1>1. revision <= revision'
  <2>1. \/ revision' = revision
        \/ HumanRevision
    BY Zenon DEF CancelRun, RetryRun, Undo, LeaseExpires, PutPolicy, project
  <2> QED BY <2>1 DEF HumanRevision, TypeOK
<1>2. ASSUME NEW q \in Runs,
             CancelRun(q) \/ RetryRun(q) \/ Undo(q) \/ LeaseExpires(q),
             NEW r \in Runs
      PROVE  KeepsBatch(r)
  <2>1. \/ runs' = [runs EXCEPT ![q].status = "cancelled", ![q].lease = FALSE]
           /\ runs[q].status \in {"queued", "running"}
        \/ runs' = [runs EXCEPT ![q].status = "queued"]
           /\ runs[q].status \in {"failed", "blocked", "cancelled"}
        \/ runs' = [runs EXCEPT ![q].status = "undone"]
        \/ runs' = [runs EXCEPT ![q].lease = FALSE]
    BY <1>2, Zenon DEF CancelRun, RetryRun, Undo, LeaseExpires
  <2>2. runs[r] \in RunRecord /\ runs[q] \in RunRecord BY DEF TypeOK
  <2>3. /\ runs'[r].batches = runs[r].batches
        /\ runs'[r].revision = runs[r].revision
        /\ runs'[r].produced = runs[r].produced
    BY <2>1, <2>2 DEF TypeOK, RunRecord
  <2>4. runs[r].status \in Applied => runs'[r].status \in Applied
    BY <2>1, <2>2 DEF TypeOK, RunRecord, Applied
  <2> QED BY <2>3, <2>4, StatusKeepsBatch
<1>3. ASSUME NEW p \in Policies, PutPolicy(p), NEW r \in Runs
      PROVE  KeepsBatch(r)
  <2>1. runs'[r] = IF runs[r].status \in {"queued", "running"}
                   THEN [runs[r] EXCEPT !.status = "cancelled", !.lease = FALSE]
                   ELSE runs[r]
    BY <1>3, Zenon DEF PutPolicy
  <2>2. runs[r] \in RunRecord BY DEF TypeOK
  <2>3. /\ runs'[r].batches = runs[r].batches
        /\ runs'[r].revision = runs[r].revision
        /\ runs'[r].produced = runs[r].produced
        /\ runs[r].status \in Applied => runs'[r].status \in Applied
    BY <2>1, <2>2 DEF RunRecord, Applied
  <2> QED BY <2>3, StatusKeepsBatch
<1> QED BY <1>1, <1>2, <1>3

(* The commit that applies a batch is the one that finds the input as it   *)
(* was captured.                                                           *)
LEMMA CommitBatches ==
  ASSUME TypeOK, TypeOK', BatchInv, NEW w \in Workers, Commit(w)
  PROVE  BatchInv'
<1> DEFINE r == RunOf(w)
           p == worker[w].proposal
<1>1. r \in Runs /\ p \in Proposals /\ runs[r] \in RunRecord
      /\ Committed(r, p) \in [Runs -> RunRecord]
  BY WorkerEvent, CommittedTyped DEF Commit, At, TypeOK
<1>2. CASE UNCHANGED <<runs, project>>
  BY <1>2, KeepingBatches, StatusKeepsBatch DEF project, TypeOK
<1>3. CASE /\ runs[r].status = "running" /\ InputCurrent(r)
           /\ RecordBatch(p) /\ FollowUp(Committed(r, p), r, p)
  <2>1. runs[r].batches = 0 /\ runs[r].revision = revision
    BY <1>1, <1>3, AbsentHasNoBatch DEF Applied, InputCurrent
  <2>2. ASSUME NEW s \in Runs
        PROVE  \/ runs'[s] = Committed(r, p)[s]
               \/ runs[s].status = "absent" /\ runs'[s].batches = 0
    <3>1. \/ runs' = Committed(r, p)
          \/ \E kind, key, round, rev :
               InsertRun(Committed(r, p), kind, key, round, rev)
      BY <1>3 DEF FollowUp
    <3> QED BY <1>1, <3>1, InsertedRow
  <2>3. ASSUME NEW s \in Runs \ {r} PROVE KeepsBatch(s)
    <3>1. Committed(r, p)[s] = runs[s]
      BY <2>3 DEF Committed, TypeOK
    <3>2. CASE runs'[s] = runs[s]
      BY <3>2, StatusKeepsBatch
    <3>3. CASE runs[s].status = "absent" /\ runs'[s].batches = 0
      BY <3>3, AbsentHasNoBatch DEF KeepsBatch, Applied
    <3> QED BY <2>2, <3>1, <3>2, <3>3
  <2>4. runs'[r] = [runs[r] EXCEPT !.status = Outcome(p), !.lease = FALSE,
                      !.batches = IF p.changes THEN @ + 1 ELSE @,
                      !.produced = IF p.changes THEN revision + 1 ELSE @]
    BY <1>1, <1>3, <2>2 DEF Committed, TypeOK
  <2>5. CASE p.changes
    <3>1. Outcome(p) \in Applied
      BY <2>5, <1>1 DEF Outcome, Applied, Proposals
    <3>2. /\ runs'[r].status = Outcome(p) /\ runs'[r].batches = 1
          /\ runs'[r].revision = revision /\ runs'[r].produced = revision + 1
      BY <1>1, <2>1, <2>4, <2>5 DEF RunRecord
    <3>3. revision' = revision + 1
      BY <1>3, <2>5 DEF RecordBatch, After
    <3>4. AddsBatch(r)
      BY <2>1, <3>1, <3>2, <3>3 DEF AddsBatch
    <3> QED BY <1>1, <2>3, <3>4, AddingABatch
  <2>6. CASE ~p.changes
    <3>1. KeepsBatch(r)
      BY <1>1, <2>1, <2>4, <2>6 DEF KeepsBatch, RunRecord
    <3>2. revision' = revision
      BY <1>3, <2>6 DEF RecordBatch, After
    <3> QED BY <2>3, <3>1, <3>2, KeepingBatches DEF TypeOK
  <2> QED BY <2>5, <2>6
<1> QED BY <1>2, <1>3 DEF Commit

(* What ApplyExternal does to the rows.                                    *)
LEMMA ExternalRows ==
  ASSUME TypeOK, NEW f \in Findings, ApplyExternal(f)
  PROVE  /\ NewId \in Runs /\ runs[NewId].status = "absent"
         /\ runs'[NewId].status = "applied" /\ runs'[NewId].batches = 1
         /\ runs'[NewId].revision = revision /\ runs'[NewId].produced = revision + 1
         /\ revision' = revision + 1
         /\ \A s \in Runs \ {NewId} :
              \/ runs'[s] = runs[s]
              \/ /\ runs[s].status = "absent"
                 /\ runs'[s].status = "queued" /\ runs'[s].batches = 0
<1> DEFINE row == [NewRun("quality", <<"external", f>>, 0, revision)
                     EXCEPT !.status = "applied", !.page = 0, !.attempts = 1,
                            !.batches = 1, !.produced = revision + 1]
           rest == Free \ {NewId}
           child == CHOOSE r \in rest : TRUE
           next == NewRun("risk", <<"followup", NewId, "risk">>, 1, revision + 1)
<1>1. /\ NewId \in Runs /\ runs[NewId].status = "absent"
      /\ child \in Runs \ {NewId} /\ runs[child].status = "absent"
  <2>1. rest # {} BY DEF ApplyExternal
  <2>2. child \in rest /\ Free # {} BY <2>1
  <2> QED BY <2>2, NewIdIsFree DEF Free, Present
<1>2. /\ row.status = "applied" /\ row.batches = 1
      /\ row.revision = revision /\ row.produced = revision + 1
  BY DEF NewRun, NoRun
<1>3. next.status = "queued" /\ next.batches = 0
  BY DEF NewRun, NoRun
<1>4. revision' = revision + 1
  BY DEF ApplyExternal, RecordBatch, After, NoProposal
<1> HIDE DEF row, next, child
<1>5. \/ runs' = [runs EXCEPT ![NewId] = row, ![child] = next]
      \/ runs' = [runs EXCEPT ![NewId] = row]
  BY DEF ApplyExternal, row, next, child
<1> QED BY <1>1, <1>2, <1>3, <1>4, <1>5 DEF TypeOK

LEMMA ExternalBatches ==
  ASSUME TypeOK, TypeOK', BatchInv, NEW f \in Findings, ApplyExternal(f)
  PROVE  BatchInv'
<1>1. NewId \in Runs /\ AddsBatch(NewId)
  BY ExternalRows, AbsentHasNoBatch DEF AddsBatch, Applied
<1>2. ASSUME NEW s \in Runs \ {NewId} PROVE KeepsBatch(s)
  <2>1. CASE runs'[s] = runs[s]
    BY <2>1, StatusKeepsBatch
  <2>2. CASE runs[s].status = "absent" /\ runs'[s].batches = 0
    BY <2>2, AbsentHasNoBatch DEF KeepsBatch, Applied
  <2> QED BY <2>1, <2>2, ExternalRows
<1> QED BY <1>1, <1>2, AddingABatch

LEMMA NextBatches == ASSUME TypeOK, TypeOK', BatchInv, [Next]_vars PROVE BatchInv'
<1>1. CASE UNCHANGED <<runs, revision>> \/ (UNCHANGED runs /\ HumanRevision)
  <2>1. revision <= revision'
    BY <1>1 DEF HumanRevision, TypeOK
  <2>2. \A r \in Runs : KeepsBatch(r)
    BY <1>1, StatusKeepsBatch
  <2> QED BY <2>1, <2>2, KeepingBatches
<1>2. CASE \E w \in Workers, e \in EventKeys : Claim(w, e) \/ ClaimFails(w, e)
  BY <1>2, ClaimKeeps, KeepingBatches DEF TypeOK
<1>3. ASSUME NEW w \in Workers, WorkerStep(w) PROVE BatchInv'
  <2>1. CASE Reserve(w) \/ Analyze(w) \/ AnalyzePrivate(w)
    BY <1>1, <2>1 DEF Reserve, Analyze, AnalyzePrivate, project
  <2>2. CASE Commit(w)
    BY <2>2, CommitBatches
  <2>3. CASE RecordFailure(w) \/ Refresh(w) \/ Return(w)
    BY <2>3, SettleKeeps, KeepingBatches DEF TypeOK
  <2> QED BY <1>3, <2>1, <2>2, <2>3 DEF WorkerStep
<1>4. CASE \E w \in Workers : InternalError(w) \/ Crash(w)
  BY <1>1, <1>4 DEF InternalError, Crash, project
<1>5. CASE \/ \E kind \in Kinds, k \in RequestKeys : CreateRun(kind, k)
           \/ Reconcile
  <2>1. PICK kind, key, round, rev : InsertRun(runs, kind, key, round, rev)
    BY <1>5 DEF CreateRun, Reconcile
  <2>2. revision' = revision
    BY <1>5 DEF CreateRun, Reconcile, project
  <2> QED BY <2>1, <2>2, InsertKeepsBatches, KeepingBatches DEF TypeOK
<1>6. CASE \/ \E r \in Runs : CancelRun(r) \/ RetryRun(r) \/ Undo(r) \/ LeaseExpires(r)
           \/ \E p \in Policies : PutPolicy(p)
  BY <1>6, PeopleKeep, KeepingBatches
<1>7. CASE (\E a \in BOOLEAN : Edit(a)) \/ EditPage \/ ChangeUser \/ NewMonth
  BY <1>1, <1>7 DEF Edit, EditPage, ChangeUser, NewMonth, project
<1>8. CASE \E f \in Findings : ApplyExternal(f)
  BY <1>8, ExternalBatches
<1>9. CASE UNCHANGED vars
  BY <1>1, <1>9 DEF vars
<1> QED
  BY <1>2, <1>3, <1>4, <1>5, <1>6, <1>7, <1>8, <1>9 DEF Next, Disturbance, People

(* BatchInv, the inductive invariant below the next two theorems.          *)
THEOREM BatchInvariant == Spec => []BatchInv
<1>1. Init => BatchInv
  BY DEF Init, NoRun, BatchInv, OneBatchPerRevision, HasBatch
<1>2. TypeOK /\ TypeOK' /\ BatchInv /\ [Next]_vars => BatchInv'
  BY NextBatches
<1> QED BY <1>1, <1>2, TypeCorrect, PTL DEF Spec

(* However many workers, crashes, retries and people there are, a run      *)
(* applies at most one batch and no two batches were computed from the     *)
(* same project revision.                                                  *)
THEOREM BatchesAreSerialised == Spec => []OneBatchPerRevision
<1>1. BatchInv => OneBatchPerRevision
  BY DEF BatchInv
<1> QED BY <1>1, BatchInvariant, PTL

(* ... and nothing happened to the project between the capture of a run's  *)
(* input and its batch.                                                    *)
THEOREM BatchesFollowTheirInput == Spec => []BatchFollowsItsInput
<1>1. BatchInv => BatchFollowsItsInput
  BY DEF BatchInv, BatchFollowsItsInput, HasBatch
<1> QED BY <1>1, BatchInvariant, PTL

-----------------------------------------------------------------------------
(* Model calls.                                                            *)

LEMMA ReserveCounts ==
  ASSUME TypeOK, UsageInv, NEW w \in Workers, Reserve(w)
  PROVE  UsageInv'
<1>1. /\ usage.month \in Nat /\ usage.calls \in Nat /\ month \in Nat /\ spent \in Nat
      /\ policy.budget \in Nat /\ policy.budget <= MaxBudget
  BY AutomationAssumption DEF TypeOK, AutomationAssumption
<1>2. CASE UNCHANGED budget
  BY <1>2 DEF budget, UsageInv, UsageIsExact, CallsUsed
<1>3. CASE /\ CallsUsed < policy.budget
           /\ usage' = [month |-> month,
                        calls |-> IF usage.month = month THEN usage.calls + 1 ELSE 1]
           /\ spent' = spent + 1
           /\ month' = month
  <2>1. usage'.month = month /\ usage'.calls = CallsUsed + 1
    BY <1>1, <1>3 DEF CallsUsed
  <2>2. CallsUsed' = CallsUsed + 1
    BY <1>3, <2>1 DEF CallsUsed
  <2>3. CallsUsed \in Nat
    BY <1>1 DEF CallsUsed
  <2> QED BY <1>1, <1>3, <2>1, <2>2, <2>3, AutomationAssumption
          DEF UsageInv, UsageIsExact, AutomationAssumption
<1> QED BY <1>2, <1>3 DEF Reserve

LEMMA NextUsage == ASSUME TypeOK, UsageInv, [Next]_vars PROVE UsageInv'
<1>1. CASE UNCHANGED budget
  BY <1>1 DEF budget, UsageInv, UsageIsExact, CallsUsed
<1>2. CASE \E w \in Workers : Reserve(w)
  BY <1>2, ReserveCounts
<1>3. CASE NewMonth
  BY <1>3, AutomationAssumption
  DEF NewMonth, UsageInv, UsageIsExact, CallsUsed, TypeOK, AutomationAssumption
<1>4. ASSUME NEW w \in Workers, WorkerStep(w), ~Reserve(w) PROVE UNCHANGED budget
  BY <1>4 DEF WorkerStep, Analyze, AnalyzePrivate, Commit, RecordFailure, Refresh, Return
<1>5. CASE UNCHANGED vars
  BY <1>1, <1>5 DEF vars, budget
<1>6. CASE \/ \E w \in Workers, e \in EventKeys : Claim(w, e)
           \/ Disturbance
  BY <1>1, <1>6 DEF Claim, Disturbance, ClaimFails, InternalError, Crash, LeaseExpires
<1>7. CASE \/ People \/ Reconcile
           \/ \E f \in Findings : ApplyExternal(f)
  <2>1. UNCHANGED budget
    BY <1>7, Zenon DEF People, CreateRun, CancelRun, RetryRun, Undo, PutPolicy, Edit, EditPage, ChangeUser,
       Reconcile, ApplyExternal
  <2> QED BY <1>1, <2>1
<1> QED BY <1>1, <1>2, <1>3, <1>4, <1>5, <1>6, <1>7 DEF Next

(* The reported count is the number of calls of this month and stays       *)
(* within the largest budget, for any number of workers and months.        *)
THEOREM UsageCounted == Spec => []UsageIsExact
<1>1. Init => UsageInv
  BY AutomationAssumption DEF Init, UsageInv, UsageIsExact, CallsUsed, AutomationAssumption
<1>2. TypeOK /\ UsageInv /\ [Next]_vars => UsageInv'
  BY NextUsage
<1>3. UsageInv => UsageIsExact
  BY DEF UsageInv
<1> QED BY <1>1, <1>2, <1>3, TypeCorrect, PTL DEF Spec

-----------------------------------------------------------------------------
(* Settled runs.                                                           *)

(* What SettledRunsStay says of one run.                                   *)
Stays(r) ==
  LET before == runs[r].status
      after  == runs'[r].status
  IN  /\ before \in {"applied", "partial"} => after \in {before, "undone"}
      /\ before \in {"completed", "undone"} => after = before
      /\ before = "cancelled" => after \in {"cancelled", "queued"}

LEMMA InsertStays ==
  ASSUME TypeOK, NEW kind, NEW key, NEW round, NEW rev,
         InsertRun(runs, kind, key, round, rev), NEW r \in Runs
  PROVE  Stays(r)
<1>1. runs \in [Runs -> RunRecord]
  BY DEF TypeOK
<1>2. runs'[r] = runs[r] \/ runs[r].status = "absent"
  BY <1>1, InsertedRow
<1> QED BY <1>2 DEF Stays

(* No step of a worker touches a settled run, however old its event.       *)
LEMMA WorkerStays ==
  ASSUME TypeOK, NEW w \in Workers, WorkerStep(w), NEW r \in Runs
  PROVE  Stays(r)
<1> DEFINE q == RunOf(w)
<1>1. CASE UNCHANGED runs
  BY <1>1 DEF Stays
<1>2. CASE Commit(w)
  <2>1. /\ q \in Runs /\ runs \in [Runs -> RunRecord]
        /\ Committed(q, worker[w].proposal) \in [Runs -> RunRecord]
    BY <1>2, WorkerEvent, CommittedTyped DEF Commit, At, TypeOK
  <2>2. \/ UNCHANGED runs
        \/ /\ runs[q].status = "running"
           /\ FollowUp(Committed(q, worker[w].proposal), q, worker[w].proposal)
    BY <1>2 DEF Commit
  <2>3. CASE /\ runs[q].status = "running"
             /\ FollowUp(Committed(q, worker[w].proposal), q, worker[w].proposal)
    <3>1. \/ runs' = Committed(q, worker[w].proposal)
          \/ \E kind, key, round, rev :
               InsertRun(Committed(q, worker[w].proposal), kind, key, round, rev)
      BY <2>3 DEF FollowUp
    <3>2. \/ runs'[r] = Committed(q, worker[w].proposal)[r]
          \/ runs[r].status = "absent"
      BY <2>1, <3>1, InsertedRow
    <3>3. r # q => Committed(q, worker[w].proposal)[r] = runs[r]
      BY <2>1 DEF Committed
    <3> QED BY <2>3, <3>2, <3>3 DEF Stays
  <2> QED BY <1>1, <2>2, <2>3
<1>3. CASE RecordFailure(w)
  <2>1. \/ UNCHANGED runs
        \/ /\ Unsettled(q)
           /\ \E st \in {"failed", "blocked"} :
                runs' = [runs EXCEPT ![q].status = st, ![q].lease = FALSE]
    BY <1>3, Zenon DEF RecordFailure
  <2>2. r # q => runs'[r] = runs[r]
    BY <2>1 DEF TypeOK
  <2> QED BY <1>1, <2>1, <2>2 DEF Stays, Unsettled
<1>4. CASE Refresh(w)
  <2>1. \/ UNCHANGED runs
        \/ \E kind, key, round, rev : InsertRun(runs, kind, key, round, rev)
    BY <1>4 DEF Refresh
  <2> QED BY <1>1, <2>1, InsertStays
<1> QED
  BY <1>1, <1>2, <1>3, <1>4 DEF WorkerStep, Reserve, Analyze, AnalyzePrivate, Return

LEMMA OthersStay ==
  ASSUME TypeOK, NEW r \in Runs,
         \/ \E w \in Workers, e \in EventKeys : Claim(w, e)
         \/ \E q \in Runs : CancelRun(q) \/ RetryRun(q) \/ Undo(q) \/ LeaseExpires(q)
  PROVE  Stays(r)
<1>1. ASSUME NEW w \in Workers, NEW e \in EventKeys, Claim(w, e)
      PROVE  Stays(r)
  <2>1. \/ UNCHANGED runs
        \/ /\ Claimable(e[1])
           /\ runs' = [runs EXCEPT ![e[1]].status = "running",
                                   ![e[1]].attempts = @ + 1, ![e[1]].lease = TRUE]
    BY <1>1, Zenon DEF Claim
  <2>2. r # e[1] => runs'[r] = runs[r]
    BY <2>1 DEF TypeOK
  <2> QED BY <2>1, <2>2 DEF Stays, Claimable
<1>2. ASSUME NEW q \in Runs,
             CancelRun(q) \/ RetryRun(q) \/ Undo(q) \/ LeaseExpires(q)
      PROVE  Stays(r)
  <2>1. \/ runs' = [runs EXCEPT ![q].status = "cancelled", ![q].lease = FALSE]
           /\ runs[q].status \in {"queued", "running"}
        \/ runs' = [runs EXCEPT ![q].status = "queued"]
           /\ runs[q].status \in {"failed", "blocked", "cancelled"}
        \/ runs' = [runs EXCEPT ![q].status = "undone"]
           /\ runs[q].status \in {"applied", "partial"}
        \/ runs' = [runs EXCEPT ![q].lease = FALSE]
    BY <1>2, Zenon DEF CancelRun, RetryRun, Undo, LeaseExpires
  <2>2. r # q => runs'[r] = runs[r]
    BY <2>1 DEF TypeOK
  <2>3. runs[q] \in RunRecord
    BY DEF TypeOK
  <2>4. CASE r = q
    BY <2>1, <2>3, <2>4 DEF Stays, TypeOK, RunRecord
  <2> QED BY <2>2, <2>4 DEF Stays
<1> QED BY <1>1, <1>2

LEMMA NextStays == ASSUME TypeOK, Next, NEW r \in Runs PROVE Stays(r)
<1>1. CASE UNCHANGED runs
  BY <1>1 DEF Stays
<1>2. CASE \/ \E w \in Workers : WorkerStep(w)
           \/ \E w \in Workers, e \in EventKeys : Claim(w, e)
           \/ \E q \in Runs : CancelRun(q) \/ RetryRun(q) \/ Undo(q) \/ LeaseExpires(q)
  BY <1>2, WorkerStays, OthersStay
<1>3. CASE \/ \E kind \in Kinds, k \in RequestKeys : CreateRun(kind, k)
           \/ Reconcile
  <2>1. PICK kind, key, round, rev : InsertRun(runs, kind, key, round, rev)
    BY <1>3 DEF CreateRun, Reconcile
  <2> QED BY <2>1, InsertStays
<1>4. ASSUME NEW p \in Policies, PutPolicy(p) PROVE Stays(r)
  <2>1. runs'[r] = IF runs[r].status \in {"queued", "running"}
                   THEN [runs[r] EXCEPT !.status = "cancelled", !.lease = FALSE]
                   ELSE runs[r]
    BY <1>4, Zenon DEF PutPolicy
  <2> QED BY <2>1 DEF Stays
<1>5. CASE \E f \in Findings : ApplyExternal(f)
  <2>1. runs'[r] = runs[r] \/ runs[r].status = "absent"
    BY <1>5, ExternalRows
  <2> QED BY <2>1 DEF Stays
<1>6. CASE \/ \E w \in Workers, e \in EventKeys : ClaimFails(w, e)
           \/ \E w \in Workers : InternalError(w) \/ Crash(w)
           \/ \E a \in BOOLEAN : Edit(a)
           \/ EditPage \/ ChangeUser \/ NewMonth
  BY <1>1, <1>6 DEF ClaimFails, InternalError, Crash, Edit, EditPage, ChangeUser, NewMonth
<1> QED BY <1>2, <1>3, <1>4, <1>5, <1>6 DEF Next, Disturbance, People

(* What is settled stays settled, in every step of every behaviour.        *)
THEOREM SettledStay == Spec => SettledRunsStay
<1>1. TypeOK /\ [Next]_vars =>
        [\A r \in Runs :
           LET before == runs[r].status
               after  == runs'[r].status
           IN  /\ before \in {"applied", "partial"} => after \in {before, "undone"}
               /\ before \in {"completed", "undone"} => after = before
               /\ before = "cancelled" => after \in {"cancelled", "queued"}]_vars
  BY NextStays DEF Stays
<1> QED BY <1>1, TypeCorrect, PTL DEF Spec, SettledRunsStay

-----------------------------------------------------------------------------
(* Chains.                                                                 *)

(* The step inserts no row and changes no key and no round.                *)
SameRow(r) ==
  /\ r \in Present <=> r \in Present'
  /\ runs'[r].key = runs[r].key /\ runs'[r].round = runs[r].round

(* The step inserts the row n, with a key of its own that is no child's    *)
(* key but of a run one round before it.                                   *)
AddsRow(n) ==
  /\ n \in Free /\ n \in Present'
  /\ \A s \in Runs \ {n} : SameRow(s)
  /\ \A s \in Present : runs[s].key # runs'[n].key
  /\ runs'[n].round < MaxRounds
  /\ \A r \in Runs : runs'[n].key \in ChildKeys(r) =>
        r \in Present /\ runs'[n].round = runs[r].round + 1

LEMMA SameChains ==
  ASSUME ChainsAreBounded, \A r \in Runs : SameRow(r)
  PROVE  ChainsAreBounded'
  BY DEF ChainsAreBounded, SameRow, Present

LEMMA LongerChains ==
  ASSUME ChainsAreBounded, NEW n \in Runs, AddsRow(n)
  PROVE  ChainsAreBounded'
<1>1. \A s \in Present' : s # n =>
        s \in Present /\ runs'[s].key = runs[s].key /\ runs'[s].round = runs[s].round
  BY DEF AddsRow, SameRow, Present
<1>2. \A s \in Present :
        s # n /\ s \in Present' /\ runs'[s].key = runs[s].key
        /\ runs'[s].round = runs[s].round
  BY DEF AddsRow, SameRow, Present, Free
<1>3. (\A r \in Present : runs[r].round < MaxRounds)'
  BY <1>1 DEF AddsRow, ChainsAreBounded
<1>4. (\A r, s \in Present : r # s => runs[r].key # runs[s].key)'
  BY <1>1 DEF AddsRow, ChainsAreBounded
<1>5. ASSUME NEW s \in Present', NEW r \in Runs, runs'[s].key \in ChildKeys(r)
      PROVE  r \in Present' /\ runs'[s].round = runs'[r].round + 1
  <2>1. CASE s = n
    BY <1>2, <1>5, <2>1 DEF AddsRow
  <2>2. CASE s # n
    BY <1>1, <1>2, <1>5, <2>2 DEF ChainsAreBounded
  <2> QED BY <2>1, <2>2
<1>6. (\A s \in Present, r \in Runs :
         runs[s].key \in ChildKeys(r) =>
           r \in Present /\ runs[s].round = runs[r].round + 1)'
  BY <1>5 DEF ChildKeys, Present
<1> QED BY <1>3, <1>4, <1>6 DEF ChainsAreBounded

(* insertRun on rows that carry the keys and rounds of the present ones.   *)
LEMMA InsertChains ==
  ASSUME TypeOK, ChainsAreBounded, NEW rs \in [Runs -> RunRecord],
         \A r \in Runs : /\ rs[r].status = "absent" <=> runs[r].status = "absent"
                         /\ rs[r].key = runs[r].key /\ rs[r].round = runs[r].round,
         NEW kind, NEW key, NEW round, NEW rev, InsertRun(rs, kind, key, round, rev),
         round < MaxRounds,
         \A r \in Runs : key \in ChildKeys(r) =>
            r \in Present /\ round = runs[r].round + 1
  PROVE  ChainsAreBounded'
<1>1. CASE runs' = rs /\ UNCHANGED delivery
  <2>1. runs' = rs
    BY <1>1
  <2>2. \A r \in Runs : SameRow(r)
    BY <2>1 DEF SameRow, Present
  <2> QED BY <2>2, SameChains
<1>2. CASE SameKey(key) = {} /\ AddRun(rs, kind, key, round, rev)
  <2>1. /\ runs' = [rs EXCEPT ![NewId] = NewRun(kind, key, round, rev)]
        /\ Free # {}
    BY <1>2 DEF AddRun
  <2>2. NewId \in Free /\ NewId \in Runs
    BY <2>1, NewIdIsFree DEF Free, Present
  <2>3. /\ runs'[NewId].status = "queued" /\ runs'[NewId].key = key
        /\ runs'[NewId].round = round
    BY <2>1, <2>2 DEF NewRun, NoRun
  <2>4. \A s \in Runs \ {NewId} : SameRow(s)
    BY <2>1, <2>2 DEF SameRow, Present
  <2>5. \A s \in Present : runs[s].key # key
    BY <1>2 DEF SameKey
  <2>6. AddsRow(NewId)
    BY <2>2, <2>3, <2>4, <2>5 DEF AddsRow, Present
  <2> QED BY <2>2, <2>6, LongerChains
<1> QED BY <1>1, <1>2 DEF InsertRun

(* Only refreshed and followed-up runs have children's keys.               *)
LEMMA RootKeys ==
  ASSUME NEW r, NEW x, NEW y, NEW z
  PROVE  /\ <<"request", x>> \notin ChildKeys(r)
         /\ <<"external", x>> \notin ChildKeys(r)
         /\ <<"page", x, y>> \notin ChildKeys(r)
         /\ <<"revision", x, y, z>> \notin ChildKeys(r)
         /\ <<"periodic">> \notin ChildKeys(r)
  BY DEF ChildKeys

(* A child's key names its cause.                                          *)
LEMMA CauseOfKey ==
  ASSUME NEW r, NEW q, NEW kind
  PROVE  /\ <<"refresh", r>> \in ChildKeys(q) => q = r
         /\ <<"followup", r, kind>> \in ChildKeys(q) => q = r
  BY DEF ChildKeys

LEMMA RoundsBounded ==
  ASSUME TypeOK
  PROVE  /\ policy.maxRounds \in Nat /\ policy.maxRounds <= MaxRounds
         /\ 0 < policy.maxRounds
  BY AutomationAssumption DEF TypeOK, AutomationAssumption

LEMMA RequestChains ==
  ASSUME TypeOK, ChainsAreBounded,
         \/ \E kind \in Kinds, k \in RequestKeys : CreateRun(kind, k)
         \/ Reconcile
  PROVE  ChainsAreBounded'
<1>1. 0 < MaxRounds
  BY RoundsBounded, AutomationAssumption DEF AutomationAssumption
<1>2. PICK kind, key, rev :
         /\ InsertRun(runs, kind, key, 0, rev)
         /\ \A r \in Runs : key \notin ChildKeys(r)
  BY RootKeys DEF CreateRun, Reconcile
<1> QED BY <1>1, <1>2, InsertChains DEF TypeOK

LEMMA CommitChains ==
  ASSUME TypeOK, ChainsAreBounded, NEW w \in Workers, Commit(w)
  PROVE  ChainsAreBounded'
<1> DEFINE q == RunOf(w)
           p == worker[w].proposal
           rs == Committed(q, p)
           next == NextKind(rs[q].kind, p)
<1>1. q \in Runs /\ p \in Proposals /\ rs \in [Runs -> RunRecord]
  BY WorkerEvent, CommittedTyped DEF Commit, At
<1>2. CASE UNCHANGED runs
  BY <1>2, SameChains DEF SameRow, Present
<1>3. CASE runs[q].status = "running" /\ FollowUp(rs, q, p)
  <2>1. Outcome(p) # "absent"
    BY DEF Outcome
  <2>2. ASSUME NEW r \in Runs
        PROVE  /\ rs[r].status = "absent" <=> runs[r].status = "absent"
               /\ rs[r].key = runs[r].key /\ rs[r].round = runs[r].round
    <3>1. runs[r] \in RunRecord BY DEF TypeOK
    <3>2. r # q => rs[r] = runs[r]
      BY <1>1 DEF Committed, TypeOK
    <3>3. rs[q] = [runs[q] EXCEPT !.status = Outcome(p), !.lease = FALSE,
                     !.batches = IF p.changes THEN @ + 1 ELSE @,
                     !.produced = IF p.changes THEN revision + 1 ELSE @]
      BY <1>1 DEF Committed, TypeOK
    <3>4. r = q => /\ rs[r].status = Outcome(p)
                   /\ rs[r].key = runs[r].key /\ rs[r].round = runs[r].round
      BY <3>1, <3>3 DEF RunRecord
    <3> QED BY <1>3, <2>1, <3>2, <3>4
  <2>3. CASE runs' = rs
    BY <2>2, <2>3, SameChains DEF SameRow, Present
  <2>4. CASE /\ rs[q].round + 1 < policy.maxRounds
             /\ InsertRun(rs, next, <<"followup", q, next>>, rs[q].round + 1, After(p))
    <3>1. rs[q].round \in Nat /\ runs[q].round = rs[q].round /\ q \in Present
      BY <1>1, <1>3, <2>2 DEF RunRecord, Present
    <3>2. rs[q].round + 1 < MaxRounds
      BY <2>4, <3>1, RoundsBounded, AutomationAssumption DEF AutomationAssumption
    <3>3. \A r \in Runs : <<"followup", q, next>> \in ChildKeys(r) => r = q
      BY CauseOfKey
    <3> HIDE DEF next
    <3> QED BY <1>1, <2>2, <2>4, <3>1, <3>2, <3>3, InsertChains
  <2> QED BY <1>3, <2>3, <2>4 DEF FollowUp
<1> QED BY <1>2, <1>3 DEF Commit

LEMMA RefreshChains ==
  ASSUME TypeOK, ChainsAreBounded, EventsHaveRuns, NEW w \in Workers, Refresh(w)
  PROVE  ChainsAreBounded'
<1> DEFINE q == RunOf(w)
<1>1. q \in Runs /\ runs[q].round \in Nat /\ q \in Present
  BY WorkerEvent DEF Refresh, At, TypeOK, RunRecord, EventsHaveRuns
<1>2. CASE UNCHANGED runs
  BY <1>2, SameChains DEF SameRow, Present
<1>3. CASE /\ runs[q].round + 1 < policy.maxRounds
           /\ InsertRun(runs, runs[q].kind, <<"refresh", q>>, runs[q].round + 1, revision)
  <2>1. runs[q].round + 1 < MaxRounds
    BY <1>1, <1>3, RoundsBounded, AutomationAssumption DEF AutomationAssumption
  <2>2. \A r \in Runs : <<"refresh", q>> \in ChildKeys(r) => r = q
    BY CauseOfKey
  <2> QED BY <1>1, <1>3, <2>1, <2>2, InsertChains DEF TypeOK
<1> QED BY <1>2, <1>3 DEF Refresh, Refreshable

(* A step that changes status, attempts or lease of present rows only.     *)
LEMMA RowsStay ==
  ASSUME TypeOK,
         \/ UNCHANGED runs
         \/ \E w \in Workers, e \in EventKeys : Claim(w, e)
         \/ \E w \in Workers : RecordFailure(w)
         \/ \E q \in Runs : CancelRun(q) \/ RetryRun(q) \/ Undo(q) \/ LeaseExpires(q)
         \/ \E p \in Policies : PutPolicy(p)
  PROVE  \A r \in Runs : SameRow(r)
<1> TAKE r \in Runs
<1>0. runs[r] \in RunRecord /\ runs \in [Runs -> RunRecord]
  BY DEF TypeOK
<1>1. CASE UNCHANGED runs
  BY <1>1 DEF SameRow, Present
<1>2. ASSUME NEW w \in Workers, NEW e \in EventKeys, Claim(w, e)
      PROVE  SameRow(r)
  <2>1. \/ UNCHANGED runs
        \/ /\ Claimable(e[1])
           /\ runs' = [runs EXCEPT ![e[1]].status = "running",
                                   ![e[1]].attempts = @ + 1, ![e[1]].lease = TRUE]
    BY <1>2, Zenon DEF Claim
  <2> QED BY <1>0, <1>1, <2>1 DEF SameRow, Present, Claimable, RunRecord
<1>3. ASSUME NEW w \in Workers, RecordFailure(w) PROVE SameRow(r)
  <2>1. \/ UNCHANGED runs
        \/ /\ Unsettled(RunOf(w))
           /\ \E st \in {"failed", "blocked"} :
                runs' = [runs EXCEPT ![RunOf(w)].status = st, ![RunOf(w)].lease = FALSE]
    BY <1>3, Zenon DEF RecordFailure
  <2>2. CASE UNCHANGED runs
    BY <1>1, <2>2
  <2>3. ASSUME NEW st \in {"failed", "blocked"}, Unsettled(RunOf(w)),
               runs' = [runs EXCEPT ![RunOf(w)].status = st, ![RunOf(w)].lease = FALSE]
        PROVE  SameRow(r)
    <3>1. CASE r = RunOf(w)
      <4>1. runs'[r] = [runs[r] EXCEPT !.status = st, !.lease = FALSE]
        BY <1>0, <2>3, <3>1
      <4>2. /\ runs'[r].status = st /\ runs'[r].key = runs[r].key
            /\ runs'[r].round = runs[r].round
        BY <1>0, <4>1 DEF RunRecord
      <4> QED BY <2>3, <3>1, <4>2 DEF SameRow, Present, Unsettled
    <3>2. CASE r # RunOf(w)
      BY <1>0, <2>3, <3>2 DEF SameRow, Present
    <3> QED BY <3>1, <3>2
  <2> QED BY <2>1, <2>2, <2>3
<1>4. ASSUME NEW q \in Runs,
             CancelRun(q) \/ RetryRun(q) \/ Undo(q) \/ LeaseExpires(q)
      PROVE  SameRow(r)
  <2>1. /\ runs[q].status # "absent"
        /\ \/ runs' = [runs EXCEPT ![q].status = "cancelled", ![q].lease = FALSE]
           \/ runs' = [runs EXCEPT ![q].status = "queued"]
           \/ runs' = [runs EXCEPT ![q].status = "undone"]
           \/ runs' = [runs EXCEPT ![q].lease = FALSE]
    BY <1>4 DEF CancelRun, RetryRun, Undo, LeaseExpires, Leased
  <2>2. CASE r # q
    BY <1>0, <2>1, <2>2 DEF SameRow, Present
  <2>3. CASE r = q
    <3>1. /\ runs'[r].status # "absent" /\ runs'[r].key = runs[r].key
          /\ runs'[r].round = runs[r].round
      BY <1>0, <2>1, <2>3 DEF RunRecord
    <3> QED BY <2>1, <2>3, <3>1 DEF SameRow, Present
  <2> QED BY <2>2, <2>3
<1>5. ASSUME NEW p \in Policies, PutPolicy(p) PROVE SameRow(r)
  <2>1. runs'[r] = IF runs[r].status \in {"queued", "running"}
                   THEN [runs[r] EXCEPT !.status = "cancelled", !.lease = FALSE]
                   ELSE runs[r]
    BY <1>5, Zenon DEF PutPolicy
  <2> QED BY <1>0, <2>1 DEF SameRow, Present, RunRecord
<1> QED BY <1>1, <1>2, <1>3, <1>4, <1>5

LEMMA ExternalChains ==
  ASSUME TypeOK, ChainsAreBounded, NEW f \in Findings, ApplyExternal(f)
  PROVE  ChainsAreBounded'
<1> DEFINE key == <<"external", f>>
           row == [NewRun("quality", key, 0, revision)
                     EXCEPT !.status = "applied", !.page = 0, !.attempts = 1,
                            !.batches = 1, !.produced = revision + 1]
           rest == Free \ {NewId}
           child == CHOOSE r \in rest : TRUE
           next == NewRun("risk", <<"followup", NewId, "risk">>, 1, revision + 1)
<1>1. NewId \in Free /\ child \in Free \ {NewId} /\ SameKey(key) = {}
  <2>1. rest # {} /\ SameKey(key) = {} BY DEF ApplyExternal
  <2>2. child \in rest /\ Free # {} BY <2>1
  <2> QED BY <2>1, <2>2, NewIdIsFree DEF Free, Present
<1>2. /\ row.status = "applied" /\ row.key = key /\ row.round = 0
      /\ next.status = "queued" /\ next.key = <<"followup", NewId, "risk">>
      /\ next.round = 1
  BY DEF NewRun, NoRun
<1>3. /\ \A s \in Present : runs[s].key # key
      /\ \A s \in Present : runs[s].key # <<"followup", NewId, "risk">>
  <2>1. <<"followup", NewId, "risk">> \in ChildKeys(NewId)
    BY DEF ChildKeys, Kinds
  <2> QED BY <1>1, <2>1 DEF SameKey, ChainsAreBounded, Free
<1>4. 0 < MaxRounds
  BY RoundsBounded, AutomationAssumption DEF AutomationAssumption
<1> HIDE DEF row, next, child
<1>5. \/ /\ runs' = [runs EXCEPT ![NewId] = row, ![child] = next]
         /\ 1 < policy.maxRounds
      \/ runs' = [runs EXCEPT ![NewId] = row]
  BY DEF ApplyExternal, row, next, child
<1>6. CASE runs' = [runs EXCEPT ![NewId] = row]
  <2>1. NewId \in Present' /\ runs'[NewId].key = key /\ runs'[NewId].round = 0
    BY <1>1, <1>2, <1>6 DEF Present, Free, TypeOK
  <2>2. \A s \in Runs \ {NewId} : SameRow(s)
    BY <1>1, <1>6 DEF SameRow, Present, TypeOK
  <2>3. AddsRow(NewId)
    BY <1>1, <1>3, <1>4, <2>1, <2>2, RootKeys DEF AddsRow
  <2> QED BY <1>1, <2>3, LongerChains DEF Free
<1>7. CASE runs' = [runs EXCEPT ![NewId] = row, ![child] = next] /\ 1 < policy.maxRounds
  <2>1. /\ runs'[NewId].status = "applied"
        /\ runs'[NewId].key = key /\ runs'[NewId].round = 0
        /\ runs'[child].status = "queued"
        /\ runs'[child].key = <<"followup", NewId, "risk">> /\ runs'[child].round = 1
        /\ \A s \in Runs \ {NewId, child} : runs'[s] = runs[s]
    BY <1>1, <1>2, <1>7 DEF Free, TypeOK
  <2>2. Present' = Present \cup {NewId, child}
    BY <1>1, <2>1 DEF Present, Free
  <2>3. 1 < MaxRounds
    BY <1>7, RoundsBounded, AutomationAssumption DEF AutomationAssumption
  <2>4. \A s \in Present : runs'[s] = runs[s] /\ s # NewId /\ s # child
    BY <1>1, <2>1 DEF Free, Present
  <2>5. (\A r \in Present : runs[r].round < MaxRounds)'
    BY <1>4, <2>1, <2>2, <2>3, <2>4 DEF ChainsAreBounded
  <2>6. (\A r, s \in Present : r # s => runs[r].key # runs[s].key)'
    BY <1>3, <2>1, <2>2, <2>4 DEF ChainsAreBounded
  <2>7. ASSUME NEW s \in Present', NEW r \in Runs, runs'[s].key \in ChildKeys(r)
        PROVE  r \in Present' /\ runs'[s].round = runs'[r].round + 1
    <3>1. CASE s \in Present
      BY <2>2, <2>4, <2>7, <3>1 DEF ChainsAreBounded
    <3>2. CASE s = NewId
      BY <2>1, <2>7, <3>2, RootKeys
    <3>3. CASE s = child
      <4>1. r = NewId
        BY <2>1, <2>7, <3>3, CauseOfKey
      <4> QED BY <2>1, <2>2, <3>3, <4>1
    <3> QED BY <2>2, <3>1, <3>2, <3>3
  <2> QED BY <2>5, <2>6, <2>7 DEF ChainsAreBounded, ChildKeys
<1> QED BY <1>5, <1>6, <1>7

(* No step takes a run away.                                               *)
LEMMA PresentStays == ASSUME TypeOK, Next, NEW r \in Present PROVE r \in Present'
<1>1. r \in Runs /\ runs[r].status # "absent"
  BY DEF Present
<1>2. CASE \A q \in Runs : SameRow(q)
  BY <1>1, <1>2 DEF SameRow
<1>3. CASE runs'[r] = runs[r]
  BY <1>1, <1>3 DEF Present
<1>4. CASE \/ UNCHANGED runs
           \/ \E w \in Workers, e \in EventKeys : Claim(w, e)
           \/ \E w \in Workers : RecordFailure(w)
           \/ \E q \in Runs : CancelRun(q) \/ RetryRun(q) \/ Undo(q) \/ LeaseExpires(q)
           \/ \E p \in Policies : PutPolicy(p)
  BY <1>2, <1>4, RowsStay
<1>5. CASE \/ \E kind \in Kinds, k \in RequestKeys : CreateRun(kind, k)
           \/ Reconcile
           \/ \E w \in Workers : Refresh(w)
  <2>1. \/ UNCHANGED runs
        \/ \E kind, key, round, rev : InsertRun(runs, kind, key, round, rev)
    BY <1>5 DEF CreateRun, Reconcile, Refresh
  <2> QED BY <1>1, <1>3, <1>4, <2>1, InsertedRow DEF TypeOK
<1>6. ASSUME NEW w \in Workers, Commit(w) PROVE r \in Present'
  <2> DEFINE rs == Committed(RunOf(w), worker[w].proposal)
  <2>1. RunOf(w) \in Runs /\ rs \in [Runs -> RunRecord]
    BY <1>6, WorkerEvent, CommittedTyped DEF Commit, At
  <2>2. \/ UNCHANGED runs
        \/ runs' = rs
        \/ \E kind, key, round, rev : InsertRun(rs, kind, key, round, rev)
    BY <1>6 DEF Commit, FollowUp
  <2>3. rs[r].status # "absent"
    <3>1. Outcome(worker[w].proposal) # "absent"
      BY DEF Outcome
    <3>2. r = RunOf(w) => rs[r].status = Outcome(worker[w].proposal)
      BY <2>1 DEF Committed, TypeOK, RunRecord
    <3>3. r # RunOf(w) => rs[r] = runs[r]
      BY <1>1, <2>1 DEF Committed, TypeOK
    <3> QED BY <1>1, <3>1, <3>2, <3>3
  <2> QED BY <1>1, <1>4, <2>1, <2>2, <2>3, InsertedRow DEF Present
<1>7. CASE \E f \in Findings : ApplyExternal(f)
  BY <1>1, <1>3, <1>7, ExternalRows
<1>8. ASSUME NEW w \in Workers, WorkerStep(w) PROVE r \in Present'
  BY <1>4, <1>5, <1>6, <1>8 DEF WorkerStep, Reserve, Analyze, AnalyzePrivate, Return
<1>9. CASE \/ \E w \in Workers, e \in EventKeys : ClaimFails(w, e)
           \/ \E w \in Workers : InternalError(w) \/ Crash(w)
           \/ \E a \in BOOLEAN : Edit(a)
           \/ EditPage \/ ChangeUser \/ NewMonth
  BY <1>4, <1>9 DEF ClaimFails, InternalError, Crash, Edit, EditPage, ChangeUser, NewMonth
<1> QED BY <1>4, <1>5, <1>7, <1>8, <1>9 DEF Next, Disturbance, People

(* An event that a step publishes belongs to a run that is there.          *)
LEMMA NewEvents ==
  ASSUME TypeOK, EventsHaveRuns, Next, NEW e \in EventKeys, task'[e] # "absent"
  PROVE  e[1] \in Present'
<1>1. CASE task[e] # "absent"
  BY <1>1, PresentStays DEF EventsHaveRuns
<1>2. ASSUME NEW d \in EventKeys,
             Queue!Take(d) \/ Queue!Ack(d) \/ Queue!GiveBack(d)
      PROVE  e[1] \in Present'
  <2>1. task[d] # "absent" /\ \E v : task' = [task EXCEPT ![d] = v]
    BY <1>2 DEF Queue!Take, Queue!Ack, Queue!GiveBack
  <2>2. task[e] # "absent"
    BY <2>1 DEF TypeOK, Queue!DeliveryTypeOK
  <2> QED BY <1>1, <2>2
<1>3. ASSUME NEW d \in EventKeys, Queue!Publish(d), d[1] \in Present'
      PROVE  e[1] \in Present'
  <2>1. e = d \/ task'[e] = task[e]
    BY <1>3 DEF Queue!Publish, Queue!Published, TypeOK, Queue!DeliveryTypeOK
  <2> QED BY <1>1, <1>3, <2>1
<1>4. CASE UNCHANGED delivery
  BY <1>1, <1>4 DEF delivery
<1>5. ASSUME NEW rs \in [Runs -> RunRecord], NEW kind, NEW key, NEW round, NEW rev,
             InsertRun(rs, kind, key, round, rev)
      PROVE  e[1] \in Present'
  <2>1. CASE runs' = rs /\ UNCHANGED delivery
    BY <1>4, <1>5, <2>1
  <2>2. CASE SameKey(key) = {} /\ AddRun(rs, kind, key, round, rev)
    <3>1. /\ runs' = [rs EXCEPT ![NewId] = NewRun(kind, key, round, rev)]
          /\ Free # {} /\ Queue!Publish(<<NewId, 0>>)
      BY <2>2 DEF AddRun
    <3>2. NewId \in Present' /\ NewId \in Runs
      BY <3>1, NewIdIsFree DEF Present, NewRun, NoRun
    <3>3. <<NewId, 0>> \in EventKeys
      BY <3>2, AutomationAssumption DEF EventKeys, AutomationAssumption
    <3> QED BY <1>3, <3>1, <3>2, <3>3
  <2> QED BY <1>5, <2>1, <2>2 DEF InsertRun
<1>6. ASSUME NEW w \in Workers, WorkerStep(w) PROVE e[1] \in Present'
  <2>1. CASE Commit(w)
    <3>1. Committed(RunOf(w), worker[w].proposal) \in [Runs -> RunRecord]
      BY <2>1, CommittedTyped DEF Commit
    <3>2. \/ UNCHANGED delivery
          \/ \E kind, key, round, rev :
               InsertRun(Committed(RunOf(w), worker[w].proposal), kind, key, round, rev)
      BY <2>1 DEF Commit, FollowUp
    <3> QED BY <1>4, <1>5, <3>1, <3>2
  <2>2. CASE Refresh(w)
    <3>1. \/ UNCHANGED delivery
          \/ \E kind, key, round, rev : InsertRun(runs, kind, key, round, rev)
      BY <2>2 DEF Refresh
    <3> QED BY <1>4, <1>5, <3>1 DEF TypeOK
  <2>3. CASE Return(w)
    <3>1. worker[w].event \in EventKeys
      BY <2>3, WorkerEvent DEF Return, At
    <3> QED BY <1>2, <2>3, <3>1 DEF Return
  <2> QED BY <1>4, <1>6, <2>1, <2>2, <2>3
          DEF WorkerStep, Reserve, Analyze, AnalyzePrivate, RecordFailure
<1>7. CASE \/ \E w \in Workers, d \in EventKeys : Claim(w, d) \/ ClaimFails(w, d)
           \/ \E w \in Workers : Crash(w)
  <2>1. PICK d \in EventKeys : Queue!Take(d) \/ Queue!GiveBack(d)
    BY <1>7, WorkerEvent DEF Claim, ClaimFails, Crash
  <2> QED BY <1>2, <2>1
<1>8. CASE \/ \E kind \in Kinds, k \in RequestKeys : CreateRun(kind, k)
           \/ Reconcile
  <2>1. PICK kind, key, round, rev : InsertRun(runs, kind, key, round, rev)
    BY <1>8 DEF CreateRun, Reconcile
  <2> QED BY <1>5, <2>1 DEF TypeOK
<1>9. ASSUME NEW r \in Runs, RetryRun(r) PROVE e[1] \in Present'
  <2>1. <<r, runs[r].attempts + 1>> \in EventKeys /\ r \in Present
    BY <1>9, AutomationAssumption
    DEF RetryRun, TypeOK, RunRecord, EventKeys, AutomationAssumption, Present
  <2> QED BY <1>3, <1>9, <2>1, PresentStays DEF RetryRun
<1>10. ASSUME NEW f \in Findings, ApplyExternal(f) PROVE e[1] \in Present'
  <2> DEFINE rest == Free \ {NewId}
             child == CHOOSE r \in rest : TRUE
             next == NewRun("risk", <<"followup", NewId, "risk">>, 1, revision + 1)
  <2>1. child \in Runs \ {NewId}
    <3>1. rest # {} BY <1>10 DEF ApplyExternal
    <3> QED BY <3>1 DEF Free
  <2>2. next.status # "absent"
    BY DEF NewRun, NoRun
  <2> HIDE DEF next, child
  <2>3. <<child, 0>> \in EventKeys
    BY <2>1, AutomationAssumption DEF EventKeys, AutomationAssumption
  <2>4. \/ /\ Queue!Publish(<<child, 0>>)
           /\ \E row : runs' = [runs EXCEPT ![NewId] = row, ![child] = next]
        \/ UNCHANGED delivery
    BY <1>10 DEF ApplyExternal, next, child
  <2>5. CASE /\ Queue!Publish(<<child, 0>>)
             /\ \E row : runs' = [runs EXCEPT ![NewId] = row, ![child] = next]
    <3>1. child \in Present'
      BY <2>1, <2>2, <2>5 DEF Present, TypeOK
    <3> QED BY <1>3, <2>3, <2>5, <3>1
  <2> QED BY <1>4, <2>4, <2>5
<1>11. CASE \/ \E r \in Runs : CancelRun(r) \/ Undo(r) \/ LeaseExpires(r)
            \/ \E w \in Workers : InternalError(w)
            \/ \E p \in Policies : PutPolicy(p)
            \/ \E a \in BOOLEAN : Edit(a)
            \/ EditPage \/ ChangeUser \/ NewMonth
  <2>1. UNCHANGED delivery
    BY <1>11, Zenon
    DEF CancelRun, Undo, LeaseExpires, InternalError, PutPolicy, Edit, EditPage, ChangeUser, NewMonth
  <2> QED BY <1>4, <2>1
<1> QED
  BY <1>6, <1>7, <1>8, <1>9, <1>10, <1>11 DEF Next, Disturbance, People

LEMMA NextEvents ==
  ASSUME TypeOK, EventsHaveRuns, [Next]_vars
  PROVE  EventsHaveRuns'
<1>1. CASE UNCHANGED vars
  BY <1>1 DEF vars, EventsHaveRuns, Present, At, RunOf
<1>2. CASE Next
  <2>1. \A e \in EventKeys : task'[e] # "absent" => e[1] \in Present'
    BY <1>2, NewEvents
  <2>2. ASSUME NEW v \in Workers, worker'[v].pc # "idle"
        PROVE  worker'[v].event[1] \in Present'
    <3>1. CASE worker[v].pc # "idle" /\ worker'[v].event = worker[v].event
      <4>1. RunOf(v) \in Present
        BY <3>1 DEF EventsHaveRuns, At
      <4>2. RunOf(v) \in Present'
        BY <1>2, <4>1, PresentStays
      <4> QED BY <3>1, <4>2 DEF RunOf
    <3>2. CASE UNCHANGED worker
      BY <2>2, <3>1, <3>2
    <3>3. ASSUME NEW w \in Workers, NEW e \in EventKeys, Claim(w, e) \/ ClaimFails(w, e)
          PROVE  worker'[v].event[1] \in Present'
      <4>1. task[e] = "ready"
        BY <3>3 DEF Claim, ClaimFails, Queue!Take
      <4>2. e[1] \in Present'
        BY <1>2, <4>1, PresentStays DEF EventsHaveRuns
      <4>3. worker \in [Workers -> WorkerRecord]
        BY DEF TypeOK
      <4>4. \/ \E pc : Start(w, e, pc)
            \/ \E reason : FailOn(w, e, reason)
        BY <3>3 DEF Claim, ClaimFails
      <4>5. v = w => worker'[v].event = e
        BY <4>3, <4>4 DEF Start, FailOn
      <4>6. v # w => worker'[v] = worker[v]
        BY <4>3, <4>4 DEF Start, FailOn
      <4> QED BY <2>2, <3>1, <4>2, <4>5, <4>6
    <3>4. ASSUME NEW w \in Workers,
                 WorkerStep(w) \/ InternalError(w) \/ Crash(w)
          PROVE  worker'[v].event[1] \in Present'
      <4>1. worker \in [Workers -> WorkerRecord] /\ worker[w].pc # "idle"
        BY <3>4 DEF TypeOK, WorkerStep, Reserve, Analyze, AnalyzePrivate, Commit,
           RecordFailure, Refresh, Return, InternalError, Crash, At
      <4>2. \/ \E pc : Start(w, worker[w].event, pc)
            \/ \E reason : FailOn(w, worker[w].event, reason)
            \/ \E p : Propose(w, p)
            \/ Rest(w)
        BY <3>4 DEF WorkerStep, Reserve, Analyze, AnalyzePrivate, Commit,
           RecordFailure, Refresh, Return, InternalError, Crash, Goto, Fail
      <4>3. v # w => worker'[v] = worker[v]
        BY <4>1, <4>2 DEF Start, FailOn, Propose, Rest
      <4>4. v = w => worker'[v].pc = "idle" \/ worker'[v].event = worker[v].event
        BY <4>1, <4>2 DEF Start, FailOn, Propose, Rest
      <4> QED BY <2>2, <3>1, <4>1, <4>3, <4>4
    <3>5. CASE \/ Disturbance /\ \E r \in Runs : LeaseExpires(r)
               \/ People \/ Reconcile \/ NewMonth
               \/ \E f \in Findings : ApplyExternal(f)
      <4>1. UNCHANGED worker
        BY <3>5, Zenon DEF LeaseExpires, People, CreateRun, CancelRun, RetryRun, Undo,
           PutPolicy, Edit, EditPage, ChangeUser, Reconcile, NewMonth, ApplyExternal
      <4> QED BY <3>2, <4>1
    <3> QED BY <1>2, <3>3, <3>4, <3>5 DEF Next, Disturbance
  <2> QED BY <2>1, <2>2 DEF EventsHaveRuns, At, RunOf
<1> QED BY <1>1, <1>2

(* Events and workers are those of inserted runs.                          *)
THEOREM EventsKnown == Spec => []EventsHaveRuns
<1>1. Init => EventsHaveRuns
  BY DEF Init, EventsHaveRuns, At, Queue!DeliveryInit
<1>2. TypeOK /\ EventsHaveRuns /\ [Next]_vars => EventsHaveRuns'
  BY NextEvents
<1> QED BY <1>1, <1>2, TypeCorrect, PTL DEF Spec

LEMMA NextChains ==
  ASSUME TypeOK, EventsHaveRuns, ChainsAreBounded, [Next]_vars
  PROVE  ChainsAreBounded'
<1>1. CASE UNCHANGED vars
  BY <1>1, RowsStay, SameChains DEF vars
<1>2. CASE \/ UNCHANGED runs
           \/ \E w \in Workers, e \in EventKeys : Claim(w, e)
           \/ \E w \in Workers : RecordFailure(w)
           \/ \E q \in Runs : CancelRun(q) \/ RetryRun(q) \/ Undo(q) \/ LeaseExpires(q)
           \/ \E p \in Policies : PutPolicy(p)
  BY <1>2, RowsStay, SameChains
<1>3. CASE \/ \E kind \in Kinds, k \in RequestKeys : CreateRun(kind, k)
           \/ Reconcile
  BY <1>3, RequestChains
<1>4. ASSUME NEW w \in Workers, WorkerStep(w) PROVE ChainsAreBounded'
  <2>1. CASE Commit(w)
    BY <2>1, CommitChains
  <2>2. CASE Refresh(w)
    BY <2>2, RefreshChains
  <2> QED BY <1>2, <1>4, <2>1, <2>2
          DEF WorkerStep, Reserve, Analyze, AnalyzePrivate, Return
<1>5. CASE \E f \in Findings : ApplyExternal(f)
  BY <1>5, ExternalChains
<1>6. CASE \/ \E w \in Workers, e \in EventKeys : ClaimFails(w, e)
           \/ \E w \in Workers : InternalError(w) \/ Crash(w)
           \/ \E a \in BOOLEAN : Edit(a)
           \/ EditPage \/ ChangeUser \/ NewMonth
  BY <1>2, <1>6 DEF ClaimFails, InternalError, Crash, Edit, EditPage, ChangeUser, NewMonth
<1> QED
  BY <1>1, <1>2, <1>3, <1>4, <1>5, <1>6 DEF Next, Disturbance, People

(* Cause chains are bounded for every number of runs, rounds and policies. *)
THEOREM ChainsBounded == Spec => []ChainsAreBounded
<1>1. Init => ChainsAreBounded
  BY DEF Init, NoRun, ChainsAreBounded, Present
<1>2. TypeOK /\ EventsHaveRuns /\ ChainsAreBounded /\ [Next]_vars => ChainsAreBounded'
  BY NextChains
<1> QED BY <1>1, <1>2, TypeCorrect, EventsKnown, PTL DEF Spec

-----------------------------------------------------------------------------
(* Coverage: which events stand for a run.                                 *)

(* No event is unpublished, and only an acknowledged one is forgotten.     *)
KeepsEvent(e) ==
  /\ task[e] # "absent" => task'[e] # "absent"
  /\ Queue!Kept(e) => Queue!Kept(e)'
  /\ task[e] = "active" => task'[e] = "active"

LEMMA PublishKeeps ==
  ASSUME TypeOK, UNCHANGED delivery \/ \E d : Queue!Publish(d)
  PROVE  \A e \in EventKeys : KeepsEvent(e)
<1> TAKE e \in EventKeys
<1>1. CASE UNCHANGED delivery
  BY <1>1 DEF delivery, KeepsEvent, Queue!Kept
<1>2. ASSUME NEW d, Queue!Publish(d) PROVE KeepsEvent(e)
  BY <1>2
  DEF TypeOK, Queue!DeliveryTypeOK, Queue!Publish, Queue!Published, KeepsEvent, Queue!Kept
<1> QED BY <1>1, <1>2

(* What becomes of the event a worker takes or returns, and of the others. *)
LEMMA HandOver ==
  ASSUME TypeOK, NEW d \in EventKeys
  PROVE  /\ Queue!Take(d) => /\ task[d] = "ready" /\ task'[d] = "active"
                             /\ \A e \in EventKeys \ {d} : task'[e] = task[e]
         /\ Queue!Ack(d) => /\ task'[d] = "done"
                            /\ \A e \in EventKeys \ {d} : task'[e] = task[e]
         /\ Queue!GiveBack(d) => /\ task'[d] \in {"ready", "archived"}
                                 /\ \A e \in EventKeys \ {d} : task'[e] = task[e]
  BY DEF TypeOK, Queue!DeliveryTypeOK, Queue!Take, Queue!Ack, Queue!GiveBack

(* The worker is idle afterwards, or has the event it had.                 *)
KeepsHold(v) ==
  worker'[v].pc # "idle" =>
    worker[v].pc # "idle" /\ worker'[v].event = worker[v].event

LEMMA AloneMoved ==
  ASSUME WorkersAlone, \A e \in EventKeys : KeepsEvent(e),
         \A v \in Workers : KeepsHold(v)
  PROVE  WorkersAlone'
  BY DEF WorkersAlone, Busied, At, KeepsEvent, KeepsHold

LEMMA AloneTaken ==
  ASSUME TypeOK, WorkersAlone, NEW w \in Workers, NEW d \in EventKeys, Queue!Take(d),
         NEW x, x.event = d, worker' = [worker EXCEPT ![w] = x]
  PROVE  WorkersAlone'
<1>1. /\ task[d] = "ready" /\ task'[d] = "active"
      /\ \A e \in EventKeys \ {d} : task'[e] = task[e]
  BY HandOver
<1>2. worker'[w] = x /\ \A v \in Workers \ {w} : worker'[v] = worker[v]
  BY DEF TypeOK
<1>3. \A v \in Workers : ~Busied(v, d)
  BY <1>1 DEF WorkersAlone
<1>4. ASSUME NEW e \in EventKeys, NEW v \in Workers, Busied(v, e)'
      PROVE  \/ e = d /\ v = w
             \/ e # d /\ v # w /\ Busied(v, e)
  <2>1. CASE v = w
    BY <1>2, <1>4, <2>1 DEF Busied
  <2>2. CASE v # w
    <3>1. Busied(v, e)
      BY <1>2, <1>4, <2>2 DEF Busied, At
    <3> QED BY <1>3, <2>2, <3>1
  <2> QED BY <2>1, <2>2
<1>5. ASSUME NEW e \in EventKeys, NEW u \in Workers, NEW v \in Workers
      PROVE  /\ Busied(v, e)' => task'[e] = "active"
             /\ Busied(u, e)' /\ Busied(v, e)' => u = v
  BY <1>1, <1>4 DEF WorkersAlone
<1> QED BY <1>5 DEF WorkersAlone, Busied, At

LEMMA AloneReturned ==
  ASSUME TypeOK, WorkersAlone, NEW w \in Workers, ~At(w, "idle"), Rest(w),
         Queue!Ack(worker[w].event) \/ Queue!GiveBack(worker[w].event)
  PROVE  WorkersAlone'
<1> DEFINE d == worker[w].event
<1>1. d \in EventKeys
  BY WorkerEvent
<1>2. \A e \in EventKeys \ {d} : task'[e] = task[e]
  BY <1>1, HandOver
<1>3. worker'[w].pc = "idle" /\ \A v \in Workers \ {w} : worker'[v] = worker[v]
  BY DEF TypeOK, Rest
<1>4. Busied(w, d)
  BY DEF Busied
<1>5. ASSUME NEW e \in EventKeys, NEW v \in Workers, Busied(v, e)'
      PROVE  v # w /\ Busied(v, e) /\ e # d
  <2>1. v # w
    BY <1>3, <1>5 DEF Busied, At
  <2>2. Busied(v, e)
    BY <1>3, <1>5, <2>1 DEF Busied, At
  <2> QED BY <1>1, <1>4, <2>1, <2>2 DEF WorkersAlone
<1>6. ASSUME NEW e \in EventKeys, NEW u \in Workers, NEW v \in Workers
      PROVE  /\ Busied(v, e)' => task'[e] = "active"
             /\ Busied(u, e)' /\ Busied(v, e)' => u = v
  BY <1>2, <1>5 DEF WorkersAlone
<1> QED BY <1>6 DEF WorkersAlone, Busied, At

(* The step of w changes nothing of other workers, and w keeps its event.  *)
LEMMA OneMoves ==
  ASSUME TypeOK, NEW w \in Workers, ~At(w, "idle"),
         \/ UNCHANGED worker
         \/ \E pc : Goto(w, pc)
         \/ \E reason : Fail(w, reason)
         \/ \E p : Propose(w, p)
  PROVE  /\ \A v \in Workers \ {w} : worker'[v] = worker[v]
         /\ worker'[w].pc # "idle" => worker'[w].event = worker[w].event
         /\ \A v \in Workers : KeepsHold(v)
<1>1. CASE UNCHANGED worker
  BY <1>1 DEF KeepsHold
<1>2. CASE \/ \E pc : Goto(w, pc)
           \/ \E reason : Fail(w, reason)
           \/ \E p : Propose(w, p)
  <2>1. worker'[w].event = worker[w].event
    BY <1>2 DEF TypeOK, Goto, Start, Fail, FailOn, Propose
  <2>2. \A v \in Workers \ {w} : worker'[v] = worker[v]
    BY <1>2 DEF TypeOK, Goto, Start, Fail, FailOn, Propose
  <2> QED BY <2>1, <2>2 DEF KeepsHold, At
<1> QED BY <1>1, <1>2

(* Every step leaves an active event with one worker.                      *)
LEMMA NextAlone == ASSUME TypeOK, WorkersAlone, [Next]_vars PROVE WorkersAlone'
<1>1. CASE UNCHANGED worker /\ (UNCHANGED delivery \/ \E d : Queue!Publish(d))
  BY <1>1, PublishKeeps, AloneMoved DEF KeepsHold
<1>2. ASSUME NEW w \in Workers, NEW e \in EventKeys, Claim(w, e) \/ ClaimFails(w, e)
      PROVE  WorkersAlone'
  <2>1. Queue!Take(e) /\ \E x : x.event = e /\ worker' = [worker EXCEPT ![w] = x]
    <3>1. \/ \E pc : Start(w, e, pc)
          \/ \E reason : FailOn(w, e, reason)
      BY <1>2 DEF Claim, ClaimFails
    <3> QED BY <1>2, <3>1 DEF Claim, ClaimFails, Start, FailOn
  <2> QED BY <2>1, AloneTaken
<1>3. ASSUME NEW w \in Workers, WorkerStep(w) \/ InternalError(w) \/ Crash(w)
      PROVE  WorkersAlone'
  <2>1. ~At(w, "idle")
    BY <1>3 DEF WorkerStep, Reserve, Analyze, AnalyzePrivate, Commit, RecordFailure,
       Refresh, Return, InternalError, Crash, At
  <2>2. CASE Return(w) \/ Crash(w)
    BY <2>1, <2>2, AloneReturned DEF Return, Crash
  <2>3. CASE ~(Return(w) \/ Crash(w))
    <3>1. UNCHANGED delivery \/ \E d : Queue!Publish(d)
      BY <1>3, <2>3 DEF WorkerStep, Reserve, Analyze, AnalyzePrivate, Commit, FollowUp,
         RecordFailure, Refresh, InsertRun, AddRun, InternalError
    <3>2. \/ \E pc : Goto(w, pc)
          \/ \E reason : Fail(w, reason)
          \/ \E p : Propose(w, p)
      BY <1>3, <2>3 DEF WorkerStep, Reserve, Analyze, AnalyzePrivate, Commit,
         RecordFailure, Refresh, InternalError
    <3> QED BY <2>1, <3>1, <3>2, OneMoves, PublishKeeps, AloneMoved
  <2> QED BY <2>2, <2>3
<1>4. CASE \/ \E r \in Runs : LeaseExpires(r)
           \/ People \/ Reconcile \/ NewMonth
           \/ \E f \in Findings : ApplyExternal(f)
           \/ UNCHANGED vars
  <2>1. UNCHANGED worker
    BY <1>4, Zenon DEF LeaseExpires, People, CreateRun, CancelRun, RetryRun, Undo,
       PutPolicy, Edit, EditPage, ChangeUser, Reconcile, NewMonth, ApplyExternal, vars
  <2>2. UNCHANGED delivery \/ \E d : Queue!Publish(d)
    BY <1>4, Zenon DEF LeaseExpires, People, CreateRun, CancelRun, RetryRun, Undo,
       PutPolicy, Edit, EditPage, ChangeUser, Reconcile, NewMonth, ApplyExternal, vars, delivery,
       InsertRun, AddRun
  <2> QED BY <1>1, <2>1, <2>2
<1> QED BY <1>2, <1>3, <1>4 DEF Next, Disturbance

(* No worker with an event of r is taken off its work on it.               *)
Proceeds(v, r) ==
  worker'[v].pc # "idle" /\ worker'[v].event[1] = r =>
    \/ worker'[v] = worker[v]
    \/ worker'[v].pc \in Failing
    \/ /\ worker[v].pc # "idle" /\ worker'[v].event = worker[v].event
       /\ worker[v].pc \notin Failing
       /\ \/ worker'[v].pc \in Working
          \/ worker[v].pc \notin Working
          \/ runs[r].status # "running"

Troubled == {"queued", "running", "failed"}

(* A run that is not settled stays covered when its status stays, its      *)
(* events are kept unless a worker acknowledges them, and its workers      *)
(* proceed.                                                                *)
LEMMA StillCovered ==
  ASSUME TypeOK, NEW r \in Runs, Covered(r),
         runs'[r].status \in Troubled => runs'[r].status = runs[r].status,
         \A e \in EventsOf(r) : task[e] # "absent" => task'[e] # "absent",
         \A e \in EventsOf(r) : Held(e, Working) => Queue!Kept(e)',
         \A v \in Workers : Proceeds(v, r)
  PROVE  Covered(r)'
<1>1. ASSUME NEW e \in EventsOf(r), runs[r].status = "running", Held(e, Working)
      PROVE  Held(e, Working)'
  <2>1. ASSUME NEW v \in Workers, Busied(v, e)' PROVE worker'[v].pc \in Working
    BY <1>1, <2>1 DEF Proceeds, Busied, At, Held, EventsOf, Working
  <2> QED BY <1>1, <2>1 DEF Held, Busied, At
<1>2. ASSUME NEW e \in EventsOf(r), Held(e, Failing)
      PROVE  Held(e, Failing)'
  <2>1. Held(e, Working)
    BY <1>2 DEF Held, Working
  <2>2. ASSUME NEW v \in Workers, Busied(v, e)' PROVE worker'[v].pc \in Failing
    BY <1>2, <2>2 DEF Proceeds, Busied, At, Held, EventsOf
  <2> QED BY <2>1, <2>2 DEF Held, Busied, At
<1>3. runs'[r].status = "running" => \E e \in EventsOf(r) : Held(e, Working)'
  BY <1>1 DEF Covered, Troubled
<1>4. runs'[r].status = "failed" => \E e \in EventsOf(r) : Held(e, Failing)'
  BY <1>2 DEF Covered, Troubled
<1>5. runs'[r].status = "queued" /\ NotRetried(r)' => Held(<<r, 0>>, Failing)'
  <2>1. <<r, 0>> \in EventsOf(r)
    BY AutomationAssumption DEF EventsOf, AutomationAssumption
  <2>2. \A n \in 1 .. MaxAttempts : <<r, n>> \in EventsOf(r)
    BY AutomationAssumption DEF EventsOf, AutomationAssumption
  <2>3. NotRetried(r)' => NotRetried(r)
    BY <2>2 DEF NotRetried
  <2> QED BY <1>2, <2>1, <2>3 DEF Covered, Troubled
<1> QED BY <1>3, <1>4, <1>5 DEF Covered, EventsOf

(* A run inserted with its event is covered.                               *)
LEMMA FreshCovered ==
  ASSUME TypeOK, EventsHaveRuns, NEW r \in Runs, runs[r].status = "absent",
         runs'[r].status = "queued", Queue!Publish(<<r, 0>>),
         \A v \in Workers : KeepsHold(v)
  PROVE  Covered(r)'
<1>1. <<r, 0>> \in EventKeys
  BY AutomationAssumption DEF EventKeys, AutomationAssumption
<1>2. task'[<<r, 0>>] = "ready"
  BY <1>1 DEF EventsHaveRuns, Present, Queue!Publish, Queue!Published, TypeOK,
     Queue!DeliveryTypeOK
<1>3. ASSUME NEW v \in Workers PROVE ~Busied(v, <<r, 0>>)'
  BY DEF KeepsHold, Busied, At, RunOf, EventsHaveRuns, Present
<1>4. Held(<<r, 0>>, Failing)'
  BY <1>2, <1>3 DEF Held, Queue!Kept, Busied, At
<1> QED BY <1>4 DEF Covered

(* insertRun on the rows rs publishes the event of the row it adds.        *)
LEMMA InsertPublishes ==
  ASSUME TypeOK, NEW rs \in [Runs -> RunRecord], NEW kind, NEW key, NEW round, NEW rev,
         InsertRun(rs, kind, key, round, rev), NEW r \in Runs
  PROVE  /\ UNCHANGED delivery \/ \E d : Queue!Publish(d)
         /\ \/ runs'[r] = rs[r]
            \/ /\ runs[r].status = "absent" /\ runs'[r].status = "queued"
               /\ Queue!Publish(<<r, 0>>)
<1>1. CASE runs' = rs /\ UNCHANGED delivery
  BY <1>1
<1>2. CASE SameKey(key) = {} /\ AddRun(rs, kind, key, round, rev)
  <2>1. /\ runs' = [rs EXCEPT ![NewId] = NewRun(kind, key, round, rev)]
        /\ Free # {} /\ Queue!Publish(<<NewId, 0>>)
    BY <1>2 DEF AddRun
  <2>2. NewId \in Runs /\ runs[NewId].status = "absent"
    BY <2>1, NewIdIsFree
  <2>3. NewRun(kind, key, round, rev).status = "queued"
    BY DEF NewRun, NoRun
  <2> QED BY <2>1, <2>2, <2>3
<1> QED BY <1>1, <1>2 DEF InsertRun

(* ... so it covers every run, if the step leaves the rest to the workers. *)
LEMMA InsertCovers ==
  ASSUME TypeOK, EventsHaveRuns, NEW rs \in [Runs -> RunRecord],
         NEW kind, NEW key, NEW round, NEW rev, InsertRun(rs, kind, key, round, rev),
         NEW r \in Runs, Covered(r),
         rs[r].status \in Troubled => rs[r].status = runs[r].status,
         \A v \in Workers : KeepsHold(v), \A v \in Workers : Proceeds(v, r)
  PROVE  Covered(r)'
<1>1. \A e \in EventKeys : KeepsEvent(e)
  BY InsertPublishes, PublishKeeps
<1>2. CASE runs'[r] = rs[r]
  <2>1. EventsOf(r) \subseteq EventKeys
    BY DEF EventsOf, EventKeys
  <2> QED BY <1>1, <1>2, <2>1, StillCovered DEF KeepsEvent, Held
<1>3. CASE /\ runs[r].status = "absent" /\ runs'[r].status = "queued"
           /\ Queue!Publish(<<r, 0>>)
  BY <1>3, FreshCovered
<1> QED BY <1>2, <1>3, InsertPublishes

(* A step that takes no part in a run's delivery.                          *)
LEMMA AsideCovers ==
  ASSUME TypeOK, NEW r \in Runs, Covered(r), UNCHANGED delivery,
         \A v \in Workers : Proceeds(v, r),
         runs'[r].status \in Troubled => runs'[r].status = runs[r].status
  PROVE  Covered(r)'
<1>1. EventsOf(r) \subseteq EventKeys
  BY DEF EventsOf, EventKeys
<1> QED BY <1>1, PublishKeeps, StillCovered DEF KeepsEvent, Held

(* Where a worker goes from where it is.                                   *)
LEMMA WorkersProceed ==
  ASSUME TypeOK, NEW w \in Workers, ~At(w, "idle"), NEW r \in Runs,
         \/ UNCHANGED worker
         \/ \E reason : Fail(w, reason)
         \/ Goto(w, "giveback")
         \/ /\ worker[w].pc \notin Failing
            /\ \/ \E p : Propose(w, p)
               \/ Goto(w, "provider")
               \/ /\ \E pc : Goto(w, pc)
                  /\ \/ worker[w].pc \notin Working
                     \/ RunOf(w) = r => runs[r].status # "running"
  PROVE  \A v \in Workers : Proceeds(v, r)
<1> TAKE v \in Workers
<1>1. CASE UNCHANGED worker \/ v # w
  BY <1>1 DEF Proceeds, TypeOK, Goto, Start, Fail, FailOn, Propose
<1>2. CASE v = w /\ \E reason : Fail(w, reason)
  BY <1>2 DEF Proceeds, TypeOK, Fail, FailOn, Failing, At
<1>3. CASE v = w /\ Goto(w, "giveback")
  BY <1>3 DEF Proceeds, TypeOK, Goto, Start, Failing, At
<1>4. CASE /\ v = w /\ worker[w].pc \notin Failing
           /\ (\E p : Propose(w, p)) \/ Goto(w, "provider")
  BY <1>4 DEF Proceeds, TypeOK, Goto, Start, Propose, Working, At
<1>5. CASE /\ v = w /\ worker[w].pc \notin Failing
           /\ \E pc : Goto(w, pc)
           /\ \/ worker[w].pc \notin Working
              \/ RunOf(w) = r => runs[r].status # "running"
  BY <1>5 DEF Proceeds, TypeOK, Goto, Start, At, RunOf
<1> QED BY <1>1, <1>2, <1>3, <1>4, <1>5

LEMMA AnalysisCovers ==
  ASSUME TypeOK, NEW r \in Runs, Covered(r), NEW w \in Workers,
         Reserve(w) \/ Analyze(w) \/ AnalyzePrivate(w) \/ InternalError(w)
  PROVE  Covered(r)'
<1>1. UNCHANGED <<runs, delivery>>
  BY DEF Reserve, Analyze, AnalyzePrivate, InternalError
<1>2. ~At(w, "idle")
  BY DEF Reserve, Analyze, AnalyzePrivate, InternalError, At
<1>3. \/ \E reason : Fail(w, reason)
      \/ /\ worker[w].pc \notin Failing
         /\ (\E p : Propose(w, p)) \/ Goto(w, "provider")
  BY DEF Reserve, Analyze, AnalyzePrivate, InternalError, At, Failing
<1>4. \A v \in Workers : Proceeds(v, r)
  BY <1>2, <1>3, WorkersProceed
<1> QED BY <1>1, <1>4, AsideCovers

(* A settled run needs no event.                                           *)
LEMMA SettledCovers ==
  ASSUME NEW r \in Runs, runs'[r].status \notin Troubled
  PROVE  Covered(r)'
  BY DEF Covered, Troubled

LEMMA CommitCovers ==
  ASSUME TypeOK, EventsHaveRuns, NEW r \in Runs, Covered(r), NEW w \in Workers, Commit(w)
  PROVE  Covered(r)'
<1> DEFINE q == RunOf(w)
           p == worker[w].proposal
           rs == Committed(q, p)
<1>1. /\ ~At(w, "idle") /\ worker[w].pc = "commit"
      /\ q \in Runs /\ rs \in [Runs -> RunRecord]
  BY WorkerEvent, CommittedTyped DEF Commit, At
<1>2. CASE /\ UNCHANGED <<runs, delivery>>
           /\ \/ \E reason : Fail(w, reason)
              \/ Goto(w, "accept") /\ runs[q].status # "running"
  <2>1. \A v \in Workers : Proceeds(v, r)
    BY <1>1, <1>2, WorkersProceed DEF Failing
  <2> QED BY <1>2, <2>1, AsideCovers
<1>3. CASE runs[q].status = "running" /\ FollowUp(rs, q, p) /\ Goto(w, "accept")
  <2>1. \/ runs' = rs /\ UNCHANGED delivery
        \/ \E kind, key, round, rev : InsertRun(rs, kind, key, round, rev)
    BY <1>3 DEF FollowUp
  <2>2. rs[q].status \notin Troubled
    BY <1>1 DEF Committed, Outcome, Troubled, TypeOK, RunRecord
  <2>3. CASE r = q
    <3>1. runs'[q] = rs[q]
      BY <1>1, <1>3, <2>1, InsertPublishes
    <3> QED BY <2>2, <2>3, <3>1, SettledCovers
  <2>4. CASE r # q
    <3>1. rs[r] = runs[r]
      BY <1>1, <2>4 DEF Committed, TypeOK
    <3>2. \A v \in Workers : KeepsHold(v)
      BY <1>1, <1>3, OneMoves
    <3>3. \A v \in Workers : Proceeds(v, r)
      BY <1>1, <1>3, <2>4, WorkersProceed DEF Failing
    <3>4. CASE runs' = rs /\ UNCHANGED delivery
      BY <3>1, <3>3, <3>4, AsideCovers
    <3>5. CASE \E kind, key, round, rev : InsertRun(rs, kind, key, round, rev)
      BY <1>1, <3>1, <3>2, <3>3, <3>5, InsertCovers
    <3> QED BY <2>1, <3>4, <3>5
  <2> QED BY <2>3, <2>4
<1> QED BY <1>2, <1>3 DEF Commit

LEMMA FailureCovers ==
  ASSUME TypeOK, WorkersAlone, NEW r \in Runs, Covered(r), NEW w \in Workers,
         RecordFailure(w)
  PROVE  Covered(r)'
<1> DEFINE q == RunOf(w)
<1>0. PICK e \in EventKeys : e = worker[w].event
  BY WorkerEvent DEF RecordFailure, At
<1>1. /\ ~At(w, "idle") /\ worker[w].pc = "record"
      /\ q \in Runs /\ e \in EventsOf(q)
      /\ runs \in [Runs -> RunRecord]
  BY <1>0 DEF RecordFailure, At, TypeOK, EventKeys, EventsOf, RunOf
<1>2. r # q => runs'[r] = runs[r]
  BY <1>1 DEF RecordFailure
<1>3. CASE r # q
  <2>1. \A v \in Workers : Proceeds(v, r)
    BY <1>1, <1>3 DEF RecordFailure, Goto, Start, Proceeds, TypeOK, RunOf
  <2> QED BY <1>2, <1>3, <2>1, AsideCovers DEF RecordFailure
<1>4. CASE r = q /\ (~Unsettled(q) \/ worker[w].reason # "internal")
  <2>1. runs'[r].status \notin Troubled
    BY <1>1, <1>4 DEF RecordFailure, Unsettled, Troubled, RunRecord
  <2> QED BY <2>1, SettledCovers
<1>5. CASE r = q /\ Unsettled(q) /\ worker[w].reason = "internal"
  <2>1. runs'[r].status = "failed"
    BY <1>1, <1>5 DEF RecordFailure, RunRecord
  <2>2. worker'[w].pc = "giveback" /\ worker'[w].event = e
    BY <1>0, <1>1, <1>5 DEF RecordFailure, Goto, Start, TypeOK
  <2>3. task'[e] = "active"
    BY <1>0, <1>1 DEF WorkersAlone, Busied, RecordFailure, delivery
  <2>4. \A v \in Workers : Busied(v, e)' => v = w
    <3>1. \A v \in Workers : KeepsHold(v)
      BY <1>1, OneMoves DEF RecordFailure
    <3> QED BY <1>0, <1>1, <3>1 DEF WorkersAlone, Busied, KeepsHold, At
  <2>5. Held(e, Failing)'
    BY <2>2, <2>3, <2>4 DEF Held, Queue!Kept, Failing, Busied, At
  <2> QED BY <1>1, <1>5, <2>1, <2>5 DEF Covered, EventsOf
<1> QED BY <1>3, <1>4, <1>5

LEMMA RefreshCovers ==
  ASSUME TypeOK, EventsHaveRuns, NEW r \in Runs, Covered(r), NEW w \in Workers, Refresh(w)
  PROVE  Covered(r)'
<1>1. ~At(w, "idle") /\ worker[w].pc = "refresh" /\ \E pc : Goto(w, pc)
  BY DEF Refresh, At
<1>2. (\A v \in Workers : KeepsHold(v)) /\ (\A v \in Workers : Proceeds(v, r))
  BY <1>1, OneMoves, WorkersProceed DEF Failing, Working
<1>3. \/ UNCHANGED <<runs, delivery>>
      \/ \E kind, key, round, rev : InsertRun(runs, kind, key, round, rev)
  BY DEF Refresh
<1> QED BY <1>2, <1>3, AsideCovers, InsertCovers DEF TypeOK

LEMMA ReturnCovers ==
  ASSUME TypeOK, WorkersAlone, NEW r \in Runs, Covered(r), NEW w \in Workers,
         Return(w) \/ Crash(w)
  PROVE  Covered(r)'
<1> DEFINE d == worker[w].event
<1>1. ~At(w, "idle") /\ d \in EventKeys /\ Rest(w) /\ UNCHANGED runs
  BY WorkerEvent DEF Return, Crash, At
<1>2. \A v \in Workers : Proceeds(v, r)
  BY <1>1 DEF Rest, Proceeds, TypeOK
<1>3. \A e \in EventKeys : task[e] # "absent" => task'[e] # "absent"
  BY <1>1, HandOver DEF Return, Crash
<1>4. ASSUME NEW e \in EventKeys, Held(e, Working) PROVE Queue!Kept(e)'
  <2>1. CASE e = d
    <3>1. Queue!GiveBack(d)
      BY <1>1, <1>4, <2>1 DEF Return, Crash, Held, Busied, At, Working, Failing
    <3> QED BY <1>1, <2>1, <3>1, HandOver DEF Queue!Kept
  <2>2. CASE e # d
    <3>1. task'[e] = task[e]
      BY <1>1, <2>2, HandOver DEF Return, Crash
    <3> QED BY <1>4, <3>1 DEF Held, Queue!Kept
  <2> QED BY <2>1, <2>2
<1>5. EventsOf(r) \subseteq EventKeys
  BY DEF EventsOf, EventKeys
<1> QED BY <1>1, <1>2, <1>3, <1>4, <1>5, StillCovered

LEMMA ClaimCovers ==
  ASSUME TypeOK, WorkersAlone, NEW r \in Runs, Covered(r), NEW w \in Workers,
         NEW d \in EventKeys, Claim(w, d) \/ ClaimFails(w, d)
  PROVE  Covered(r)'
<1> DEFINE q == d[1]
<1>1. /\ q \in Runs /\ d \in EventsOf(q) /\ runs \in [Runs -> RunRecord]
      /\ EventsOf(r) \subseteq EventKeys
  BY DEF EventKeys, EventsOf, TypeOK
<1>2. /\ task[d] = "ready" /\ task'[d] = "active"
      /\ \A e \in EventKeys \ {d} : task'[e] = task[e]
  BY HandOver DEF Claim, ClaimFails
<1>3. /\ \A v \in Workers \ {w} : worker'[v] = worker[v]
      /\ worker'[w].event = d
  BY DEF Claim, ClaimFails, Start, FailOn, TypeOK
<1>4. \A v \in Workers : ~Busied(v, d)
  BY <1>2 DEF WorkersAlone
<1>5. \A e \in EventKeys : /\ task[e] # "absent" => task'[e] # "absent"
                           /\ Queue!Kept(e) => Queue!Kept(e)'
  BY <1>2 DEF Queue!Kept
<1>6. CASE r # q
  <2>1. \A v \in Workers : Proceeds(v, r)
    BY <1>3, <1>6 DEF Proceeds
  <2>2. runs'[r] = runs[r]
    BY <1>1, <1>6 DEF Claim, ClaimFails
  <2> QED BY <1>1, <1>5, <2>1, <2>2, StillCovered DEF Held
<1>7. CASE r = q /\ worker'[w].pc \in Failing /\ UNCHANGED runs
  <2>1. \A v \in Workers : Proceeds(v, r)
    BY <1>3, <1>7 DEF Proceeds
  <2> QED BY <1>1, <1>5, <1>7, <2>1, StillCovered DEF Held
<1>8. CASE r = q /\ ~Claimable(q) /\ UNCHANGED runs
  BY <1>8, SettledCovers DEF Claimable, Troubled
<1>9. CASE r = q /\ worker'[w].pc = "analyze" /\ runs'[q].status = "running"
  <2>1. \A v \in Workers : Busied(v, d)' => v = w
    BY <1>3, <1>4 DEF Busied, At
  <2>2. Held(d, Working)'
    BY <1>2, <1>9, <2>1 DEF Held, Queue!Kept, Working, Busied, At
  <2> QED BY <1>1, <1>9, <2>2 DEF Covered, EventsOf
<1>10. \/ ~Claimable(q) /\ UNCHANGED runs
       \/ worker'[w].pc \in Failing /\ UNCHANGED runs
       \/ worker'[w].pc = "analyze" /\ runs'[q].status = "running"
  <2>1. CASE UNCHANGED runs /\ \E reason : FailOn(w, d, reason)
    BY <2>1 DEF FailOn, Failing, TypeOK
  <2>2. CASE UNCHANGED runs /\ Start(w, d, "giveback")
    BY <2>2 DEF Start, Failing, TypeOK
  <2>3. CASE /\ runs' = [runs EXCEPT ![q].status = "running",
                                     ![q].attempts = @ + 1, ![q].lease = TRUE]
             /\ Start(w, d, "analyze")
    <3>1. worker'[w].pc = "analyze"
      BY <2>3 DEF Start, TypeOK
    <3>2. runs'[q].status = "running"
      BY <1>1, <2>3 DEF RunRecord
    <3> QED BY <3>1, <3>2
  <2> QED BY <2>1, <2>2, <2>3 DEF Claim, ClaimFails
<1> QED BY <1>6, <1>7, <1>8, <1>9, <1>10

(* Steps that leave the workers alone and publish at most one event.       *)
LEMMA PublishCovers ==
  ASSUME TypeOK, NEW r \in Runs, Covered(r), UNCHANGED worker,
         UNCHANGED delivery \/ \E d : Queue!Publish(d),
         runs'[r].status \in Troubled => runs'[r].status = runs[r].status
  PROVE  Covered(r)'
<1>1. EventsOf(r) \subseteq EventKeys
  BY DEF EventsOf, EventKeys
<1>2. \A v \in Workers : Proceeds(v, r)
  BY DEF Proceeds
<1> QED BY <1>1, <1>2, PublishKeeps, StillCovered DEF KeepsEvent, Held

LEMMA PeopleCover ==
  ASSUME TypeOK, NEW r \in Runs, Covered(r),
         \/ \E q \in Runs : CancelRun(q) \/ RetryRun(q) \/ Undo(q) \/ LeaseExpires(q)
         \/ \E p \in Policies : PutPolicy(p)
  PROVE  Covered(r)'
<1>1. runs \in [Runs -> RunRecord] /\ runs[r] \in RunRecord
  BY DEF TypeOK
<1>2. ASSUME NEW q \in Runs, CancelRun(q) \/ Undo(q) \/ LeaseExpires(q)
      PROVE  Covered(r)'
  <2>1. \/ runs' = [runs EXCEPT ![q].status = "cancelled", ![q].lease = FALSE]
        \/ runs' = [runs EXCEPT ![q].status = "undone"]
        \/ runs' = [runs EXCEPT ![q].lease = FALSE]
    BY <1>2, Zenon DEF CancelRun, Undo, LeaseExpires
  <2>2. runs'[r].status \in {runs[r].status, "cancelled", "undone"}
    BY <1>1, <2>1 DEF RunRecord
  <2>3. UNCHANGED worker /\ UNCHANGED delivery
    BY <1>2, Zenon DEF CancelRun, Undo, LeaseExpires
  <2> QED BY <2>2, <2>3, PublishCovers DEF Troubled
<1>3. ASSUME NEW p \in Policies, PutPolicy(p) PROVE Covered(r)'
  <2>1. runs'[r] = IF runs[r].status \in {"queued", "running"}
                   THEN [runs[r] EXCEPT !.status = "cancelled", !.lease = FALSE]
                   ELSE runs[r]
    BY <1>3, Zenon DEF PutPolicy
  <2>2. runs'[r].status \in {runs[r].status, "cancelled"}
    BY <1>1, <2>1 DEF RunRecord
  <2>3. UNCHANGED worker /\ UNCHANGED delivery
    BY <1>3, Zenon DEF PutPolicy
  <2> QED BY <2>2, <2>3, PublishCovers DEF Troubled
<1>4. ASSUME NEW q \in Runs, RetryRun(q) PROVE Covered(r)'
  <2>1. /\ runs' = [runs EXCEPT ![q].status = "queued"]
        /\ Queue!Publish(<<q, runs[q].attempts + 1>>) /\ UNCHANGED worker
    BY <1>4 DEF RetryRun
  <2>2. CASE r # q
    BY <2>1, <2>2, PublishCovers
  <2>3. CASE r = q
    <3>1. PICK n \in 1 .. MaxAttempts : n = runs[r].attempts + 1
      BY <1>1, <1>4, <2>3, AutomationAssumption
      DEF RetryRun, RunRecord, AutomationAssumption
    <3>2. <<r, n>> \in EventKeys
      BY <3>1, AutomationAssumption DEF EventKeys, AutomationAssumption
    <3>3. task'[<<r, n>>] # "absent"
      BY <2>1, <2>3, <3>1, <3>2
      DEF Queue!Publish, Queue!Published, TypeOK, Queue!DeliveryTypeOK
    <3>4. ~NotRetried(r)'
      BY <3>1, <3>3 DEF NotRetried
    <3>5. runs'[r].status = "queued"
      BY <1>1, <2>1, <2>3 DEF RunRecord
    <3> QED BY <3>4, <3>5 DEF Covered
  <2> QED BY <2>2, <2>3
<1> QED BY <1>2, <1>3, <1>4

LEMMA ExternalCovers ==
  ASSUME TypeOK, EventsHaveRuns, NEW r \in Runs, Covered(r), NEW f \in Findings,
         ApplyExternal(f)
  PROVE  Covered(r)'
<1> DEFINE rest == Free \ {NewId}
           child == CHOOSE s \in rest : TRUE
           next == NewRun("risk", <<"followup", NewId, "risk">>, 1, revision + 1)
<1>1. child \in Runs \ {NewId} /\ runs[child].status = "absent"
  <2>1. rest # {} BY DEF ApplyExternal
  <2>2. child \in rest BY <2>1
  <2> QED BY <2>2 DEF Free, Present
<1>2. next.status = "queued"
  BY DEF NewRun, NoRun
<1>3. runs'[NewId].status = "applied"
  BY ExternalRows
<1>4. UNCHANGED worker
  BY DEF ApplyExternal
<1> HIDE DEF next, child
<1>5. \/ /\ Queue!Publish(<<child, 0>>)
         /\ \E row : runs' = [runs EXCEPT ![NewId] = row, ![child] = next]
      \/ /\ UNCHANGED delivery
         /\ \E row : runs' = [runs EXCEPT ![NewId] = row]
  BY DEF ApplyExternal, next, child
<1>6. CASE r = NewId
  BY <1>3, <1>6, SettledCovers DEF Troubled
<1>7. CASE r = child /\ Queue!Publish(<<child, 0>>) /\ runs'[r] = next
  BY <1>1, <1>2, <1>4, <1>7, FreshCovered DEF KeepsHold
<1>8. CASE runs'[r] = runs[r]
  BY <1>4, <1>5, <1>8, PublishCovers
<1>9. \/ r = NewId
      \/ r = child /\ Queue!Publish(<<child, 0>>) /\ runs'[r] = next
      \/ runs'[r] = runs[r]
  BY <1>1, <1>5 DEF TypeOK
<1> QED BY <1>6, <1>7, <1>8, <1>9

LEMMA NextCovers ==
  ASSUME TypeOK, EventsHaveRuns, CoverInv, [Next]_vars
  PROVE  CoverInv'
<1>1. ASSUME NEW r \in Runs PROVE Covered(r)'
  <2>0. Covered(r) /\ WorkersAlone
    BY DEF CoverInv
  <2>1. CASE \E w \in Workers, e \in EventKeys : Claim(w, e) \/ ClaimFails(w, e)
    BY <2>0, <2>1, ClaimCovers
  <2>2. CASE \E w \in Workers : WorkerStep(w) \/ InternalError(w) \/ Crash(w)
    BY <2>0, <2>2, AnalysisCovers, CommitCovers, FailureCovers, RefreshCovers, ReturnCovers
    DEF WorkerStep
  <2>3. CASE \/ \E q \in Runs : CancelRun(q) \/ RetryRun(q) \/ Undo(q) \/ LeaseExpires(q)
             \/ \E p \in Policies : PutPolicy(p)
    BY <2>0, <2>3, PeopleCover
  <2>4. CASE \/ \E kind \in Kinds, k \in RequestKeys : CreateRun(kind, k)
             \/ Reconcile
    <3>1. (\E kind, key, round, rev : InsertRun(runs, kind, key, round, rev))
          /\ UNCHANGED worker
      BY <2>4 DEF CreateRun, Reconcile
    <3> QED BY <2>0, <3>1, InsertCovers DEF TypeOK, KeepsHold, Proceeds
  <2>5. CASE \E f \in Findings : ApplyExternal(f)
    BY <2>0, <2>5, ExternalCovers
  <2>6. CASE UNCHANGED vars \/ (\E a \in BOOLEAN : Edit(a)) \/ EditPage \/ ChangeUser \/ NewMonth
    <3>1. UNCHANGED runs /\ UNCHANGED worker /\ UNCHANGED delivery
      BY <2>6 DEF vars, Edit, EditPage, ChangeUser, NewMonth, delivery
    <3> QED BY <2>0, <3>1, PublishCovers
  <2> QED BY <2>1, <2>2, <2>3, <2>4, <2>5, <2>6 DEF Next, Disturbance, People
<1>2. WorkersAlone'
  BY NextAlone DEF CoverInv
<1>3. (\A r \in Runs : Covered(r))'
  BY <1>1
<1> QED BY <1>2, <1>3 DEF CoverInv

(* No run is forgotten, however many workers crash, leases are left behind *)
(* and events are given back: a claimed or failed run keeps an event, and  *)
(* a fresh one its first.                                                  *)
THEOREM RunsCovered == Spec => []RunsAreCovered
<1>1. Init => CoverInv
  BY DEF Init, NoRun, CoverInv, WorkersAlone, Covered, Busied, At
<1>2. TypeOK /\ EventsHaveRuns /\ CoverInv /\ [Next]_vars => CoverInv'
  BY NextCovers
<1>3. CoverInv => RunsAreCovered
  BY DEF CoverInv, Covered, RunsAreCovered, Held
<1> QED BY <1>1, <1>2, <1>3, TypeCorrect, EventsKnown, PTL DEF Spec

-----------------------------------------------------------------------------
(* Captured input: what a step makes of a row that is there ...            *)
KeepsCapture(r) ==
  /\ runs'[r].kind = runs[r].kind /\ runs'[r].key = runs[r].key
  /\ runs'[r].revision = runs[r].revision
  /\ \/ /\ runs'[r].batches = runs[r].batches
        /\ runs'[r].produced = runs[r].produced
     \/ /\ human' = human
        /\ runs'[r].produced = revision + 1 /\ revision' = revision + 1

(* ... and of one that it inserts.                                         *)
Captures(r) ==
  /\ revision <= runs'[r].revision /\ runs'[r].revision <= revision'
  /\ runs'[r].key[1] = "revision" => runs'[r].revision \in human
  /\ \A q \in Runs : runs'[r].key = <<"refresh", q>> =>
       \E w \in Workers : At(w, "refresh") /\ RunOf(w) = q
  /\ \/ runs'[r].batches = 0
     \/ /\ human' = human
        /\ runs'[r].produced = revision + 1 /\ revision' = revision + 1

InputStep(r) ==
  /\ r \in Present => KeepsCapture(r)
  /\ r \notin Present /\ r \in Present' => Captures(r)

(* insertRun on rows that keep their input.                                *)
LEMMA InsertInput ==
  ASSUME TypeOK, NEW rs \in [Runs -> RunRecord],
         NEW kind, NEW key, NEW round, NEW rev \in Nat,
         InsertRun(rs, kind, key, round, rev),
         revision <= rev, rev <= revision', key[1] = "revision" => rev \in human,
         \A q \in Runs : key = <<"refresh", q>> =>
           \E w \in Workers : At(w, "refresh") /\ RunOf(w) = q,
         NEW r \in Runs, r \notin Present => rs[r] = runs[r],
         r \in Present /\ runs'[r] = rs[r] => KeepsCapture(r)
  PROVE  InputStep(r)
<1>1. CASE runs'[r] = rs[r]
  BY <1>1 DEF InputStep, Present
<1>2. CASE /\ r = NewId /\ Free # {} /\ runs'[r] = NewRun(kind, key, round, rev)
  <2>1. r \notin Present
    BY <1>2, NewIdIsFree DEF Present
  <2>2. /\ runs'[r].kind = kind /\ runs'[r].key = key /\ runs'[r].revision = rev
        /\ runs'[r].batches = 0
    BY <1>2 DEF NewRun, NoRun
  <2>3. Captures(r)
    BY <2>2 DEF Captures
  <2> QED BY <2>1, <2>3 DEF InputStep
<1>3. runs'[r] = rs[r] \/ (r = NewId /\ Free # {} /\ runs'[r] = NewRun(kind, key, round, rev))
  BY DEF InsertRun, AddRun
<1> QED BY <1>1, <1>2, <1>3

LEMMA RequestInput ==
  ASSUME TypeOK, NEW r \in Runs,
         \/ \E kind \in Kinds, k \in RequestKeys : CreateRun(kind, k)
         \/ Reconcile
         \/ \E w \in Workers : Refresh(w)
  PROVE  InputStep(r)
<1>1. UNCHANGED <<revision, human>>
  BY DEF CreateRun, Reconcile, Refresh, project
<1>2. CASE UNCHANGED runs
  BY <1>2 DEF InputStep, KeepsCapture, Present
<1>3. CASE \E kind, key, round :
             /\ InsertRun(runs, kind, key, round, revision)
             /\ key[1] = "revision" => revision \in human
             /\ \A q \in Runs : key = <<"refresh", q>> =>
                  \E w \in Workers : At(w, "refresh") /\ RunOf(w) = q
  BY <1>1, <1>3, InsertInput DEF TypeOK, KeepsCapture
<1>4. ASSUME NEW kind \in Kinds, NEW k \in RequestKeys, CreateRun(kind, k)
      PROVE  InputStep(r)
  <2>1. InsertRun(runs, kind, <<"request", k>>, 0, revision)
    BY <1>4 DEF CreateRun
  <2>2. <<"request", k>>[1] = "request" /\ \A q : <<"request", k>> # <<"refresh", q>>
    OBVIOUS
  <2> DEFINE key == <<"request", k>>
  <2> HIDE DEF key
  <2> QED BY <1>3, <2>1, <2>2 DEF key
<1>5. ASSUME Reconcile PROVE InputStep(r)
  <2>1. CASE InsertRun(runs, "decompose", <<"page", page, version>>, 0, revision)
    BY <1>3, <2>1
  <2>2. CASE /\ InsertRun(runs, RevisionKind,
                   <<"revision", revision, RevisionKind, version>>, 0, revision)
             /\ revision \in human
    BY <1>3, <2>2
  <2>3. CASE InsertRun(runs, "efficiency", <<"periodic">>, 0, revision)
    BY <1>3, <2>3
  <2> QED BY <1>5, <2>1, <2>2, <2>3 DEF Reconcile, RevisionUnseen
<1>6. ASSUME NEW w \in Workers, Refresh(w) PROVE InputStep(r)
  <2>1. CASE InsertRun(runs, runs[RunOf(w)].kind, <<"refresh", RunOf(w)>>,
                       runs[RunOf(w)].round + 1, revision)
    <3>1. At(w, "refresh")
      BY <1>6 DEF Refresh
    <3> QED BY <1>3, <2>1, <3>1
  <2> QED BY <1>2, <1>6, <2>1 DEF Refresh
<1> QED BY <1>4, <1>5, <1>6

LEMMA CommitInput ==
  ASSUME TypeOK, BatchInv, NEW r \in Runs, NEW w \in Workers, Commit(w)
  PROVE  InputStep(r)
<1> DEFINE q == RunOf(w)
           p == worker[w].proposal
           rs == Committed(q, p)
           next == NextKind(rs[q].kind, p)
<1>1. /\ q \in Runs /\ p \in Proposals /\ runs[q] \in RunRecord
      /\ rs \in [Runs -> RunRecord] /\ After(p) \in Nat
  BY WorkerEvent, CommittedTyped DEF Commit, At, TypeOK
<1>2. CASE UNCHANGED runs
  BY <1>2 DEF InputStep, KeepsCapture, Present
<1>3. CASE /\ runs[q].status = "running" /\ InputCurrent(q)
           /\ RecordBatch(p) /\ FollowUp(rs, q, p)
  <2>1. human' = human /\ revision' = After(p) /\ revision <= After(p)
    BY <1>3 DEF RecordBatch, After, TypeOK
  <2>2. rs[q] = [runs[q] EXCEPT !.status = Outcome(p), !.lease = FALSE,
                   !.batches = IF p.changes THEN @ + 1 ELSE @,
                   !.produced = IF p.changes THEN revision + 1 ELSE @]
    BY <1>1 DEF Committed, TypeOK
  <2>3. /\ rs[q].kind = runs[q].kind /\ rs[q].key = runs[q].key
        /\ rs[q].revision = runs[q].revision
        /\ ~p.changes => rs[q].batches = runs[q].batches /\ rs[q].produced = runs[q].produced
        /\ p.changes => rs[q].produced = revision + 1
    BY <1>1, <2>2 DEF RunRecord
  <2>4. r # q => rs[r] = runs[r]
    BY <1>1 DEF Committed, TypeOK
  <2>5. runs'[r] = rs[r] => KeepsCapture(r)
    BY <1>3, <2>1, <2>3, <2>4 DEF KeepsCapture, After
  <2>6. r \notin Present => rs[r] = runs[r]
    BY <1>3, <2>4 DEF Present
  <2>7. CASE runs' = rs
    BY <2>5, <2>6, <2>7 DEF InputStep, Present
  <2>8. CASE InsertRun(rs, next, <<"followup", q, next>>, rs[q].round + 1, After(p))
    <3> HIDE DEF next
    <3> DEFINE key == <<"followup", q, next>>
    <3>1. key[1] # "revision" /\ \A s : key # <<"refresh", s>>
      OBVIOUS
    <3> HIDE DEF key
    <3>2. InsertRun(rs, next, key, rs[q].round + 1, After(p))
      BY <2>8 DEF key
    <3> HIDE DEF rs, p
    <3> QED BY <1>1, <2>1, <2>5, <2>6, <3>1, <3>2, InsertInput
  <2> QED BY <1>3, <2>7, <2>8 DEF FollowUp
<1> QED BY <1>2, <1>3 DEF Commit

LEMMA ExternalInput ==
  ASSUME TypeOK, NEW r \in Runs, NEW f \in Findings, ApplyExternal(f)
  PROVE  InputStep(r)
<1> DEFINE row == [NewRun("quality", <<"external", f>>, 0, revision)
                     EXCEPT !.status = "applied", !.page = 0, !.attempts = 1,
                            !.batches = 1, !.produced = revision + 1]
           rest == Free \ {NewId}
           child == CHOOSE s \in rest : TRUE
           next == NewRun("risk", <<"followup", NewId, "risk">>, 1, revision + 1)
<1>1. /\ NewId \in Free /\ child \in Free \ {NewId}
  <2>1. rest # {} BY DEF ApplyExternal
  <2>2. child \in rest /\ Free # {} BY <2>1
  <2> QED BY <2>1, <2>2, NewIdIsFree DEF Free, Present
<1>2. /\ row.kind = "quality" /\ row.key = <<"external", f>>
      /\ row.revision = revision /\ row.produced = revision + 1
  BY DEF NewRun, NoRun
<1>3. /\ next.kind = "risk" /\ next.key = <<"followup", NewId, "risk">>
      /\ next.revision = revision + 1 /\ next.batches = 0
  BY DEF NewRun, NoRun
<1>4. /\ revision' = revision + 1 /\ human' = human /\ revision \in Nat
  BY DEF ApplyExternal, RecordBatch, After, NoProposal, TypeOK
<1> HIDE DEF row, next, child
<1>5. \/ runs' = [runs EXCEPT ![NewId] = row, ![child] = next]
      \/ runs' = [runs EXCEPT ![NewId] = row]
  BY DEF ApplyExternal, row, next, child
<1>6. \/ r \notin Present /\ runs'[r] = row
      \/ r \notin Present /\ runs'[r] = next
      \/ runs'[r] = runs[r]
  BY <1>1, <1>5 DEF TypeOK, Free
<1>7. CASE r \notin Present /\ runs'[r] = row
  BY <1>2, <1>4, <1>7 DEF InputStep, Captures
<1>8. CASE r \notin Present /\ runs'[r] = next
  BY <1>3, <1>4, <1>8 DEF InputStep, Captures
<1>9. CASE runs'[r] = runs[r]
  BY <1>9 DEF InputStep, KeepsCapture, Present
<1> QED BY <1>6, <1>7, <1>8, <1>9

(* Steps that change status, attempts or lease of present rows only.       *)
LEMMA RowsInput ==
  ASSUME TypeOK, NEW r \in Runs,
         \/ UNCHANGED runs
         \/ \E w \in Workers, e \in EventKeys : Claim(w, e)
         \/ \E w \in Workers : RecordFailure(w)
         \/ \E q \in Runs : CancelRun(q) \/ RetryRun(q) \/ Undo(q) \/ LeaseExpires(q)
         \/ \E p \in Policies : PutPolicy(p)
  PROVE  InputStep(r)
<1>0. runs[r] \in RunRecord /\ runs \in [Runs -> RunRecord]
  BY DEF TypeOK
<1>1. r \in Present <=> r \in Present'
  BY RowsStay DEF SameRow
<1>2. KeepsCapture(r)
  <2>1. ASSUME NEW q, NEW s, NEW l \in BOOLEAN,
               \/ runs' = [runs EXCEPT ![q].status = s]
               \/ runs' = [runs EXCEPT ![q].lease = l]
               \/ runs' = [runs EXCEPT ![q].status = s, ![q].lease = l]
        PROVE  KeepsCapture(r)
    <3>1. \/ runs'[r] = runs[r]
          \/ runs'[r] = [runs[r] EXCEPT !.status = s]
          \/ runs'[r] = [runs[r] EXCEPT !.lease = l]
          \/ runs'[r] = [runs[r] EXCEPT !.status = s, !.lease = l]
      BY <1>0, <2>1
    <3> QED BY <1>0, <3>1 DEF KeepsCapture, RunRecord
  <2>3. CASE UNCHANGED runs
    BY <2>3 DEF KeepsCapture
  <2>4. ASSUME NEW w \in Workers, NEW e \in EventKeys, Claim(w, e)
        PROVE  KeepsCapture(r)
    <3>1. \/ UNCHANGED runs
          \/ runs' = [runs EXCEPT ![e[1]].status = "running",
                                  ![e[1]].attempts = runs[e[1]].attempts + 1,
                                  ![e[1]].lease = TRUE]
      BY <2>4, Zenon DEF Claim
    <3>2. \/ runs'[r] = runs[r]
          \/ \E n : runs'[r] = [runs[r] EXCEPT !.status = "running", !.attempts = n,
                                               !.lease = TRUE]
      BY <1>0, <3>1
    <3> QED BY <1>0, <3>2 DEF KeepsCapture, RunRecord
  <2>5. ASSUME NEW w \in Workers, RecordFailure(w) PROVE KeepsCapture(r)
    <3>1. \/ UNCHANGED runs
          \/ \E s : runs' = [runs EXCEPT ![RunOf(w)].status = s, ![RunOf(w)].lease = FALSE]
      BY <2>5, Zenon DEF RecordFailure
    <3> QED BY <2>1, <2>3, <3>1
  <2>6. ASSUME NEW q \in Runs,
               CancelRun(q) \/ RetryRun(q) \/ Undo(q) \/ LeaseExpires(q)
        PROVE  KeepsCapture(r)
    <3>1. \/ \E s : runs' = [runs EXCEPT ![q].status = s]
          \/ runs' = [runs EXCEPT ![q].lease = FALSE]
          \/ \E s : runs' = [runs EXCEPT ![q].status = s, ![q].lease = FALSE]
      BY <2>6, Zenon DEF CancelRun, RetryRun, Undo, LeaseExpires
    <3> QED BY <2>1, <3>1
  <2>7. ASSUME NEW p \in Policies, PutPolicy(p) PROVE KeepsCapture(r)
    <3>1. runs'[r] = IF runs[r].status \in {"queued", "running"}
                     THEN [runs[r] EXCEPT !.status = "cancelled", !.lease = FALSE]
                     ELSE runs[r]
      BY <2>7, Zenon DEF PutPolicy
    <3> QED BY <1>0, <3>1 DEF KeepsCapture, RunRecord
  <2> QED BY <2>3, <2>4, <2>5, <2>6, <2>7
<1> QED BY <1>1, <1>2 DEF InputStep

(* Nothing but the human revision is new to the project's history.         *)
LEMMA HistoryGrows ==
  ASSUME TypeOK, [Next]_vars
  PROVE  /\ revision <= revision'
         /\ \/ human' = human
            \/ human' = human \cup {revision + 1} /\ revision' = revision + 1
<1>0. revision \in Nat
  BY DEF TypeOK
<1>1. CASE UNCHANGED <<revision, human>>
  BY <1>0, <1>1
<1>2. CASE HumanRevision
  BY <1>0, <1>2 DEF HumanRevision
<1>3. CASE EditPage \/ ChangeUser
  BY <1>0, <1>3 DEF EditPage, ChangeUser
<1>4. ASSUME NEW p, RecordBatch(p)
      PROVE  revision <= revision' /\ UNCHANGED human
  BY <1>0, <1>4 DEF RecordBatch, After
<1>5. CASE (\E w \in Workers : Commit(w)) \/ (\E f \in Findings : ApplyExternal(f))
  <2>1. UNCHANGED <<revision, human>> \/ \E p : RecordBatch(p)
    BY <1>5 DEF Commit, ApplyExternal, project
  <2> QED BY <1>0, <1>1, <1>4, <2>1
<1>6. CASE \/ \E w \in Workers : WorkerStep(w) /\ ~Commit(w)
           \/ \E w \in Workers, e \in EventKeys : Claim(w, e)
           \/ Disturbance \/ Reconcile \/ NewMonth \/ UNCHANGED vars
           \/ \E kind \in Kinds, k \in RequestKeys : CreateRun(kind, k)
           \/ \E r \in Runs : CancelRun(r) \/ RetryRun(r)
  <2>1. UNCHANGED <<revision, human>>
    BY <1>6, Zenon DEF WorkerStep, Reserve, Analyze, AnalyzePrivate, RecordFailure,
       Refresh, Return, Claim, Disturbance, ClaimFails, InternalError, Crash,
       LeaseExpires, Reconcile, NewMonth, CreateRun, CancelRun, RetryRun, vars, project
  <2> QED BY <1>1, <2>1
<1>7. CASE \/ \E r \in Runs : Undo(r)
           \/ \E p \in Policies : PutPolicy(p)
           \/ \E a \in BOOLEAN : Edit(a)
  <2>1. HumanRevision
    BY <1>7, Zenon DEF Undo, PutPolicy, Edit
  <2> QED BY <1>2, <2>1
<1> QED BY <1>3, <1>5, <1>6, <1>7 DEF Next, People

LEMMA NextInput ==
  ASSUME TypeOK, BatchInv, [Next]_vars, NEW r \in Runs
  PROVE  InputStep(r)
<1>1. CASE \/ UNCHANGED vars \/ EditPage \/ ChangeUser \/ NewMonth
           \/ \E w \in Workers, e \in EventKeys : ClaimFails(w, e)
           \/ \E w \in Workers : InternalError(w) \/ Crash(w)
           \/ \E a \in BOOLEAN : Edit(a)
  <2>1. UNCHANGED runs
    BY <1>1 DEF vars, EditPage, ChangeUser, NewMonth, ClaimFails, InternalError, Crash, Edit
  <2> QED BY <2>1, RowsInput
<1>2. ASSUME NEW w \in Workers, WorkerStep(w) PROVE InputStep(r)
  <2>1. CASE Reserve(w) \/ Analyze(w) \/ AnalyzePrivate(w) \/ Return(w)
    <3>1. UNCHANGED runs
      BY <2>1 DEF Reserve, Analyze, AnalyzePrivate, Return
    <3> QED BY <3>1, RowsInput
  <2> QED BY <1>2, <2>1, CommitInput, RowsInput, RequestInput DEF WorkerStep
<1>3. CASE \/ \E w \in Workers, e \in EventKeys : Claim(w, e)
           \/ \E q \in Runs : CancelRun(q) \/ RetryRun(q) \/ Undo(q) \/ LeaseExpires(q)
           \/ \E p \in Policies : PutPolicy(p)
  BY <1>3, RowsInput
<1>4. CASE \/ \E kind \in Kinds, k \in RequestKeys : CreateRun(kind, k)
           \/ Reconcile
  BY <1>4, RequestInput
<1>5. CASE \E f \in Findings : ApplyExternal(f)
  BY <1>5, ExternalInput
<1> QED BY <1>1, <1>2, <1>3, <1>4, <1>5 DEF Next, Disturbance, People

-----------------------------------------------------------------------------
(* Causes.                                                                 *)

LEMMA NextCauses ==
  ASSUME TypeOK, TypeOK', BatchInv, BatchInv', CauseInv, [Next]_vars
  PROVE  CauseInv'
<1>1. /\ revision \in Nat /\ revision' \in Nat /\ revision <= revision'
      /\ \/ human' = human
         \/ human' = human \cup {revision + 1} /\ revision' = revision + 1
  BY HistoryGrows DEF TypeOK
<1>2. \A h \in human : h \in Nat /\ h <= revision
  BY DEF CauseInv, TypeOK
<1>3. \A h \in human' : h <= revision'
  BY <1>1, <1>2
<1>4. ASSUME NEW r \in Runs, HasBatch(r)' PROVE runs'[r].produced \notin human'
  <2>1. runs'[r].status # "absent"
    BY <1>4 DEF BatchInv, HasBatch
  <2>2. r \in Present'
    BY <2>1 DEF Present
  <2>3. CASE /\ r \in Present /\ runs'[r].batches = runs[r].batches
             /\ runs'[r].produced = runs[r].produced
    <3>1. HasBatch(r)
      BY <1>4, <2>3 DEF HasBatch
    <3>2. runs[r].produced \notin human /\ runs[r].produced <= revision
      BY <3>1 DEF CauseInv, BatchInv, HasBatch
    <3>3. runs[r].produced \in Nat
      BY DEF TypeOK, RunRecord
    <3> QED BY <1>1, <2>3, <3>2, <3>3
  <2>4. CASE human' = human /\ runs'[r].produced = revision + 1
    BY <1>1, <1>2, <2>4
  <2>5. ~(runs'[r].batches = 0)
    BY <1>4 DEF HasBatch
  <2> QED BY <2>2, <2>3, <2>4, <2>5, NextInput DEF InputStep, KeepsCapture, Captures
<1>5. ASSUME NEW r \in Runs, r \in Present', runs'[r].key[1] = "revision"
      PROVE  runs'[r].revision \in human'
  <2>1. runs'[r].revision \in human
    BY <1>5, NextInput DEF InputStep, KeepsCapture, Captures, CauseInv
  <2> QED BY <1>1, <2>1
<1>6. (\A r \in Present : runs[r].key[1] = "revision" => runs[r].revision \in human)'
  BY <1>5 DEF Present
<1> QED BY <1>3, <1>4, <1>6 DEF CauseInv, HasBatch

(* No chain starts from a revision that automation itself made, for any    *)
(* number of runs, batches and people.                                     *)
THEOREM NeverSelfTriggered == Spec => []NoSelfTrigger
<1>1. Init => CauseInv
  BY DEF Init, NoRun, CauseInv, HasBatch, Present
<1>2. TypeOK /\ TypeOK' /\ BatchInv /\ BatchInv' /\ CauseInv /\ [Next]_vars => CauseInv'
  BY NextCauses
<1>3. CauseInv => NoSelfTrigger
  BY DEF CauseInv, NoSelfTrigger, Present
<1> QED BY <1>1, <1>2, <1>3, TypeCorrect, BatchInvariant, PTL DEF Spec

-----------------------------------------------------------------------------
(* Refreshed runs.                                                         *)

(* A run that is refreshed has its row, and the refreshed one captures the *)
(* present revision, which no input before it exceeds.                     *)
LEMMA NextRefreshes ==
  ASSUME TypeOK, TypeOK', BatchInv, ChainsAreBounded, EventsHaveRuns,
         RefreshInv, [Next]_vars
  PROVE  RefreshInv'
<1>0. /\ revision \in Nat /\ revision' \in Nat /\ revision <= revision'
      /\ \A r \in Runs : runs[r].revision \in Nat /\ runs'[r].revision \in Nat
  BY HistoryGrows DEF TypeOK, RunRecord
<1>1. ASSUME NEW r \in Runs, r \in Present' PROVE runs'[r].revision <= revision'
  <2>1. CASE r \in Present
    BY <1>0, <2>1, NextInput DEF InputStep, KeepsCapture, RefreshInv
  <2>2. CASE r \notin Present
    BY <1>1, <2>2, NextInput DEF InputStep, Captures
  <2> QED BY <2>1, <2>2
<1>2. ASSUME NEW s \in Runs, s \in Present', NEW r \in Runs, runs'[s].key = <<"refresh", r>>
      PROVE  runs'[r].revision <= runs'[s].revision
  <2>1. CASE s \in Present
    <3>1. runs[s].key = <<"refresh", r>> /\ runs'[s].revision = runs[s].revision
      BY <1>2, <2>1, NextInput DEF InputStep, KeepsCapture
    <3>2. <<"refresh", r>> \in ChildKeys(r)
      BY DEF ChildKeys
    <3>3. r \in Present /\ runs[r].revision <= runs[s].revision
      BY <1>2, <2>1, <3>1, <3>2 DEF ChainsAreBounded, RefreshInv
    <3>4. runs'[r].revision = runs[r].revision
      BY <1>2, <3>3, NextInput DEF InputStep, KeepsCapture
    <3> QED BY <3>1, <3>3, <3>4
  <2>2. CASE s \notin Present
    <3>1. PICK w \in Workers : At(w, "refresh") /\ RunOf(w) = r
      BY <1>2, <2>2, NextInput DEF InputStep, Captures
    <3>2. r \in Present /\ runs[r].revision <= revision
      BY <3>1 DEF EventsHaveRuns, RefreshInv, At
    <3>3. runs'[r].revision = runs[r].revision
      BY <1>2, <3>2, NextInput DEF InputStep, KeepsCapture
    <3>4. revision <= runs'[s].revision
      BY <1>2, <2>2, NextInput DEF InputStep, Captures
    <3> QED BY <1>0, <1>2, <3>2, <3>3, <3>4
  <2> QED BY <2>1, <2>2
<1> QED BY <1>1, <1>2 DEF RefreshInv, Present

(* When a run and its refreshed one have both applied, the refreshed run   *)
(* captured a project with the batch of the old one, for any number of     *)
(* runs, workers, retries and changes that are taken back.                 *)
THEOREM RefreshesSeeTheOld == Spec => []RefreshSeesTheOld
<1>1. Init => RefreshInv
  BY DEF Init, NoRun, RefreshInv, Present
<1>2. /\ TypeOK /\ TypeOK' /\ BatchInv /\ ChainsAreBounded
      /\ EventsHaveRuns /\ RefreshInv /\ [Next]_vars
      => RefreshInv'
  BY NextRefreshes
<1>3. TypeOK /\ BatchInv /\ ChainsAreBounded /\ RefreshInv => RefreshSeesTheOld
  <2> SUFFICES ASSUME TypeOK, BatchInv, ChainsAreBounded, RefreshInv,
                      NEW r \in Runs, NEW s \in Present,
                      runs[s].key = <<"refresh", r>>, HasBatch(r), HasBatch(s)
               PROVE  runs[r].produced <= runs[s].revision
    BY DEF RefreshSeesTheOld
  <2>1. s \in Runs /\ r \in Present /\ runs[s].round = runs[r].round + 1
    BY DEF ChainsAreBounded, ChildKeys, Present
  <2>2. /\ runs[r].round \in Nat
        /\ runs[r].revision \in Nat /\ runs[s].revision \in Nat
    BY <2>1 DEF TypeOK, RunRecord
  <2>3. r # s
    BY <2>1, <2>2
  <2>4. runs[r].revision # runs[s].revision
    BY <2>1, <2>3 DEF BatchInv, OneBatchPerRevision
  <2>5. runs[r].produced = runs[r].revision + 1
    BY <2>1 DEF BatchInv, HasBatch
  <2>6. runs[r].revision <= runs[s].revision
    BY DEF RefreshInv
  <2> QED BY <2>2, <2>4, <2>5, <2>6
<1> QED BY <1>1, <1>2, <1>3, TypeCorrect, BatchInvariant, ChainsBounded, EventsKnown,
           PTL DEF Spec
=============================================================================
