-------------------------- MODULE RequirementsStore --------------------------
(***************************************************************************)
(* features/requirements/store.ts: what one open page of the web client    *)
(* knows of a project.  It fetches snapshots, subscribes to the event      *)
(* stream, fetches again when an event announces a newer revision, clears  *)
(* everything when authorization changes, and saves changes.               *)
(*                                                                         *)
(* JavaScript runs one callback at a time, so a step is one callback, from *)
(* one await to the next, and the methods are functions from the fields of *)
(* the store to its fields.  A call of reload() that waits is a record in  *)
(* reloads; "void" when its epoch or sequence has passed or it was         *)
(* aborted: all that is left of it is what its caller does afterwards.     *)
(* Callers of an earlier epoch compare epochs and do nothing, but connect  *)
(* after reload() does not.                                                *)
(***************************************************************************)
EXTENDS EventStream, FiniteSets

CONSTANTS MaxReloads,  \* bound: calls of reload() that wait
          MaxMoves,    \* bound: what the user does
          MaxFaults    \* bound: lost replies and streams, sessions and events that expire

ASSUME StoreAssumption == MaxReloads \in Nat /\ MaxMoves \in Nat /\ MaxFaults \in Nat

VARIABLES page,    \* the fields of the store
          learned, \* newest change of authorization the page was told of
          moves,   \* moves of the user so far
          faults   \* faults so far

vars == <<tables, page, learned, moves, faults>>

NoRevision == 0

Reply == [kind : {"pending", "ok", "disabled", "denied", "lost"}, revision : 0 .. MaxRevision]

Answer(kind, r) == [kind |-> kind, revision |-> r]

Pending == Answer("pending", NoRevision)

(* Who awaits a reload: a caller that connects afterwards, the loop that   *)
(* follows events, a mutation, or a button.                                *)
Callers == {"connect", "refresh", "save", "button"}

Reloads == [caller : Callers, target : 0 .. MaxRevision,
            step : {"snapshot", "auxiliary", "void"}, reply : Reply]

Savings == {"idle", "sent", "ok", "conflict", "disabled", "denied", "failed", "reload"}

(* inside is base # "", shown is snapshot.revision, extra the revision at  *)
(* which scenarios, resources, states and members were read (0: empty),    *)
(* refreshing is refreshPromise # null, saving is mutate's progress.       *)
(* skipped is history and no field of the store: while it was disabled the *)
(* page was told of events, over the present stream, that are newer than   *)
(* the snapshot it then accepted.                                          *)
Pages == [inside : BOOLEAN, revoked : BOOLEAN, disabled : BOOLEAN,
          shown : 0 .. MaxRevision, extra : 0 .. MaxRevision,
          metadataCursor : 0 .. MaxRevision, invalidation : 0 .. MaxRevision,
          refreshing : BOOLEAN, timers : Nat, saving : Savings,
          reloads : SUBSET Reloads, stream : Streams, skipped : BOOLEAN]

Init ==
  /\ TablesInit
  /\ page = [inside |-> FALSE, revoked |-> FALSE, disabled |-> FALSE,
             shown |-> NoRevision, extra |-> NoRevision,
             metadataCursor |-> 0, invalidation |-> 0, refreshing |-> FALSE,
             timers |-> 0, saving |-> "idle", reloads |-> {}, stream |-> Closed,
             skipped |-> FALSE]
  /\ learned = 0
  /\ moves = 0
  /\ faults = 0

-----------------------------------------------------------------------------
(* Methods                                                                 *)

Void(c) == [c EXCEPT !.step = "void", !.reply = Pending]

(* Slip: leave neither aborts its requests nor begins an epoch.            *)
LeaveKeepingRequests(p) ==
  [p EXCEPT !.inside = FALSE, !.disabled = FALSE, !.stream = Closed,
            !.timers = 0, !.saving = "idle", !.shown = NoRevision,
            !.extra = NoRevision, !.metadataCursor = 0, !.invalidation = 0,
            !.refreshing = FALSE]

Leave(p) ==
  [p EXCEPT !.inside = FALSE, !.disabled = FALSE, !.stream = Closed,
            !.timers = 0, !.saving = "idle", !.shown = NoRevision,
            !.extra = NoRevision, !.metadataCursor = 0, !.invalidation = 0,
            !.refreshing = FALSE,
            !.reloads = {Void(c) : c \in {d \in @ : d.caller = "connect"}}]

Revoke(p) == [Leave(p) EXCEPT !.revoked = TRUE]

(* connect: one stream at a time, from the newest revision that is known.  *)
Connect(p) ==
  IF p.inside /\ ~p.revoked /\ p.stream = Closed
  THEN [p EXCEPT !.stream = Opening(Max({p.shown, p.metadataCursor})), !.skipped = FALSE]
  ELSE p

(* disable: like a revocation, but listening for what changes it.          *)
Disable(p) ==
  Connect([Revoke(p) EXCEPT !.inside = p.inside, !.revoked = FALSE, !.disabled = TRUE,
                            !.metadataCursor = Max({p.metadataCursor, p.shown})])

(* reload up to its first await: the request before it is aborted.         *)
Reload(p, caller, target) ==
  LET aborted == {c \in p.reloads : c.step = "snapshot"}
      request == [caller |-> caller, target |-> target,
                  step |-> "snapshot", reply |-> Pending]
  IN  [p EXCEPT !.reloads = (@ \ aborted) \cup {Void(c) : c \in aborted} \cup {request}]

(* Slip: reloadAuxiliary without a sequence.                               *)
ReloadAuxiliaryAnyOrder(p, caller, target) ==
  [p EXCEPT !.reloads = @ \cup {[caller |-> caller, target |-> target,
                                 step |-> "auxiliary", reply |-> Pending]}]

(* reloadAuxiliary up to its await: the one before it is out of sequence.  *)
ReloadAuxiliary(p, caller, target) ==
  LET passed  == {c \in p.reloads : c.step = "auxiliary"}
      request == [caller |-> caller, target |-> target,
                  step |-> "auxiliary", reply |-> Pending]
  IN  [p EXCEPT !.reloads = (@ \ passed) \cup {Void(c) : c \in passed} \cup {request}]

(* Slip: a failed catch-up leaves invalidation at the revision it missed.  *)
CaughtUpForgetful(p, target) ==
  IF p.shown < target
  THEN [p EXCEPT !.stream = Closed, !.timers = @ + 1, !.refreshing = FALSE]
  ELSE IF p.shown >= p.invalidation \/ p.invalidation = target
  THEN [p EXCEPT !.refreshing = FALSE]
  ELSE Reload(p, "refresh", p.invalidation)

(* handleEvent's loop after a reload: short of its target it gives the     *)
(* stream up and subscribes again later, otherwise it follows newer events. *)
CaughtUp(p, target) ==
  IF p.shown < target
  THEN [p EXCEPT !.invalidation = p.shown, !.stream = Closed,
                 !.timers = @ + 1, !.refreshing = FALSE]
  ELSE IF p.shown >= p.invalidation \/ p.invalidation = target
  THEN [p EXCEPT !.refreshing = FALSE]
  ELSE Reload(p, "refresh", p.invalidation)

(* reload() has returned to a caller of this epoch.                        *)
Returned(p, c) ==
  CASE c.caller = "connect" -> Connect(p)
    [] c.caller = "refresh" -> CaughtUp(p, c.target)
    [] c.caller = "save"    -> [p EXCEPT !.saving = "idle"]
    [] c.caller = "button"  -> p

HandleEvent(p, m) ==
  CASE m.type = "clear" -> Revoke(p)
    [] m.type = "reconnect" ->
         Reload([Revoke(p) EXCEPT !.inside = TRUE, !.revoked = FALSE,
                   !.metadataCursor = Max({p.metadataCursor, p.shown, m.revision})],
                "connect", 0)
    [] m.type = "expired" ->
         Reload([p EXCEPT !.stream = Closed,
                   !.metadataCursor = IF p.disabled THEN Max({@, m.revision}) ELSE @],
                "connect", 0)
    [] m.type = "change" ->
         IF p.disabled THEN [p EXCEPT !.metadataCursor = Max({@, m.revision})]
         ELSE IF m.revision <= p.shown \/ m.revision <= p.invalidation THEN p
         ELSE IF p.refreshing THEN [p EXCEPT !.invalidation = m.revision]
         ELSE Reload([p EXCEPT !.invalidation = m.revision, !.refreshing = TRUE],
                     "refresh", m.revision)

-----------------------------------------------------------------------------
(* What the user does                                                      *)

Room == Cardinality(page.reloads) < MaxReloads

Move ==
  /\ moves < MaxMoves
  /\ moves' = moves + 1
  /\ UNCHANGED <<tables, learned, faults>>

Enter ==
  /\ Move /\ Room
  /\ page' = Reload([Leave(page) EXCEPT !.inside = TRUE, !.revoked = FALSE], "connect", 0)

LeavePage ==
  /\ Move /\ page.inside
  /\ page' = Leave(page)

(* The buttons that call reload and reloadAuxiliary, and filters and dates. *)
Refresh ==
  /\ Move /\ Room
  /\ page.inside /\ ~page.revoked
  /\ \/ page' = Reload(page, "button", 0)
     \/ ~page.disabled /\ page' = ReloadAuxiliary(page, "button", 0)

(* mutate up to its await.                                                 *)
Save ==
  /\ Move
  /\ page.inside /\ ~page.revoked /\ ~page.disabled
  /\ page.saving = "idle"
  /\ page' = [page EXCEPT !.saving = "sent"]

-----------------------------------------------------------------------------
(* What the server does with the page's requests                           *)

(* One repeatable-read transaction, so that the revision belongs to the data. *)
Snapshot ==
  IF ~Readable THEN Answer("denied", NoRevision)
  ELSE IF ~enabled THEN Answer("disabled", NoRevision)
  ELSE Answer("ok", revision)

AnswerReload ==
  \E c \in page.reloads :
    /\ c.step # "void" /\ c.reply = Pending
    /\ page' = [page EXCEPT !.reloads = (@ \ {c}) \cup {[c EXCEPT !.reply = Snapshot]}]
    /\ UNCHANGED <<tables, learned, moves, faults>>

(* A write needs the role of a member; a project one cannot see may also   *)
(* be "not found", which mutate only reports.                              *)
AnswerSave ==
  /\ page.saving = "sent"
  /\ \/ /\ ~Readable \/ role = "guest"
        /\ page' \in {[page EXCEPT !.saving = k] : k \in {"denied", "failed"}}
        /\ UNCHANGED tables
     \/ /\ Readable /\ role = "member" /\ ~enabled
        /\ page' = [page EXCEPT !.saving = "disabled"]
        /\ UNCHANGED tables
     \/ /\ Readable /\ role = "member" /\ enabled
        /\ \/ Change /\ page' = [page EXCEPT !.saving = "ok"]
           \/ UNCHANGED tables /\ page' = [page EXCEPT !.saving = "conflict"]
  /\ UNCHANGED <<learned, moves, faults>>

Stream(s) ==
  /\ page' = [page EXCEPT !.stream = s]
  /\ UNCHANGED <<tables, learned, moves>>

Subscribe ==
  /\ page.stream.state = "opening"
  /\ Stream(Subscribed(page.stream))
  /\ UNCHANGED faults

Deliver ==
  /\ page.stream.state = "live"
  /\ Stream(Delivered(page.stream))
  /\ UNCHANGED faults

Poll ==
  /\ page.stream.state = "live" /\ page.stream.batch = <<>>
  /\ Stream(Polled(page.stream))
  /\ UNCHANGED faults

-----------------------------------------------------------------------------
(* Callbacks of the page                                                   *)

Callback(p) ==
  /\ page' = p
  /\ UNCHANGED <<tables, moves, faults>>

Without(c) == [page EXCEPT !.reloads = @ \ {c}]

(* A snapshot replaces what is shown unless it is older.                   *)
Accepted(p, r) ==
  IF r < p.shown THEN p
  ELSE [p EXCEPT !.shown = r, !.disabled = FALSE, !.metadataCursor = r,
                 !.skipped = @ \/ (p.disabled /\ r < p.metadataCursor)]

(* The snapshot is here.                                                   *)
TakeSnapshot ==
  \E c \in page.reloads :
    LET p == Without(c)
    IN  /\ c.step = "snapshot"
        /\ \/ /\ c.reply.kind = "ok"
              /\ Callback(ReloadAuxiliary(Accepted(p, c.reply.revision), c.caller, c.target))
           \/ c.reply.kind = "disabled" /\ Callback(Disable(p))
           \/ c.reply.kind = "denied" /\ Callback(Revoke(p))
           \/ c.reply.kind = "lost" /\ Callback(Returned(p, c))
        /\ UNCHANGED learned

(* All auxiliary answers are here; what failed is left empty.              *)
TakeAuxiliary ==
  \E c \in page.reloads :
    LET p == Without(c)
    IN  /\ c.step = "auxiliary"
        /\ \/ /\ c.reply.kind \in {"ok", "lost"}
              /\ Callback(Returned([p EXCEPT !.extra = c.reply.revision], c))
           \/ c.reply.kind = "disabled" /\ Callback(Disable(p))
           \/ c.reply.kind = "denied" /\ Callback(Revoke(p))
        /\ UNCHANGED learned

(* A reload that was passed or aborted returns to its caller.              *)
ReturnVoid ==
  \E c \in page.reloads :
    /\ c.step = "void"
    /\ Callback(Returned(Without(c), c))
    /\ UNCHANGED learned

TakeSave ==
  /\ \/ /\ page.saving \in {"ok", "conflict"} /\ Room
        /\ Callback(Reload([page EXCEPT !.saving = "reload"], "save", 0))
     \/ page.saving = "disabled" /\ Callback(Disable(page))
     \/ page.saving = "denied" /\ Callback(Revoke(page))
     \/ page.saving = "failed" /\ Callback([page EXCEPT !.saving = "idle"])
  /\ UNCHANGED learned

Receive ==
  /\ page.stream.wire # <<>> /\ Room
  /\ LET m == Head(page.stream.wire)
     IN  /\ Callback(HandleEvent([page EXCEPT !.stream.wire = Tail(@)], m))
         /\ learned' = IF m.type = "reconnect" THEN Max({learned, m.revision}) ELSE learned

StreamError ==
  /\ page.stream.state = "ended" /\ page.stream.wire = <<>>
  /\ Callback([page EXCEPT !.stream = Closed, !.timers = @ + 1])
  /\ UNCHANGED learned

Reconnect ==
  /\ page.timers > 0
  /\ Callback(Connect([page EXCEPT !.timers = @ - 1]))
  /\ UNCHANGED learned

-----------------------------------------------------------------------------
(* Faults                                                                  *)

LoseReply ==
  /\ faults < MaxFaults /\ faults' = faults + 1
  /\ \/ \E c \in page.reloads :
          /\ c.step # "void" /\ c.reply = Pending
          /\ page' = [page EXCEPT !.reloads =
                        (@ \ {c}) \cup {[c EXCEPT !.reply = Answer("lost", NoRevision)]}]
     \/ /\ page.saving \in {"sent", "ok"}
        /\ page' = [page EXCEPT !.saving = "failed"]
  /\ UNCHANGED <<tables, learned, moves>>

BreakStream ==
  /\ faults < MaxFaults /\ faults' = faults + 1
  /\ page.stream.state \in {"opening", "live"}
  /\ Stream(Ended(Closed, <<>>))

-----------------------------------------------------------------------------
Others ==
  /\ \/ (Change \/ ChangeMembership \/ SetRequirements) /\ UNCHANGED faults
     \/ (EndSession \/ Trim) /\ faults < MaxFaults /\ faults' = faults + 1
  /\ UNCHANGED <<page, learned, moves>>

System ==
  \/ AnswerReload \/ AnswerSave \/ Subscribe \/ Deliver \/ Poll
  \/ TakeSnapshot \/ TakeAuxiliary \/ ReturnVoid \/ TakeSave
  \/ Receive \/ StreamError \/ Reconnect

Next ==
  \/ Others
  \/ Enter \/ LeavePage \/ Refresh \/ Save
  \/ System
  \/ LoseReply \/ BreakStream

Spec == Init /\ [][Next]_vars

(* Requests are answered, callbacks run, timers and the ticker go on.  A   *)
(* snapshot races with the events that make the page ask for a newer one   *)
(* and does not lose for ever.                                             *)
Fairness ==
  /\ WF_vars(AnswerReload) /\ WF_vars(AnswerSave)
  /\ WF_vars(Subscribe) /\ WF_vars(Deliver) /\ WF_vars(Poll)
  /\ SF_vars(TakeSnapshot) /\ WF_vars(TakeAuxiliary) /\ WF_vars(ReturnVoid)
  /\ WF_vars(TakeSave) /\ WF_vars(Receive)
  /\ WF_vars(StreamError) /\ WF_vars(Reconnect)

FairSpec == Spec /\ Fairness

-----------------------------------------------------------------------------
(* Properties                                                              *)

TypeOK ==
  /\ TablesTypeOK
  /\ page \in Pages
  /\ learned \in 0 .. MaxRevision
  /\ moves \in 0 .. MaxMoves
  /\ faults \in 0 .. MaxFaults

NothingShown == page.shown = NoRevision /\ page.extra = NoRevision

(* Whatever the page shows was read after the last change of authorization *)
(* it was told of, and a revoked, disabled or closed page shows nothing,   *)
(* however late the answers to earlier requests arrive.                    *)
ShowsWhatIsAuthorized ==
  /\ page.shown # NoRevision => page.shown >= learned
  /\ page.extra # NoRevision => page.extra >= learned
  /\ page.revoked \/ page.disabled \/ ~page.inside => NothingShown

(* When no reload is under way, scenarios, resources, states and members   *)
(* are not older than the work items they are shown with.                  *)
ExtrasAreNotOlder ==
  page.reloads = {} /\ page.extra # NoRevision => page.extra >= page.shown

(* The open stream has yet to send r, or the page to receive it.           *)
StillToCome(r) ==
  \/ r > page.stream.cursor
  \/ \E i \in DOMAIN page.stream.wire : page.stream.wire[i] = Say("change", r)

(* Over an open stream nothing is lost between a snapshot and the events:  *)
(* every revision newer than what is shown is still to come, or a refresh  *)
(* that will look for it is under way - in batches or not, whether earlier *)
(* refreshes failed or were superseded and streams broke or expired.       *)
NothingIsSkipped ==
  page.stream.state \in {"opening", "live"} /\ page.shown # NoRevision /\ ~page.skipped =>
    \A r \in page.shown + 1 .. revision :
      \/ StillToCome(r)
      \/ r <= page.invalidation /\ \E c \in page.reloads : c.caller = "refresh"

Open == page.inside /\ ~page.revoked

(* When everybody comes to rest, a page that shows a readable project shows *)
(* its last revision: no event is skipped, whether its refresh failed, was *)
(* superseded, or the stream broke or expired.                             *)
ShownCatchesUp ==
  <>[](Open /\ Readable /\ page.shown # NoRevision /\ ~page.skipped =>
         enabled /\ page.shown = revision)

(* Whoever lost access, by a membership or with the session, is not shown  *)
(* the project for ever over a stream that works: events checks the scope  *)
(* again on every turn and the page clears itself.                         *)
LiveStreamsAreRechecked ==
  <>[](page.stream.state = "live" /\ page.shown # NoRevision => Readable)

(* ROUTES.md of requirements: membership changes are durable invalidations, *)
(* "including changes between snapshot and subscription".  Not so in the   *)
(* code: without access the subscription itself is refused, which the page *)
(* takes for a broken stream and tries again.                              *)
LostAccessIsNoticed == <>[](~Readable => NothingShown)
=============================================================================
