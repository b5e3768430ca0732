----------------------------- MODULE EventStream -----------------------------
(***************************************************************************)
(* internal/requirements/events.go: the revisions of one project, the      *)
(* events every write leaves behind, what one reader may see of them, and  *)
(* the endpoint that streams them.  planning_emit_event raises the         *)
(* revision and inserts the event under the lock of the revision's row, so *)
(* events become visible in the order of their revisions.                  *)
(*                                                                         *)
(* A stream is a value: the operators say what a request does to it.       *)
(* RequirementsStore holds the one stream of a page.  A definition whose   *)
(* comment begins with "Slip" is a plausible bug in the definition that    *)
(* follows it and no part of the model.                                    *)
(***************************************************************************)
EXTENDS Naturals, Sequences, SequencesExt

CONSTANTS MaxRevision,  \* bound: revisions of the project
          BatchLimit    \* events per replay (200)

ASSUME StreamAssumption == MaxRevision \in Nat \ {0} /\ BatchLimit \in Nat \ {0}

VARIABLES revision,   \* project_revisions.revision
          guarded,    \* revisions whose event is "authorization.changed"
          oldest,     \* the oldest event that is still stored
          role,       \* the reader's role in the project, as far as it has a session
          enabled     \* settings.requirements_enabled

tables == <<revision, guarded, oldest, role, enabled>>

(* "expired": whatever the role is, the browser session is over.           *)
Roles == {"none", "guest", "member", "expired"}

TablesTypeOK ==
  /\ revision \in 1 .. MaxRevision
  /\ guarded \subseteq 1 .. revision
  /\ oldest \in 1 .. revision + 1
  /\ role \in Roles
  /\ enabled \in BOOLEAN

(* A project begins with the event of its first membership.                *)
TablesInit ==
  /\ revision = 1
  /\ guarded = {1}
  /\ oldest = 1
  /\ role = "member"
  /\ enabled = TRUE

(* currentStreamScope and Policy.Project: whose data the reader may read.  *)
Readable == role \in {"guest", "member"}

-----------------------------------------------------------------------------
(* Writes                                                                  *)

Emit(authorization) ==
  /\ revision < MaxRevision
  /\ revision' = revision + 1
  /\ guarded' = IF authorization THEN guarded \cup {revision + 1} ELSE guarded

(* Any write of planning facts by anybody.                                 *)
Change ==
  /\ Emit(FALSE)
  /\ UNCHANGED <<oldest, role, enabled>>

(* A membership or the visibility of the project changes; the reader's     *)
(* role may be the one, or another member's.                               *)
ChangeMembership ==
  /\ Emit(TRUE)
  /\ role' \in IF role = "expired" THEN {role} ELSE Roles \ {"expired"}
  /\ UNCHANGED <<oldest, enabled>>

SetRequirements ==
  /\ Emit(TRUE)
  /\ enabled' = ~enabled
  /\ UNCHANGED <<oldest, role>>

(* The session is revoked or expires; that is not an event of the project. *)
EndSession ==
  /\ role' = "expired"
  /\ UNCHANGED <<revision, guarded, oldest, enabled>>

(* Retention outside of this repository removes the events so far; Replay  *)
(* and its test expect it.                                                 *)
Trim ==
  /\ oldest' = revision + 1
  /\ UNCHANGED <<revision, guarded, role, enabled>>

-----------------------------------------------------------------------------
(* The endpoint                                                            *)

(* The messages of a stream: a change, an authorization_changed event with *)
(* reconnect, one without, and cursor_expired.                             *)
Message == [type : {"change", "reconnect", "clear", "expired"}, revision : 0 .. MaxRevision]

Say(type, r) == [type |-> type, revision |-> r]

StreamStates == {"closed", "opening", "live", "ended"}

Streams == [state : StreamStates, cursor : 0 .. MaxRevision, role : Roles,
            batch : Seq(1 .. MaxRevision), wire : Seq(Message)]

Closed == [state |-> "closed", cursor |-> 0, role |-> "none",
           batch |-> <<>>, wire |-> <<>>]

Opening(cursor) == [Closed EXCEPT !.state = "opening", !.cursor = cursor]

(* The response ends, after what was already sent.                         *)
Ended(s, messages) == [Closed EXCEPT !.state = "ended", !.wire = s.wire \o messages]

(* Replay's verdict on a cursor; the case of no event left is oldest > revision. *)
Expired(cursor) == cursor > revision \/ cursor < oldest - 1

(* The stored events after the cursor, oldest first, at most BatchLimit.   *)
Replayed(cursor) ==
  LET last == IF cursor + BatchLimit < revision THEN cursor + BatchLimit ELSE revision
  IN  [i \in 1 .. last - cursor |-> cursor + i]

ExpiredStream(s) == Ended(s, <<Say("expired", revision)>>)

(* events up to its loop.  Without access it fails before the stream begins, *)
(* which the browser reports as an error like any other.                   *)
Subscribed(s) ==
  IF ~Readable THEN Ended(s, <<>>)
  ELSE IF Expired(s.cursor) THEN ExpiredStream(s)
  ELSE [s EXCEPT !.state = "live", !.role = role, !.batch = Replayed(s.cursor)]

(* Slip: the loop sends a batch with the scope it was read in.             *)
DeliveredUnchecked(s) ==
  [s EXCEPT !.batch = <<>>,
            !.cursor = IF s.batch = <<>> THEN @ ELSE Last(s.batch),
            !.wire = @ \o [i \in DOMAIN s.batch |-> Say("change", s.batch[i])]]

(* One turn of the loop: check the scope again, then send the batch up to  *)
(* the first change of authorization, which ends the stream.               *)
Delivered(s) ==
  LET changes == SelectInSeq(s.batch, LAMBDA r : r \in guarded)
      sent    == IF changes = 0 THEN s.batch ELSE SubSeq(s.batch, 1, changes - 1)
      said    == [i \in DOMAIN sent |-> Say("change", sent[i])]
  IN  IF ~Readable \/ role # s.role THEN Ended(s, <<Say("clear", 0)>>)
      ELSE IF changes # 0
           THEN Ended(s, said \o <<Say("reconnect", s.batch[changes])>>)
      ELSE [s EXCEPT !.batch = <<>>,
                     !.cursor = IF sent = <<>> THEN @ ELSE Last(sent),
                     !.wire = @ \o said]

(* The next replay, at once after a full batch or with the ticker.         *)
Polled(s) ==
  IF Expired(s.cursor) THEN ExpiredStream(s)
  ELSE [s EXCEPT !.batch = Replayed(s.cursor)]
=============================================================================
