----------------------------- MODULE StoreProofs -----------------------------
(***************************************************************************)
(* Proofs about RequirementsStore, for any number of revisions, reloads,   *)
(* moves of the user and faults, and for any size of a replay.             *)
(*                                                                         *)
(* The methods of the store are functions, so the invariant is one about a *)
(* page p, the newest revision R and the newest change of authorization L  *)
(* that the page was told of; there is a lemma for each method.  A reload  *)
(* that can still bring data belongs to a page that is open, and its answer *)
(* is as new as L: whatever was asked before is "void" by then.            *)
(***************************************************************************)
EXTENDS RequirementsStore, SequenceTheorems, WellFoundedInduction, TLAPS

(* Of what the server said, the page knows no revision that is not there.  *)
Heard(s, R) ==
  /\ s \in Streams
  /\ \A i \in 1 .. Len(s.batch) : s.batch[i] <= R
  /\ \A i \in 1 .. Len(s.wire) : s.wire[i].revision <= R

(* What is left of a page.                                                 *)
Empty(p) ==
  /\ p \in Pages
  /\ p.shown = NoRevision /\ p.extra = NoRevision
  /\ p.saving = "idle" /\ p.stream = Closed
  /\ \A c \in p.reloads : c.step = "void" /\ c.caller = "connect" /\ c.reply = Pending

(* All that is left of a page that is closed or revoked.                   *)
Away(p) ==
  /\ p.shown = NoRevision /\ p.extra = NoRevision
  /\ p.saving = "idle" /\ p.stream = Closed
  /\ \A c \in p.reloads : c.step = "void" /\ c.caller = "connect"

Base(p, R, L) ==
  /\ p \in Pages
  /\ p.shown <= R
  /\ p.shown # NoRevision => p.shown >= L
  /\ p.extra # NoRevision => p.extra >= L
  /\ \A c \in p.reloads : /\ c.reply.revision <= R
                          /\ c.reply.revision # NoRevision => c.reply.revision >= L
  /\ p.revoked \/ ~p.inside => Away(p)
  /\ p.disabled => /\ p.shown = NoRevision /\ p.extra = NoRevision
                   /\ \A c \in p.reloads : c.step # "auxiliary"
  /\ Heard(p.stream, R)

(* Answers for the extras are not older than what is shown.                *)
Fresh(p) ==
  \A c \in p.reloads :
    c.step = "auxiliary" /\ c.reply.revision # NoRevision => c.reply.revision >= p.shown

(* Extras that are older will be replaced.                                 *)
Followed(p) ==
  p.extra # NoRevision /\ p.extra < p.shown => \E c \in p.reloads : c.step = "auxiliary"

Good(p, R, L) == Base(p, R, L) /\ Fresh(p) /\ Followed(p)

IInv ==
  /\ TablesTypeOK
  /\ learned \in 0 .. revision
  /\ moves \in 0 .. MaxMoves
  /\ faults \in 0 .. MaxFaults
  /\ Good(page, revision, learned)

Revisions == 0 .. MaxRevision

LEMMA MaxOfTwo ==
  ASSUME NEW a \in Nat, NEW b \in Nat
  PROVE  Max({a, b}) \in {a, b} /\ Max({a, b}) >= a /\ Max({a, b}) >= b
<1>1. \E x \in {a, b} : \A y \in {a, b} : x >= y
  OBVIOUS
<1> QED  BY <1>1 DEF Max

LEMMA MaxOfThree ==
  ASSUME NEW a \in Nat, NEW b \in Nat, NEW c \in Nat
  PROVE  Max({a, b, c}) \in {a, b, c}
<1>1. \E x \in {a, b, c} : \A y \in {a, b, c} : x >= y
  <2>1. CASE a >= b /\ a >= c
    BY <2>1
  <2>2. CASE b >= a /\ b >= c
    BY <2>2
  <2>3. CASE c >= a /\ c >= b
    BY <2>3
  <2> QED  BY <2>1, <2>2, <2>3
<1> QED  BY <1>1 DEF Max

-----------------------------------------------------------------------------
(* Streams                                                                 *)

LEMMA ClosedStream ==
  /\ Closed \in Streams /\ Closed.state = "closed"
  /\ Closed.batch = <<>> /\ Closed.wire = <<>>
BY StreamAssumption DEF Closed, Streams, StreamStates, Roles

LEMMA ClosedHeard ==
  ASSUME NEW R \in Nat
  PROVE  Heard(Closed, R)
BY ClosedStream DEF Heard

LEMMA OpeningHeard ==
  ASSUME NEW R \in Nat, NEW cursor \in Revisions
  PROVE  Heard(Opening(cursor), R)
<1>1. Opening(cursor) \in Streams
  BY ClosedStream DEF Opening, Streams, StreamStates, Revisions
<1>2. Opening(cursor).batch = <<>> /\ Opening(cursor).wire = <<>>
  BY ClosedStream DEF Opening, Streams
<1> QED  BY <1>1, <1>2 DEF Heard

LEMMA HeardTypes ==
  ASSUME NEW R \in Nat, NEW s, Heard(s, R)
  PROVE  /\ s.state \in StreamStates /\ s.cursor \in Revisions /\ s.role \in Roles
         /\ s.batch \in Seq(1 .. MaxRevision) /\ s.wire \in Seq(Message)
         /\ Len(s.batch) \in Nat /\ Len(s.wire) \in Nat
         /\ \A i \in 1 .. Len(s.batch) : s.batch[i] \in 1 .. MaxRevision /\ s.batch[i] <= R
         /\ \A i \in 1 .. Len(s.wire) : s.wire[i] \in Message /\ s.wire[i].revision <= R
<1>1. /\ s.batch \in Seq(1 .. MaxRevision) /\ s.wire \in Seq(Message)
      /\ s.state \in StreamStates /\ s.cursor \in Revisions /\ s.role \in Roles
  BY DEF Heard, Streams, Revisions
<1>2. \A i \in 1 .. Len(s.batch) : s.batch[i] \in 1 .. MaxRevision
  BY <1>1, ElementOfSeq
<1>3. \A i \in 1 .. Len(s.wire) : s.wire[i] \in Message
  BY <1>1
<1>4. Len(s.batch) \in Nat /\ Len(s.wire) \in Nat
  BY <1>1
<1> QED  BY <1>1, <1>2, <1>3, <1>4 DEF Heard

LEMMA HeardLater ==
  ASSUME NEW s, NEW R \in Nat, NEW S \in Nat, R <= S, Heard(s, R)
  PROVE  Heard(s, S)
<1>1. \A i \in 1 .. Len(s.batch) : s.batch[i] \in Nat
  BY HeardTypes
<1>2. \A i \in 1 .. Len(s.wire) : s.wire[i].revision \in Nat
  BY HeardTypes DEF Message
<1> QED  BY <1>1, <1>2 DEF Heard

(* Any tail of what is sent and any end of the stream.                     *)
LEMMA EndedHeard ==
  ASSUME NEW R \in Nat, NEW s, Heard(s, R),
         NEW said \in Seq(Message), \A i \in 1 .. Len(said) : said[i].revision <= R
  PROVE  Heard(Ended(s, said), R)
<1>1. s.wire \in Seq(Message)
  BY DEF Heard, Streams
<1>2. /\ s.wire \o said \in Seq(Message)
      /\ \A i \in 1 .. Len(s.wire \o said) : (s.wire \o said)[i].revision <= R
  BY <1>1 DEF Heard
<1>3. Ended(s, said) \in Streams
  BY <1>2, ClosedStream DEF Ended, Streams, StreamStates
<1>4. Ended(s, said).batch = <<>> /\ Ended(s, said).wire = s.wire \o said
  BY ClosedStream DEF Ended, Streams
<1> QED  BY <1>2, <1>3, <1>4 DEF Heard

(* The next replay.                                                        *)
LEMMA ReplayedHeard ==
  ASSUME TablesTypeOK, NEW cursor \in Nat, ~Expired(cursor)
  PROVE  /\ Replayed(cursor) \in Seq(1 .. MaxRevision)
         /\ \A i \in 1 .. Len(Replayed(cursor)) : Replayed(cursor)[i] <= revision
<1> DEFINE last == IF cursor + BatchLimit < revision THEN cursor + BatchLimit ELSE revision
           n == last - cursor
<1>1. n \in Nat /\ cursor + n <= revision /\ revision \in Nat /\ revision <= MaxRevision
  BY StreamAssumption DEF Expired, TablesTypeOK
<1>2. Replayed(cursor) = [i \in 1 .. n |-> cursor + i]
  BY DEF Replayed
<1> HIDE DEF n
<1>3. [i \in 1 .. n |-> cursor + i] \in Seq(1 .. MaxRevision)
  BY <1>1, StreamAssumption
<1>4. Len([i \in 1 .. n |-> cursor + i]) = n
  BY <1>1
<1> QED  BY <1>1, <1>2, <1>3, <1>4

(* A stream that reads the next events.                                    *)
LEMMA ReadingHeard ==
  ASSUME TablesTypeOK, NEW s, Heard(s, revision), ~Expired(s.cursor), NEW t \in Roles,
         NEW u, u = [s EXCEPT !.state = "live", !.role = t, !.batch = Replayed(s.cursor)]
  PROVE  Heard(u, revision)
<1>1. revision \in Nat /\ s.cursor \in Nat /\ s \in Streams
  BY DEF TablesTypeOK, Heard, Streams
<1>2. /\ Replayed(s.cursor) \in Seq(1 .. MaxRevision)
      /\ \A i \in 1 .. Len(Replayed(s.cursor)) : Replayed(s.cursor)[i] <= revision
  BY <1>1, ReplayedHeard
<1>3. u \in Streams /\ u.batch = Replayed(s.cursor) /\ u.wire = s.wire
  BY <1>1, <1>2 DEF Streams, StreamStates
<1> QED  BY <1>2, <1>3 DEF Heard

LEMMA OneMessage ==
  ASSUME NEW R \in Nat, NEW type \in {"change", "reconnect", "clear", "expired"},
         NEW r \in Revisions, r <= R
  PROVE  /\ <<Say(type, r)>> \in Seq(Message)
         /\ \A i \in 1 .. Len(<<Say(type, r)>>) : <<Say(type, r)>>[i].revision <= R
<1>1. Say(type, r) \in Message /\ Say(type, r).revision = r
  BY DEF Say, Message, Revisions
<1> HIDE DEF Say
<1> QED  BY <1>1

LEMMA ExpiredHeard ==
  ASSUME TablesTypeOK, NEW s, Heard(s, revision)
  PROVE  Heard(ExpiredStream(s), revision)
<1>1. revision \in Nat /\ revision \in Revisions
  BY StreamAssumption DEF TablesTypeOK, Revisions
<1> DEFINE one == <<Say("expired", revision)>>
<1>2. one \in Seq(Message) /\ \A i \in 1 .. Len(one) : one[i].revision <= revision
  BY <1>1, OneMessage
<1> HIDE DEF one
<1>3. Heard(Ended(s, one), revision)
  BY <1>1, <1>2, EndedHeard
<1> QED  BY <1>3 DEF ExpiredStream, one

LEMMA SubscribedHeard ==
  ASSUME TablesTypeOK, NEW s, Heard(s, revision)
  PROVE  Heard(Subscribed(s), revision)
<1>1. revision \in Nat /\ role \in Roles
  BY DEF TablesTypeOK
<1> DEFINE nothing == <<>>
<1>a. nothing \in Seq(Message) /\ \A i \in 1 .. Len(nothing) : nothing[i].revision <= revision
  OBVIOUS
<1> HIDE DEF nothing
<1>b. Heard(Ended(s, nothing), revision)
  BY <1>1, <1>a, EndedHeard
<1>2. Heard(Ended(s, <<>>), revision)
  BY <1>b DEF nothing
<1>3. ~Expired(s.cursor) => Heard([s EXCEPT !.state = "live", !.role = role,
                                           !.batch = Replayed(s.cursor)], revision)
  BY <1>1, ReadingHeard
<1> QED  BY <1>2, <1>3, ExpiredHeard DEF Subscribed

LEMMA PolledHeard ==
  ASSUME TablesTypeOK, NEW s, Heard(s, revision), s.state = "live"
  PROVE  Heard(Polled(s), revision)
<1>1. s \in Streams /\ s.role \in Roles
  BY DEF Heard, Streams
<1>2. [s EXCEPT !.batch = Replayed(s.cursor)]
        = [s EXCEPT !.state = "live", !.role = s.role, !.batch = Replayed(s.cursor)]
  BY <1>1 DEF Streams
<1>3. ~Expired(s.cursor) => Heard([s EXCEPT !.batch = Replayed(s.cursor)], revision)
  BY <1>1, <1>2, ReadingHeard
<1> QED  BY <1>3, ExpiredHeard DEF Polled

LEMMA Least ==
  ASSUME NEW T \in SUBSET Nat, T # {}
  PROVE  Min(T) \in T
<1> DEFINE Below == OpToRel(<, Nat)
<1>1. IsWellFoundedOn(Below, Nat)
  BY NatLessThanWellFounded
<1>2. PICK x \in T : \A y \in T : ~(<<y, x>> \in Below)
  <2> HIDE DEF Below
  <2> QED  BY <1>1, WFMin
<1>3. \A y \in T : ~(y < x)
  BY <1>2 DEF OpToRel
<1>4. \A y \in T : x <= y
  BY <1>3
<1> QED  BY <1>4 DEF Min

(* Some events of a batch, as messages after those that were sent.         *)
LEMMA SaidHeard ==
  ASSUME NEW R \in Nat, NEW sent \in Seq(1 .. MaxRevision),
         \A i \in 1 .. Len(sent) : sent[i] <= R,
         NEW said, said = [i \in DOMAIN sent |-> Say("change", sent[i])]
  PROVE  /\ said \in Seq(Message)
         /\ \A i \in 1 .. Len(said) : said[i].revision <= R
<1>1. DOMAIN sent = 1 .. Len(sent) /\ Len(sent) \in Nat
  OBVIOUS
<1>2. \A i \in 1 .. Len(sent) : sent[i] \in 1 .. MaxRevision
  BY ElementOfSeq
<1>3. \A i \in 1 .. Len(sent) : said[i] \in Message /\ said[i].revision = sent[i]
  BY <1>1, <1>2, StreamAssumption DEF Say, Message
<1>4. said \in Seq(Message) /\ Len(said) = Len(sent)
  <2>1. said \in [1 .. Len(sent) -> Message]
    BY <1>1, <1>3
  <2> QED  BY <1>1, <2>1
<1> QED  BY <1>3, <1>4

LEMMA DeliveredHeard ==
  ASSUME TablesTypeOK, NEW s, Heard(s, revision)
  PROVE  Heard(Delivered(s), revision)
<1> DEFINE stops == {i \in 1 .. Len(s.batch) : s.batch[i] \in guarded}
           changes == SelectInSeq(s.batch, LAMBDA r : r \in guarded)
           sent == IF changes = 0 THEN s.batch ELSE SubSeq(s.batch, 1, changes - 1)
           said == [i \in DOMAIN sent |-> Say("change", sent[i])]
<1>a. /\ revision \in Nat /\ s \in Streams /\ Len(s.batch) \in Nat
      /\ s.batch \in Seq(1 .. MaxRevision) /\ s.wire \in Seq(Message)
      /\ \A i \in 1 .. Len(s.batch) : s.batch[i] \in 1 .. MaxRevision /\ s.batch[i] <= revision
  BY HeardTypes DEF TablesTypeOK, Heard
<1>1. changes = IF stops # {} THEN Min(stops) ELSE 0
  BY DEF SelectInSeq
<1>2. changes = 0 \/ changes \in 1 .. Len(s.batch)
  <2>1. stops \in SUBSET Nat
    OBVIOUS
  <2> QED  BY <1>1, <2>1, Least
<1> HIDE DEF changes
<1>3. sent \in Seq(1 .. MaxRevision) /\ \A i \in 1 .. Len(sent) : sent[i] <= revision
  <2>1. CASE changes = 0
    BY <1>a, <2>1
  <2>2. CASE changes \in 1 .. Len(s.batch)
    <3>1. changes - 1 \in 0 .. Len(s.batch) /\ sent = SubSeq(s.batch, 1, changes - 1)
      BY <1>a, <2>2
    <3>2. /\ sent \in Seq(1 .. MaxRevision) /\ Len(sent) = changes - 1
          /\ \A i \in 1 .. changes - 1 : sent[i] = s.batch[i]
      <4>1. \A i \in 1 .. changes - 1 : s.batch[i] \in 1 .. MaxRevision
        BY <1>a, <3>1
      <4>2. 1 \in Int /\ changes - 1 \in Int
        BY <2>2
      <4> DEFINE b == s.batch
                 n == changes - 1
      <4>3. n \in Int /\ \A i \in 1 .. n : b[i] \in 1 .. MaxRevision
        BY <4>1, <4>2
      <4> HIDE DEF b, n
      <4>4. /\ SubSeq(b, 1, n) \in Seq(1 .. MaxRevision)
            /\ Len(SubSeq(b, 1, n)) = IF 1 <= n THEN n - 1 + 1 ELSE 0
            /\ \A i \in 1 .. n - 1 + 1 : SubSeq(b, 1, n)[i] = b[1 + i - 1]
        BY <4>2, <4>3, SubSeqProperties
      <4>5. n \in Nat
        BY <3>1 DEF n
      <4>6. /\ SubSeq(b, 1, n) \in Seq(1 .. MaxRevision) /\ Len(SubSeq(b, 1, n)) = n
            /\ \A i \in 1 .. n : SubSeq(b, 1, n)[i] = b[i]
        BY <4>4, <4>5
      <4> HIDE DEF sent
      <4> QED  BY <3>1, <4>6 DEF b, n
    <3> HIDE DEF sent
    <3> QED  BY <1>a, <2>2, <3>2
  <2> QED  BY <1>2, <2>1, <2>2
<1> HIDE DEF sent
<1>4. said \in Seq(Message) /\ \A i \in 1 .. Len(said) : said[i].revision <= revision
  BY <1>a, <1>3, SaidHeard
<1> HIDE DEF said
<1>5. Heard(Ended(s, <<Say("clear", 0)>>), revision)
  <2>1. 0 \in Revisions
    BY StreamAssumption DEF Revisions
  <2> DEFINE one == <<Say("clear", 0)>>
  <2>2. one \in Seq(Message) /\ \A i \in 1 .. Len(one) : one[i].revision <= revision
    BY <1>a, <2>1, OneMessage
  <2> HIDE DEF one
  <2>3. Heard(Ended(s, one), revision)
    BY <1>a, <2>2, EndedHeard
  <2> QED  BY <2>3 DEF one
<1>6. changes # 0 => Heard(Ended(s, said \o <<Say("reconnect", s.batch[changes])>>), revision)
  <2> SUFFICES ASSUME changes # 0
               PROVE  Heard(Ended(s, said \o <<Say("reconnect", s.batch[changes])>>), revision)
    OBVIOUS
  <2> DEFINE one == <<Say("reconnect", s.batch[changes])>>
  <2>1. s.batch[changes] \in Revisions /\ s.batch[changes] <= revision
    BY <1>a, <1>2 DEF Revisions
  <2>2. one \in Seq(Message) /\ \A i \in 1 .. Len(one) : one[i].revision <= revision
    BY <1>a, <2>1, OneMessage
  <2> HIDE DEF one
  <2>3. said \o one \in Seq(Message) /\ \A i \in 1 .. Len(said \o one) : (said \o one)[i].revision <= revision
    BY <1>4, <2>2
  <2>4. Heard(Ended(s, said \o one), revision)
    BY <1>a, <2>3, EndedHeard
  <2> QED  BY <2>4 DEF one
<1>7. Heard([s EXCEPT !.batch = <<>>, !.cursor = IF sent = <<>> THEN s.cursor ELSE Last(sent),
                      !.wire = s.wire \o said], revision)
  <2> DEFINE cursor == IF sent = <<>> THEN s.cursor ELSE Last(sent)
             wire == s.wire \o said
             u == [s EXCEPT !.batch = <<>>, !.cursor = cursor, !.wire = wire]
  <2>1. cursor \in 0 .. MaxRevision
    <3>1. s.cursor \in 0 .. MaxRevision
      BY <1>a DEF Streams
    <3>2. sent # <<>> => Len(sent) \in 1 .. Len(sent)
      BY <1>3
    <3>3. sent # <<>> => Last(sent) \in 1 .. MaxRevision
      BY <1>3, <3>2, ElementOfSeq DEF Last
    <3> QED  BY <3>1, <3>3
  <2>2. wire \in Seq(Message) /\ \A i \in 1 .. Len(wire) : wire[i].revision <= revision
    BY <1>a, <1>4 DEF Heard
  <2> HIDE DEF cursor, wire
  <2>a. <<>> \in Seq(1 .. MaxRevision)
    OBVIOUS
  <2>b. u \in Streams
    BY <1>a, <2>a, <2>1, <2>2 DEF Streams
  <2>3. u \in Streams /\ u.batch = <<>> /\ u.wire = wire
    BY <1>a, <2>b DEF Streams
  <2>4. Heard(u, revision)
    BY <2>2, <2>3 DEF Heard
  <2> QED  BY <2>4 DEF u, cursor, wire
<1> QED  BY <1>5, <1>6, <1>7 DEF Delivered, changes, sent, said

-----------------------------------------------------------------------------
(* Methods                                                                 *)

LEMMA ReplyTypes ==
  /\ Pending \in Reply /\ Pending.revision = NoRevision /\ Pending.kind = "pending"
  /\ \A c \in Reloads : /\ Void(c) \in Reloads /\ Void(c).step = "void"
                        /\ Void(c).caller = c.caller /\ Void(c).reply = Pending
<1>1. Pending \in Reply /\ Pending.revision = NoRevision /\ Pending.kind = "pending"
  BY StreamAssumption DEF Pending, Answer, Reply, NoRevision
<1> QED  BY <1>1 DEF Void, Reloads

LEMMA EmptyGood ==
  ASSUME NEW p, Empty(p), NEW R \in Nat, NEW L \in Nat
  PROVE  Good(p, R, L)
BY ReplyTypes, ClosedHeard DEF Empty, Good, Base, Fresh, Followed, Away, NoRevision

LEMMA LeaveEmpty ==
  ASSUME NEW p \in Pages
  PROVE  /\ Empty(Leave(p)) /\ ~Leave(p).inside /\ ~Leave(p).disabled
         /\ Leave(p).revoked = p.revoked
<1> DEFINE voids == {Void(c) : c \in {d \in p.reloads : d.caller = "connect"}}
<1>1. \A c \in voids : /\ c \in Reloads /\ c.step = "void" /\ c.caller = "connect"
                       /\ c.reply = Pending
  BY ReplyTypes DEF Pages
<1> HIDE DEF voids
<1> DEFINE half == [p EXCEPT !.inside = FALSE, !.disabled = FALSE, !.stream = Closed,
                             !.timers = 0, !.saving = "idle"]
           most == [half EXCEPT !.shown = NoRevision, !.extra = NoRevision,
                                !.metadataCursor = 0, !.invalidation = 0]
<1>2. Leave(p) = [most EXCEPT !.refreshing = FALSE, !.reloads = voids]
  BY DEF Leave, voids
<1>a. /\ voids \in SUBSET Reloads /\ Closed \in Streams /\ "idle" \in Savings
      /\ NoRevision \in 0 .. MaxRevision /\ 0 \in 0 .. MaxRevision
  BY <1>1, ClosedStream, StreamAssumption DEF Savings, NoRevision
<1>b. half \in Pages
  BY <1>a DEF Pages
<1>c. most \in Pages
  <2> HIDE DEF half
  <2> QED  BY <1>a, <1>b DEF Pages
<1>3. Leave(p) \in Pages /\ Leave(p).reloads = voids
  <2> HIDE DEF most
  <2> QED  BY <1>a, <1>c, <1>2 DEF Pages
<1>4. /\ ~Leave(p).inside /\ ~Leave(p).disabled /\ Leave(p).revoked = p.revoked
      /\ Leave(p).shown = NoRevision /\ Leave(p).extra = NoRevision
      /\ Leave(p).saving = "idle" /\ Leave(p).stream = Closed
  BY <1>2 DEF Pages
<1> QED  BY <1>1, <1>3, <1>4 DEF Empty

LEMMA RevokeEmpty ==
  ASSUME NEW p \in Pages
  PROVE  Empty(Revoke(p))
<1>1. Empty(Leave(p))
  BY LeaveEmpty
<1> HIDE DEF Leave
<1> QED  BY <1>1 DEF Revoke, Empty, Pages

LEMMA ConnectGood ==
  ASSUME NEW R \in Nat, NEW L \in Nat, NEW p, Good(p, R, L)
  PROVE  Good(Connect(p), R, L)
<1> SUFFICES ASSUME p.inside, ~p.revoked, p.stream = Closed  PROVE Good(Connect(p), R, L)
  BY DEF Connect
<1> DEFINE cursor == Max({p.shown, p.metadataCursor})
<1>a. p \in Pages /\ p.shown \in Revisions /\ p.metadataCursor \in Revisions
  BY DEF Good, Base, Pages, Revisions
<1>1. cursor \in Revisions
  BY <1>a, MaxOfTwo DEF Revisions
<1> HIDE DEF cursor
<1> DEFINE q == [p EXCEPT !.stream = Opening(cursor), !.skipped = FALSE]
<1>2. Connect(p) = q
  BY DEF Connect, cursor
<1>3. Heard(Opening(cursor), R) /\ Opening(cursor) \in Streams
  BY <1>1, OpeningHeard DEF Heard
<1>4. /\ q \in Pages
      /\ q.shown = p.shown /\ q.extra = p.extra /\ q.stream = Opening(cursor)
      /\ q.inside = p.inside /\ q.revoked = p.revoked /\ q.disabled = p.disabled
      /\ q.saving = p.saving /\ q.reloads = p.reloads
  BY <1>a, <1>3 DEF Pages
<1> HIDE DEF q
<1> QED  BY <1>2, <1>3, <1>4 DEF Good, Base, Fresh, Followed

LEMMA DisableGood ==
  ASSUME NEW R \in Nat, NEW L \in Nat, NEW p \in Pages
  PROVE  Good(Disable(p), R, L)
<1> DEFINE cursor == Max({p.metadataCursor, p.shown})
           q == [Revoke(p) EXCEPT !.inside = p.inside, !.revoked = FALSE, !.disabled = TRUE,
                                  !.metadataCursor = cursor]
<1>1. cursor \in 0 .. MaxRevision
  BY MaxOfTwo DEF Pages
<1>2. Empty(Revoke(p))
  BY RevokeEmpty
<1> HIDE DEF cursor
<1>3. Empty(q)
  BY <1>1, <1>2 DEF Empty, Pages
<1>4. Disable(p) = Connect(q)
  BY DEF Disable, cursor
<1> HIDE DEF q
<1> QED  BY <1>3, <1>4, EmptyGood, ConnectGood

LEMMA ReloadGood ==
  ASSUME NEW R \in Nat, NEW L \in Nat, NEW p, Good(p, R, L), p.inside, ~p.revoked,
         NEW caller \in Callers, NEW target \in Revisions
  PROVE  Good(Reload(p, caller, target), R, L)
<1> DEFINE aborted == {c \in p.reloads : c.step = "snapshot"}
           voids == {Void(c) : c \in aborted}
           request == [caller |-> caller, target |-> target,
                       step |-> "snapshot", reply |-> Pending]
           reloads == (p.reloads \ aborted) \cup voids \cup {request}
           q == Reload(p, caller, target)
<1>1. p \in Pages /\ p.reloads \subseteq Reloads
  BY DEF Good, Base, Pages
<1>2. /\ request \in Reloads /\ request.step = "snapshot"
      /\ request.reply.revision = NoRevision
  BY ReplyTypes DEF Reloads, Revisions
<1>3. \A c \in voids : /\ c \in Reloads /\ c.step = "void"
                       /\ c.reply.revision = NoRevision
  BY <1>1, ReplyTypes
<1>4. \A c \in reloads : c \in p.reloads \/ (c \in voids) \/ c = request
  OBVIOUS
<1>5. reloads \subseteq Reloads
  BY <1>1, <1>2, <1>3, <1>4
<1>6. \A c \in p.reloads : c.step = "auxiliary" => c \in reloads
  OBVIOUS
<1>7. q = [p EXCEPT !.reloads = reloads]
  BY <1>1 DEF Reload, Pages
<1> HIDE DEF reloads, voids, request, q
<1>8. q \in Pages /\ q.reloads = reloads
  BY <1>1, <1>5, <1>7 DEF Pages
<1>9. /\ q.shown = p.shown /\ q.extra = p.extra /\ q.stream = p.stream
      /\ q.inside = p.inside /\ q.revoked = p.revoked /\ q.disabled = p.disabled
  BY <1>1, <1>7 DEF Pages
<1>10. \A c \in reloads : /\ c.reply.revision <= R
                          /\ c.reply.revision # NoRevision => c.reply.revision >= L
                          /\ p.disabled => c.step # "auxiliary"
                          /\ c.step = "auxiliary" => c \in p.reloads
  BY <1>2, <1>3, <1>4 DEF Good, Base, NoRevision
<1>11. Base(q, R, L)
  BY <1>8, <1>9, <1>10 DEF Good, Base
<1>12. Fresh(q) /\ Followed(q)
  BY <1>6, <1>8, <1>9, <1>10 DEF Good, Fresh, Followed
<1> QED  BY <1>11, <1>12 DEF Good, q

(* Whatever asked before for the extras is out of sequence.                *)
LEMMA ReloadAuxiliaryGood ==
  ASSUME NEW R \in Nat, NEW L \in Nat, NEW p, Base(p, R, L),
         p.inside, ~p.revoked, ~p.disabled,
         NEW caller \in Callers, NEW target \in Revisions
  PROVE  Good(ReloadAuxiliary(p, caller, target), R, L)
<1> DEFINE passed == {c \in p.reloads : c.step = "auxiliary"}
           voids == {Void(c) : c \in passed}
           request == [caller |-> caller, target |-> target,
                       step |-> "auxiliary", reply |-> Pending]
           reloads == (p.reloads \ passed) \cup voids \cup {request}
           q == ReloadAuxiliary(p, caller, target)
<1>1. p \in Pages /\ p.reloads \subseteq Reloads
  BY DEF Base, Pages
<1>2. /\ request \in Reloads /\ request.step = "auxiliary"
      /\ request.reply.revision = NoRevision
  BY ReplyTypes DEF Reloads, Revisions
<1>3. \A c \in voids : /\ c \in Reloads /\ c.step = "void"
                       /\ c.reply.revision = NoRevision
  BY <1>1, ReplyTypes
<1>4. /\ \A c \in reloads : (c \in p.reloads /\ c.step # "auxiliary") \/ c \in voids \/ c = request
      /\ request \in reloads
  OBVIOUS
<1>5. reloads \subseteq Reloads
  BY <1>1, <1>2, <1>3, <1>4
<1>7. q = [p EXCEPT !.reloads = reloads]
  BY <1>1 DEF ReloadAuxiliary, Pages
<1> HIDE DEF reloads, voids, request, q
<1>8. q \in Pages /\ q.reloads = reloads
  BY <1>1, <1>5, <1>7 DEF Pages
<1>9. /\ q.shown = p.shown /\ q.extra = p.extra /\ q.stream = p.stream
      /\ q.inside = p.inside /\ q.revoked = p.revoked /\ q.disabled = p.disabled
  BY <1>1, <1>7 DEF Pages
<1>10. \A c \in reloads : /\ c.reply.revision <= R
                          /\ c.reply.revision # NoRevision => c.reply.revision >= L
                          /\ c.step = "auxiliary" => c.reply.revision = NoRevision
  BY <1>2, <1>3, <1>4 DEF Base, NoRevision
<1>11. Base(q, R, L)
  BY <1>8, <1>9, <1>10 DEF Base
<1>12. Fresh(q) /\ Followed(q)
  BY <1>2, <1>4, <1>8, <1>10 DEF Fresh, Followed
<1> QED  BY <1>11, <1>12 DEF Good, q

LEMMA CaughtUpGood ==
  ASSUME NEW R \in Nat, NEW L \in Nat, NEW p, Good(p, R, L), p.inside, ~p.revoked,
         NEW target \in Revisions
  PROVE  Good(CaughtUp(p, target), R, L)
<1>a. p \in Pages /\ p.shown \in 0 .. MaxRevision /\ p.invalidation \in Revisions
  BY DEF Good, Base, Pages, Revisions
<1>1. CASE p.shown < target
  <2> DEFINE later == p.timers + 1
             q == [p EXCEPT !.invalidation = p.shown, !.stream = Closed,
                            !.timers = later, !.refreshing = FALSE]
  <2>0. CaughtUp(p, target) = q /\ later \in Nat
    BY <1>a, <1>1 DEF CaughtUp, Pages
  <2> HIDE DEF later
  <2>1. q \in Pages
    BY <1>a, <2>0, ClosedStream DEF Pages
  <2>2. /\ q.shown = p.shown /\ q.extra = p.extra /\ q.stream = Closed
        /\ q.inside = p.inside /\ q.revoked = p.revoked /\ q.disabled = p.disabled
        /\ q.reloads = p.reloads
    BY <1>a DEF Pages
  <2> HIDE DEF q
  <2> QED  BY <2>0, <2>1, <2>2, ClosedHeard DEF Good, Base, Fresh, Followed
<1>2. CASE ~(p.shown < target) /\ (p.shown >= p.invalidation \/ p.invalidation = target)
  <2> DEFINE q == [p EXCEPT !.refreshing = FALSE]
  <2>1. /\ q \in Pages
        /\ q.shown = p.shown /\ q.extra = p.extra /\ q.stream = p.stream
        /\ q.inside = p.inside /\ q.revoked = p.revoked /\ q.disabled = p.disabled
        /\ q.reloads = p.reloads
    BY <1>a DEF Pages
  <2>2. CaughtUp(p, target) = q
    BY <1>2 DEF CaughtUp
  <2> HIDE DEF q
  <2> QED  BY <2>1, <2>2 DEF Good, Base, Fresh, Followed
<1>3. CASE ~(p.shown < target) /\ ~(p.shown >= p.invalidation \/ p.invalidation = target)
  <2>1. CaughtUp(p, target) = Reload(p, "refresh", p.invalidation)
    BY <1>3 DEF CaughtUp
  <2> QED  BY <1>a, <2>1, ReloadGood DEF Callers
<1> QED  BY <1>1, <1>2, <1>3

LEMMA ReturnedGood ==
  ASSUME NEW R \in Nat, NEW L \in Nat, NEW p, Good(p, R, L), NEW c \in Reloads,
         c.caller # "connect" => p.inside /\ ~p.revoked
  PROVE  Good(Returned(p, c), R, L)
<1>a. p \in Pages /\ c.caller \in Callers /\ c.target \in Revisions
  BY DEF Good, Base, Reloads, Revisions
<1>1. CASE c.caller = "connect"
  BY <1>1, ConnectGood DEF Returned
<1>2. CASE c.caller = "refresh"
  BY <1>2, <1>a, CaughtUpGood DEF Returned
<1>3. CASE c.caller = "save"
  <2> DEFINE q == [p EXCEPT !.saving = "idle"]
  <2>1. /\ q \in Pages
        /\ q.shown = p.shown /\ q.extra = p.extra /\ q.stream = p.stream
        /\ q.inside = p.inside /\ q.revoked = p.revoked /\ q.disabled = p.disabled
        /\ q.reloads = p.reloads
    BY <1>a DEF Pages, Savings
  <2>2. Returned(p, c) = q
    BY <1>3 DEF Returned
  <2> HIDE DEF q
  <2> QED  BY <1>3, <2>1, <2>2 DEF Good, Base, Fresh, Followed
<1>4. CASE c.caller = "button"
  BY <1>4 DEF Returned
<1> QED  BY <1>a, <1>1, <1>2, <1>3, <1>4 DEF Callers

LEMMA HandleEventGood ==
  ASSUME NEW R \in Nat, NEW L \in Nat, NEW p, Good(p, R, L), p.inside, ~p.revoked,
         NEW m \in Message, NEW M \in Nat, m.type # "reconnect" => M = L
  PROVE  Good(HandleEvent(p, m), R, M)
<1>a. /\ p \in Pages /\ p.shown \in Revisions /\ p.metadataCursor \in Revisions
      /\ m.revision \in Revisions /\ 0 \in Revisions
      /\ m.type \in {"change", "reconnect", "clear", "expired"}
      /\ Heard(Closed, R) /\ Closed \in Streams
  BY ClosedHeard, ClosedStream, StreamAssumption DEF Good, Base, Pages, Revisions, Message
<1>b. /\ Max({p.metadataCursor, m.revision}) \in 0 .. MaxRevision
      /\ Max({p.metadataCursor, p.shown, m.revision}) \in 0 .. MaxRevision
  BY <1>a, MaxOfTwo, MaxOfThree DEF Revisions
<1>1. CASE m.type = "clear"
  <2>1. HandleEvent(p, m) = Revoke(p)
    BY <1>1 DEF HandleEvent
  <2> QED  BY <1>a, <2>1, RevokeEmpty, EmptyGood
<1>2. CASE m.type = "reconnect"
  <2> DEFINE cursor == Max({p.metadataCursor, p.shown, m.revision})
             q == [Revoke(p) EXCEPT !.inside = TRUE, !.revoked = FALSE,
                                    !.metadataCursor = cursor]
  <2>1. HandleEvent(p, m) = Reload(q, "connect", 0)
    BY <1>2 DEF HandleEvent
  <2>2. Empty(Revoke(p)) /\ cursor \in 0 .. MaxRevision
    BY <1>a, <1>b, RevokeEmpty
  <2> HIDE DEF cursor
  <2>3. Empty(q) /\ q.inside /\ ~q.revoked
    BY <2>2 DEF Empty, Pages
  <2> HIDE DEF q
  <2> QED  BY <1>a, <2>1, <2>3, EmptyGood, ReloadGood DEF Callers
<1>3. CASE m.type = "expired"
  <2> DEFINE cursor == IF p.disabled THEN Max({p.metadataCursor, m.revision})
                                     ELSE p.metadataCursor
             q == [p EXCEPT !.stream = Closed, !.metadataCursor = cursor]
  <2>1. HandleEvent(p, m) = Reload(q, "connect", 0)
    BY <1>3 DEF HandleEvent
  <2>2. cursor \in 0 .. MaxRevision
    BY <1>a, <1>b DEF Revisions
  <2> HIDE DEF cursor
  <2>3. /\ q \in Pages
        /\ q.shown = p.shown /\ q.extra = p.extra /\ q.stream = Closed
        /\ q.inside = p.inside /\ q.revoked = p.revoked /\ q.disabled = p.disabled
        /\ q.reloads = p.reloads
    BY <1>a, <2>2 DEF Pages
  <2> HIDE DEF q
  <2>4. Good(q, R, L) /\ q.inside /\ ~q.revoked
    BY <1>a, <2>3 DEF Good, Base, Fresh, Followed
  <2> QED  BY <1>3, <1>a, <2>1, <2>4, ReloadGood DEF Callers
<1>4. CASE m.type = "change"
  <2>a. M = L
    BY <1>4
  <2> DEFINE Same(q) == /\ q \in Pages
                        /\ q.shown = p.shown /\ q.extra = p.extra /\ q.stream = p.stream
                        /\ q.inside = p.inside /\ q.revoked = p.revoked
                        /\ q.disabled = p.disabled /\ q.reloads = p.reloads
  <2>1. ASSUME NEW q, Same(q)  PROVE Good(q, R, L) /\ q.inside /\ ~q.revoked
    BY <2>1 DEF Good, Base, Fresh, Followed
  <2>2. Same([p EXCEPT !.metadataCursor = Max({p.metadataCursor, m.revision})])
    BY <1>a, <1>b DEF Pages
  <2>3. /\ Same([p EXCEPT !.invalidation = m.revision])
        /\ Same([p EXCEPT !.invalidation = m.revision, !.refreshing = TRUE])
    BY <1>a DEF Pages, Revisions
  <2>4. Good(Reload([p EXCEPT !.invalidation = m.revision, !.refreshing = TRUE],
                    "refresh", m.revision), R, L)
    <3> DEFINE q == [p EXCEPT !.invalidation = m.revision, !.refreshing = TRUE]
    <3>1. Good(q, R, L) /\ q.inside /\ ~q.revoked
      BY <2>1, <2>3
    <3> HIDE DEF q
    <3> QED  BY <1>a, <3>1, ReloadGood DEF Callers, q
  <2>5. \/ HandleEvent(p, m) = [p EXCEPT !.metadataCursor = Max({p.metadataCursor, m.revision})]
        \/ HandleEvent(p, m) = p
        \/ HandleEvent(p, m) = [p EXCEPT !.invalidation = m.revision]
        \/ HandleEvent(p, m) = Reload([p EXCEPT !.invalidation = m.revision, !.refreshing = TRUE],
                                      "refresh", m.revision)
    BY <1>4 DEF HandleEvent
  <2> HIDE DEF Same
  <2> QED  BY <2>a, <2>1, <2>2, <2>3, <2>4, <2>5
<1> QED  BY <1>a, <1>1, <1>2, <1>3, <1>4

-----------------------------------------------------------------------------
(* Steps                                                                   *)

LEMMA InvInit ==
  ASSUME Init
  PROVE  IInv
<1>1. TablesTypeOK
  BY StreamAssumption DEF Init, TablesInit, TablesTypeOK, Roles
<1>2. /\ "idle" \in Savings /\ Closed \in Streams /\ 0 \in 0 .. MaxRevision
      /\ {} \in SUBSET Reloads
  BY ClosedStream, StreamAssumption DEF Savings
<1>3. Empty(page)
  BY <1>2 DEF Init, Empty, Pages, NoRevision
<1>4. 0 \in 0 .. MaxMoves /\ 0 \in 0 .. MaxFaults /\ revision \in Nat /\ learned \in 0 .. revision
  BY StoreAssumption, <1>1 DEF Init, TablesInit, TablesTypeOK
<1> QED  BY <1>1, <1>3, <1>4, EmptyGood DEF IInv, Init

LEMMA GoodLater ==
  ASSUME NEW R \in Nat, NEW S \in Nat, R <= S, NEW L \in Nat, NEW p, Good(p, R, L)
  PROVE  Good(p, S, L)
<1>1. /\ p.shown \in Nat /\ \A c \in p.reloads : c.reply.revision \in Nat
  BY DEF Good, Base, Pages, Reloads, Reply
<1> QED  BY <1>1, HeardLater DEF Good, Base

(* Writes raise the revision by one or leave it.                           *)
LEMMA TableSteps ==
  ASSUME TablesTypeOK,
         Change \/ ChangeMembership \/ SetRequirements \/ EndSession \/ Trim \/ UNCHANGED tables
  PROVE  TablesTypeOK' /\ revision' \in Nat /\ revision <= revision'
<1> USE DEF TablesTypeOK
<1>1. ASSUME NEW b \in BOOLEAN, Emit(b)
      PROVE  /\ revision' \in 1 .. MaxRevision /\ revision' = revision + 1
             /\ guarded' \subseteq 1 .. revision'
             /\ oldest' = oldest => oldest' \in 1 .. revision' + 1
             /\ revision' \in Nat /\ revision <= revision'
  BY <1>1, StreamAssumption DEF Emit
<1>2. CASE Change
  <2>1. Emit(FALSE) /\ oldest' = oldest /\ role' = role /\ enabled' = enabled
    BY <1>2 DEF Change
  <2> QED  BY <1>1, <2>1
<1>3. CASE ChangeMembership
  <2>1. role' \in Roles
    BY <1>3 DEF ChangeMembership, Roles
  <2>2. Emit(TRUE) /\ oldest' = oldest /\ enabled' = enabled
    BY <1>3 DEF ChangeMembership
  <2> QED  BY <1>1, <2>1, <2>2
<1>4. CASE SetRequirements
  <2>1. enabled' \in BOOLEAN
    BY <1>4, Zenon DEF SetRequirements
  <2>2. Emit(TRUE) /\ oldest' = oldest /\ role' = role
    BY <1>4 DEF SetRequirements
  <2> QED  BY <1>1, <2>1, <2>2
<1>5. CASE EndSession
  BY <1>5 DEF EndSession, Roles
<1>6. CASE Trim
  BY <1>6 DEF Trim
<1>7. CASE UNCHANGED tables
  BY <1>7 DEF tables
<1> QED  BY <1>2, <1>3, <1>4, <1>5, <1>6, <1>7

(* What a step has to show when the tables and what was learned stay.      *)
LEMMA PageStep ==
  ASSUME IInv, UNCHANGED <<tables, learned>>,
         moves' \in 0 .. MaxMoves, faults' \in 0 .. MaxFaults,
         Good(page', revision, learned)
  PROVE  IInv'
BY DEF IInv, tables, TablesTypeOK, Good, Base, Fresh, Followed, Heard, Away

LEMMA OtherSteps ==
  ASSUME IInv, Others
  PROVE  IInv'
<1>1. TablesTypeOK' /\ revision' \in Nat /\ revision <= revision' /\ revision \in Nat
  BY TableSteps DEF IInv, Others, TablesTypeOK
<1>2. /\ page' = page /\ learned' = learned /\ moves' = moves
      /\ faults' \in 0 .. MaxFaults /\ learned \in Nat
  BY <1>1, StoreAssumption DEF IInv, Others
<1>3. Good(page, revision', learned)
  BY <1>1, <1>2, GoodLater DEF IInv
<1> QED  BY <1>1, <1>2, <1>3 DEF IInv

LEMMA MoveSteps ==
  ASSUME IInv, Enter \/ LeavePage \/ Refresh \/ Save
  PROVE  IInv'
<1>a. /\ page \in Pages /\ revision \in Nat /\ learned \in Nat /\ 0 \in Revisions
      /\ Good(page, revision, learned)
  BY StreamAssumption DEF IInv, TablesTypeOK, Good, Base, Revisions
<1>b. UNCHANGED <<tables, learned>> /\ moves' \in 0 .. MaxMoves /\ faults' \in 0 .. MaxFaults
  BY StoreAssumption DEF IInv, Move, Enter, LeavePage, Refresh, Save
<1>1. CASE Enter
  <2> DEFINE q == [Leave(page) EXCEPT !.inside = TRUE, !.revoked = FALSE]
  <2>1. Empty(Leave(page))
    BY <1>a, LeaveEmpty
  <2>2. Empty(q) /\ q.inside /\ ~q.revoked
    BY <2>1 DEF Empty, Pages
  <2>3. page' = Reload(q, "connect", 0)
    BY <1>1 DEF Enter
  <2> HIDE DEF q
  <2>4. Good(page', revision, learned)
    BY <1>a, <2>2, <2>3, EmptyGood, ReloadGood DEF Callers
  <2> QED  BY <1>b, <2>4, PageStep
<1>2. CASE LeavePage
  <2>1. Good(page', revision, learned)
    BY <1>a, <1>2, LeaveEmpty, EmptyGood DEF LeavePage
  <2> QED  BY <1>b, <2>1, PageStep
<1>3. CASE Refresh
  <2>1. CASE page' = Reload(page, "button", 0)
    <3>1. Good(page', revision, learned)
      BY <1>a, <1>3, <2>1, ReloadGood DEF Refresh, Callers
    <3> QED  BY <1>b, <3>1, PageStep
  <2>2. CASE ~page.disabled /\ page' = ReloadAuxiliary(page, "button", 0)
    <3>1. Good(page', revision, learned)
      BY <1>a, <1>3, <2>2, ReloadAuxiliaryGood DEF Refresh, Callers, Good
    <3> QED  BY <1>b, <3>1, PageStep
  <2> QED  BY <1>3, <2>1, <2>2 DEF Refresh
<1>4. CASE Save
  <2> DEFINE q == [page EXCEPT !.saving = "sent"]
  <2>1. /\ q \in Pages
        /\ q.shown = page.shown /\ q.extra = page.extra /\ q.stream = page.stream
        /\ q.inside = page.inside /\ q.revoked = page.revoked /\ q.disabled = page.disabled
        /\ q.reloads = page.reloads
    BY <1>a DEF Pages, Savings
  <2>2. page' = q /\ page.inside /\ ~page.revoked
    BY <1>4 DEF Save
  <2> HIDE DEF q
  <2>3. Good(page', revision, learned)
    BY <1>a, <2>1, <2>2 DEF Good, Base, Fresh, Followed
  <2> QED  BY <1>b, <2>3, PageStep
<1> QED  BY <1>1, <1>2, <1>3, <1>4

(* A page whose reloads, revisions and flags are those of p.               *)
Alike(q, p) ==
  /\ q \in Pages
  /\ q.shown = p.shown /\ q.extra = p.extra /\ q.reloads = p.reloads
  /\ q.inside = p.inside /\ q.revoked = p.revoked /\ q.disabled = p.disabled

LEMMA AlikeGood ==
  ASSUME NEW R \in Nat, NEW L \in Nat, NEW p, Good(p, R, L), NEW q, Alike(q, p),
         Heard(q.stream, R),
         \/ p.inside /\ ~p.revoked
         \/ q.saving \in {p.saving, "idle"} /\ q.stream \in {p.stream, Closed}
  PROVE  Good(q, R, L)
BY DEF Good, Base, Fresh, Followed, Alike, Away

(* What a reload that is under way says of its page.                       *)
LEMMA ReloadOf ==
  ASSUME IInv, NEW c \in page.reloads
  PROVE  /\ page \in Pages /\ revision \in Nat /\ learned \in Nat /\ learned <= revision
         /\ Good(page, revision, learned)
         /\ c \in Reloads /\ c.caller \in Callers /\ c.target \in Revisions
         /\ c.reply \in Reply /\ c.reply.revision \in Revisions
         /\ c.step # "void" \/ c.caller # "connect" => page.inside /\ ~page.revoked
         /\ c.step = "auxiliary" => ~page.disabled
<1>1. page \in Pages /\ Good(page, revision, learned) /\ learned \in 0 .. revision /\ revision \in Nat
  BY DEF IInv, Good, Base, TablesTypeOK
<1>2. c \in Reloads
  BY <1>1 DEF Pages
<1>3. /\ c.step # "void" \/ c.caller # "connect" => page.inside /\ ~page.revoked
      /\ c.step = "auxiliary" => ~page.disabled
  BY <1>1 DEF Good, Base, Away
<1> QED  BY <1>1, <1>2, <1>3 DEF Reloads, Reply, Revisions

LEMMA WithoutIt ==
  ASSUME IInv, NEW c \in page.reloads
  PROVE  /\ Base(Without(c), revision, learned) /\ Fresh(Without(c))
         /\ c.step # "auxiliary" => Good(Without(c), revision, learned)
         /\ Without(c) \in Pages
         /\ Without(c).inside = page.inside /\ Without(c).revoked = page.revoked
         /\ Without(c).disabled = page.disabled /\ Without(c).shown = page.shown
<1> DEFINE q == Without(c)
           reloads == page.reloads \ {c}
<1>1. page \in Pages /\ Good(page, revision, learned)
  BY ReloadOf
<1>2. q = [page EXCEPT !.reloads = reloads] /\ reloads \in SUBSET Reloads
  BY <1>1 DEF Without, Pages
<1>3. /\ \A d \in reloads : d \in page.reloads
      /\ c.step # "auxiliary" =>
           \A d \in page.reloads : d.step = "auxiliary" => d \in reloads
  OBVIOUS
<1> HIDE DEF q, reloads
<1>4. /\ q \in Pages
      /\ q.shown = page.shown /\ q.extra = page.extra /\ q.stream = page.stream
      /\ q.inside = page.inside /\ q.revoked = page.revoked /\ q.disabled = page.disabled
      /\ q.saving = page.saving /\ q.reloads = reloads
  BY <1>1, <1>2 DEF Pages
<1>5. Base(q, revision, learned)
  BY <1>1, <1>3, <1>4 DEF Good, Base, Away
<1>6. Fresh(q) /\ (c.step # "auxiliary" => Followed(q))
  BY <1>1, <1>3, <1>4 DEF Good, Fresh, Followed
<1> QED  BY <1>4, <1>5, <1>6 DEF Good, q

(* An answer is of the present revision or of none.                        *)
LEMMA AnsweredGood ==
  ASSUME IInv, NEW c \in page.reloads, c.step # "void", NEW a \in Reply,
         a.revision \in {NoRevision, revision},
         page' = [page EXCEPT !.reloads = (@ \ {c}) \cup {[c EXCEPT !.reply = a]}]
  PROVE  Good(page', revision, learned)
<1> DEFINE d == [c EXCEPT !.reply = a]
           reloads == (page.reloads \ {c}) \cup {d}
<1>1. /\ page \in Pages /\ Good(page, revision, learned) /\ c \in Reloads
      /\ revision \in Nat /\ learned \in Nat /\ learned <= revision
      /\ page.inside /\ ~page.revoked /\ (c.step = "auxiliary" => ~page.disabled)
  BY ReloadOf
<1>2. d \in Reloads /\ d.step = c.step /\ d.reply = a
  BY <1>1 DEF Reloads
<1>3. /\ \A e \in reloads : e \in page.reloads \/ e = d
      /\ d \in reloads
      /\ \A e \in page.reloads : e # c => e \in reloads
  OBVIOUS
<1>4. page' = [page EXCEPT !.reloads = reloads] /\ reloads \in SUBSET Reloads
  BY <1>1, <1>2 DEF Pages
<1> HIDE DEF d, reloads
<1>5. /\ page' \in Pages
      /\ page'.shown = page.shown /\ page'.extra = page.extra /\ page'.stream = page.stream
      /\ page'.inside = page.inside /\ page'.revoked = page.revoked
      /\ page'.disabled = page.disabled /\ page'.reloads = reloads
  BY <1>1, <1>4 DEF Pages
<1>6. \A e \in reloads : /\ e.reply.revision <= revision
                         /\ e.reply.revision # NoRevision => e.reply.revision >= learned
                         /\ page.disabled => e.step # "auxiliary"
                         /\ e.step = "auxiliary" /\ e.reply.revision # NoRevision =>
                              e.reply.revision >= page.shown
  BY <1>1, <1>2, <1>3 DEF Good, Base, Fresh, NoRevision
<1>7. Base(page', revision, learned) /\ Fresh(page')
  BY <1>1, <1>5, <1>6 DEF Good, Base, Fresh
<1>8. Followed(page')
  BY <1>1, <1>2, <1>3, <1>5 DEF Good, Followed
<1> QED  BY <1>7, <1>8 DEF Good

LEMMA AnswerSteps ==
  ASSUME IInv, AnswerReload \/ AnswerSave
  PROVE  IInv'
<1>1. CASE AnswerReload
  <2>1. PICK c \in page.reloads :
          /\ c.step # "void"
          /\ page' = [page EXCEPT !.reloads = (@ \ {c}) \cup {[c EXCEPT !.reply = Snapshot]}]
          /\ UNCHANGED <<tables, learned, moves, faults>>
    BY <1>1 DEF AnswerReload
  <2>2. Snapshot \in Reply /\ Snapshot.revision \in {NoRevision, revision}
    BY StreamAssumption DEF IInv, TablesTypeOK, Snapshot, Answer, Reply, NoRevision
  <2>3. Good(page', revision, learned)
    BY <2>1, <2>2, AnsweredGood
  <2>4. moves' \in 0 .. MaxMoves /\ faults' \in 0 .. MaxFaults
    BY <2>1 DEF IInv
  <2> QED  BY <2>1, <2>3, <2>4, PageStep
<1>2. CASE AnswerSave
  <2>1. PICK k \in Savings : page' = [page EXCEPT !.saving = k]
    BY <1>2 DEF AnswerSave, Savings
  <2>2. /\ UNCHANGED <<learned, moves, faults>> /\ page.saving = "sent"
        /\ Change \/ UNCHANGED tables
    BY <1>2 DEF AnswerSave
  <2>3. /\ TablesTypeOK' /\ revision' \in Nat /\ revision <= revision' /\ revision \in Nat
        /\ learned \in 0 .. revision /\ page \in Pages /\ Good(page, revision, learned)
    BY <2>2, TableSteps DEF IInv, TablesTypeOK, Good, Base
  <2>4. page.inside /\ ~page.revoked
    BY <2>2, <2>3 DEF Good, Base, Away
  <2>5. Alike(page', page) /\ page'.stream = page.stream /\ Heard(page.stream, revision)
    BY <2>1, <2>3 DEF Alike, Pages, Good, Base
  <2>6. Good(page', revision, learned)
    BY <2>3, <2>4, <2>5, AlikeGood
  <2>7. Good(page', revision', learned')
    BY <2>2, <2>3, <2>6, GoodLater
  <2> QED  BY <2>2, <2>3, <2>7 DEF IInv
<1> QED  BY <1>1, <1>2

(* A stream other than Closed belongs to a page that is open.              *)
LEMMA StreamGood ==
  ASSUME IInv, page.stream # Closed, NEW s, Heard(s, revision), Stream(s),
         faults' \in 0 .. MaxFaults
  PROVE  IInv'
<1>1. /\ page \in Pages /\ Good(page, revision, learned) /\ page.inside /\ ~page.revoked
      /\ revision \in Nat /\ learned \in Nat /\ moves \in 0 .. MaxMoves
  BY DEF IInv, TablesTypeOK, Good, Base, Away
<1>2. page' = [page EXCEPT !.stream = s] /\ UNCHANGED <<tables, learned, moves>>
  BY DEF Stream
<1>3. Alike(page', page) /\ page'.stream = s
  BY <1>1, <1>2 DEF Alike, Pages, Heard
<1>4. Good(page', revision, learned)
  BY <1>1, <1>3, AlikeGood
<1> QED  BY <1>1, <1>2, <1>4, PageStep

LEMMA StreamSteps ==
  ASSUME IInv, Subscribe \/ Deliver \/ Poll \/ BreakStream
  PROVE  IInv'
<1>1. /\ TablesTypeOK /\ Heard(page.stream, revision) /\ faults \in 0 .. MaxFaults
      /\ revision \in Nat
  BY DEF IInv, Good, Base, TablesTypeOK
<1>2. CASE Subscribe
  BY <1>1, <1>2, SubscribedHeard, StreamGood, ClosedStream DEF Subscribe
<1>3. CASE Deliver
  BY <1>1, <1>3, DeliveredHeard, StreamGood, ClosedStream DEF Deliver
<1>4. CASE Poll
  BY <1>1, <1>4, PolledHeard, StreamGood, ClosedStream DEF Poll
<1>5. CASE BreakStream
  <2> DEFINE nothing == <<>>
  <2>1. nothing \in Seq(Message) /\ \A i \in 1 .. Len(nothing) : nothing[i].revision <= revision
    OBVIOUS
  <2> HIDE DEF nothing
  <2>2. Heard(Ended(Closed, nothing), revision)
    BY <1>1, <2>1, ClosedHeard, EndedHeard
  <2>3. Stream(Ended(Closed, nothing)) /\ page.stream # Closed /\ faults' \in 0 .. MaxFaults
    BY <1>1, <1>5, ClosedStream, StoreAssumption DEF BreakStream, nothing
  <2> QED  BY <2>2, <2>3, StreamGood
<1> QED  BY <1>2, <1>3, <1>4, <1>5

(* What a callback of the page has to show.                                *)
LEMMA CallbackStep ==
  ASSUME IInv, NEW p, Callback(p), UNCHANGED learned, Good(p, revision, learned)
  PROVE  IInv'
<1>1. page' = p /\ UNCHANGED <<tables, learned>> /\ moves' = moves /\ faults' = faults
  BY DEF Callback
<1>2. moves' \in 0 .. MaxMoves /\ faults' \in 0 .. MaxFaults
  BY <1>1 DEF IInv
<1> QED  BY <1>1, <1>2, PageStep

LEMMA ClearSteps ==
  ASSUME IInv, NEW p \in Pages, UNCHANGED learned,
         Callback(Disable(p)) \/ Callback(Revoke(p))
  PROVE  IInv'
<1>1. revision \in Nat /\ learned \in Nat
  BY DEF IInv, TablesTypeOK
<1>2. Good(Disable(p), revision, learned) /\ Good(Revoke(p), revision, learned)
  BY <1>1, DisableGood, RevokeEmpty, EmptyGood
<1> QED  BY <1>2, CallbackStep

LEMMA AcceptedBase ==
  ASSUME IInv, NEW c \in page.reloads, c.step = "snapshot",
         NEW q, q = Accepted(Without(c), c.reply.revision)
  PROVE  Base(q, revision, learned) /\ q.inside /\ ~q.revoked /\ ~q.disabled
<1> DEFINE p == Without(c)
           r == c.reply.revision
<1>1. /\ Base(p, revision, learned) /\ p \in Pages /\ p.inside /\ ~p.revoked
      /\ r \in Revisions /\ r <= revision /\ (r # NoRevision => r >= learned)
      /\ revision \in Nat /\ learned \in Nat
  BY WithoutIt, ReloadOf DEF Good, Base
<1> HIDE DEF p, r
<1>2. q = Accepted(p, r)
  BY DEF p, r
<1>3. CASE r < p.shown
  <2>1. q = p
    BY <1>2, <1>3 DEF Accepted
  <2>2. r \in Nat /\ p.shown # 0
    BY <1>1, <1>3 DEF Revisions, Pages
  <2>3. ~p.disabled
    BY <1>1, <2>2 DEF Base, NoRevision
  <2> QED  BY <1>1, <2>1, <2>3
<1>4. CASE ~(r < p.shown)
  <2> DEFINE k == p.skipped \/ (p.disabled /\ r < p.metadataCursor)
  <2>1. q = [p EXCEPT !.shown = r, !.disabled = FALSE, !.metadataCursor = r, !.skipped = k]
    BY <1>2, <1>4 DEF Accepted
  <2>a. k \in BOOLEAN
    OBVIOUS
  <2> HIDE DEF k
  <2>2. /\ q \in Pages /\ q.shown = r /\ q.extra = p.extra /\ q.stream = p.stream
        /\ q.inside = p.inside /\ q.revoked = p.revoked /\ q.disabled = FALSE
        /\ q.reloads = p.reloads
    BY <1>1, <2>1, <2>a DEF Pages, Revisions
  <2> QED  BY <1>1, <2>2 DEF Base
<1> QED  BY <1>3, <1>4

LEMMA TakeSteps ==
  ASSUME IInv, TakeSnapshot \/ TakeAuxiliary \/ ReturnVoid
  PROVE  IInv'
<1>1. CASE TakeSnapshot
  <2>1. PICK c \in page.reloads :
          /\ c.step = "snapshot"
          /\ \/ Callback(ReloadAuxiliary(Accepted(Without(c), c.reply.revision),
                                         c.caller, c.target))
             \/ Callback(Disable(Without(c)))
             \/ Callback(Revoke(Without(c)))
             \/ Callback(Returned(Without(c), c))
          /\ UNCHANGED learned
    BY <1>1 DEF TakeSnapshot
  <2>2. /\ Without(c) \in Pages /\ Good(Without(c), revision, learned)
        /\ Without(c).inside /\ ~Without(c).revoked
        /\ c \in Reloads /\ c.caller \in Callers /\ c.target \in Revisions
        /\ revision \in Nat /\ learned \in Nat
    BY <2>1, WithoutIt, ReloadOf
  <2>3. Good(Returned(Without(c), c), revision, learned)
    BY <2>2, ReturnedGood
  <2>4. Good(ReloadAuxiliary(Accepted(Without(c), c.reply.revision), c.caller, c.target),
             revision, learned)
    BY <2>1, <2>2, AcceptedBase, ReloadAuxiliaryGood
  <2> QED  BY <2>1, <2>2, <2>3, <2>4, CallbackStep, ClearSteps
<1>2. CASE TakeAuxiliary
  <2>1. PICK c \in page.reloads :
          /\ c.step = "auxiliary"
          /\ \/ Callback(Returned([Without(c) EXCEPT !.extra = c.reply.revision], c))
             \/ Callback(Disable(Without(c)))
             \/ Callback(Revoke(Without(c)))
          /\ UNCHANGED learned
    BY <1>2 DEF TakeAuxiliary
  <2> DEFINE p == Without(c)
             q == [p EXCEPT !.extra = c.reply.revision]
  <2>2. /\ p \in Pages /\ Base(p, revision, learned) /\ Fresh(p)
        /\ p.inside /\ ~p.revoked /\ ~p.disabled /\ p.shown = page.shown
        /\ c \in Reloads /\ c.reply.revision \in Revisions
        /\ revision \in Nat /\ learned \in Nat /\ Good(page, revision, learned)
    BY <2>1, WithoutIt, ReloadOf
  <2>3. /\ c.reply.revision # NoRevision => c.reply.revision >= learned
        /\ c.reply.revision # NoRevision => c.reply.revision >= p.shown
    BY <2>1, <2>2 DEF Good, Base, Fresh
  <2> HIDE DEF p
  <2>4. /\ q \in Pages /\ q.shown = p.shown /\ q.extra = c.reply.revision /\ q.stream = p.stream
        /\ q.inside = p.inside /\ q.revoked = p.revoked /\ q.disabled = p.disabled
        /\ q.reloads = p.reloads
    BY <2>2 DEF Pages, Revisions
  <2> HIDE DEF q
  <2>5. Base(q, revision, learned)
    BY <2>2, <2>3, <2>4 DEF Base
  <2>6. Fresh(q) /\ Followed(q)
    <3>1. q.shown \in Nat /\ q.extra \in Nat
      BY <2>4 DEF Pages
    <3> QED  BY <2>2, <2>3, <2>4, <3>1 DEF Fresh, Followed
  <2>7. Good(Returned(q, c), revision, learned)
    BY <2>2, <2>4, <2>5, <2>6, ReturnedGood DEF Good
  <2> QED  BY <2>1, <2>2, <2>7, CallbackStep, ClearSteps DEF p, q
<1>3. CASE ReturnVoid
  <2>1. PICK c \in page.reloads :
          c.step = "void" /\ Callback(Returned(Without(c), c)) /\ UNCHANGED learned
    BY <1>3 DEF ReturnVoid
  <2>2. /\ Good(Without(c), revision, learned) /\ c \in Reloads
        /\ c.caller # "connect" => Without(c).inside /\ ~Without(c).revoked
        /\ revision \in Nat /\ learned \in Nat
    BY <2>1, WithoutIt, ReloadOf
  <2>3. Good(Returned(Without(c), c), revision, learned)
    BY <2>2, ReturnedGood
  <2> QED  BY <2>1, <2>3, CallbackStep
<1> QED  BY <1>1, <1>2, <1>3

LEMMA TakeSaveStep ==
  ASSUME IInv, TakeSave
  PROVE  IInv'
<1>1. /\ page \in Pages /\ Good(page, revision, learned) /\ revision \in Nat /\ learned \in Nat
      /\ Heard(page.stream, revision) /\ 0 \in Revisions
  BY StreamAssumption DEF IInv, Good, Base, TablesTypeOK, Revisions
<1>2. /\ page.inside /\ ~page.revoked /\ UNCHANGED learned
  BY <1>1 DEF TakeSave, Good, Base, Away
<1>3. ASSUME NEW k \in Savings
      PROVE  LET q == [page EXCEPT !.saving = k]
             IN  Good(q, revision, learned) /\ q.inside /\ ~q.revoked
  <2> DEFINE q == [page EXCEPT !.saving = k]
  <2>1. Alike(q, page) /\ q.stream = page.stream /\ q.inside /\ ~q.revoked
    BY <1>1, <1>2 DEF Alike, Pages
  <2> HIDE DEF q
  <2>2. Good(q, revision, learned)
    BY <1>1, <1>2, <2>1, AlikeGood
  <2> QED  BY <2>1, <2>2 DEF q
<1>4. CASE Callback(Reload([page EXCEPT !.saving = "reload"], "save", 0))
  <2> DEFINE q == [page EXCEPT !.saving = "reload"]
  <2>1. Good(q, revision, learned) /\ q.inside /\ ~q.revoked
    BY <1>3 DEF Savings
  <2> HIDE DEF q
  <2>2. Good(Reload(q, "save", 0), revision, learned)
    BY <1>1, <2>1, ReloadGood DEF Callers
  <2> QED  BY <1>2, <1>4, <2>2, CallbackStep DEF q
<1>5. CASE Callback(Disable(page)) \/ Callback(Revoke(page))
  BY <1>1, <1>2, <1>5, ClearSteps
<1>6. CASE Callback([page EXCEPT !.saving = "idle"])
  <2>1. Good([page EXCEPT !.saving = "idle"], revision, learned)
    BY <1>3 DEF Savings
  <2> QED  BY <1>2, <1>6, <2>1, CallbackStep
<1> QED  BY <1>4, <1>5, <1>6 DEF TakeSave

LEMMA ReceiveStep ==
  ASSUME IInv, Receive
  PROVE  IInv'
<1> DEFINE s == page.stream
           m == Head(s.wire)
           rest == [s EXCEPT !.wire = Tail(s.wire)]
           q == [page EXCEPT !.stream = rest]
<1>1. /\ page \in Pages /\ Good(page, revision, learned) /\ revision \in Nat
      /\ learned \in 0 .. revision /\ Heard(s, revision) /\ s \in Streams
      /\ TablesTypeOK /\ moves \in 0 .. MaxMoves /\ faults \in 0 .. MaxFaults
  BY DEF IInv, Good, Base, TablesTypeOK, Heard
<1>2. /\ s.wire # <<>> /\ Callback(HandleEvent(q, m))
      /\ learned' = IF m.type = "reconnect" THEN Max({learned, m.revision}) ELSE learned
  BY DEF Receive
<1>3. s # Closed
  BY <1>2, ClosedStream
<1>4. page.inside /\ ~page.revoked
  BY <1>1, <1>3 DEF Good, Base, Away
<1>5. /\ s.wire \in Seq(Message) /\ Len(s.wire) \in Nat
      /\ \A i \in 1 .. Len(s.wire) : s.wire[i] \in Message /\ s.wire[i].revision <= revision
  BY <1>1, HeardTypes
<1>6. m \in Message /\ m.revision <= revision
  BY <1>2, <1>5
<1>7. /\ Tail(s.wire) \in Seq(Message)
      /\ \A i \in 1 .. Len(Tail(s.wire)) : Tail(s.wire)[i].revision <= revision
  BY <1>2, <1>5
<1>8. Heard(rest, revision)
  <2>1. rest \in Streams /\ rest.batch = s.batch /\ rest.wire = Tail(s.wire)
    BY <1>1, <1>7 DEF Streams
  <2> QED  BY <1>1, <1>7, <2>1 DEF Heard
<1> HIDE DEF rest, m
<1>9. Alike(q, page) /\ q.stream = rest
  BY <1>1, <1>8 DEF Alike, Pages, Heard
<1> HIDE DEF q, s
<1>10. Good(q, revision, learned) /\ q.inside /\ ~q.revoked
  <2>1. learned \in Nat
    BY <1>1
  <2>2. Good(q, revision, learned)
    BY <1>1, <1>4, <1>8, <1>9, <2>1, AlikeGood
  <2> QED  BY <1>4, <1>9, <2>2 DEF Alike
<1>11. learned' \in 0 .. revision
  <2>1. m.revision \in Nat
    BY <1>6 DEF Message
  <2> QED  BY <1>1, <1>2, <1>6, <2>1, MaxOfTwo
<1>12. Good(HandleEvent(q, m), revision, learned')
  <2>1. learned' \in Nat /\ learned \in Nat /\ (m.type # "reconnect" => learned' = learned)
    BY <1>1, <1>2, <1>11
  <2> QED  BY <1>1, <1>6, <1>10, <2>1, HandleEventGood
<1>13. page' = HandleEvent(q, m) /\ UNCHANGED <<tables, moves, faults>>
  BY <1>2 DEF Callback
<1>14. revision' = revision /\ TablesTypeOK'
  BY <1>1, <1>13 DEF tables, TablesTypeOK
<1> QED  BY <1>1, <1>11, <1>12, <1>13, <1>14 DEF IInv

LEMMA ReconnectSteps ==
  ASSUME IInv, StreamError \/ Reconnect
  PROVE  IInv'
<1>1. /\ page \in Pages /\ Good(page, revision, learned) /\ revision \in Nat /\ learned \in Nat
      /\ Heard(page.stream, revision) /\ Heard(Closed, revision) /\ page.timers \in Nat
  BY ClosedHeard DEF IInv, Good, Base, TablesTypeOK, Pages
<1>2. CASE StreamError
  <2> DEFINE later == page.timers + 1
             q == [page EXCEPT !.stream = Closed, !.timers = later]
  <2>1. Callback(q) /\ UNCHANGED learned /\ later \in Nat
    BY <1>1, <1>2 DEF StreamError
  <2> HIDE DEF later
  <2>2. Alike(q, page) /\ q.stream = Closed /\ q.saving = page.saving
    BY <1>1, <2>1, ClosedStream DEF Alike, Pages
  <2> HIDE DEF q
  <2>3. Good(q, revision, learned)
    BY <1>1, <2>2, AlikeGood
  <2> QED  BY <2>1, <2>3, CallbackStep
<1>3. CASE Reconnect
  <2> DEFINE fewer == page.timers - 1
             q == [page EXCEPT !.timers = fewer]
  <2>1. Callback(Connect(q)) /\ UNCHANGED learned /\ fewer \in Nat
    BY <1>1, <1>3 DEF Reconnect
  <2> HIDE DEF fewer
  <2>2. Alike(q, page) /\ q.stream = page.stream /\ q.saving = page.saving
    BY <1>1, <2>1 DEF Alike, Pages
  <2> HIDE DEF q
  <2>3. Good(Connect(q), revision, learned)
    BY <1>1, <2>2, AlikeGood, ConnectGood
  <2> QED  BY <2>1, <2>3, CallbackStep
<1> QED  BY <1>2, <1>3

LEMMA LoseReplyStep ==
  ASSUME IInv, LoseReply
  PROVE  IInv'
<1>1. /\ page \in Pages /\ Good(page, revision, learned) /\ revision \in Nat /\ learned \in Nat
      /\ Heard(page.stream, revision)
      /\ UNCHANGED <<tables, learned>> /\ moves' \in 0 .. MaxMoves /\ faults' \in 0 .. MaxFaults
  BY StoreAssumption DEF IInv, Good, Base, TablesTypeOK, LoseReply
<1> DEFINE a == Answer("lost", NoRevision)
<1>2. CASE \E c \in page.reloads :
             /\ c.step # "void"
             /\ page' = [page EXCEPT !.reloads = (@ \ {c}) \cup {[c EXCEPT !.reply = a]}]
  <2>1. a \in Reply /\ a.revision \in {NoRevision, revision}
    BY StreamAssumption DEF Answer, Reply, NoRevision
  <2> HIDE DEF a
  <2>2. Good(page', revision, learned)
    BY <1>2, <2>1, AnsweredGood
  <2> QED  BY <1>1, <2>2, PageStep
<1>3. CASE page.saving \in {"sent", "ok"} /\ page' = [page EXCEPT !.saving = "failed"]
  <2>1. page.inside /\ ~page.revoked
    BY <1>1, <1>3 DEF Good, Base, Away
  <2>2. Alike(page', page) /\ page'.stream = page.stream
    BY <1>1, <1>3 DEF Alike, Pages, Savings
  <2>3. Good(page', revision, learned)
    BY <1>1, <2>1, <2>2, AlikeGood
  <2> QED  BY <1>1, <2>3, PageStep
<1> QED  BY <1>2, <1>3 DEF LoseReply

LEMMA InvStep ==
  ASSUME IInv, [Next]_vars
  PROVE  IInv'
<1>1. CASE UNCHANGED vars
  <2>1. UNCHANGED <<tables, learned>> /\ page' = page /\ moves' = moves /\ faults' = faults
    BY <1>1 DEF vars
  <2>2. Good(page', revision, learned) /\ moves' \in 0 .. MaxMoves /\ faults' \in 0 .. MaxFaults
    BY <2>1 DEF IInv
  <2> QED  BY <2>1, <2>2, PageStep
<1> QED
  BY <1>1, OtherSteps, MoveSteps, AnswerSteps, StreamSteps, TakeSteps, TakeSaveStep,
     ReceiveStep, ReconnectSteps, LoseReplyStep DEF Next, System

LEMMA InvHolds == Spec => []IInv
BY InvInit, InvStep, PTL DEF Spec

(* Types of the tables, of the page with its reloads and of its stream.    *)
THEOREM StoreTypes == Spec => []TypeOK
<1>1. IInv => TypeOK
  <2>1. IInv => TablesTypeOK /\ page \in Pages /\ moves \in 0 .. MaxMoves /\ faults \in 0 .. MaxFaults
    BY DEF IInv, Good, Base
  <2>2. IInv => learned \in 0 .. MaxRevision
    BY StreamAssumption DEF IInv, TablesTypeOK
  <2> QED  BY <2>1, <2>2 DEF TypeOK
<1> QED  BY <1>1, InvHolds, PTL

(* Whatever a page shows was read after the last change of authorization   *)
(* it was told of, and a page that is closed, revoked or disabled shows    *)
(* nothing, however late the answers to earlier requests arrive (store.ts: *)
(* epoch, requestSequence, auxiliarySequence and the abort controller).    *)
THEOREM StoreShowsAuthorized == Spec => []ShowsWhatIsAuthorized
<1>1. IInv => ShowsWhatIsAuthorized
  BY DEF IInv, Good, Base, Away, ShowsWhatIsAuthorized, NothingShown
<1> QED  BY <1>1, InvHolds, PTL

(* At rest, what is shown beside the items is not older than the items     *)
(* (store.ts: a snapshot is followed by reloadAuxiliary).                  *)
THEOREM StoreExtrasFollow == Spec => []ExtrasAreNotOlder
<1>1. IInv => ExtrasAreNotOlder
  BY DEF IInv, Good, Base, Followed, ExtrasAreNotOlder, Pages
<1> QED  BY <1>1, InvHolds, PTL

-----------------------------------------------------------------------------
(* Where the page stands in the events.  It has dealt with those up to     *)
(* metadataCursor; a later one is still in sight, to be sent or on the     *)
(* wire, or a refresh is looking for it.                                   *)

Flowing(s) == s.state \in {"opening", "live"}

InSight(s, r) ==
  r > s.cursor \/ \E i \in DOMAIN s.wire : s.wire[i] = Say("change", r)

Sought(p, r) == p.refreshing /\ r <= p.invalidation

(* T: what has just been taken from the wire.                              *)
AheadBut(p, R, T) ==
  /\ p.metadataCursor <= R
  /\ p.shown = NoRevision \/ p.shown = p.metadataCursor
  /\ ~p.refreshing => p.invalidation <= p.shown
  /\ Flowing(p.stream) =>
       /\ p.stream.cursor <= R
       /\ \A i \in 1 .. Len(p.stream.batch) : p.stream.batch[i] = p.stream.cursor + i
       /\ ~p.skipped =>
            \A r \in Nat : p.metadataCursor < r /\ r <= R =>
              InSight(p.stream, r) \/ Sought(p, r) \/ r \in T

Ahead(p, R) == AheadBut(p, R, {})

(* Who refreshes has a request under way.                                  *)
Busy(p) == p.refreshing => \E c \in p.reloads : c.caller = "refresh"

(* An empty page that is not disabled accepts nothing older than its position. *)
Current(p) ==
  ~p.disabled /\ p.shown = NoRevision =>
    \A c \in p.reloads :
      c.step = "snapshot" /\ c.reply.kind = "ok" => c.reply.revision >= p.metadataCursor

Follows(p, R) == Ahead(p, R) /\ Busy(p) /\ Current(p)

(* As far along as p.                                                      *)
Abreast(q, p) ==
  /\ q.metadataCursor = p.metadataCursor /\ q.shown = p.shown
  /\ q.invalidation = p.invalidation /\ q.refreshing = p.refreshing
  /\ q.skipped = p.skipped /\ q.disabled = p.disabled /\ q.stream = p.stream

LEMMA AbreastAhead ==
  ASSUME NEW p, NEW q, NEW R, NEW T, AheadBut(p, R, T), Abreast(q, p)
  PROVE  AheadBut(q, R, T)
<1>1. \A r : Sought(q, r) <=> Sought(p, r)
  BY DEF Sought, Abreast
<1> QED  BY <1>1 DEF AheadBut, Abreast

LEMMA AbreastFollows ==
  ASSUME NEW p, NEW q, NEW R, Follows(p, R), Abreast(q, p), q.reloads = p.reloads
  PROVE  Follows(q, R)
<1>1. Ahead(q, R)
  BY AbreastAhead DEF Follows, Ahead
<1> QED  BY <1>1 DEF Follows, Busy, Current, Abreast

LEMMA PageTypes ==
  ASSUME NEW p \in Pages
  PROVE  /\ p.shown \in Nat /\ p.metadataCursor \in Nat /\ p.invalidation \in Nat
         /\ p.shown \in Revisions /\ p.metadataCursor \in Revisions
         /\ p.invalidation \in Revisions
         /\ p.refreshing \in BOOLEAN /\ p.disabled \in BOOLEAN /\ p.skipped \in BOOLEAN
         /\ p.reloads \subseteq Reloads /\ p.stream \in Streams
BY DEF Pages, Revisions

LEMMA NotFlowing ==
  /\ ~Flowing(Closed)
  /\ \A s, said : ~Flowing(Ended(s, said))
BY DEF Flowing, Closed, Ended

(* A page that has just been emptied.                                      *)
LEMMA EmptyFollows ==
  ASSUME NEW p, NEW R \in Nat, p.stream = Closed, p.shown = NoRevision,
         ~p.refreshing, p.invalidation = 0, p.metadataCursor \in 0 .. R,
         \A c \in p.reloads : c.step = "void"
  PROVE  Follows(p, R)
BY NotFlowing DEF Follows, Ahead, AheadBut, Busy, Current, NoRevision

LEMMA LeaveFields ==
  ASSUME NEW p \in Pages
  PROVE  /\ Leave(p).stream = Closed /\ Leave(p).shown = NoRevision
         /\ ~Leave(p).refreshing /\ Leave(p).invalidation = 0 /\ Leave(p).metadataCursor = 0
         /\ \A c \in Leave(p).reloads : c.step = "void"
<1>1. /\ Leave(p).stream = Closed /\ Leave(p).shown = NoRevision
      /\ Leave(p).refreshing = FALSE /\ Leave(p).invalidation = 0
      /\ Leave(p).metadataCursor = 0
  BY DEF Leave, Pages
<1>2. \A c \in Leave(p).reloads : c.step = "void"
  BY LeaveEmpty DEF Empty
<1> QED  BY <1>1, <1>2

LEMMA LeaveFollows ==
  ASSUME NEW p \in Pages, NEW R \in Nat
  PROVE  Follows(Leave(p), R)
BY LeaveFields, EmptyFollows

(* A page emptied at the revision "at".                                    *)
LEMMA RevokedFollows ==
  ASSUME NEW p \in Pages, NEW R \in Nat, NEW at \in Revisions, at <= R,
         NEW inside \in BOOLEAN, NEW disabled \in BOOLEAN,
         NEW q, q = [Revoke(p) EXCEPT !.inside = inside, !.revoked = FALSE,
                                      !.disabled = disabled, !.metadataCursor = at]
  PROVE  q \in Pages /\ Follows(q, R) /\ ~q.refreshing
<1> DEFINE l == Leave(p)
<1>1. /\ l \in Pages /\ l.stream = Closed /\ l.shown = NoRevision
      /\ ~l.refreshing /\ l.invalidation = 0
      /\ \A c \in l.reloads : c.step = "void"
  BY LeaveFields, LeaveEmpty DEF Empty
<1> HIDE DEF l
<1>2. q = [l EXCEPT !.inside = inside, !.revoked = FALSE, !.disabled = disabled,
                    !.metadataCursor = at]
  BY <1>1 DEF Revoke, Pages, l
<1>3. /\ q \in Pages /\ q.stream = l.stream /\ q.shown = l.shown
      /\ q.refreshing = l.refreshing /\ q.invalidation = l.invalidation
      /\ q.metadataCursor = at /\ q.reloads = l.reloads
  BY <1>1, <1>2 DEF Pages, Revisions
<1>4. at \in 0 .. R
  BY DEF Revisions
<1> QED  BY <1>1, <1>3, <1>4, EmptyFollows

LEMMA RevokeFollows ==
  ASSUME NEW p \in Pages, NEW R \in Nat
  PROVE  Follows(Revoke(p), R)
<1> DEFINE l == Leave(p)
           q == [l EXCEPT !.revoked = TRUE]
<1>1. l \in Pages /\ Follows(l, R)
  BY LeaveFollows, LeaveEmpty DEF Empty
<1> HIDE DEF l
<1>2. Abreast(q, l) /\ q.reloads = l.reloads
  BY <1>1 DEF Abreast, Pages
<1> HIDE DEF q
<1>3. Follows(q, R)
  BY <1>1, <1>2, AbreastFollows
<1> QED  BY <1>3 DEF Revoke, q, l

(* Subscribing at the position.                                            *)
LEMMA ConnectFollows ==
  ASSUME NEW p \in Pages, NEW R \in Nat, Follows(p, R)
  PROVE  Follows(Connect(p), R)
<1> SUFFICES ASSUME p.inside, ~p.revoked, p.stream = Closed  PROVE Follows(Connect(p), R)
  BY DEF Connect
<1> DEFINE cursor == Max({p.shown, p.metadataCursor})
           s == Opening(cursor)
           q == [p EXCEPT !.stream = s, !.skipped = FALSE]
<1>1. Connect(p) = q
  BY DEF Connect
<1>2. cursor = p.metadataCursor
  BY PageTypes, MaxOfTwo DEF Follows, Ahead, AheadBut, NoRevision
<1> HIDE DEF cursor
<1>3. s.cursor = cursor /\ s.batch = <<>>
  BY DEF Opening, Closed
<1> HIDE DEF s
<1>4. /\ q.metadataCursor = p.metadataCursor /\ q.shown = p.shown
      /\ q.invalidation = p.invalidation /\ q.refreshing = p.refreshing
      /\ q.disabled = p.disabled /\ q.stream = s /\ q.reloads = p.reloads
  BY DEF Pages
<1> HIDE DEF q
<1>5. \A r \in Nat : q.metadataCursor < r => InSight(q.stream, r)
  BY <1>2, <1>3, <1>4 DEF InSight
<1>6. Ahead(q, R)
  BY <1>2, <1>3, <1>4, <1>5 DEF Follows, Ahead, AheadBut
<1> QED  BY <1>1, <1>4, <1>6 DEF Follows, Busy, Current

LEMMA DisableFollows ==
  ASSUME NEW p \in Pages, NEW R \in Nat, p.shown <= R, p.metadataCursor <= R
  PROVE  Follows(Disable(p), R)
<1> DEFINE cursor == Max({p.metadataCursor, p.shown})
           q == [Revoke(p) EXCEPT !.inside = p.inside, !.revoked = FALSE, !.disabled = TRUE,
                                  !.metadataCursor = cursor]
<1>1. cursor \in Revisions /\ cursor <= R
  BY PageTypes, MaxOfTwo
<1>2. Disable(p) = Connect(q) /\ p.inside \in BOOLEAN
  BY DEF Disable, Pages
<1> HIDE DEF cursor
<1>3. q \in Pages /\ Follows(q, R)
  BY <1>1, <1>2, RevokedFollows
<1> HIDE DEF q
<1> QED  BY <1>2, <1>3, ConnectFollows

(* A new request, in place of some that are void by now.                   *)
LEMMA RequestFollows ==
  ASSUME NEW p \in Pages, NEW R \in Nat, Ahead(p, R), Current(p),
         NEW old, old \subseteq p.reloads,
         NEW request, request.reply = Pending, request.caller = "refresh" \/ Busy(p),
         NEW reloads, reloads = (p.reloads \ old) \cup {Void(c) : c \in old} \cup {request},
         NEW q, q = [p EXCEPT !.reloads = reloads]
  PROVE  Follows(q, R)
<1>1. Abreast(q, p) /\ q.reloads = reloads
  BY DEF Abreast, Pages
<1>2. \A c \in old : Void(c) \in reloads /\ Void(c).caller = c.caller /\ Void(c).step = "void"
  BY ReplyTypes, PageTypes
<1>3. Busy(q)
  <2>1. CASE request.caller = "refresh"
    BY <1>1, <2>1 DEF Busy
  <2>2. CASE Busy(p) /\ p.refreshing
    <3>1. PICK c \in p.reloads : c.caller = "refresh"
      BY <2>2 DEF Busy
    <3>2. c \in reloads \/ (Void(c) \in reloads /\ Void(c).caller = "refresh")
      BY <1>2, <3>1
    <3> QED  BY <1>1, <3>1, <3>2 DEF Busy
  <2>3. CASE ~p.refreshing
    BY <1>1, <2>3 DEF Busy, Abreast
  <2> QED  BY <2>1, <2>2, <2>3
<1>4. \A c \in reloads : c.step = "snapshot" /\ c.reply.kind = "ok" => c \in p.reloads
  <2>1. request.reply.kind # "ok"
    BY ReplyTypes
  <2> QED  BY <1>2, <2>1
<1>5. Current(q)
  BY <1>1, <1>4 DEF Current, Abreast
<1>6. Ahead(q, R)
  BY <1>1, AbreastAhead DEF Ahead
<1> QED  BY <1>3, <1>5, <1>6 DEF Follows

LEMMA ReloadFollows ==
  ASSUME NEW p \in Pages, NEW R \in Nat, Ahead(p, R), Current(p),
         NEW caller \in Callers, NEW target, caller = "refresh" \/ Busy(p)
  PROVE  Follows(Reload(p, caller, target), R)
<1> DEFINE aborted == {c \in p.reloads : c.step = "snapshot"}
           request == [caller |-> caller, target |-> target,
                       step |-> "snapshot", reply |-> Pending]
           reloads == (p.reloads \ aborted) \cup {Void(c) : c \in aborted} \cup {request}
<1>1. Reload(p, caller, target) = [p EXCEPT !.reloads = reloads]
  BY DEF Reload, Pages
<1>2. aborted \subseteq p.reloads /\ request.reply = Pending /\ request.caller = caller
  OBVIOUS
<1> HIDE DEF aborted, request
<1> QED  BY <1>1, <1>2, RequestFollows

LEMMA ReloadAuxiliaryFollows ==
  ASSUME NEW p \in Pages, NEW R \in Nat, Ahead(p, R), Current(p),
         NEW caller \in Callers, NEW target, caller = "refresh" \/ Busy(p)
  PROVE  Follows(ReloadAuxiliary(p, caller, target), R)
<1> DEFINE passed == {c \in p.reloads : c.step = "auxiliary"}
           request == [caller |-> caller, target |-> target,
                       step |-> "auxiliary", reply |-> Pending]
           reloads == (p.reloads \ passed) \cup {Void(c) : c \in passed} \cup {request}
<1>1. ReloadAuxiliary(p, caller, target) = [p EXCEPT !.reloads = reloads]
  BY DEF ReloadAuxiliary, Pages
<1>2. passed \subseteq p.reloads /\ request.reply = Pending /\ request.caller = caller
  OBVIOUS
<1> HIDE DEF passed, request
<1> QED  BY <1>1, <1>2, RequestFollows

(* A refresh that ends has shown what it was to look for, or the stream is *)
(* given up.                                                               *)
LEMMA CaughtUpFollows ==
  ASSUME NEW p \in Pages, NEW R \in Nat, Ahead(p, R), Current(p), NEW target \in Revisions
  PROVE  Follows(CaughtUp(p, target), R)
<1>a. target \in Nat
  BY DEF Revisions
<1>1. CASE p.shown < target
  <2> DEFINE later == p.timers + 1
             q == [p EXCEPT !.invalidation = p.shown, !.stream = Closed,
                            !.timers = later, !.refreshing = FALSE]
  <2>1. CaughtUp(p, target) = q
    BY <1>1 DEF CaughtUp
  <2> HIDE DEF later
  <2>2. /\ q.metadataCursor = p.metadataCursor /\ q.shown = p.shown
        /\ q.invalidation = p.shown /\ q.refreshing = FALSE
        /\ q.disabled = p.disabled /\ q.stream = Closed /\ q.reloads = p.reloads
    BY DEF Pages
  <2> HIDE DEF q
  <2> QED  BY <2>1, <2>2, PageTypes, NotFlowing DEF Follows, Ahead, AheadBut, Busy, Current
<1>2. CASE ~(p.shown < target) /\ (p.shown >= p.invalidation \/ p.invalidation = target)
  <2> DEFINE q == [p EXCEPT !.refreshing = FALSE]
  <2>1. CaughtUp(p, target) = q
    BY <1>2 DEF CaughtUp
  <2>2. /\ q.metadataCursor = p.metadataCursor /\ q.shown = p.shown
        /\ q.invalidation = p.invalidation /\ q.refreshing = FALSE /\ q.skipped = p.skipped
        /\ q.disabled = p.disabled /\ q.stream = p.stream /\ q.reloads = p.reloads
    BY DEF Pages
  <2> HIDE DEF q
  <2>3. p.invalidation <= p.shown
    BY <1>a, <1>2, PageTypes
  <2>4. \A r \in Nat : p.metadataCursor < r => ~Sought(p, r)
    BY <2>3, PageTypes DEF Sought, Ahead, AheadBut, NoRevision
  <2>5. Ahead(q, R)
    BY <2>2, <2>3, <2>4 DEF Ahead, AheadBut
  <2> QED  BY <2>1, <2>2, <2>5 DEF Follows, Busy, Current
<1>3. CASE ~(p.shown < target) /\ ~(p.shown >= p.invalidation \/ p.invalidation = target)
  <2>1. CaughtUp(p, target) = Reload(p, "refresh", p.invalidation)
    BY <1>3 DEF CaughtUp
  <2> QED  BY <2>1, ReloadFollows DEF Callers
<1> QED  BY <1>1, <1>2, <1>3

LEMMA ReturnedFollows ==
  ASSUME NEW p \in Pages, NEW R \in Nat, Ahead(p, R), Current(p),
         NEW c \in Reloads, c.caller = "refresh" \/ Busy(p)
  PROVE  Follows(Returned(p, c), R)
<1>1. CASE c.caller = "refresh"
  <2>1. c.target \in Revisions
    BY DEF Reloads, Revisions
  <2> QED  BY <1>1, <2>1, CaughtUpFollows DEF Returned
<1>2. CASE c.caller # "refresh"
  <2>1. Follows(p, R) /\ c.caller \in {"connect", "save", "button"}
    BY <1>2 DEF Follows, Reloads, Callers
  <2>2. CASE c.caller = "connect"
    BY <2>1, <2>2, ConnectFollows DEF Returned
  <2>3. CASE c.caller = "save"
    <3> DEFINE q == [p EXCEPT !.saving = "idle"]
    <3>1. Abreast(q, p) /\ q.reloads = p.reloads
      BY DEF Abreast, Pages
    <3>2. Returned(p, c) = q
      BY <2>3 DEF Returned
    <3> HIDE DEF q
    <3> QED  BY <2>1, <3>1, <3>2, AbreastFollows
  <2>4. CASE c.caller = "button"
    BY <2>1, <2>4 DEF Returned
  <2> QED  BY <2>1, <2>2, <2>3, <2>4
<1> QED  BY <1>1, <1>2

(* Whatever the snapshot: only a disabled page may accept an older one.    *)
LEMMA AcceptedFollows ==
  ASSUME NEW p \in Pages, NEW R \in Nat, Ahead(p, R), Current(p),
         NEW r \in Revisions, r <= R,
         ~p.disabled /\ p.shown = NoRevision => r >= p.metadataCursor
  PROVE  LET q == Accepted(p, r)
         IN  Ahead(q, R) /\ Current(q) /\ q.refreshing = p.refreshing /\ q.reloads = p.reloads
<1>1. CASE r < p.shown
  BY <1>1 DEF Accepted
<1>2. CASE ~(r < p.shown)
  <2> DEFINE k == p.skipped \/ (p.disabled /\ r < p.metadataCursor)
             q == [p EXCEPT !.shown = r, !.disabled = FALSE, !.metadataCursor = r, !.skipped = k]
  <2>1. Accepted(p, r) = q
    BY <1>2 DEF Accepted
  <2>a. r \in Nat
    BY DEF Revisions
  <2>2. ~k => ~p.skipped /\ r >= p.metadataCursor
    BY <1>2, <2>a, PageTypes DEF Ahead, AheadBut
  <2> HIDE DEF k
  <2>3. /\ q.metadataCursor = r /\ q.shown = r
        /\ q.invalidation = p.invalidation /\ q.refreshing = p.refreshing /\ q.skipped = k
        /\ q.disabled = FALSE /\ q.stream = p.stream /\ q.reloads = p.reloads
    BY DEF Pages
  <2> HIDE DEF q
  <2>4. ~q.refreshing => q.invalidation <= q.shown
    BY <1>2, <2>a, <2>3, PageTypes DEF Ahead, AheadBut
  <2>5. \A x \in Nat : q.metadataCursor < x /\ ~q.skipped => p.metadataCursor < x
    BY <2>a, <2>2, <2>3, PageTypes
  <2>6. \A x : Sought(q, x) <=> Sought(p, x)
    BY <2>3 DEF Sought
  <2>7. Ahead(q, R)
    BY <2>2, <2>3, <2>4, <2>5, <2>6 DEF Ahead, AheadBut
  <2>8. Current(q)
    <3> SUFFICES ASSUME q.shown = NoRevision, NEW c \in q.reloads, c.step = "snapshot",
                        c.reply.kind = "ok"
                 PROVE  c.reply.revision >= q.metadataCursor
      BY DEF Current
    <3>1. c.reply.revision \in Nat
      BY <2>3, PageTypes DEF Reloads, Reply
    <3> QED  BY <2>3, <3>1 DEF NoRevision
  <2> QED  BY <2>1, <2>3, <2>7, <2>8
<1> QED  BY <1>1, <1>2

(* m has been taken from the wire.                                         *)
LEMMA HandleEventFollows ==
  ASSUME NEW p \in Pages, NEW R \in Nat, NEW m \in Message, m.revision <= R,
         AheadBut(p, R, {m.revision}), Busy(p), Current(p),
         p.disabled => p.shown = NoRevision, p.shown <= R
  PROVE  Follows(HandleEvent(p, m), R)
<1>a. /\ m.revision \in Revisions /\ m.revision \in Nat
      /\ m.type \in {"change", "reconnect", "clear", "expired"}
  BY DEF Message, Revisions
<1>b. p.metadataCursor <= R
  BY DEF AheadBut
<1>1. CASE m.type = "clear"
  BY <1>1, RevokeFollows DEF HandleEvent
<1>2. CASE m.type = "reconnect"
  <2> DEFINE cursor == Max({p.metadataCursor, p.shown, m.revision})
             q == [Revoke(p) EXCEPT !.inside = TRUE, !.revoked = FALSE,
                                    !.metadataCursor = cursor]
  <2>1. HandleEvent(p, m) = Reload(q, "connect", 0)
    BY <1>2 DEF HandleEvent
  <2>2. cursor \in Revisions /\ cursor <= R
    BY <1>a, <1>b, PageTypes, MaxOfThree
  <2> HIDE DEF cursor
  <2>3. q = [Revoke(p) EXCEPT !.inside = TRUE, !.revoked = FALSE,
                              !.disabled = FALSE, !.metadataCursor = cursor]
    <3>1. Revoke(p) \in Pages /\ Revoke(p).disabled = FALSE
      <4>1. Leave(p) \in Pages /\ Leave(p).disabled = FALSE
        BY LeaveEmpty DEF Empty, Pages
      <4> HIDE DEF Leave
      <4> QED  BY <4>1 DEF Revoke, Pages
    <3> HIDE DEF Revoke
    <3> QED  BY <3>1 DEF Pages
  <2>4. q \in Pages /\ Follows(q, R)
    BY <2>2, <2>3, RevokedFollows
  <2> HIDE DEF q
  <2> QED  BY <2>1, <2>4, ReloadFollows DEF Follows, Callers
<1>3. CASE m.type = "expired"
  <2> DEFINE cursor == IF p.disabled THEN Max({p.metadataCursor, m.revision})
                                     ELSE p.metadataCursor
             q == [p EXCEPT !.stream = Closed, !.metadataCursor = cursor]
  <2>1. HandleEvent(p, m) = Reload(q, "connect", 0)
    BY <1>3 DEF HandleEvent
  <2>2. cursor \in Revisions /\ cursor <= R /\ (~p.disabled => cursor = p.metadataCursor)
    BY <1>a, <1>b, PageTypes, MaxOfTwo
  <2> HIDE DEF cursor
  <2>3. /\ q \in Pages /\ q.metadataCursor = cursor /\ q.shown = p.shown
        /\ q.invalidation = p.invalidation /\ q.refreshing = p.refreshing
        /\ q.disabled = p.disabled /\ q.stream = Closed /\ q.reloads = p.reloads
    BY <2>2, ClosedStream DEF Pages, Revisions
  <2> HIDE DEF q
  <2>4. Ahead(q, R) /\ Busy(q) /\ Current(q)
    BY <2>2, <2>3, NotFlowing DEF Ahead, AheadBut, Busy, Current
  <2> QED  BY <2>1, <2>3, <2>4, ReloadFollows DEF Callers
<1>4. CASE m.type = "change" /\ p.disabled
  <2> DEFINE cursor == Max({p.metadataCursor, m.revision})
             q == [p EXCEPT !.metadataCursor = cursor]
  <2>1. HandleEvent(p, m) = q
    BY <1>4 DEF HandleEvent
  <2>2. /\ cursor \in Revisions /\ cursor <= R
        /\ cursor >= p.metadataCursor /\ cursor >= m.revision
    BY <1>a, <1>b, PageTypes, MaxOfTwo
  <2> HIDE DEF cursor
  <2>3. /\ q.metadataCursor = cursor /\ q.shown = p.shown
        /\ q.invalidation = p.invalidation /\ q.refreshing = p.refreshing
        /\ q.skipped = p.skipped /\ q.disabled = p.disabled /\ q.stream = p.stream
        /\ q.reloads = p.reloads
    BY DEF Pages
  <2> HIDE DEF q
  <2>4. \A r \in Nat : q.metadataCursor < r => p.metadataCursor < r /\ r # m.revision
    BY <1>a, <2>2, <2>3, PageTypes DEF Revisions
  <2>5. \A r : Sought(q, r) <=> Sought(p, r)
    BY <2>3 DEF Sought
  <2>6. Ahead(q, R)
    BY <1>4, <2>2, <2>3, <2>4, <2>5 DEF Ahead, AheadBut
  <2> QED  BY <1>4, <2>1, <2>3, <2>6 DEF Follows, Busy, Current
<1>5. CASE /\ m.type = "change" /\ ~p.disabled
           /\ m.revision <= p.shown \/ m.revision <= p.invalidation
  <2>1. HandleEvent(p, m) = p
    BY <1>5 DEF HandleEvent
  <2>2. p.metadataCursor < m.revision => Sought(p, m.revision)
    BY <1>a, <1>5, PageTypes DEF Sought, AheadBut, NoRevision
  <2>3. Ahead(p, R)
    BY <2>2 DEF Ahead, AheadBut
  <2> QED  BY <2>1, <2>3 DEF Follows
<1>6. CASE /\ m.type = "change" /\ ~p.disabled
           /\ ~(m.revision <= p.shown \/ m.revision <= p.invalidation)
  <2> DEFINE q == [p EXCEPT !.invalidation = m.revision, !.refreshing = TRUE]
  <2>1. /\ q \in Pages /\ q.metadataCursor = p.metadataCursor /\ q.shown = p.shown
        /\ q.invalidation = m.revision /\ q.refreshing = TRUE
        /\ q.skipped = p.skipped /\ q.disabled = p.disabled /\ q.stream = p.stream
        /\ q.reloads = p.reloads
    BY <1>a DEF Pages, Revisions
  <2>2. /\ p.refreshing => HandleEvent(p, m) = q
        /\ ~p.refreshing => HandleEvent(p, m) = Reload(q, "refresh", m.revision)
    <3>1. p.refreshing => HandleEvent(p, m) = [p EXCEPT !.invalidation = m.revision]
      BY <1>6 DEF HandleEvent
    <3>2. p.refreshing => q = [p EXCEPT !.invalidation = m.revision]
      BY PageTypes DEF Pages
    <3>3. ~p.refreshing => HandleEvent(p, m) = Reload(q, "refresh", m.revision)
      BY <1>6 DEF HandleEvent
    <3> QED  BY <3>1, <3>2, <3>3
  <2> HIDE DEF q
  <2>3. \A r \in Nat : Sought(p, r) \/ r \in {m.revision} => Sought(q, r)
    BY <1>a, <1>6, <2>1, PageTypes DEF Sought
  <2>4. Ahead(q, R)
    BY <2>1, <2>3 DEF Ahead, AheadBut
  <2>5. Current(q) /\ (p.refreshing => Busy(q))
    BY <2>1 DEF Current, Busy
  <2>6. ~p.refreshing => Follows(Reload(q, "refresh", m.revision), R)
    BY <2>1, <2>4, <2>5, ReloadFollows DEF Callers
  <2> QED  BY <2>2, <2>4, <2>5, <2>6 DEF Follows
<1> QED  BY <1>a, <1>1, <1>2, <1>3, <1>4, <1>5, <1>6

(* What a stream becomes: what was in sight over it still is.              *)
Carries(s, t, R) ==
  Flowing(t) =>
    /\ Flowing(s) /\ t.cursor <= R
    /\ \A i \in 1 .. Len(t.batch) : t.batch[i] = t.cursor + i
    /\ \A r \in Nat : r <= R /\ InSight(s, r) => InSight(t, r)

LEMMA ReadingCarries ==
  ASSUME TablesTypeOK, NEW s, Heard(s, revision), Flowing(s), ~Expired(s.cursor),
         NEW a \in Roles,
         NEW t, t = [s EXCEPT !.state = "live", !.role = a, !.batch = Replayed(s.cursor)]
  PROVE  Carries(s, t, revision)
<1> DEFINE last == IF s.cursor + BatchLimit < revision THEN s.cursor + BatchLimit ELSE revision
           n == last - s.cursor
<1>1. /\ n \in Nat /\ revision \in Nat /\ s.cursor \in Nat /\ s.cursor <= revision
      /\ s \in Streams
  BY StreamAssumption DEF Expired, TablesTypeOK, Heard, Streams
<1>2. /\ t.cursor = s.cursor /\ t.wire = s.wire /\ t.batch = Replayed(s.cursor)
  BY <1>1 DEF Streams
<1>3. Replayed(s.cursor) = [i \in 1 .. n |-> s.cursor + i]
  BY DEF Replayed
<1> HIDE DEF n
<1>4. Len(t.batch) = n /\ \A i \in 1 .. n : t.batch[i] = t.cursor + i
  BY <1>1, <1>2, <1>3
<1> QED  BY <1>1, <1>2, <1>4 DEF Carries, InSight

LEMMA SubscribedCarries ==
  ASSUME TablesTypeOK, NEW s, Heard(s, revision), s.state = "opening"
  PROVE  Carries(s, Subscribed(s), revision)
<1>1. role \in Roles /\ Flowing(s)
  BY DEF TablesTypeOK, Flowing
<1>2. ~Expired(s.cursor) => Carries(s, [s EXCEPT !.state = "live", !.role = role,
                                               !.batch = Replayed(s.cursor)], revision)
  BY <1>1, ReadingCarries
<1>3. \A said : Carries(s, Ended(s, said), revision)
  BY NotFlowing DEF Carries
<1> QED  BY <1>2, <1>3 DEF Subscribed, ExpiredStream

LEMMA PolledCarries ==
  ASSUME TablesTypeOK, NEW s, Heard(s, revision), s.state = "live"
  PROVE  Carries(s, Polled(s), revision)
<1>1. s \in Streams /\ s.role \in Roles /\ Flowing(s)
  BY DEF Heard, Streams, Flowing
<1>2. [s EXCEPT !.batch = Replayed(s.cursor)]
        = [s EXCEPT !.state = "live", !.role = s.role, !.batch = Replayed(s.cursor)]
  BY <1>1 DEF Streams
<1>3. ~Expired(s.cursor) => Carries(s, [s EXCEPT !.batch = Replayed(s.cursor)], revision)
  BY <1>1, <1>2, ReadingCarries
<1>4. \A said : Carries(s, Ended(s, said), revision)
  BY NotFlowing DEF Carries
<1> QED  BY <1>3, <1>4 DEF Polled, ExpiredStream

(* A batch without a change of authorization goes on the wire as it is.    *)
LEMMA DeliveredCarries ==
  ASSUME TablesTypeOK, NEW s, Heard(s, revision), s.state = "live", s.cursor <= revision,
         \A i \in 1 .. Len(s.batch) : s.batch[i] = s.cursor + i
  PROVE  Carries(s, Delivered(s), revision)
<1> DEFINE changes == SelectInSeq(s.batch, LAMBDA r : r \in guarded)
           b == s.batch
           said == [i \in DOMAIN b |-> Say("change", b[i])]
           cursor == IF b = <<>> THEN s.cursor ELSE Last(b)
           wire == s.wire \o said
           t == [s EXCEPT !.batch = <<>>, !.cursor = cursor, !.wire = wire]
<1>1. /\ revision \in Nat /\ s \in Streams /\ s.cursor \in Nat /\ Flowing(s)
      /\ b \in Seq(1 .. MaxRevision) /\ Len(b) \in Nat /\ DOMAIN b = 1 .. Len(b)
      /\ s.wire \in Seq(Message) /\ Len(s.wire) \in Nat /\ DOMAIN s.wire = 1 .. Len(s.wire)
      /\ \A i \in 1 .. Len(b) : b[i] <= revision
  BY HeardTypes DEF TablesTypeOK, Heard, Streams, Flowing
<1>2. \/ \E m : Delivered(s) = Ended(s, m)
      \/ Delivered(s) = t
  <2>1. CASE ~Readable \/ role # s.role
    BY <2>1 DEF Delivered
  <2>2. CASE ~(~Readable \/ role # s.role) /\ changes # 0
    BY <2>2 DEF Delivered
  <2>3. CASE ~(~Readable \/ role # s.role) /\ changes = 0
    BY <2>3 DEF Delivered
  <2> QED  BY <2>1, <2>2, <2>3
<1> HIDE DEF changes, said, cursor, wire
<1>3. /\ said \in Seq(Message) /\ Len(said) = Len(b)
      /\ \A i \in 1 .. Len(b) : said[i] = Say("change", b[i])
  <2>1. said \in Seq(Message)
    BY <1>1, SaidHeard DEF said
  <2>2. DOMAIN said = 1 .. Len(b) /\ \A i \in 1 .. Len(b) : said[i] = Say("change", b[i])
    BY <1>1 DEF said
  <2> QED  BY <1>1, <2>1, <2>2
<1> DEFINE w == s.wire
<1>a. w \in Seq(Message) /\ Len(w) \in Nat /\ DOMAIN w = 1 .. Len(w) /\ wire = w \o said
  BY <1>1 DEF wire
<1> HIDE DEF w
<1>4. /\ DOMAIN wire = 1 .. Len(w) + Len(b)
      /\ \A i \in 1 .. Len(w) : wire[i] = w[i]
      /\ \A i \in 1 .. Len(b) : wire[Len(w) + i] = said[i]
  <2>1. /\ wire \in Seq(Message) /\ Len(wire) = Len(w) + Len(b)
        /\ \A i \in 1 .. Len(w) + Len(b) :
             wire[i] = IF i <= Len(w) THEN w[i] ELSE said[i - Len(w)]
    <3>1. w \in Seq(Message) /\ said \in Seq(Message)
      BY <1>3, <1>a
    <3>2. /\ w \o said \in Seq(Message) /\ Len(w \o said) = Len(w) + Len(said)
          /\ \A i \in 1 .. Len(w) + Len(said) :
               (w \o said)[i] = IF i <= Len(w) THEN w[i] ELSE said[i - Len(w)]
      BY <3>1, ConcatProperties, Zenon
    <3> QED  BY <1>3, <1>a, <3>2, Zenon
  <2>2. \A i \in 1 .. Len(w) : wire[i] = w[i]
    BY <1>1, <1>a, <2>1
  <2>3. ASSUME NEW i \in 1 .. Len(b)
        PROVE  wire[Len(w) + i] = said[i]
    <3>1. /\ Len(w) + i \in 1 .. Len(w) + Len(b) /\ ~(Len(w) + i <= Len(w))
          /\ (Len(w) + i) - Len(w) = i
      BY <1>1, <1>a
    <3> QED  BY <2>1, <3>1
  <2> QED  BY <2>1, <2>2, <2>3
<1>5. cursor = s.cursor + Len(b) /\ cursor <= revision /\ cursor \in Nat
  <2>1. CASE b = <<>>
    BY <1>1, <2>1 DEF cursor
  <2>2. CASE b # <<>>
    <3>1. Len(b) \in 1 .. Len(b) /\ cursor = b[Len(b)]
      BY <1>1, <2>2 DEF cursor, Last
    <3> QED  BY <1>1, <3>1
  <2> QED  BY <2>1, <2>2
<1>6. t.cursor = cursor /\ t.batch = <<>> /\ t.wire = wire
  BY <1>1 DEF Streams
<1> HIDE DEF t
<1>7. ASSUME NEW r \in Nat, InSight(s, r)
      PROVE  InSight(t, r)
  <2>1. CASE r > cursor
    BY <1>6, <2>1 DEF InSight
  <2>2. CASE r > s.cursor /\ ~(r > cursor)
    <3> DEFINE i == r - s.cursor
               j == Len(w) + i
    <3>1. i \in 1 .. Len(b) /\ b[i] = r
      BY <1>1, <1>5, <2>2
    <3> HIDE DEF i, Say
    <3>2. j \in DOMAIN wire
      BY <1>1, <1>4, <1>a, <3>1
    <3>3. wire[j] = Say("change", r)
      BY <1>3, <1>4, <3>1
    <3> QED  BY <1>6, <3>2, <3>3 DEF InSight
  <2>3. CASE \E i \in DOMAIN s.wire : s.wire[i] = Say("change", r)
    <3>1. PICK i \in DOMAIN s.wire : s.wire[i] = Say("change", r)
      BY <2>3
    <3>2. i \in 1 .. Len(w) /\ w[i] = Say("change", r)
      BY <1>a, <3>1 DEF w
    <3>3. i \in DOMAIN wire
      BY <1>1, <1>4, <1>a, <3>2
    <3>4. wire[i] = Say("change", r)
      BY <1>4, <3>2
    <3> QED  BY <1>6, <3>3, <3>4 DEF InSight
  <2> QED  BY <2>1, <2>2, <2>3, <1>7 DEF InSight
<1>8. Carries(s, t, revision)
  BY <1>1, <1>5, <1>6, <1>7 DEF Carries
<1>9. \A m : Carries(s, Ended(s, m), revision)
  BY NotFlowing DEF Carries
<1> QED  BY <1>2, <1>8, <1>9 DEF t

-----------------------------------------------------------------------------
(* Steps                                                                   *)

FInv == IInv /\ Follows(page, revision)

LEMMA FollowsNow ==
  ASSUME FInv
  PROVE  /\ TablesTypeOK /\ revision \in Nat /\ page \in Pages
         /\ Ahead(page, revision) /\ Busy(page) /\ Current(page)
         /\ Heard(page.stream, revision) /\ page.stream \in Streams
         /\ page.shown <= revision /\ page.metadataCursor <= revision
         /\ page.disabled => page.shown = NoRevision
         /\ \A c \in page.reloads : c \in Reloads /\ c.reply.revision <= revision
BY DEF FInv, IInv, TablesTypeOK, Good, Base, Heard, Follows, Ahead, AheadBut, Pages

(* New revisions are above every cursor.                                   *)
LEMMA TablesFollow ==
  ASSUME FInv, NEW S \in Nat, revision <= S, NEW q, Abreast(q, page), q.reloads = page.reloads
  PROVE  Follows(q, S)
<1>1. page.stream.cursor \in Nat /\ revision \in Nat /\ page \in Pages
  BY FollowsNow DEF Streams
<1>2. ASSUME NEW r \in Nat, Flowing(page.stream), r <= S
      PROVE  r <= revision \/ InSight(page.stream, r)
  BY <1>1, <1>2, FollowsNow DEF Ahead, AheadBut, InSight
<1>3. Ahead(page, S)
  BY <1>1, <1>2, FollowsNow, PageTypes DEF Ahead, AheadBut, Streams
<1>4. Follows(page, S)
  BY <1>3, FollowsNow DEF Follows
<1> QED  BY <1>4, AbreastFollows

LEMMA InitFollows ==
  ASSUME Init
  PROVE  FInv
<1>1. IInv
  BY InvInit
<1>2. /\ page.stream = Closed /\ page.shown = NoRevision /\ ~page.refreshing
      /\ page.invalidation = 0 /\ page.metadataCursor = 0 /\ page.reloads = {}
      /\ revision = 1
  BY DEF Init, TablesInit
<1>3. Follows(page, revision)
  BY <1>2, EmptyFollows
<1> QED  BY <1>1, <1>3 DEF FInv

LEMMA OthersFollow ==
  ASSUME FInv, Others
  PROVE  Follows(page', revision')
<1>1. page' = page /\ revision' \in Nat /\ revision <= revision'
  BY TableSteps, FollowsNow DEF Others
<1>2. Abreast(page, page)
  BY DEF Abreast
<1> QED  BY <1>1, <1>2, TablesFollow

LEMMA MovesFollow ==
  ASSUME FInv, Enter \/ LeavePage \/ Refresh \/ Save
  PROVE  Follows(page', revision')
<1>1. revision' = revision /\ page \in Pages /\ revision \in Nat
  BY FollowsNow DEF Enter, LeavePage, Refresh, Save, Move, tables
<1>2. CASE Enter
  <2> DEFINE l == Leave(page)
             q == [l EXCEPT !.inside = TRUE, !.revoked = FALSE]
  <2>1. l \in Pages /\ Follows(l, revision)
    BY <1>1, LeaveFollows, LeaveEmpty DEF Empty
  <2>2. page' = Reload(q, "connect", 0)
    BY <1>2 DEF Enter
  <2> HIDE DEF l
  <2>3. q \in Pages /\ Abreast(q, l) /\ q.reloads = l.reloads
    BY <2>1 DEF Abreast, Pages
  <2> HIDE DEF q
  <2>4. Follows(q, revision)
    BY <2>1, <2>3, AbreastFollows
  <2> QED  BY <1>1, <2>2, <2>3, <2>4, ReloadFollows DEF Follows, Callers
<1>3. CASE LeavePage
  BY <1>1, <1>3, LeaveFollows DEF LeavePage
<1>4. CASE Refresh
  BY <1>1, <1>4, FollowsNow, ReloadFollows, ReloadAuxiliaryFollows DEF Refresh, Callers
<1>5. CASE Save
  <2>1. page' = [page EXCEPT !.saving = "sent"]
    BY <1>5 DEF Save
  <2>2. Abreast(page', page) /\ page'.reloads = page.reloads
    BY <1>1, <2>1 DEF Abreast, Pages
  <2> QED  BY <1>1, <2>2, TablesFollow
<1> QED  BY <1>2, <1>3, <1>4, <1>5

(* An answer that is here: "ok" is of the present revision.                *)
LEMMA AnsweredFollows ==
  ASSUME FInv, NEW c \in page.reloads, NEW a \in Reply,
         a.kind = "ok" => a.revision = revision,
         page' = [page EXCEPT !.reloads = (@ \ {c}) \cup {[c EXCEPT !.reply = a]}]
  PROVE  Follows(page', revision)
<1> DEFINE d == [c EXCEPT !.reply = a]
           reloads == (page.reloads \ {c}) \cup {d}
<1>1. c \in Reloads /\ page \in Pages
  BY FollowsNow
<1>2. d.caller = c.caller /\ d.reply = a
  BY <1>1 DEF Reloads
<1>3. page' = [page EXCEPT !.reloads = reloads]
  BY <1>1 DEF Pages
<1>4. /\ \A e \in reloads : e \in page.reloads \/ e = d
      /\ d \in reloads /\ \A e \in page.reloads : e # c => e \in reloads
  OBVIOUS
<1> HIDE DEF d, reloads
<1>5. Abreast(page', page) /\ page'.reloads = reloads
  BY <1>1, <1>3 DEF Abreast, Pages
<1>6. Busy(page')
  BY <1>2, <1>4, <1>5, FollowsNow DEF Busy, Abreast
<1>7. a.kind = "ok" => a.revision >= page.metadataCursor
  BY <1>1, FollowsNow, PageTypes
<1>8. Current(page')
  BY <1>2, <1>4, <1>5, <1>7, FollowsNow DEF Current, Abreast
<1>9. Ahead(page', revision)
  BY <1>5, FollowsNow, AbreastAhead DEF Ahead
<1> QED  BY <1>6, <1>8, <1>9 DEF Follows

LEMMA AnswersFollow ==
  ASSUME FInv, AnswerReload \/ AnswerSave \/ LoseReply
  PROVE  Follows(page', revision')
<1>1. CASE AnswerReload
  <2>1. PICK c \in page.reloads :
          page' = [page EXCEPT !.reloads = (@ \ {c}) \cup {[c EXCEPT !.reply = Snapshot]}]
    BY <1>1 DEF AnswerReload
  <2>2. Snapshot \in Reply /\ (Snapshot.kind = "ok" => Snapshot.revision = revision)
    BY StreamAssumption, FollowsNow DEF TablesTypeOK, Snapshot, Answer, Reply, NoRevision
  <2>3. revision' = revision
    BY <1>1 DEF AnswerReload, tables
  <2> QED  BY <2>1, <2>2, <2>3, AnsweredFollows
<1>2. CASE /\ UNCHANGED tables
           /\ \E c \in page.reloads :
                page' = [page EXCEPT !.reloads =
                          (@ \ {c}) \cup {[c EXCEPT !.reply = Answer("lost", NoRevision)]}]
  <2> DEFINE a == Answer("lost", NoRevision)
  <2>1. a \in Reply /\ a.kind # "ok"
    BY StreamAssumption DEF Answer, Reply, NoRevision
  <2> HIDE DEF a
  <2>2. Follows(page', revision)
    BY <1>2, <2>1, AnsweredFollows DEF a
  <2> QED  BY <1>2, <2>2 DEF tables
<1>3. CASE /\ Change \/ UNCHANGED tables
           /\ \E k \in Savings : page' = [page EXCEPT !.saving = k]
  <2>1. Abreast(page', page) /\ page'.reloads = page.reloads
    BY <1>3, FollowsNow DEF Abreast, Pages
  <2>2. revision' \in Nat /\ revision <= revision'
    BY <1>3, TableSteps, FollowsNow
  <2> QED  BY <2>1, <2>2, TablesFollow
<1>4. AnswerSave \/ LoseReply =>
        \/ AnswerReload
        \/ /\ UNCHANGED tables
           /\ \E c \in page.reloads :
                page' = [page EXCEPT !.reloads =
                          (@ \ {c}) \cup {[c EXCEPT !.reply = Answer("lost", NoRevision)]}]
        \/ /\ Change \/ UNCHANGED tables
           /\ \E k \in Savings : page' = [page EXCEPT !.saving = k]
  BY DEF AnswerSave, LoseReply, Savings
<1> QED  BY <1>1, <1>2, <1>3, <1>4

LEMMA StreamsFollow ==
  ASSUME FInv, Subscribe \/ Deliver \/ Poll \/ BreakStream
  PROVE  Follows(page', revision')
<1>1. PICK s : Stream(s) /\ Carries(page.stream, s, revision)
  <2>1. Subscribe => Stream(Subscribed(page.stream)) /\ page.stream.state = "opening"
    BY DEF Subscribe
  <2>2. Poll => Stream(Polled(page.stream)) /\ page.stream.state = "live"
    BY DEF Poll
  <2>3. Deliver => Stream(Delivered(page.stream)) /\ page.stream.state = "live"
    BY DEF Deliver
  <2>4. BreakStream => Stream(Ended(Closed, <<>>))
    BY DEF BreakStream
  <2>5. Subscribe => Carries(page.stream, Subscribed(page.stream), revision)
    BY <2>1, FollowsNow, SubscribedCarries
  <2>6. Poll => Carries(page.stream, Polled(page.stream), revision)
    BY <2>2, FollowsNow, PolledCarries
  <2>7. Deliver => Carries(page.stream, Delivered(page.stream), revision)
    <3>1. page.stream.state = "live" =>
            /\ page.stream.cursor <= revision
            /\ \A i \in 1 .. Len(page.stream.batch) :
                 page.stream.batch[i] = page.stream.cursor + i
      BY FollowsNow DEF Ahead, AheadBut, Flowing
    <3> QED  BY <2>3, <3>1, FollowsNow, DeliveredCarries
  <2>8. Carries(page.stream, Ended(Closed, <<>>), revision)
    BY NotFlowing DEF Carries
  <2> QED  BY <2>1, <2>2, <2>3, <2>4, <2>5, <2>6, <2>7, <2>8
<1>2. revision' = revision /\ page' = [page EXCEPT !.stream = s] /\ page \in Pages
  BY <1>1, FollowsNow DEF Stream, tables
<1>3. /\ page'.metadataCursor = page.metadataCursor /\ page'.shown = page.shown
      /\ page'.invalidation = page.invalidation /\ page'.refreshing = page.refreshing
      /\ page'.skipped = page.skipped /\ page'.disabled = page.disabled
      /\ page'.reloads = page.reloads /\ page'.stream = s
  BY <1>2 DEF Pages
<1>4. \A r : Sought(page', r) <=> Sought(page, r)
  BY <1>3 DEF Sought
<1>5. Ahead(page', revision)
  BY <1>1, <1>3, <1>4, FollowsNow DEF Ahead, AheadBut, Carries
<1> QED  BY <1>2, <1>3, <1>5, FollowsNow DEF Follows, Busy, Current

LEMMA WithoutFollows ==
  ASSUME FInv, NEW c \in page.reloads
  PROVE  /\ Without(c) \in Pages /\ Ahead(Without(c), revision) /\ Current(Without(c))
         /\ c.caller = "refresh" \/ Busy(Without(c))
         /\ Without(c).shown <= revision /\ Without(c).metadataCursor <= revision
         /\ Without(c).disabled = page.disabled /\ Without(c).shown = page.shown
         /\ Without(c).metadataCursor = page.metadataCursor
<1> DEFINE q == Without(c)
<1>1. q \in Pages /\ Abreast(q, page) /\ q.reloads = page.reloads \ {c}
  BY FollowsNow DEF Without, Abreast, Pages
<1> HIDE DEF q
<1>2. Ahead(q, revision)
  BY <1>1, FollowsNow, AbreastAhead DEF Ahead
<1>3. Current(q)
  BY <1>1, FollowsNow DEF Current, Abreast
<1>4. c.caller = "refresh" \/ Busy(q)
  BY <1>1, FollowsNow DEF Busy, Abreast
<1> QED  BY <1>1, <1>2, <1>3, <1>4, FollowsNow DEF Abreast, q

LEMMA TakesFollow ==
  ASSUME FInv, TakeSnapshot \/ TakeAuxiliary \/ ReturnVoid
  PROVE  Follows(page', revision')
<1>1. revision' = revision /\ revision \in Nat
  BY FollowsNow DEF TakeSnapshot, TakeAuxiliary, ReturnVoid, Callback, tables
<1>2. PICK c \in page.reloads :
        \/ /\ c.step = "snapshot" /\ c.reply.kind = "ok"
           /\ page' = ReloadAuxiliary(Accepted(Without(c), c.reply.revision), c.caller, c.target)
        \/ page' = Disable(Without(c))
        \/ page' = Revoke(Without(c))
        \/ page' = Returned(Without(c), c)
        \/ page' = Returned([Without(c) EXCEPT !.extra = c.reply.revision], c)
  BY DEF TakeSnapshot, TakeAuxiliary, ReturnVoid, Callback
<1> DEFINE p == Without(c)
<1>3. /\ p \in Pages /\ Ahead(p, revision) /\ Current(p)
      /\ c.caller = "refresh" \/ Busy(p)
      /\ p.shown <= revision /\ p.metadataCursor <= revision
      /\ p.disabled = page.disabled /\ p.shown = page.shown
      /\ p.metadataCursor = page.metadataCursor
      /\ c \in Reloads /\ c.reply.revision <= revision
      /\ c.caller \in Callers /\ c.reply.revision \in Revisions
  BY WithoutFollows, FollowsNow DEF Reloads, Reply, Revisions
<1> HIDE DEF p
<1>4. CASE /\ c.step = "snapshot" /\ c.reply.kind = "ok"
           /\ page' = ReloadAuxiliary(Accepted(p, c.reply.revision), c.caller, c.target)
  <2> DEFINE q == Accepted(p, c.reply.revision)
  <2>1. ~p.disabled /\ p.shown = NoRevision => c.reply.revision >= p.metadataCursor
    BY <1>3, <1>4, FollowsNow DEF Current
  <2>2. /\ Ahead(q, revision) /\ Current(q)
        /\ q.refreshing = p.refreshing /\ q.reloads = p.reloads
    BY <1>1, <1>3, <2>1, AcceptedFollows
  <2>3. q \in Pages
    BY <1>4, AcceptedBase DEF FInv, Base, p
  <2> HIDE DEF q
  <2>4. c.caller = "refresh" \/ Busy(q)
    BY <1>3, <2>2 DEF Busy
  <2>5. Follows(ReloadAuxiliary(q, c.caller, c.target), revision)
    BY <1>1, <1>3, <2>2, <2>3, <2>4, ReloadAuxiliaryFollows
  <2> QED  BY <1>1, <1>4, <2>5 DEF q
<1>5. CASE page' = Disable(p)
  BY <1>1, <1>3, <1>5, DisableFollows
<1>6. CASE page' = Revoke(p)
  BY <1>1, <1>3, <1>6, RevokeFollows
<1>7. CASE page' = Returned(p, c)
  BY <1>1, <1>3, <1>7, ReturnedFollows
<1>8. CASE page' = Returned([p EXCEPT !.extra = c.reply.revision], c)
  <2> DEFINE q == [p EXCEPT !.extra = c.reply.revision]
  <2>1. q \in Pages /\ Abreast(q, p) /\ q.reloads = p.reloads
    BY <1>3 DEF Abreast, Pages, Revisions
  <2> HIDE DEF q
  <2>2. Ahead(q, revision) /\ Current(q) /\ (Busy(p) => Busy(q))
    BY <1>3, <2>1, AbreastAhead DEF Ahead, Current, Busy, Abreast
  <2>3. Follows(Returned(q, c), revision)
    BY <1>1, <1>3, <2>1, <2>2, ReturnedFollows
  <2> QED  BY <1>1, <1>8, <2>3 DEF q
<1> QED  BY <1>2, <1>4, <1>5, <1>6, <1>7, <1>8 DEF p

LEMMA TakeSaveFollows ==
  ASSUME FInv, TakeSave
  PROVE  Follows(page', revision')
<1>1. revision' = revision /\ revision \in Nat /\ page \in Pages
  BY FollowsNow DEF TakeSave, Callback, tables
<1>2. \/ page' = Reload([page EXCEPT !.saving = "reload"], "save", 0)
      \/ page' = Disable(page) \/ page' = Revoke(page)
      \/ page' = [page EXCEPT !.saving = "idle"]
  BY DEF TakeSave, Callback
<1>3. ASSUME NEW k \in Savings
      PROVE  LET q == [page EXCEPT !.saving = k] IN q \in Pages /\ Follows(q, revision)
  <2> DEFINE q == [page EXCEPT !.saving = k]
  <2>1. q \in Pages /\ Abreast(q, page) /\ q.reloads = page.reloads
    BY <1>1 DEF Abreast, Pages
  <2> HIDE DEF q
  <2>2. Follows(q, revision)
    BY <1>1, <2>1, TablesFollow
  <2> QED  BY <2>1, <2>2 DEF q
<1>4. CASE page' = Reload([page EXCEPT !.saving = "reload"], "save", 0)
  <2> DEFINE q == [page EXCEPT !.saving = "reload"]
  <2>1. q \in Pages /\ Follows(q, revision)
    BY <1>3 DEF Savings
  <2> HIDE DEF q
  <2>2. Follows(Reload(q, "save", 0), revision)
    BY <1>1, <2>1, ReloadFollows DEF Follows, Callers
  <2> QED  BY <1>1, <1>4, <2>2 DEF q
<1>5. CASE page' = Disable(page) \/ page' = Revoke(page)
  BY <1>1, <1>5, DisableFollows, RevokeFollows, FollowsNow
<1>6. CASE page' = [page EXCEPT !.saving = "idle"]
  BY <1>1, <1>3, <1>6 DEF Savings
<1> QED  BY <1>2, <1>4, <1>5, <1>6

LEMMA ReceiveFollows ==
  ASSUME FInv, Receive
  PROVE  Follows(page', revision')
<1> DEFINE s == page.stream
           m == Head(s.wire)
           rest == [s EXCEPT !.wire = Tail(s.wire)]
           q == [page EXCEPT !.stream = rest]
<1>1. /\ revision' = revision /\ revision \in Nat /\ page \in Pages /\ s \in Streams
      /\ s.wire # <<>> /\ page' = HandleEvent(q, m)
  BY FollowsNow DEF Receive, Callback, tables
<1>2. /\ s.wire \in Seq(Message) /\ Len(s.wire) \in Nat /\ DOMAIN s.wire = 1 .. Len(s.wire)
      /\ \A i \in 1 .. Len(s.wire) : s.wire[i] \in Message /\ s.wire[i].revision <= revision
  BY FollowsNow, HeardTypes
<1>3. m \in Message /\ m.revision <= revision /\ m = s.wire[1]
  BY <1>1, <1>2
<1>a. Tail(s.wire) \in Seq(Message)
  BY <1>1, <1>2
<1>4. /\ rest.wire = Tail(s.wire) /\ rest.cursor = s.cursor /\ rest.batch = s.batch
      /\ rest.state = s.state /\ rest \in Streams
  BY <1>1, <1>a DEF Streams
<1>5. ASSUME NEW r \in Nat, InSight(s, r)
      PROVE  InSight(rest, r) \/ r = m.revision
  <2>1. CASE r > s.cursor
    BY <1>4, <2>1 DEF InSight
  <2>2. CASE \E i \in DOMAIN s.wire : s.wire[i] = Say("change", r)
    <3>1. PICK i \in 1 .. Len(s.wire) : s.wire[i] = Say("change", r)
      BY <1>2, <2>2
    <3>2. CASE i = 1
      BY <1>3, <3>1, <3>2 DEF Say
    <3>3. CASE i # 1
      <4> DEFINE j == i - 1
      <4>1. j \in DOMAIN Tail(s.wire) /\ Tail(s.wire)[j] = s.wire[i]
        BY <1>1, <1>2, <3>3
      <4> QED  BY <1>4, <3>1, <4>1 DEF InSight
    <3> QED  BY <3>2, <3>3
  <2> QED  BY <1>5, <2>1, <2>2 DEF InSight
<1> HIDE DEF rest, m
<1>6. /\ q \in Pages /\ q.stream = rest /\ q.reloads = page.reloads
      /\ q.metadataCursor = page.metadataCursor /\ q.shown = page.shown
      /\ q.invalidation = page.invalidation /\ q.refreshing = page.refreshing
      /\ q.skipped = page.skipped /\ q.disabled = page.disabled
  BY <1>1, <1>4 DEF Pages
<1> HIDE DEF q
<1>7. \A r : Sought(q, r) <=> Sought(page, r)
  BY <1>6 DEF Sought
<1>8. Flowing(rest) <=> Flowing(s)
  BY <1>4 DEF Flowing
<1>9. AheadBut(q, revision, {m.revision})
  BY <1>4, <1>5, <1>6, <1>7, <1>8, FollowsNow DEF Ahead, AheadBut
<1>10. Busy(q) /\ Current(q)
  BY <1>6, FollowsNow DEF Busy, Current
<1>11. q.shown <= revision /\ (q.disabled => q.shown = NoRevision)
  BY <1>6, FollowsNow
<1> QED  BY <1>1, <1>3, <1>6, <1>9, <1>10, <1>11, HandleEventFollows

LEMMA ReconnectsFollow ==
  ASSUME FInv, StreamError \/ Reconnect
  PROVE  Follows(page', revision')
<1>1. revision' = revision /\ revision \in Nat /\ page \in Pages /\ page.timers \in Nat
  BY FollowsNow DEF StreamError, Reconnect, Callback, tables, Pages
<1>2. CASE StreamError
  <2> DEFINE later == page.timers + 1
  <2>1. page' = [page EXCEPT !.stream = Closed, !.timers = later]
    BY <1>2 DEF StreamError, Callback
  <2> HIDE DEF later
  <2>2. /\ page'.metadataCursor = page.metadataCursor /\ page'.shown = page.shown
        /\ page'.invalidation = page.invalidation /\ page'.refreshing = page.refreshing
        /\ page'.skipped = page.skipped /\ page'.disabled = page.disabled
        /\ page'.stream = Closed /\ page'.reloads = page.reloads
    BY <1>1, <2>1 DEF Pages
  <2>3. Ahead(page', revision)
    BY <2>2, FollowsNow, NotFlowing DEF Ahead, AheadBut
  <2> QED  BY <1>1, <2>2, <2>3, FollowsNow DEF Follows, Busy, Current
<1>3. CASE Reconnect
  <2> DEFINE fewer == page.timers - 1
             q == [page EXCEPT !.timers = fewer]
  <2>1. page' = Connect(q) /\ fewer \in Nat
    BY <1>1, <1>3 DEF Reconnect, Callback
  <2> HIDE DEF fewer
  <2>2. q \in Pages /\ Abreast(q, page) /\ q.reloads = page.reloads
    BY <1>1, <2>1 DEF Abreast, Pages
  <2> HIDE DEF q
  <2>3. Follows(q, revision)
    BY <1>1, <2>2, TablesFollow
  <2> QED  BY <1>1, <2>1, <2>2, <2>3, ConnectFollows
<1> QED  BY <1>2, <1>3

LEMMA FollowsStep ==
  ASSUME FInv, [Next]_vars
  PROVE  FInv'
<1>1. IInv'
  BY InvStep DEF FInv
<1>2. CASE UNCHANGED vars
  <2>1. page' = page /\ revision' = revision
    BY <1>2 DEF vars, tables
  <2> QED  BY <1>1, <2>1 DEF FInv
<1>3. CASE Next
  <2>1. Follows(page', revision')
    BY <1>3, OthersFollow, MovesFollow, AnswersFollow, StreamsFollow, TakesFollow,
       TakeSaveFollows, ReceiveFollows, ReconnectsFollow DEF Next, System
  <2> QED  BY <1>1, <2>1 DEF FInv
<1> QED  BY <1>2, <1>3

(* Nothing is lost between a snapshot and the events of the open stream:   *)
(* every revision above what is shown is still to come or a refresh is     *)
(* looking for it (store.ts: connect, reload, handleEvent; events.go: the  *)
(* replays and the split at a change of authorization).                    *)
THEOREM StoreSkipsNothing == Spec => []NothingIsSkipped
<1>1. FInv => NothingIsSkipped
  <2> SUFFICES ASSUME FInv, page.stream.state \in {"opening", "live"},
                      page.shown # NoRevision, ~page.skipped,
                      NEW r \in page.shown + 1 .. revision
               PROVE  \/ StillToCome(r)
                      \/ r <= page.invalidation /\ \E c \in page.reloads : c.caller = "refresh"
    BY DEF NothingIsSkipped
  <2>1. page.shown \in Nat /\ revision \in Nat /\ page.shown = page.metadataCursor
    BY FollowsNow, PageTypes DEF Ahead, AheadBut
  <2>2. r \in Nat /\ page.metadataCursor < r /\ r <= revision
    BY <2>1
  <2>3. InSight(page.stream, r) \/ Sought(page, r)
    BY <2>2, FollowsNow DEF Ahead, AheadBut, Flowing
  <2> QED  BY <2>3, FollowsNow DEF InSight, StillToCome, Sought, Busy
<1>2. Spec => []FInv
  BY InitFollows, FollowsStep, PTL DEF Spec
<1> QED  BY <1>1, <1>2, PTL
=============================================================================
