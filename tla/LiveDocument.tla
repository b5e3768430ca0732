---------------------------- MODULE LiveDocument ----------------------------
(***************************************************************************)
(* apps/live: one collaborative document, its page in the database, and    *)
(* the browsers that edit it.                                              *)
(*                                                                         *)
(* The server keeps a shared document in memory and two maps by the name   *)
(* of the document, persisted and invalidated.  Requests to the API may    *)
(* also change the page, so the server compares what it reads with what it *)
(* knows to be stored; every await lets something else happen.  One action *)
(* is what runs between two awaits, or one transaction of the API.         *)
(*                                                                         *)
(* A content is a set of pieces, as merging CRDTs unites them.  Hocuspocus *)
(* is external: it debounces stores, one at a time, and unloads a document *)
(* that has no connection and nothing to store.                            *)
(*                                                                         *)
(* A definition whose comment begins with "Slip" is no part of the model.  *)
(***************************************************************************)
EXTENDS Naturals, FiniteSets

CONSTANTS Clients,     \* browser tabs, each with its session
          None,
          MaxPieces,   \* bound: edits
          MaxMoves     \* bound: what people do besides editing, and lost requests

ASSUME LiveAssumption == MaxPieces \in Nat /\ MaxMoves \in Nat

VARIABLES page,        \* the row of pages
          editors,     \* clients whose session may read and edit the page
          doc,         \* the document in memory, or None
          persisted,   \* persisted.get(name)
          invalidated, \* invalidated.has(name)
          loading,     \* what onLoadDocument has read, or None
          due,         \* a store is debounced
          store,       \* onStoreDocument
          last,        \* lastContext: who edited last
          check,       \* accessCheck: what revalidate has read, or None
          late,        \* a document whose unloading is tried a second time
          client,      \* client[c]: its connection and its own document
          sync,        \* sync[c]: beforeSync for a message of c, or None
          pieces,      \* edits so far
          moves        \* moves so far

memory == <<doc, persisted, invalidated>>
storing == <<due, store, last>>
counters == <<pieces, moves>>
vars == <<page, editors, memory, loading, storing, check, late, client, sync, counters>>

(* The first piece, one for every edit, and that of a replacement.         *)
Contents == SUBSET (0 .. MaxPieces + 1)

(* No store is under way; failed is the end of the last one.  A store asks *)
(* candidates, writer first, and those in left are still to be asked; able *)
(* is history: the candidates who could edit all the time since it began.  *)
Quiet == [pc |-> "none", left |-> {}, able |-> {}, uncertain |-> FALSE,
          writer |-> None, version |-> 0, content |-> {}, failed |-> FALSE]

Documents == [id : {0, 1}, content : Contents, conns : SUBSET Clients]

Snapshots == [version : Nat, content : Contents]

Conns == IF doc = None THEN {} ELSE doc.conns

ASSUME NoneAssumption == None \notin Documents \cup Snapshots \cup {0, 1}

(* Also: a client is on while the document has its connection.             *)
TypeOK ==
  /\ page \in [version : Nat, content : Contents, open : BOOLEAN]
  /\ editors \subseteq Clients
  /\ doc \in Documents \cup {None}
  /\ persisted \in Snapshots \cup {None} /\ loading \in Snapshots \cup {None}
  /\ invalidated \in BOOLEAN /\ due \in BOOLEAN
  /\ store \in [pc : {"none", "asking", "asked", "put", "stored"},
               left : SUBSET Clients, able : SUBSET Clients, uncertain : BOOLEAN,
               writer : Clients \cup {None}, version : Nat, content : Contents,
               failed : BOOLEAN]
  /\ late \in {None, 0, 1} /\ last \in Clients \cup {None}
  /\ client \in [Clients -> [is : {"away", "waiting", "on"}, content : Contents]]
  /\ pieces \in 0 .. MaxPieces
  /\ \A c \in Clients :
       /\ client[c].is = "on" <=> c \in Conns
       /\ sync[c] # None => client[c].is = "on"

Init ==
  /\ page = [version |-> 1, content |-> {0}, open |-> TRUE]
  /\ editors = Clients
  /\ doc = None /\ persisted = None /\ invalidated = FALSE
  /\ loading = None /\ due = FALSE /\ store = Quiet /\ last = None
  /\ check = None /\ late = None
  /\ client = [c \in Clients |-> [is |-> "away", content |-> {}]]
  /\ sync = [c \in Clients |-> None]
  /\ pieces = 0 /\ moves = 0

-----------------------------------------------------------------------------
(* The API: other requests for the page                                    *)

Move ==
  /\ moves < MaxMoves
  /\ moves' = moves + 1
  /\ UNCHANGED pieces

Live == <<memory, loading, storing, check, late, client, sync>>

(* update with a content and no binary, by whoever saw this version.       *)
Replace ==
  /\ Move
  /\ page.open
  /\ page' = [page EXCEPT !.version = @ + 1, !.content = {MaxPieces + 1}]
  /\ UNCHANGED <<editors, Live>>

(* restore: the first version.                                             *)
Restore ==
  /\ Move
  /\ page.open
  /\ page' = [page EXCEPT !.version = @ + 1, !.content = {0}]
  /\ UNCHANGED <<editors, Live>>

(* update of the name, and of the lock by an administrator.                *)
UpdateMetadata ==
  /\ Move
  /\ \E open \in BOOLEAN : page' = [page EXCEPT !.version = @ + 1, !.open = open]
  /\ UNCHANGED <<editors, Live>>

(* A session ends, a membership changes.                                   *)
ChangeAccess(c) ==
  /\ Move
  /\ editors' = IF c \in editors THEN editors \ {c} ELSE editors \cup {c}
  /\ store' = [store EXCEPT !.able = @ \cap editors']
  /\ UNCHANGED <<page, memory, loading, due, last, check, late, client, sync>>

-----------------------------------------------------------------------------
(* The server's helpers                                                    *)

(* snapshot and replaced.                                                  *)
Snapshot(p) == [version |-> p.version, content |-> p.content]

(* What revalidate reads for the connections cs: the page, if any of them  *)
(* may see it.                                                             *)
Answers(cs) == [page    |-> IF cs \cap editors = {} THEN None ELSE Snapshot(page),
                refused |-> cs \ editors]

Replaced(p) ==
  /\ persisted # None
  /\ p.version > persisted.version
  /\ p.content # persisted.content

(* The connections cs are closed, those in told begin a new document, and  *)
(* the others' messages are where waits says.                              *)
Close(cs, told, waits) ==
  /\ doc' = IF doc = None THEN None ELSE [doc EXCEPT !.conns = @ \ cs]
  /\ client' = [c \in Clients |->
       [is      |-> IF c \in cs THEN "away" ELSE client[c].is,
        content |-> IF c \in told THEN {} ELSE client[c].content]]
  /\ sync' = [c \in Clients |-> IF c \in cs THEN None ELSE waits[c]]

(* Slip: the connections stay open.                                        *)
InvalidateQuietly(id) == invalidated' = TRUE /\ UNCHANGED <<doc, client, sync>>

(* invalidate, called for the document id: all connections of that name    *)
(* are closed, but only the document's own are told.                       *)
Invalidate(id) ==
  /\ invalidated' = TRUE
  /\ IF invalidated THEN UNCHANGED <<doc, client, sync>>
     ELSE Close(Conns, IF doc # None /\ doc.id = id THEN Conns ELSE {}, sync)

(* Slip: only the access is looked at.                                     *)
RevalidatedAccess(id, answer, askers, waits) ==
  LET own == IF doc # None /\ doc.id = id THEN Conns ELSE {}
  IN  /\ UNCHANGED invalidated
      /\ Close((own \cap answer.refused) \cup (IF invalidated THEN askers ELSE {}), {}, waits)

(* revalidate of the document id has its answers: connections without      *)
(* access are closed, all that the document or its successor has if an     *)
(* answer shows that the page was replaced, and those of askers, whose     *)
(* messages are refused, if it had been.                                   *)
Revalidated(id, answer, askers, waits) ==
  LET own  == IF doc # None /\ doc.id = id THEN Conns ELSE {}
      gone == own \cap answer.refused
      hit  == answer.page # None /\ Replaced(answer.page) /\ ~invalidated
      cs   == IF hit THEN Conns ELSE IF invalidated THEN gone \cup askers ELSE gone
  IN  /\ invalidated' = (invalidated \/ hit)
      /\ Close(cs, IF hit THEN own \ gone ELSE {}, waits)

-----------------------------------------------------------------------------
(* Connections                                                             *)

(* onAuthenticate, which waits a second for an invalidated document.       *)
Connect(c) ==
  /\ client[c].is = "away" /\ ~invalidated
  /\ c \in editors
  /\ client' = [client EXCEPT ![c].is = "waiting"]
  /\ UNCHANGED <<page, editors, memory, loading, storing, check, late, sync, counters>>

(* onLoadDocument asks for the content ...                                 *)
StartLoad(c) ==
  /\ client[c].is = "waiting"
  /\ doc = None /\ loading = None
  /\ IF c \in editors THEN loading' = Snapshot(page) /\ UNCHANGED client
     ELSE client' = [client EXCEPT ![c].is = "away"] /\ UNCHANGED loading
  /\ UNCHANGED <<page, editors, memory, storing, check, late, sync, counters>>

(* ... and makes a document of it, another one than was unloaded last.     *)
FinishLoad ==
  /\ loading # None
  /\ doc' = [id |-> IF late = 0 THEN 1 ELSE 0, content |-> loading.content, conns |-> {}]
  /\ persisted' = loading
  /\ loading' = None
  /\ UNCHANGED <<page, editors, invalidated, storing, check, late, client, sync, counters>>

(* beforeSync begins with revalidate.                                      *)
Validating(type, cs) == [type |-> type, step |-> "validate", answer |-> Answers(cs)]

(* The client joins the document and sends its first message.              *)
Attach(c) ==
  /\ client[c].is = "waiting" /\ doc # None
  /\ doc' = [doc EXCEPT !.conns = @ \cup {c}]
  /\ client' = [client EXCEPT ![c].is = "on"]
  /\ sync' = [sync EXCEPT ![c] = Validating("join", Conns \cup {c})]
  /\ UNCHANGED <<page, editors, persisted, invalidated, loading, storing, check, late,
                 counters>>

(* The tab is closed, or the network fails and the tab keeps its document. *)
Leave(c) ==
  /\ Move
  /\ client[c].is = "on"
  /\ \E told \in {{}, {c}} : Close({c}, told, sync)
  /\ UNCHANGED <<page, editors, persisted, invalidated, loading, storing, check, late>>

-----------------------------------------------------------------------------
(* Edits                                                                   *)

Edit(c) ==
  /\ client[c].is = "on" /\ sync[c] = None
  /\ client[c].content = doc.content
  /\ pieces < MaxPieces
  /\ pieces' = pieces + 1
  /\ client' = [client EXCEPT ![c].content = @ \cup {pieces + 1}]
  /\ sync' = [sync EXCEPT ![c] = Validating("edit", Conns)]
  /\ UNCHANGED <<page, editors, memory, loading, storing, check, late, moves>>

(* beforeSync after revalidate: the client's own answer is asked for.      *)
Validated(c) ==
  /\ sync[c] # None /\ sync[c].step = "validate"
  /\ Revalidated(doc.id, sync[c].answer, {c},
                 [sync EXCEPT ![c].step = "read",
                              ![c].answer = [may |-> c \in editors, open |-> page.open]])
  /\ UNCHANGED <<page, editors, persisted, loading, storing, check, late, counters>>

(* The message is applied, and everyone has it; or it is refused.  What a  *)
(* joining client has besides is ignored if it may not write.              *)
Applied(c) ==
  LET open   == sync[c].answer.open
      merged == IF open THEN doc.content \cup client[c].content ELSE doc.content
  IN  /\ sync[c] # None /\ sync[c].step = "read"
      /\ IF sync[c].answer.may /\ (open \/ sync[c].type = "join")
         THEN /\ doc' = [doc EXCEPT !.content = merged]
              /\ client' = [d \in Clients |->
                   IF d \in Conns THEN [client[d] EXCEPT !.content = @ \cup merged]
                                  ELSE client[d]]
              /\ sync' = [sync EXCEPT ![c] = None]
              /\ IF merged = doc.content THEN UNCHANGED <<due, last>>
                 ELSE due' = TRUE /\ last' = c
         ELSE Close({c}, {}, sync) /\ UNCHANGED <<due, last>>
      /\ UNCHANGED <<page, editors, persisted, invalidated, loading, store, check, late,
                     counters>>

(* accessCheck, every five seconds.                                        *)
StartCheck ==
  /\ check = None /\ Conns # {}
  /\ check' = [on |-> doc.id, answer |-> Answers(doc.conns)]
  /\ UNCHANGED <<page, editors, memory, loading, storing, late, client, sync, counters>>

FinishCheck ==
  /\ check # None
  /\ Revalidated(check.on, check.answer, {}, sync)
  /\ check' = None
  /\ UNCHANGED <<page, editors, persisted, loading, storing, late, counters>>

-----------------------------------------------------------------------------
(* onStoreDocument                                                         *)

(* A request fails, or its reply is lost.                                  *)
Fault == Move

Candidates == ({last} \ {None}) \cup Conns

Others == <<page, editors, loading, check, late>>

(* The store is over, in an error or not.                                  *)
StoreEnds(failed) == store' = [Quiet EXCEPT !.failed = failed]

(* The debounced call: nothing for an invalidated document; else the       *)
(* candidates are those who are there now.                                 *)
StartStore ==
  /\ due /\ store.pc = "none" /\ doc # None
  /\ due' = FALSE
  /\ store' = IF invalidated THEN Quiet
              ELSE [Quiet EXCEPT !.pc = "asking", !.left = Candidates, !.writer = last,
                                 !.able = Candidates \cap editors]
  /\ UNCHANGED <<memory, client, sync, last, Others, counters>>

MayWrite(c) == page.open /\ c \in editors

(* lastContext is asked first.                                             *)
NextCandidate(c) ==
  /\ store.pc = "asking" /\ c \in store.left
  /\ store.writer \in store.left => c = store.writer

(* The page, as the candidate c sees it who may write it.                  *)
Accepted(c) ==
  /\ MayWrite(c)
  /\ store' = [Quiet EXCEPT !.pc = "asked", !.writer = c, !.version = page.version,
                            !.content = page.content]

(* Slip: a request that fails is taken for a refusal.                      *)
AskedInGoodFaith(c) ==
  /\ NextCandidate(c)
  /\ \/ Accepted(c) /\ UNCHANGED counters
     \/ /\ ~MayWrite(c)
        /\ store' = [store EXCEPT !.left = @ \ {c}]
        /\ UNCHANGED counters
     \/ Fault /\ store' = [store EXCEPT !.left = @ \ {c}]
  /\ UNCHANGED <<memory, due, client, sync, last, Others>>

(* One candidate after the other is asked until one may write.  A request  *)
(* that fails tells nothing of the candidate.                              *)
AskCandidate(c) ==
  /\ NextCandidate(c)
  /\ \/ Accepted(c) /\ UNCHANGED counters
     \/ /\ ~MayWrite(c)
        /\ store' = [store EXCEPT !.left = @ \ {c}]
        /\ UNCHANGED counters
     \/ Fault /\ store' = [store EXCEPT !.left = @ \ {c}, !.uncertain = TRUE]
  /\ UNCHANGED <<memory, due, client, sync, last, Others>>

(* Slip: without a candidate the call just ends.                           *)
RefuseStoreGivesUp ==
  /\ store.pc = "asking" /\ store.left = {}
  /\ StoreEnds(store.uncertain)
  /\ UNCHANGED <<memory, due, client, sync, last, Others, counters>>

(* The last answer has come, and no candidate may write: the store fails   *)
(* if that is not known of each, or else the document is invalidated,      *)
(* whoever has come meanwhile.                                             *)
RefuseStore ==
  /\ store.pc = "asking" /\ store.left = {}
  /\ StoreEnds(store.uncertain)
  /\ IF store.uncertain THEN UNCHANGED <<invalidated, doc, client, sync>>
     ELSE Invalidate(doc.id)
  /\ UNCHANGED <<persisted, due, last, Others, counters>>

(* The answer is compared, and the document encoded and sent.              *)
SendStore ==
  /\ store.pc = "asked"
  /\ IF Replaced(store)
     THEN Invalidate(doc.id) /\ StoreEnds(FALSE)
     ELSE /\ store' = [store EXCEPT !.pc = "put", !.content = doc.content]
          /\ UNCHANGED <<invalidated, doc, client, sync>>
  /\ UNCHANGED <<persisted, due, last, Others, counters>>

(* Slip: the version is not checked.                                       *)
UpdateUnchecked ==
  /\ store.pc = "put"
  /\ IF page.open /\ store.writer \in editors
     THEN /\ page' = [page EXCEPT !.version = @ + 1, !.content = store.content]
          /\ store' = [store EXCEPT !.pc = "stored", !.version = page.version + 1]
     ELSE StoreEnds(TRUE) /\ UNCHANGED page
  /\ UNCHANGED <<editors, memory, loading, due, last, check, late, client, sync, counters>>

(* update: the version, the lock and the access are checked again.         *)
Update ==
  /\ store.pc = "put"
  /\ \/ /\ store.version = page.version /\ page.open /\ store.writer \in editors
        /\ page' = [page EXCEPT !.version = @ + 1, !.content = store.content]
        /\ store' = [store EXCEPT !.pc = "stored", !.version = @ + 1]
        /\ UNCHANGED counters
     \/ /\ ~(store.version = page.version /\ page.open /\ store.writer \in editors)
        /\ StoreEnds(TRUE) /\ UNCHANGED <<page, counters>>
     \/ /\ Fault /\ StoreEnds(TRUE) /\ UNCHANGED page
  /\ UNCHANGED <<editors, memory, loading, due, last, check, late, client, sync>>

(* The reply arrives, or it is lost.                                       *)
FinishStore ==
  /\ store.pc = "stored"
  /\ \/ /\ persisted' = Snapshot(store)
        /\ StoreEnds(FALSE) /\ UNCHANGED counters
     \/ /\ Fault /\ StoreEnds(TRUE) /\ UNCHANGED persisted
  /\ UNCHANGED <<doc, invalidated, due, last, client, sync, Others>>

-----------------------------------------------------------------------------
(* Unloading                                                               *)

(* What Hocuspocus deletes by name, and afterUnloadDocument.               *)
Unloaded ==
  /\ doc' = None /\ persisted' = None /\ invalidated' = FALSE

(* Nobody is connected, nothing is to be stored.                           *)
Unload ==
  /\ doc # None /\ doc.conns = {} /\ ~due /\ store.pc = "none"
  /\ Unloaded
  /\ late' = doc.id /\ last' = None /\ store' = Quiet
  /\ UNCHANGED <<page, editors, loading, due, check, client, sync, counters>>

(* beforeUnloadDocument.                                                   *)
MayUnload(id) == doc # None /\ doc.id = id

(* A delayed cleanup of a document that was unloaded.                      *)
UnloadLate ==
  /\ late # None
  /\ late' = None
  /\ IF MayUnload(late) THEN Unloaded ELSE UNCHANGED memory
  /\ UNCHANGED <<page, editors, loading, storing, check, client, sync, counters>>

-----------------------------------------------------------------------------
Check == StartCheck \/ FinishCheck

Store ==
  \/ StartStore \/ RefuseStore \/ SendStore \/ Update \/ FinishStore
  \/ \E c \in Clients : AskCandidate(c)

Serve(c) == StartLoad(c) \/ Attach(c) \/ Validated(c) \/ Applied(c)

Next ==
  \/ Replace \/ Restore \/ UpdateMetadata
  \/ \E c \in Clients : ChangeAccess(c) \/ Connect(c) \/ Leave(c) \/ Edit(c) \/ Serve(c)
  \/ FinishLoad \/ Check \/ Store \/ Unload \/ UnloadLate

(* What the server does goes on: the event loop, its timers, and fetches   *)
(* that time out.  Nobody has to connect, edit or leave.                   *)
Fairness ==
  /\ WF_vars(FinishLoad \/ Unload) /\ WF_vars(Check) /\ WF_vars(Store)
  /\ \A c \in Clients : WF_vars(Serve(c))

Spec == Init /\ [][Next]_vars /\ Fairness

-----------------------------------------------------------------------------
(* Properties                                                              *)

(* A save never removes from the page what someone else has put there      *)
(* since, by a replacement or a restored version: the update is refused or *)
(* the document is invalidated first.                                      *)
NothingIsOverwritten ==
  [][store.pc = "put" /\ store'.pc = "stored" => page.content \subseteq page'.content]_vars

(* A document is unloaded with edits that were accepted and not stored     *)
(* only when it was invalidated or a store has failed.                     *)
EditsAreKept ==
  [][doc # None /\ doc' = None /\ ~invalidated /\ ~store.failed
       => doc.content \subseteq persisted.content]_vars

(* A document is invalidated only when the page has moved on from what the *)
(* server knows to be stored, or when the store found nobody who may write *)
(* it: the page is closed, or each of those who were there when the store  *)
(* began was without access at some moment since, though they may have it  *)
(* again and others may have come.  An answer that one's own save has      *)
(* overtaken does not count, nor does a request that fails.                *)
InvalidationsAreDue ==
  [][invalidated' /\ ~invalidated =>
       \/ page.version > persisted.version
       \/ ~page.open
       \/ store.pc = "asking" /\ store.able = {}]_vars

(* An invalidated document is unloaded, so that people can reconnect.      *)
InvalidatedEnds == invalidated ~> ~invalidated

(* A replacement reaches the people who have the document open, even if    *)
(* nobody types; and the connections of those who have lost the access are *)
(* closed.                                                                 *)
NobodyStaysBehind ==
  /\ (Conns # {} /\ page.content # persisted.content)
       ~> (Conns = {} \/ page.content = persisted.content)
  /\ (Conns \ editors # {}) ~> (Conns \subseteq editors)
=============================================================================
