----------------------------- MODULE LiveProofs -----------------------------
(***************************************************************************)
(* Proofs about LiveDocument, for every set of browsers and any number of  *)
(* edits, moves and lost requests.                                         *)
(*                                                                         *)
(* That a save never overwrites what it does not contain (the theorem      *)
(* SavesKeepThePage) rests on what the server knows: whatever it holds     *)
(* of a page, a snapshot or an answer, is the page as of its version.      *)
(***************************************************************************)
EXTENDS LiveDocument, TLAPS

(* s is the page as of version s.version, as far as one can still tell.    *)
Known(s) ==
  /\ s.version <= page.version
  /\ s.version = page.version => s.content = page.content

Tabs == [Clients -> [is : {"away", "waiting", "on"}, content : Contents]]

Stores == [pc : {"none", "asking", "asked", "put", "stored"},
           left : SUBSET Clients, able : SUBSET Clients, uncertain : BOOLEAN,
           writer : Clients \cup {None}, version : Nat, content : Contents,
           failed : BOOLEAN]

(* Who is connected: the part of TypeInv that Close may change.            *)
Connected ==
  /\ doc \in Documents \cup {None}
  /\ client \in Tabs
  /\ sync = [c \in Clients |-> sync[c]]
  /\ \A c \in Clients : /\ client[c].is = "on" <=> c \in Conns
                        /\ sync[c] # None => client[c].is = "on"

(* The rest of it.                                                         *)
Stored ==
  /\ page \in [version : Nat, content : Contents, open : BOOLEAN]
  /\ editors \subseteq Clients
  /\ persisted \in Snapshots \cup {None} /\ loading \in Snapshots \cup {None}
  /\ invalidated \in BOOLEAN /\ due \in BOOLEAN /\ store \in Stores
  /\ late \in {None, 0, 1} /\ last \in Clients \cup {None}
  /\ pieces \in 0 .. MaxPieces

TypeInv == Connected /\ Stored

SaveInv ==
  /\ persisted # None => Known(persisted)
  /\ loading # None => Known(loading) /\ doc = None
  /\ doc # None => persisted # None /\ persisted.content \subseteq doc.content
  /\ doc # None => late # doc.id
  /\ store.pc # "none" => doc # None
  /\ store.pc \in {"asked", "stored"} => Known(store)
  /\ store.pc \in {"put", "stored"} => store.content \subseteq doc.content
  /\ store.pc = "put" =>
       /\ store.version <= page.version
       /\ store.version = page.version => page.content \subseteq store.content

-----------------------------------------------------------------------------
(* Types                                                                   *)

LEMMA NoneIsNothing ==
  /\ \A d \in Documents : d # None
  /\ \A s \in Snapshots : s # None
  /\ None # 0 /\ None # 1
BY NoneAssumption

(* What Close does: the document stays the same but for its connections.   *)
LEMMA CloseKeeps ==
  ASSUME TypeInv, NEW cs, NEW told, NEW waits, Close(cs, told, waits),
         \A c \in Clients : waits[c] # None => sync[c] # None
  PROVE  /\ doc' \in Documents \cup {None}
         /\ doc = None => doc' = None
         /\ doc # None => doc' # None /\ doc'.id = doc.id /\ doc'.content = doc.content
         /\ Conns' = Conns \ cs
         /\ client' \in Tabs
         /\ sync' = [c \in Clients |-> sync'[c]]
         /\ \A c \in Clients : /\ client'[c].is = "on" <=> c \in Conns'
                               /\ sync'[c] # None => client'[c].is = "on"
<1> USE NoneIsNothing
<1>1. CASE doc = None
  <2>1. doc' = None /\ Conns = {} /\ Conns' = {}
    BY <1>1 DEF Close, Conns
  <2>2. client' \in Tabs
    BY DEF Close, TypeInv, Connected, Tabs, Contents
  <2>3. \A c \in Clients : client[c].is # "on" /\ sync[c] = None
    <3>1. \A c \in Clients : (client[c].is = "on" <=> c \in Conns) /\ (sync[c] # None => client[c].is = "on")
      BY Zenon DEF TypeInv, Connected
    <3> QED  BY <2>1, <3>1
  <2>4. \A c \in Clients : client'[c].is # "on"
    BY <2>3 DEF Close
  <2>5. \A c \in Clients : sync'[c] = None
    BY <2>3 DEF Close
  <2>6. sync' = [c \in Clients |-> sync'[c]]
    BY DEF Close
  <2> QED  BY <1>1, <2>1, <2>2, <2>4, <2>5, <2>6
<1>2. CASE doc # None
  <2>1. doc \in Documents
    BY <1>2 DEF TypeInv, Connected
  <2>2. /\ doc' \in Documents
        /\ doc'.id = doc.id /\ doc'.content = doc.content /\ doc'.conns = doc.conns \ cs
    BY <1>2, <2>1 DEF Close, Documents
  <2>3. doc' # None
    BY <2>2
  <2>4. Conns' = Conns \ cs
    BY <1>2, <2>2, <2>3 DEF Conns
  <2>5. client' \in Tabs
    BY DEF Close, TypeInv, Connected, Tabs, Contents
  <2>6. \A c \in Clients : /\ client'[c].is = "on" <=> c \in Conns'
                           /\ sync'[c] # None => client'[c].is = "on"
    BY <2>4 DEF Close, TypeInv, Connected, Tabs
  <2>7. sync' = [c \in Clients |-> sync'[c]]
    BY DEF Close
  <2> QED  BY <1>2, <2>2, <2>3, <2>4, <2>5, <2>6, <2>7
<1> QED  BY <1>1, <1>2

LEMMA ConnectedAfterClose ==
  ASSUME TypeInv, NEW cs, NEW told, NEW waits, Close(cs, told, waits),
         \A c \in Clients : waits[c] # None => sync[c] # None
  PROVE  Connected'
  BY CloseKeeps DEF Connected, Tabs

LEMMA ConnectedAfterInvalidate ==
  ASSUME TypeInv, NEW id, Invalidate(id)
  PROVE  Connected' /\ invalidated' = TRUE
<1>1. CASE invalidated
  BY <1>1 DEF Invalidate, TypeInv, Connected, Conns
<1>2. CASE ~invalidated
  BY <1>2, ConnectedAfterClose DEF Invalidate
<1> QED  BY <1>1, <1>2 DEF Invalidate

LEMMA ConnectedAfterRevalidated ==
  ASSUME TypeInv, NEW id, NEW answer, NEW askers, NEW waits,
         Revalidated(id, answer, askers, waits),
         \A c \in Clients : waits[c] # None => sync[c] # None
  PROVE  Connected' /\ invalidated' \in BOOLEAN
  BY ConnectedAfterClose DEF Revalidated, TypeInv, Stored

-----------------------------------------------------------------------------
LEMMA InitTyped == Init => TypeInv
<1> SUFFICES ASSUME Init PROVE TypeInv
  OBVIOUS
<1>1. Connected
  <2>1. client \in Tabs
    BY DEF Init, Tabs, Contents
  <2>2. doc = None /\ Conns = {}
    BY DEF Init, Conns
  <2>3. sync = [c \in Clients |-> sync[c]] /\ \A c \in Clients : sync[c] = None
    BY DEF Init
  <2>4. \A c \in Clients : client[c].is = "away"
    BY DEF Init
  <2> QED  BY <2>1, <2>2, <2>3, <2>4 DEF Connected
<1>2. Stored
  <2>1. {0} \in Contents /\ {} \in Contents
    BY LiveAssumption DEF LiveAssumption, Contents
  <2>2. page \in [version : Nat, content : Contents, open : BOOLEAN]
    BY <2>1 DEF Init
  <2>3. store \in Stores
    BY <2>1 DEF Init, Quiet, Stores
  <2>4. pieces \in 0 .. MaxPieces
    BY LiveAssumption DEF LiveAssumption, Init
  <2> QED  BY <2>2, <2>3, <2>4 DEF Init, Stored
<1> QED  BY <1>1, <1>2 DEF TypeInv

LEMMA ApiTyped ==
  ASSUME TypeInv,
         Replace \/ Restore \/ UpdateMetadata \/ (\E c \in Clients : ChangeAccess(c))
  PROVE  TypeInv'
<1> DEFINE Page == [version : Nat, content : Contents, open : BOOLEAN]
<1>1. Connected /\ Stored
  BY DEF TypeInv
<1>2. page' \in Page /\ editors' \subseteq Clients
  <2>1. page \in Page /\ editors \subseteq Clients
    BY <1>1 DEF Stored
  <2>2. {0} \in Contents /\ {MaxPieces + 1} \in Contents
    BY LiveAssumption DEF LiveAssumption, Contents
  <2>3. CASE Replace \/ Restore
    <3>1. /\ editors' = editors
          /\ \E s \in Contents : page' = [page EXCEPT !.version = @ + 1, !.content = s]
      BY <2>2, <2>3 DEF Replace, Restore
    <3>2. page.version + 1 \in Nat
      BY <2>1
    <3> QED  BY <2>1, <3>1, <3>2
  <2>4. CASE UpdateMetadata
    <3>1. editors' = editors
      BY <2>4 DEF UpdateMetadata
    <3>2. PICK open \in BOOLEAN : page' = [page EXCEPT !.version = @ + 1, !.open = open]
      BY <2>4 DEF UpdateMetadata
    <3>3. page' = [version |-> page.version + 1, content |-> page.content, open |-> open]
      BY <2>1, <3>2
    <3>4. page.version + 1 \in Nat
      BY <2>1
    <3> QED  BY <2>1, <3>1, <3>3, <3>4
  <2>5. CASE \E c \in Clients : ChangeAccess(c)
    BY <2>1, <2>5 DEF ChangeAccess
  <2> QED  BY <2>3, <2>4, <2>5
<1>3. UNCHANGED <<memory, loading, due, last, late, client, sync, pieces>>
  BY DEF Replace, Restore, UpdateMetadata, ChangeAccess, Move, Live, storing
<1>4. Connected'
  BY <1>1, <1>3 DEF Connected, Conns, memory
<1>6. store' \in Stores
  <2>1. store' = store \/ store' = [store EXCEPT !.able = @ \cap editors']
    BY DEF Replace, Restore, UpdateMetadata, ChangeAccess, Live, storing
  <2> QED  BY <1>1, <2>1 DEF Stored, Stores
<1>5. Stored'
  BY <1>1, <1>2, <1>3, <1>6 DEF Stored, memory
<1> QED  BY <1>4, <1>5 DEF TypeInv

LEMMA ConnectingTyped ==
  ASSUME TypeInv, NEW c \in Clients,
         Connect(c) \/ StartLoad(c) \/ Attach(c) \/ Leave(c)
  PROVE  TypeInv'
<1> USE NoneIsNothing DEF memory, storing, counters
<1>1. Connected /\ Stored
  BY DEF TypeInv
<1>2. CASE Connect(c)
  <2>1. Connected'
    BY <1>1, <1>2 DEF Connected, Conns, Connect, Tabs
  <2> QED  BY <1>1, <1>2, <2>1 DEF TypeInv, Stored, Connect
<1>3. CASE StartLoad(c)
  <2>1. Connected'
    BY <1>1, <1>3 DEF Connected, Conns, StartLoad, Tabs
  <2>2. Snapshot(page) \in Snapshots
    BY <1>1 DEF TypeInv, Stored, Snapshot, Snapshots
  <2> QED  BY <1>1, <1>3, <2>1, <2>2 DEF TypeInv, Stored, StartLoad
<1>4. CASE Attach(c)
  <2>1. doc \in Documents
    BY <1>1, <1>4 DEF Connected, Attach
  <2>2. doc' \in Documents /\ doc'.conns = doc.conns \cup {c}
    BY <1>4, <2>1 DEF Attach, Documents
  <2>3. Conns' = Conns \cup {c}
    BY <1>4, <2>2 DEF Attach, Conns
  <2>4. client' \in Tabs
    BY <1>1, <1>4 DEF Connected, Tabs, Attach
  <2>5. sync' = [d \in Clients |-> sync'[d]]
    BY <1>1, <1>4 DEF Connected, Attach
  <2>6. \A d \in Clients : /\ client'[d].is = "on" <=> d \in Conns'
                           /\ sync'[d] # None => client'[d].is = "on"
    BY <1>1, <1>4, <2>3 DEF Connected, Attach, Tabs
  <2>7. Connected'
    BY <2>2, <2>4, <2>5, <2>6 DEF Connected
  <2> QED  BY <1>1, <1>4, <2>7 DEF TypeInv, Stored, Attach
<1>5. CASE Leave(c)
  <2>1. Connected'
    BY <1>5, ConnectedAfterClose DEF Leave
  <2> QED  BY <1>1, <1>5, <2>1 DEF TypeInv, Stored, Leave, Move
<1> QED  BY <1>2, <1>3, <1>4, <1>5

LEMMA EditingTyped ==
  ASSUME TypeInv, NEW c \in Clients, Edit(c) \/ Validated(c) \/ Applied(c)
  PROVE  TypeInv'
<1> USE NoneIsNothing DEF memory, storing, counters
<1>1. Connected /\ Stored
  BY DEF TypeInv
<1>2. CASE Edit(c)
  <2>1. pieces + 1 \in 0 .. MaxPieces /\ {pieces + 1} \in Contents
    BY <1>1, <1>2, LiveAssumption DEF LiveAssumption, Edit, Stored, Contents
  <2>2. client' \in Tabs /\ \A d \in Clients : client'[d].is = client[d].is
    BY <1>1, <1>2, <2>1 DEF Edit, Connected, Tabs, Contents
  <2>3. sync' = [d \in Clients |-> sync'[d]]
    BY <1>1, <1>2 DEF Connected, Edit
  <2>4. \A d \in Clients : sync'[d] # None => client'[d].is = "on"
    <3> TAKE d \in Clients
    <3>1. CASE d = c
      BY <1>1, <1>2, <2>2, <3>1 DEF Edit
    <3>2. CASE d # c
      <4>1. sync'[d] = sync[d]
        BY <1>1, <1>2, <3>2 DEF Connected, Edit
      <4> QED  BY <1>1, <2>2, <4>1 DEF Connected
    <3> QED  BY <3>1, <3>2
  <2>5. Connected'
    BY <1>1, <1>2, <2>2, <2>3, <2>4 DEF Connected, Edit, Conns
  <2> QED  BY <1>1, <1>2, <2>1, <2>5 DEF TypeInv, Stored, Edit
<1>3. CASE Validated(c)
  <2> DEFINE waits == [sync EXCEPT ![c].step = "read",
                              ![c].answer = [may |-> c \in editors, open |-> page.open]]
  <2>1. \A d \in Clients : waits[d] # None => sync[d] # None
    BY <1>1, <1>3 DEF Connected, Validated
  <2>2. Connected' /\ invalidated' \in BOOLEAN
    BY <1>3, <2>1, ConnectedAfterRevalidated DEF Validated
  <2> QED  BY <1>1, <1>3, <2>2 DEF TypeInv, Stored, Validated
<1>4. CASE Applied(c)
  <2> DEFINE may    == sync[c].answer.may /\ (sync[c].answer.open \/ sync[c].type = "join")
             merged == IF sync[c].answer.open THEN doc.content \cup client[c].content
                                              ELSE doc.content
  <2>0. doc \in Documents
    <3>1. c \in Conns
      <4>1. sync[c] # None
        BY <1>4 DEF Applied
      <4> QED  BY <1>1, <4>1 DEF Connected
    <3> QED  BY <1>1, <3>1 DEF Connected, Conns
  <2>1. CASE ~may
    <3>1. Connected'
      BY <1>4, <2>1, ConnectedAfterClose DEF Applied
    <3> QED  BY <1>1, <1>4, <2>1, <3>1 DEF TypeInv, Stored, Applied
  <2>2. CASE may
    <3>1. merged \in Contents
      BY <1>1, <2>0 DEF Connected, Documents, Tabs, Contents
    <3>2. doc' \in Documents /\ doc'.conns = doc.conns
      BY <1>4, <2>0, <2>2, <3>1 DEF Applied, Documents
    <3>3. Conns' = Conns
      BY <2>0, <3>2 DEF Conns
    <3>4. client' = [d \in Clients |-> IF d \in Conns
                       THEN [client[d] EXCEPT !.content = @ \cup merged] ELSE client[d]]
      BY <1>4, <2>2 DEF Applied
    <3>5. client' \in Tabs /\ \A d \in Clients : client'[d].is = client[d].is
      BY <1>1, <3>1, <3>4 DEF Connected, Tabs, Contents
    <3>6. sync' = [d \in Clients |-> sync'[d]] /\ \A d \in Clients : sync'[d] \in {sync[d], None}
      BY <1>1, <1>4, <2>2 DEF Connected, Applied
    <3>7. Connected'
      BY <1>1, <3>2, <3>3, <3>5, <3>6 DEF Connected
    <3>8. due' \in BOOLEAN /\ last' \in Clients \cup {None}
      BY <1>1, <1>4, <2>2 DEF Applied, Stored
    <3> QED  BY <1>1, <1>4, <3>7, <3>8 DEF TypeInv, Stored, Applied
  <2> QED  BY <2>1, <2>2
<1> QED  BY <1>2, <1>3, <1>4

(* The cases of a store keep its type.                                     *)
LEMMA QuietTyped == Quiet \in Stores /\ Quiet.pc = "none"
  BY DEF Quiet, Stores, Contents

LEMMA StoreEndsTyped ==
  ASSUME NEW failed \in BOOLEAN, StoreEnds(failed)
  PROVE  store' \in Stores /\ store'.pc = "none"
BY QuietTyped DEF StoreEnds, Stores

LEMMA ServerTyped ==
  ASSUME TypeInv, SaveInv, StartCheck \/ FinishCheck \/ FinishLoad \/ Unload \/ UnloadLate
  PROVE  TypeInv'
<1> USE NoneIsNothing DEF memory, storing, counters
<1>1. Connected /\ Stored
  BY DEF TypeInv
<1>2. CASE StartCheck
  BY <1>1, <1>2 DEF TypeInv, Connected, Stored, Conns, StartCheck
<1>3. CASE FinishCheck
  <2>1. Connected' /\ invalidated' \in BOOLEAN
    BY <1>3, ConnectedAfterRevalidated DEF FinishCheck
  <2> QED  BY <1>1, <1>3, <2>1 DEF TypeInv, Stored, FinishCheck
<1>4. CASE FinishLoad
  <2>1. loading \in Snapshots /\ loading.content \in Contents
    BY <1>1, <1>4 DEF Stored, FinishLoad, Snapshots
  <2>2. doc' \in Documents /\ doc'.conns = {}
    BY <1>4, <2>1 DEF FinishLoad, Documents
  <2>3. Conns = {} /\ Conns' = {}
    BY <1>4, <2>2 DEF Conns, SaveInv, FinishLoad
  <2>4. Connected'
    BY <1>1, <1>4, <2>2, <2>3 DEF Connected, FinishLoad
  <2>5. persisted' \in Snapshots /\ loading' = None
    BY <1>4, <2>1 DEF FinishLoad
  <2> QED  BY <1>1, <1>4, <2>4, <2>5 DEF TypeInv, Stored, FinishLoad
<1>5. CASE Unload
  <2>1. doc \in Documents /\ Conns = {} /\ doc.id \in {0, 1}
    BY <1>1, <1>5 DEF Connected, Unload, Conns, Documents
  <2>2. Connected'
    BY <1>1, <1>5, <2>1 DEF Connected, Unload, Unloaded, Conns
  <2>3. store' \in Stores
    BY <1>5, QuietTyped DEF Unload
  <2> QED  BY <1>1, <1>5, <2>1, <2>2, <2>3 DEF TypeInv, Stored, Stores, Unload, Unloaded
<1>6. CASE UnloadLate
  <2>1. UNCHANGED memory
    BY <1>6 DEF UnloadLate, MayUnload, SaveInv
  <2> QED  BY <1>1, <1>6, <2>1 DEF TypeInv, Connected, Stored, Conns, UnloadLate
<1> QED  BY <1>2, <1>3, <1>4, <1>5, <1>6

LEMMA StoreTyped ==
  ASSUME TypeInv, SaveInv, Store
  PROVE  TypeInv'
<1> USE NoneIsNothing DEF memory, storing, counters, Others, Fault, Move
<1>1. Connected /\ Stored /\ store \in Stores
  BY DEF TypeInv, Stored, Stores
<1>2. CASE StartStore
  <2>1. UNCHANGED <<page, editors, memory, loading, late, client, sync, last, pieces>>
        /\ due' = FALSE
    BY <1>2 DEF StartStore
  <2>2. store' \in Stores
    <3>1. Candidates \subseteq Clients
      BY <1>1 DEF Candidates, Conns, Connected, Documents, Stored
    <3>2. Candidates \cap editors \subseteq Clients
      BY <3>1
    <3> QED  BY <1>1, <1>2, <3>1, <3>2, QuietTyped DEF StartStore, Stored, Stores
  <2> QED  BY <1>1, <2>1, <2>2 DEF TypeInv, Connected, Stored, Stores, Conns
<1>6. ASSUME NEW c \in Clients, AskCandidate(c)  PROVE TypeInv'
  <2>1. UNCHANGED <<page, editors, memory, loading, late, client, sync, due, last, pieces>>
    BY <1>6 DEF AskCandidate
  <2>2. store' \in Stores
    <3>1. page.version \in Nat /\ page.content \in Contents
      BY <1>1 DEF Stored
    <3>2. CASE Accepted(c)
      BY <3>1, <3>2, QuietTyped DEF Accepted, Stores
    <3>3. CASE \/ store' = [store EXCEPT !.left = @ \ {c}]
               \/ store' = [store EXCEPT !.left = @ \ {c}, !.uncertain = TRUE]
      BY <1>1, <3>3 DEF Stores
    <3> QED  BY <1>6, <3>2, <3>3 DEF AskCandidate
  <2> QED  BY <1>1, <2>1, <2>2 DEF TypeInv, Connected, Stored, Stores, Conns
<1>7. CASE RefuseStore
  <2>1. Connected' /\ invalidated' \in BOOLEAN
    <3>1. CASE UNCHANGED <<doc, invalidated, client, sync>>
      BY <1>1, <3>1 DEF Connected, Stored, Conns
    <3>2. CASE Invalidate(doc.id)
      BY <3>2, ConnectedAfterInvalidate
    <3> QED  BY <1>7, <3>1, <3>2 DEF RefuseStore
  <2>2. store' \in Stores
    BY <1>1, <1>7, StoreEndsTyped DEF RefuseStore, Stores
  <2>3. UNCHANGED <<page, editors, persisted, loading, due, late, last, pieces>>
    BY <1>7 DEF RefuseStore
  <2> QED  BY <1>1, <2>1, <2>2, <2>3 DEF TypeInv, Stored, Stores
<1>3. CASE SendStore
  <2>1. Connected' /\ invalidated' \in BOOLEAN
    <3>1. CASE UNCHANGED <<doc, invalidated, client, sync>>
      BY <1>1, <3>1 DEF Connected, Stored, Conns
    <3>2. CASE Invalidate(doc.id)
      BY <3>2, ConnectedAfterInvalidate
    <3> QED  BY <1>3, <3>1, <3>2 DEF SendStore
  <2>2. store' \in Stores
    <3>1. doc \in Documents /\ doc.content \in Contents
      BY <1>1, <1>3 DEF Connected, SaveInv, SendStore, Documents
    <3>2. CASE StoreEnds(FALSE)
      BY <3>2, StoreEndsTyped
    <3>3. CASE store' = [store EXCEPT !.pc = "put", !.content = doc.content]
      BY <1>1, <3>1, <3>3 DEF Stores
    <3> QED  BY <1>3, <3>2, <3>3 DEF SendStore
  <2>3. UNCHANGED <<page, editors, persisted, loading, due, late, last, pieces>>
    BY <1>3 DEF SendStore
  <2> QED  BY <1>1, <2>1, <2>2, <2>3 DEF TypeInv, Stored, Stores
<1>4. CASE Update
  <2>1. page' \in [version : Nat, content : Contents, open : BOOLEAN]
    <3>1. CASE UNCHANGED page
      BY <1>1, <3>1 DEF Stored
    <3>2. CASE page' = [page EXCEPT !.version = @ + 1, !.content = store.content]
      <4>1. page' = [version |-> page.version + 1, content |-> store.content,
                     open |-> page.open]
        BY <1>1, <3>2 DEF Stored
      <4>2. page.version + 1 \in Nat /\ store.content \in Contents
        BY <1>1 DEF Stored, Stores
      <4> QED  BY <1>1, <4>1, <4>2 DEF Stored
    <3> QED  BY <1>4, <3>1, <3>2 DEF Update
  <2>2. store' \in Stores
    <3>1. CASE StoreEnds(TRUE)
      BY <3>1, StoreEndsTyped
    <3>2. CASE store' = [store EXCEPT !.pc = "stored", !.version = @ + 1]
      <4>1. store.version + 1 \in Nat
        BY <1>1 DEF Stores
      <4> QED  BY <1>1, <3>2, <4>1 DEF Stores
    <3> QED  BY <1>4, <3>1, <3>2 DEF Update
  <2>3. UNCHANGED <<editors, memory, loading, due, last, late, client, sync, pieces>>
    BY <1>4 DEF Update
  <2> QED  BY <1>1, <2>1, <2>2, <2>3 DEF TypeInv, Connected, Stored, Stores, Conns
<1>5. CASE FinishStore
  <2>1. persisted' \in Snapshots \cup {None}
    <3>1. Snapshot(store) \in Snapshots
      BY <1>1 DEF Stores, Snapshot, Snapshots
    <3>2. persisted' = Snapshot(store) \/ persisted' = persisted
      BY <1>5 DEF FinishStore
    <3> QED  BY <1>1, <3>1, <3>2 DEF Stored
  <2>2. store' \in Stores
    BY <1>5, StoreEndsTyped DEF FinishStore
  <2>3. UNCHANGED <<page, editors, doc, invalidated, loading, due, last, late, client, sync, pieces>>
    BY <1>5 DEF FinishStore
  <2> QED  BY <1>1, <2>1, <2>2, <2>3 DEF TypeInv, Connected, Stored, Stores, Conns
<1> QED  BY <1>2, <1>3, <1>4, <1>5, <1>6, <1>7 DEF Store

LEMMA NextTyped ==
  ASSUME TypeInv, SaveInv, [Next]_vars
  PROVE  TypeInv'
<1>1. CASE UNCHANGED vars
  BY <1>1 DEF TypeInv, Connected, Stored, Conns, vars, memory, storing, counters
<1>2. CASE Next
  BY <1>2, ApiTyped, ConnectingTyped, EditingTyped, ServerTyped, StoreTyped
     DEF Next, Serve, Check
<1> QED  BY <1>1, <1>2

-----------------------------------------------------------------------------
(* What the server knows                                                   *)

(* The document stays, and its content only grows.                         *)
DocGrows ==
  /\ doc = None <=> doc' = None
  /\ doc # None => doc'.id = doc.id /\ doc.content \subseteq doc'.content

(* What is read and stored stays, and so does the page.                    *)
Reads == <<page, persisted, loading, store, late>>

LEMMA ClosingKeepsDoc ==
  ASSUME TypeInv, NEW cs, NEW told, NEW waits, Close(cs, told, waits),
         \A c \in Clients : waits[c] # None => sync[c] # None
  PROVE  DocGrows
  BY CloseKeeps DEF DocGrows

LEMMA InvalidateKeepsDoc ==
  ASSUME TypeInv, NEW id, Invalidate(id)
  PROVE  DocGrows
  BY ClosingKeepsDoc DEF Invalidate, DocGrows

LEMMA RevalidatedKeepsDoc ==
  ASSUME TypeInv, NEW id, NEW answer, NEW askers, NEW waits,
         Revalidated(id, answer, askers, waits),
         \A c \in Clients : waits[c] # None => sync[c] # None
  PROVE  DocGrows
  BY ClosingKeepsDoc DEF Revalidated

LEMMA SafeWhileEditing ==
  ASSUME SaveInv, DocGrows, UNCHANGED Reads
  PROVE  SaveInv'
  BY DEF SaveInv, DocGrows, Reads, Known

(* A store is where it was, whatever is known of its candidates.           *)
StoreGoesOn ==
  /\ store'.pc = store.pc /\ store'.version = store.version
  /\ store'.content = store.content /\ store'.failed = store.failed

LEMMA AccessAndStore ==
  ASSUME TypeInv, NEW c \in Clients, ChangeAccess(c)
  PROVE  StoreGoesOn /\ UNCHANGED <<page, doc, persisted, invalidated, loading, late, due>>
<1>1. store' = [store EXCEPT !.able = @ \cap editors'] /\ store \in Stores
  BY DEF ChangeAccess, TypeInv, Stored
<1>2. UNCHANGED <<page, doc, persisted, invalidated, loading, late, due>>
  BY DEF ChangeAccess, memory
<1> QED  BY <1>1, <1>2 DEF StoreGoesOn, Stores

(* Another request makes a new version, and nobody knows more than before. *)
LEMMA SafeNewVersion ==
  ASSUME TypeInv, SaveInv, page'.version = page.version + 1,
         UNCHANGED <<doc, persisted, loading, store, late>>
  PROVE  SaveInv'
<1>1. page.version \in Nat /\ store.version \in Nat
  BY DEF TypeInv, Stored, Stores
<1>2. /\ persisted # None => persisted.version \in Nat
      /\ loading # None => loading.version \in Nat
  BY DEF TypeInv, Stored, Snapshots
<1> QED  BY <1>1, <1>2 DEF SaveInv, Known

LEMMA ApiSafe ==
  ASSUME TypeInv, SaveInv,
         Replace \/ Restore \/ UpdateMetadata \/ (\E c \in Clients : ChangeAccess(c))
  PROVE  SaveInv'
<1>2. CASE \E c \in Clients : ChangeAccess(c)
  <2>1. StoreGoesOn /\ UNCHANGED <<page, doc, persisted, loading, late>>
    BY <1>2, AccessAndStore
  <2> QED  BY <2>1 DEF SaveInv, Known, StoreGoesOn
<1>3. CASE Replace \/ Restore \/ UpdateMetadata
  <2>1. page'.version = page.version + 1
    BY <1>3 DEF Replace, Restore, UpdateMetadata, TypeInv, Stored
  <2>2. UNCHANGED <<doc, persisted, loading, store, late>>
    BY <1>3 DEF Replace, Restore, UpdateMetadata, Live, memory, storing
  <2> QED  BY <2>1, <2>2, SafeNewVersion
<1> QED  BY <1>2, <1>3

LEMMA ClientsSafe ==
  ASSUME TypeInv, SaveInv, NEW c \in Clients,
         \/ Connect(c) \/ StartLoad(c) \/ Attach(c) \/ Leave(c)
         \/ Edit(c) \/ Validated(c) \/ Applied(c)
  PROVE  SaveInv'
<1> USE NoneIsNothing DEF memory, storing, counters
<1>1. doc \in Documents \cup {None} /\ \A d \in Clients : sync[d] # None => d \in Conns
  BY DEF TypeInv, Connected
<1>2. CASE Connect(c) \/ Edit(c)
  <2>1. DocGrows /\ UNCHANGED Reads
    BY <1>2 DEF Connect, Edit, DocGrows, Reads
  <2> QED  BY <2>1, SafeWhileEditing
<1>3. CASE StartLoad(c)
  <2>1. Known(Snapshot(page))
    BY DEF Known, Snapshot, TypeInv, Stored
  <2>2. UNCHANGED <<page, doc, persisted, store, late>> /\ loading' \in {loading, Snapshot(page)}
    BY <1>3 DEF StartLoad
  <2> QED  BY <1>3, <2>1, <2>2 DEF SaveInv, Known, StartLoad
<1>4. CASE Attach(c)
  <2>1. DocGrows /\ UNCHANGED Reads
    BY <1>1, <1>4 DEF Attach, DocGrows, Reads, Documents
  <2> QED  BY <2>1, SafeWhileEditing
<1>5. CASE Leave(c)
  <2>1. DocGrows /\ UNCHANGED Reads
    BY <1>5, ClosingKeepsDoc DEF Leave, Reads
  <2> QED  BY <2>1, SafeWhileEditing
<1>6. CASE Validated(c)
  <2> DEFINE waits == [sync EXCEPT ![c].step = "read",
                              ![c].answer = [may |-> c \in editors, open |-> page.open]]
  <2>1. \A d \in Clients : waits[d] # None => sync[d] # None
    BY <1>6 DEF TypeInv, Connected, Validated
  <2>2. DocGrows /\ UNCHANGED Reads
    BY <1>6, <2>1, RevalidatedKeepsDoc DEF Validated, Reads
  <2> QED  BY <2>2, SafeWhileEditing
<1>7. CASE Applied(c)
  <2>1. doc \in Documents
    <3>1. sync[c] # None
      BY <1>7 DEF Applied
    <3> QED  BY <1>1, <3>1 DEF Conns
  <2>2. UNCHANGED Reads
    BY <1>7 DEF Applied, Reads
  <2>3. DocGrows
    <3> DEFINE may    == sync[c].answer.may /\ (sync[c].answer.open \/ sync[c].type = "join")
               merged == IF sync[c].answer.open THEN doc.content \cup client[c].content
                                                ELSE doc.content
    <3>1. CASE ~may
      BY <1>7, <3>1, ClosingKeepsDoc DEF Applied
    <3>2. CASE may
      <4>1. doc' = [doc EXCEPT !.content = merged]
        BY <1>7, <3>2 DEF Applied
      <4>2. doc.content \subseteq merged
        OBVIOUS
      <4>3. merged \in Contents
        BY <2>1 DEF TypeInv, Connected, Documents, Tabs, Contents
      <4>4. doc' \in Documents /\ doc'.id = doc.id /\ doc'.content = merged
        BY <2>1, <4>1, <4>3 DEF Documents
      <4> QED  BY <2>1, <4>2, <4>4 DEF DocGrows
    <3> QED  BY <3>1, <3>2
  <2> QED  BY <2>2, <2>3, SafeWhileEditing
<1> QED  BY <1>2, <1>3, <1>4, <1>5, <1>6, <1>7

LEMMA ServerSafe ==
  ASSUME TypeInv, SaveInv, StartCheck \/ FinishCheck \/ FinishLoad \/ Unload \/ UnloadLate
  PROVE  SaveInv'
<1> USE NoneIsNothing DEF memory, storing, counters
<1>1. CASE StartCheck
  <2>1. DocGrows /\ UNCHANGED Reads
    BY <1>1 DEF StartCheck, DocGrows, Reads
  <2> QED  BY <2>1, SafeWhileEditing
<1>2. CASE FinishCheck
  <2>1. DocGrows /\ UNCHANGED Reads
    BY <1>2, RevalidatedKeepsDoc DEF FinishCheck, Reads
  <2> QED  BY <2>1, SafeWhileEditing
<1>3. CASE FinishLoad
  <2>1. doc = None /\ store.pc = "none" /\ Known(loading)
    BY <1>3 DEF FinishLoad, SaveInv
  <2>2. late' \in {None, 0, 1} /\ late' # doc'.id
    <3>1. doc'.id = IF late = 0 THEN 1 ELSE 0
      BY <1>3 DEF FinishLoad
    <3>2. late' = late /\ late \in {None, 0, 1}
      BY <1>3 DEF FinishLoad, TypeInv, Stored
    <3> QED  BY <3>1, <3>2
  <2>3. persisted' = loading /\ doc'.content = loading.content /\ loading' = None
    BY <1>3 DEF FinishLoad
  <2> QED  BY <1>3, <2>1, <2>2, <2>3 DEF FinishLoad, SaveInv, Known
<1>4. CASE Unload
  BY <1>4, QuietTyped DEF Unload, Unloaded, SaveInv, Known
<1>5. CASE UnloadLate
  <2>1. UNCHANGED <<page, doc, persisted, loading, store>> /\ late' = None
    BY <1>5 DEF UnloadLate, MayUnload, SaveInv
  <2>2. doc # None => doc.id # None
    BY DEF TypeInv, Connected, Documents
  <2> QED  BY <2>1, <2>2 DEF SaveInv, Known
<1> QED  BY <1>1, <1>2, <1>3, <1>4, <1>5

LEMMA StoreSafe ==
  ASSUME TypeInv, SaveInv, Store
  PROVE  SaveInv'
<1> USE NoneIsNothing DEF memory, storing, counters, Others
<1>1. /\ page.version \in Nat /\ store.version \in Nat
      /\ persisted # None => persisted.version \in Nat
      /\ store \in Stores
  BY DEF TypeInv, Stored, Stores, Snapshots
<1>2. CASE StartStore \/ \E c \in Clients : AskCandidate(c)
  <2>1. UNCHANGED <<page, doc, persisted, loading, late>>
    BY <1>2 DEF StartStore, AskCandidate
  <2>2. doc # None
    BY <1>2 DEF StartStore, AskCandidate, NextCandidate, SaveInv
  <2>3. \/ store'.pc \in {"none", "asking"}
        \/ store'.pc = "asked" /\ store'.version = page.version /\ store'.content = page.content
    <3>1. CASE StartStore
      BY <3>1, QuietTyped DEF StartStore, Stores
    <3>2. ASSUME NEW c \in Clients, AskCandidate(c)
          PROVE  \/ store'.pc \in {"none", "asking"}
                 \/ /\ store'.pc = "asked" /\ store'.version = page.version
                    /\ store'.content = page.content
      <4>1. CASE Accepted(c)
        BY <4>1, QuietTyped DEF Accepted, Stores
      <4>2. CASE ~Accepted(c)
        BY <1>1, <3>2, <4>2 DEF AskCandidate, NextCandidate, Stores
      <4> QED  BY <4>1, <4>2
    <3> QED  BY <1>2, <3>1, <3>2
  <2>4. store'.pc = "asked" => Known(store)'
    BY <1>1, <2>1, <2>3 DEF Known
  <2> QED  BY <2>1, <2>2, <2>3, <2>4 DEF SaveInv, Known
<1>6. CASE RefuseStore
  <2>1. DocGrows
    <3>1. CASE UNCHANGED doc
      BY <3>1 DEF DocGrows
    <3>2. CASE Invalidate(doc.id)
      BY <3>2, InvalidateKeepsDoc
    <3> QED  BY <1>6, <3>1, <3>2 DEF RefuseStore
  <2>2. UNCHANGED <<page, persisted, loading, late>> /\ store'.pc = "none"
    BY <1>1, <1>6, StoreEndsTyped DEF RefuseStore, Stores
  <2> QED  BY <2>1, <2>2 DEF SaveInv, Known, DocGrows
<1>3. CASE SendStore
  <2>1. UNCHANGED <<page, persisted, loading, late>> /\ store.pc = "asked"
    BY <1>3 DEF SendStore
  <2>2. CASE Replaced(store)
    <3>1. DocGrows /\ store'.pc = "none"
      BY <1>3, <2>2, InvalidateKeepsDoc, StoreEndsTyped DEF SendStore
    <3> QED  BY <2>1, <3>1 DEF SaveInv, Known, DocGrows
  <2>3. CASE ~Replaced(store)
    <3>1. UNCHANGED doc
      BY <1>3, <2>3 DEF SendStore
    <3>2. store'.pc = "put" /\ store'.content = doc.content /\ store'.version = store.version
      BY <1>1, <1>3, <2>3 DEF SendStore, Stores
    <3>3. doc # None /\ Known(store) /\ Known(persisted) /\ persisted # None
      BY <2>1 DEF SaveInv
    <3>4. store.version = page.version => page.content \subseteq doc.content
      <4>1. SUFFICES ASSUME store.version = page.version
                     PROVE  page.content \subseteq doc.content
        OBVIOUS
      <4>2. page.content = store.content
        BY <3>3, <4>1 DEF Known
      <4>3. CASE store.version > persisted.version
        BY <2>3, <3>3, <4>2, <4>3 DEF Replaced, SaveInv
      <4>4. CASE ~(store.version > persisted.version)
        BY <1>1, <3>3, <4>1, <4>4 DEF Known, SaveInv
      <4> QED  BY <4>3, <4>4
    <3> QED  BY <2>1, <3>1, <3>2, <3>3, <3>4 DEF SaveInv, Known
  <2> QED  BY <2>2, <2>3
<1>4. CASE Update
  <2>1. UNCHANGED <<doc, persisted, loading, late>> /\ store.pc = "put"
    BY <1>4 DEF Update
  <2>2. CASE StoreEnds(TRUE) /\ UNCHANGED page
    <3>1. store'.pc = "none"
      BY <2>2, StoreEndsTyped
    <3> QED  BY <2>1, <2>2, <3>1 DEF SaveInv, Known
  <2>3. CASE /\ store.version = page.version
             /\ page' = [page EXCEPT !.version = @ + 1, !.content = store.content]
             /\ store' = [store EXCEPT !.pc = "stored", !.version = @ + 1]
    <3>1. page'.version = page.version + 1 /\ page'.content = store.content
      BY <2>3 DEF TypeInv, Stored
    <3>2. /\ store'.pc = "stored" /\ store'.version = page'.version
          /\ store'.content = store.content
      BY <1>1, <2>3, <3>1 DEF Stores
    <3>3. doc # None /\ loading = None /\ store.content \subseteq doc.content
      BY <2>1 DEF SaveInv
    <3> QED  BY <1>1, <2>1, <3>1, <3>2, <3>3 DEF SaveInv, Known
  <2> QED  BY <1>4, <2>2, <2>3 DEF Update
<1>5. CASE FinishStore
  <2>1. UNCHANGED <<page, doc, loading, late>> /\ store'.pc = "none" /\ store.pc = "stored"
    BY <1>5, StoreEndsTyped DEF FinishStore
  <2>2. Known(store) /\ store.content \subseteq doc.content
    BY <2>1 DEF SaveInv
  <2>3. persisted' \in {persisted, Snapshot(store)}
    BY <1>5 DEF FinishStore
  <2>4. Snapshot(store) # None
    BY <1>1 DEF Snapshot, Snapshots, Stores
  <2> QED  BY <2>1, <2>2, <2>3, <2>4 DEF SaveInv, Known, Snapshot
<1> QED  BY <1>2, <1>3, <1>4, <1>5, <1>6 DEF Store

-----------------------------------------------------------------------------
(* Theorems                                                                *)

LEMMA InitSafe == Init => SaveInv
BY NoneIsNothing DEF Init, SaveInv, Quiet

LEMMA NextSafe ==
  ASSUME TypeInv, SaveInv, [Next]_vars
  PROVE  SaveInv'
<1>1. CASE UNCHANGED vars
  BY <1>1 DEF SaveInv, Known, vars, memory, storing
<1>2. CASE Next
  BY <1>2, ApiSafe, ClientsSafe, ServerSafe, StoreSafe DEF Next, Serve, Check
<1> QED  BY <1>1, <1>2

(* What the server holds of a page is the page as of its version, and the  *)
(* document in memory contains what the server knows to be stored.         *)
THEOREM ServerKnowsPage == Spec => [](TypeInv /\ SaveInv)
<1>1. Init => TypeInv /\ SaveInv
  BY InitTyped, InitSafe
<1>2. TypeInv /\ SaveInv /\ [Next]_vars => (TypeInv /\ SaveInv)'
  BY NextTyped, NextSafe
<1> QED  BY <1>1, <1>2, PTL DEF Spec

(* Every step keeps the types, and a client is on just while the document  *)
(* in memory has its connection (TypeOK, server.ts and lifecycle.ts).      *)
THEOREM LiveTypes == Spec => []TypeOK
<1>1. TypeInv => TypeOK
  BY DEF TypeInv, Connected, Stored, Stores, Tabs, TypeOK
<1> QED  BY <1>1, ServerKnowsPage, PTL

(* A save removes nothing from the page that the document does not contain *)
(* (NothingIsOverwritten, onStoreDocument of server.ts and update).        *)
THEOREM SavesKeepThePage == Spec => NothingIsOverwritten
<1>1. ASSUME TypeInv, SaveInv, [Next]_vars, store.pc = "put", store'.pc = "stored"
      PROVE  page.content \subseteq page'.content
  <2>1. store \in Stores /\ page \in [version : Nat, content : Contents, open : BOOLEAN]
    BY <1>1 DEF TypeInv, Stored, Stores
  <2>2. Update
    <3>0. ASSUME NEW c \in Clients, ChangeAccess(c)  PROVE FALSE
      BY <1>1, <3>0, AccessAndStore DEF StoreGoesOn
    <3>1. UNCHANGED store \/ Unload \/ Store
      BY <1>1, <3>0 DEF vars, Next, Live, memory, storing, counters, Others, Replace, Restore,
         UpdateMetadata, Connect, Leave, Edit, Serve, StartLoad, Attach, Validated, Applied,
         FinishLoad, Check, StartCheck, FinishCheck, UnloadLate
    <3>2. ~Unload
      BY <1>1 DEF Unload
    <3>3. ~StartStore /\ ~SendStore /\ ~FinishStore /\ ~RefuseStore
          /\ \A c \in Clients : ~AskCandidate(c)
      BY <1>1 DEF StartStore, SendStore, FinishStore, RefuseStore, AskCandidate, NextCandidate
    <3> QED  BY <1>1, <3>1, <3>2, <3>3 DEF Store
  <2>3. /\ store.version = page.version
        /\ page' = [page EXCEPT !.version = @ + 1, !.content = store.content]
    BY <1>1, <2>2, StoreEndsTyped DEF Update
  <2> QED  BY <1>1, <2>1, <2>3 DEF SaveInv
<1>2. TypeInv /\ SaveInv /\ [Next]_vars =>
        [store.pc = "put" /\ store'.pc = "stored" => page.content \subseteq page'.content]_vars
  BY <1>1
<1> QED  BY <1>2, ServerKnowsPage, PTL DEF Spec, NothingIsOverwritten

-----------------------------------------------------------------------------
(* Edits that were accepted                                                *)

(* Unless a store is debounced or has failed, the edits of the document    *)
(* are on their way to the page, or stored.                                *)
EditsInv ==
  doc # None /\ ~invalidated /\ ~due =>
    /\ store.pc = "none" /\ ~store.failed => doc.content \subseteq persisted.content
    /\ store.pc \in {"put", "stored"} => doc.content \subseteq store.content

(* The document stays as it is, but for its connections.                   *)
DocStays ==
  /\ doc = None <=> doc' = None
  /\ doc # None => doc'.content = doc.content
  /\ invalidated => invalidated'

LEMMA EditsWhileDocStays ==
  ASSUME EditsInv, DocStays, StoreGoesOn, UNCHANGED <<due, persisted>>
  PROVE  EditsInv'
BY DEF EditsInv, DocStays, StoreGoesOn

LEMMA CloseLeavesDoc ==
  ASSUME TypeInv, NEW cs, NEW told, NEW waits, Close(cs, told, waits),
         \A c \in Clients : waits[c] # None => sync[c] # None,
         invalidated => invalidated'
  PROVE  DocStays
  BY CloseKeeps DEF DocStays

LEMMA InvalidateLeavesDoc ==
  ASSUME TypeInv, NEW id, Invalidate(id)
  PROVE  DocStays /\ invalidated' = TRUE
<1>1. CASE invalidated
  BY <1>1 DEF Invalidate, DocStays
<1>2. CASE ~invalidated
  BY <1>2, CloseLeavesDoc DEF Invalidate
<1> QED  BY <1>1, <1>2

LEMMA RevalidatedLeavesDoc ==
  ASSUME TypeInv, NEW id, NEW answer, NEW askers, NEW waits,
         Revalidated(id, answer, askers, waits),
         \A c \in Clients : waits[c] # None => sync[c] # None
  PROVE  DocStays
  BY CloseLeavesDoc DEF Revalidated

LEMMA ValidatedWaits ==
  ASSUME TypeInv, NEW c \in Clients, Validated(c)
  PROVE  \A d \in Clients :
           [sync EXCEPT ![c].step = "read",
                        ![c].answer = [may |-> c \in editors, open |-> page.open]][d] # None
             => sync[d] # None
  BY DEF TypeInv, Connected, Validated

(* What a client does to a document in memory before its message is        *)
(* applied.                                                                *)
LEMMA ClientsLeaveDoc ==
  ASSUME TypeInv, NEW c \in Clients,
         Connect(c) \/ StartLoad(c) \/ Attach(c) \/ Leave(c) \/ Edit(c) \/ Validated(c)
  PROVE  DocStays /\ StoreGoesOn /\ UNCHANGED <<due, persisted>>
<1> USE NoneIsNothing DEF memory, storing, counters, StoreGoesOn
<1>1. CASE Connect(c) \/ StartLoad(c) \/ Edit(c)
  <2>1. UNCHANGED <<memory, storing>>
    BY <1>1 DEF Connect, StartLoad, Edit
  <2> QED  BY <2>1 DEF DocStays
<1>2. CASE Attach(c)
  <2>1. doc \in Documents
    BY <1>2 DEF TypeInv, Connected, Attach
  <2> QED  BY <1>2, <2>1 DEF Attach, Documents, DocStays
<1>3. CASE Leave(c)
  BY <1>3, CloseLeavesDoc DEF Leave
<1>4. CASE Validated(c)
  <2>1. DocStays
    BY <1>4, ValidatedWaits, RevalidatedLeavesDoc DEF Validated
  <2> QED  BY <1>4, <2>1 DEF Validated
<1> QED  BY <1>1, <1>2, <1>3, <1>4

(* So do the API, the checks, and a cleanup that comes too late.           *)
LEMMA OthersLeaveDoc ==
  ASSUME TypeInv, SaveInv,
         \/ Replace \/ Restore \/ UpdateMetadata \/ (\E c \in Clients : ChangeAccess(c))
         \/ StartCheck \/ FinishCheck \/ UnloadLate
  PROVE  DocStays /\ StoreGoesOn /\ UNCHANGED <<due, persisted>>
<1> USE DEF memory, storing, counters, StoreGoesOn
<1>1. CASE FinishCheck
  BY <1>1, RevalidatedLeavesDoc DEF FinishCheck
<1>2. CASE UNCHANGED <<memory, storing>>
  BY <1>2 DEF DocStays
<1>3. CASE Replace \/ Restore \/ UpdateMetadata
  BY <1>2, <1>3 DEF Replace, Restore, UpdateMetadata, Live
<1>5. CASE \E c \in Clients : ChangeAccess(c)
  BY <1>5, AccessAndStore DEF DocStays
<1>4. CASE StartCheck \/ UnloadLate
  BY <1>2, <1>4 DEF StartCheck, UnloadLate, MayUnload, SaveInv
<1> QED  BY <1>1, <1>3, <1>4, <1>5

(* A message that brings something new makes a store due.                  *)
LEMMA AppliedMakesDue ==
  ASSUME TypeInv, EditsInv, NEW c \in Clients, Applied(c)
  PROVE  EditsInv' /\ doc # None /\ doc' # None
<1> DEFINE may    == sync[c].answer.may /\ (sync[c].answer.open \/ sync[c].type = "join")
           merged == IF sync[c].answer.open THEN doc.content \cup client[c].content
                                            ELSE doc.content
<1>1. doc \in Documents /\ doc # None
  <2>1. c \in Conns
    BY DEF Applied, TypeInv, Connected
  <2> QED  BY <2>1 DEF TypeInv, Connected, Conns
<1>2. UNCHANGED <<invalidated, persisted, store>>
  BY DEF Applied, StoreGoesOn
<1>3. CASE ~may
  <2>1. DocStays /\ StoreGoesOn /\ UNCHANGED <<due, persisted>>
    BY <1>2, <1>3, CloseLeavesDoc DEF Applied, StoreGoesOn
  <2> QED  BY <1>1, <2>1, EditsWhileDocStays DEF DocStays
<1>4. CASE may
  <2>1. doc' = [doc EXCEPT !.content = merged]
    BY <1>4 DEF Applied
  <2>2. merged \in Contents
    BY <1>1 DEF TypeInv, Connected, Documents, Tabs, Contents
  <2>3. doc' \in Documents /\ doc'.content = merged
    BY <1>1, <2>1, <2>2 DEF Documents
  <2>4. doc' # None
    BY <2>3, NoneIsNothing
  <2>5. CASE merged = doc.content
    <3>1. DocStays /\ due' = due
      BY <1>1, <1>2, <1>4, <2>3, <2>4, <2>5 DEF Applied, DocStays
    <3> QED  BY <1>1, <1>2, <2>4, <3>1, EditsWhileDocStays DEF StoreGoesOn
  <2>6. CASE merged # doc.content
    <3>1. due' = TRUE
      BY <1>4, <2>6 DEF Applied
    <3> QED  BY <1>1, <2>4, <3>1 DEF EditsInv
  <2> QED  BY <2>5, <2>6
<1> QED  BY <1>3, <1>4

LEMMA StoreEndsAs ==
  ASSUME NEW failed \in BOOLEAN, StoreEnds(failed)
  PROVE  store'.pc = "none" /\ store'.failed = failed
BY DEF StoreEnds, Quiet

LEMMA StoringKeepsEdits ==
  ASSUME TypeInv, SaveInv, EditsInv, Store
  PROVE  EditsInv' /\ doc # None /\ doc' # None
<1> USE DEF memory, storing, counters, Others
<1>1. store \in Stores /\ due \in BOOLEAN
  BY DEF TypeInv, Stored, Stores
<1>2. CASE StartStore \/ \E c \in Clients : AskCandidate(c)
  <2>1. doc # None /\ UNCHANGED <<doc, invalidated>>
    BY <1>2 DEF StartStore, AskCandidate, NextCandidate, SaveInv
  <2>2. invalidated \/ store'.pc \in {"asking", "asked"}
    <3>1. CASE StartStore
      BY <3>1, QuietTyped DEF StartStore, Stores
    <3>2. ASSUME NEW c \in Clients, AskCandidate(c)  PROVE store'.pc \in {"asking", "asked"}
      <4>1. CASE Accepted(c)
        BY <4>1, QuietTyped DEF Accepted, Stores
      <4>2. CASE ~Accepted(c)
        BY <1>1, <3>2, <4>2 DEF AskCandidate, NextCandidate, Stores
      <4> QED  BY <4>1, <4>2
    <3> QED  BY <1>2, <3>1, <3>2
  <2> QED  BY <2>1, <2>2 DEF EditsInv
<1>6. CASE RefuseStore
  <2>1. doc # None
    BY <1>6 DEF RefuseStore, SaveInv
  <2>2. CASE store.uncertain
    <3>1. store'.pc = "none" /\ store'.failed = TRUE
      BY <1>1, <1>6, <2>2, StoreEndsAs DEF RefuseStore, Stores
    <3> QED  BY <1>6, <2>1, <2>2, <3>1 DEF RefuseStore, EditsInv
  <2>3. CASE ~store.uncertain
    <3>1. DocStays /\ invalidated' = TRUE
      BY <1>6, <2>3, InvalidateLeavesDoc DEF RefuseStore
    <3> QED  BY <2>1, <3>1 DEF EditsInv, DocStays
  <2> QED  BY <2>2, <2>3
<1>3. CASE SendStore
  <2>1. doc # None
    BY <1>3 DEF SendStore, SaveInv
  <2>2. CASE Replaced(store)
    <3>1. DocStays /\ invalidated' = TRUE
      BY <1>3, <2>2, InvalidateLeavesDoc DEF SendStore
    <3> QED  BY <2>1, <3>1 DEF EditsInv, DocStays
  <2>3. CASE ~Replaced(store)
    <3>1. doc' = doc /\ store'.pc = "put" /\ store'.content = doc.content
      BY <1>1, <1>3, <2>3 DEF SendStore, Stores
    <3> QED  BY <2>1, <3>1 DEF EditsInv
  <2> QED  BY <2>2, <2>3
<1>4. CASE Update
  <2>1. doc # None /\ UNCHANGED <<doc, persisted, invalidated, due>> /\ store.pc = "put"
    BY <1>4 DEF Update, SaveInv
  <2>2. CASE StoreEnds(TRUE)
    <3>1. store'.pc = "none" /\ store'.failed = TRUE
      BY <2>2, StoreEndsAs
    <3> QED  BY <2>1, <3>1 DEF EditsInv
  <2>3. CASE store' = [store EXCEPT !.pc = "stored", !.version = @ + 1]
    <3>1. store'.pc = "stored" /\ store'.content = store.content
      BY <1>1, <2>3 DEF Stores
    <3> QED  BY <2>1, <3>1 DEF EditsInv
  <2> QED  BY <1>4, <2>2, <2>3 DEF Update
<1>5. CASE FinishStore
  <2>1. doc # None /\ UNCHANGED <<doc, invalidated, due>> /\ store.pc = "stored"
    BY <1>5 DEF FinishStore, SaveInv
  <2>2. CASE StoreEnds(TRUE)
    <3>1. store'.pc = "none" /\ store'.failed = TRUE
      BY <2>2, StoreEndsAs
    <3> QED  BY <2>1, <3>1 DEF EditsInv
  <2>3. CASE persisted' = Snapshot(store) /\ StoreEnds(FALSE)
    <3>1. store'.pc = "none" /\ persisted'.content = store.content
      BY <2>3, StoreEndsAs DEF Snapshot
    <3> QED  BY <2>1, <3>1 DEF EditsInv
  <2> QED  BY <1>5, <2>2, <2>3 DEF FinishStore
<1> QED  BY <1>2, <1>3, <1>4, <1>5, <1>6 DEF Store

(* A step keeps EditsInv, and only Unload makes a document go.             *)
LEMMA NextKeepsEdits ==
  ASSUME TypeInv, SaveInv, EditsInv, [Next]_vars
  PROVE  EditsInv' /\ (doc # None /\ doc' = None => Unload)
<1>1. CASE UNCHANGED vars
  BY <1>1, EditsWhileDocStays DEF DocStays, StoreGoesOn, vars, memory, storing
<1>2. CASE \/ Replace \/ Restore \/ UpdateMetadata \/ (\E c \in Clients : ChangeAccess(c))
           \/ Check \/ UnloadLate
  <2>1. DocStays /\ StoreGoesOn /\ UNCHANGED <<due, persisted>>
    BY <1>2, OthersLeaveDoc DEF Check
  <2> QED  BY <2>1, EditsWhileDocStays DEF DocStays
<1>3. ASSUME NEW c \in Clients, Connect(c) \/ Leave(c) \/ Edit(c) \/ Serve(c)
      PROVE  EditsInv' /\ (doc # None /\ doc' = None => Unload)
  <2>1. CASE Applied(c)
    BY <2>1, AppliedMakesDue
  <2>2. CASE ~Applied(c)
    <3>1. DocStays /\ StoreGoesOn /\ UNCHANGED <<due, persisted>>
      BY <1>3, <2>2, ClientsLeaveDoc DEF Serve
    <3> QED  BY <3>1, EditsWhileDocStays DEF DocStays
  <2> QED  BY <2>1, <2>2
<1>4. CASE FinishLoad
  <2>1. doc = None /\ store'.pc = "none"
    BY <1>4 DEF FinishLoad, SaveInv, storing
  <2>2. doc'.content = persisted'.content
    BY <1>4 DEF FinishLoad
  <2> QED  BY <2>1, <2>2 DEF EditsInv
<1>5. CASE Store
  BY <1>5, StoringKeepsEdits
<1>6. CASE Unload
  BY <1>6 DEF EditsInv, Unload, Unloaded
<1> QED  BY <1>1, <1>2, <1>3, <1>4, <1>5, <1>6 DEF Next

(* A document is unloaded with edits that were accepted and not stored     *)
(* only when it was invalidated or a store has failed (EditsAreKept,       *)
(* onStoreDocument and beforeUnloadDocument of server.ts).                 *)
THEOREM EditsReachThePage == Spec => EditsAreKept
<1>1. Init => EditsInv
  BY DEF Init, EditsInv
<1>2. TypeInv /\ SaveInv /\ EditsInv /\ [Next]_vars => EditsInv'
  BY NextKeepsEdits
<1>3. Spec => []EditsInv
  BY <1>1, <1>2, ServerKnowsPage, PTL DEF Spec
<1>4. ASSUME TypeInv, SaveInv, EditsInv, [Next]_vars,
             doc # None /\ doc' = None /\ ~invalidated /\ ~store.failed
      PROVE  doc.content \subseteq persisted.content
  BY <1>4, NextKeepsEdits DEF Unload, EditsInv
<1>5. TypeInv /\ SaveInv /\ EditsInv /\ [Next]_vars =>
        [doc # None /\ doc' = None /\ ~invalidated /\ ~store.failed
           => doc.content \subseteq persisted.content]_vars
  BY <1>4
<1> QED  BY <1>3, <1>5, ServerKnowsPage, PTL DEF Spec, EditsAreKept

-----------------------------------------------------------------------------
(* Answers that are overtaken                                              *)

(* p was read from the page at this version, or before, if at all.         *)
Heard(p, version) == p # None => p.version \in Nat /\ p.version <= version

AnswersInv ==
  /\ check # None => Heard(check.answer.page, page.version)
  /\ \A c \in Clients : sync[c] # None =>
       /\ sync[c] = [type |-> sync[c].type, step |-> sync[c].step, answer |-> sync[c].answer]
       /\ sync[c].step = "validate" => Heard(sync[c].answer.page, page.version)

LEMMA AnswersAreHeard ==
  ASSUME TypeInv, NEW cs
  PROVE  Heard(Answers(cs).page, page.version)
  BY DEF TypeInv, Stored, Heard, Answers, Snapshot

(* The page has not gone back, and nothing new was asked.                  *)
LEMMA NothingAsked ==
  ASSUME TypeInv, AnswersInv, page'.version \in Nat, page.version <= page'.version,
         check' \in {check, None}, \A c \in Clients : sync'[c] \in {sync[c], None}
  PROVE  AnswersInv'
<1>1. \A p : Heard(p, page.version) => Heard(p, page'.version)
  BY DEF TypeInv, Stored, Heard
<1>2. check' # None => Heard(check'.answer.page, page'.version)
  BY <1>1 DEF AnswersInv
<1>3. ASSUME NEW c \in Clients, sync'[c] # None
      PROVE  /\ sync'[c] = [type |-> sync'[c].type, step |-> sync'[c].step,
                            answer |-> sync'[c].answer]
             /\ sync'[c].step = "validate" => Heard(sync'[c].answer.page, page'.version)
  <2>1. sync'[c] = sync[c]
    BY <1>3
  <2> QED  BY <1>1, <1>3, <2>1 DEF AnswersInv
<1> QED  BY <1>2, <1>3 DEF AnswersInv

(* Those whose connections are closed have no message left.                *)
LEMMA CloseDropsMessages ==
  ASSUME NEW cs, NEW told, NEW waits, Close(cs, told, waits)
  PROVE  \A c \in Clients : sync'[c] \in {waits[c], None}
  BY DEF Close

LEMMA InvalidateDropsMessages ==
  ASSUME NEW id, Invalidate(id)
  PROVE  \A c \in Clients : sync'[c] \in {sync[c], None}
  BY CloseDropsMessages DEF Invalidate

LEMMA MessageAsked ==
  ASSUME TypeInv, AnswersInv, NEW c \in Clients, NEW type, NEW cs,
         sync' = [sync EXCEPT ![c] = Validating(type, cs)], UNCHANGED <<page, check>>
  PROVE  AnswersInv'
<1>1. sync = [d \in Clients |-> sync[d]]
  BY DEF TypeInv, Connected
<1>2. sync'[c] = [type |-> type, step |-> "validate", answer |-> Answers(cs)]
  BY <1>1 DEF Validating
<1>3. \A d \in Clients : d # c => sync'[d] = sync[d]
  BY <1>1
<1>4. Heard(Answers(cs).page, page'.version)
  BY AnswersAreHeard
<1>5. ASSUME NEW d \in Clients, sync'[d] # None
      PROVE  /\ sync'[d] = [type |-> sync'[d].type, step |-> sync'[d].step,
                            answer |-> sync'[d].answer]
             /\ sync'[d].step = "validate" => Heard(sync'[d].answer.page, page'.version)
  <2>1. CASE d = c
    BY <1>2, <1>4, <2>1
  <2>2. CASE d # c
    BY <1>3, <1>5, <2>2 DEF AnswersInv
  <2> QED  BY <2>1, <2>2
<1> QED  BY <1>5 DEF AnswersInv

(* Another answer is asked for, which is not of the page.                  *)
LEMMA MessageRead ==
  ASSUME TypeInv, AnswersInv, NEW c \in Clients, Validated(c)
  PROVE  AnswersInv'
<1> DEFINE answer == [may |-> c \in editors, open |-> page.open]
           waits  == [sync EXCEPT ![c].step = "read", ![c].answer = answer]
<1>1. sync = [d \in Clients |-> sync[d]]
  BY DEF TypeInv, Connected
<1>2. sync[c] # None
      /\ sync[c] = [type |-> sync[c].type, step |-> sync[c].step, answer |-> sync[c].answer]
  BY DEF Validated, AnswersInv
<1>3. waits[c] = [type |-> sync[c].type, step |-> "read", answer |-> answer]
  BY <1>1, <1>2
<1>4. \A d \in Clients : d # c => waits[d] = sync[d]
  BY <1>1
<1>5. \A d \in Clients : sync'[d] \in {waits[d], None}
  BY CloseDropsMessages DEF Validated, Revalidated
<1>6. UNCHANGED <<page, check>>
  BY DEF Validated
<1>7. ASSUME NEW d \in Clients, sync'[d] # None
      PROVE  /\ sync'[d] = [type |-> sync'[d].type, step |-> sync'[d].step,
                            answer |-> sync'[d].answer]
             /\ sync'[d].step = "validate" => Heard(sync'[d].answer.page, page.version)
  <2>1. sync'[d] = waits[d]
    BY <1>5, <1>7
  <2>2. CASE d = c
    <3>1. sync'[d] = [type |-> sync[c].type, step |-> "read", answer |-> answer]
      BY <1>3, <2>1, <2>2
    <3> QED  BY <3>1
  <2>3. CASE d # c
    BY <1>4, <1>7, <2>1, <2>3 DEF AnswersInv
  <2> QED  BY <2>2, <2>3
<1> QED  BY <1>6, <1>7 DEF AnswersInv

(* No step makes the page go back.                                         *)
LEMMA PageMovesOn ==
  ASSUME TypeInv, [Next]_vars
  PROVE  page'.version \in Nat /\ page.version <= page'.version
<1>1. page \in [version : Nat, content : Contents, open : BOOLEAN]
  BY DEF TypeInv, Stored
<1>2. CASE UNCHANGED page
  BY <1>1, <1>2
<1>3. CASE Replace \/ Restore \/ UpdateMetadata \/ Update
  <2>1. page'.version \in {page.version, page.version + 1}
    BY <1>1, <1>3 DEF Replace, Restore, UpdateMetadata, Update
  <2> QED  BY <1>1, <2>1
<1>4. UNCHANGED page \/ Replace \/ Restore \/ UpdateMetadata \/ Update
  BY DEF vars, Next, Others, ChangeAccess, Connect, Leave, Edit, Serve, StartLoad, Attach,
     Validated, Applied, FinishLoad, Check, StartCheck, FinishCheck, Store, StartStore,
     AskCandidate, RefuseStore, SendStore, FinishStore, Unload, UnloadLate
<1> QED  BY <1>2, <1>3, <1>4

LEMMA NextHears ==
  ASSUME TypeInv, SaveInv, AnswersInv, [Next]_vars
  PROVE  AnswersInv'
<1> DEFINE Nothing == /\ check' \in {check, None}
                      /\ \A c \in Clients : sync'[c] \in {sync[c], None}
<1>0. Nothing => AnswersInv'
  BY NothingAsked, PageMovesOn
<1>1. CASE UNCHANGED <<check, sync>>
  BY <1>0, <1>1
<1>2. CASE \/ UNCHANGED vars \/ Replace \/ Restore \/ UpdateMetadata
           \/ (\E c \in Clients : \/ ChangeAccess(c) \/ Connect(c) \/ StartLoad(c)
                                  \/ AskCandidate(c))
           \/ FinishLoad \/ StartStore \/ Update \/ FinishStore \/ Unload \/ UnloadLate
  BY <1>1, <1>2 DEF vars, Others, Live, Replace, Restore, UpdateMetadata, ChangeAccess,
     Connect, StartLoad, FinishLoad, StartStore, AskCandidate, Update, FinishStore, Unload,
     UnloadLate
<1>3. CASE StartCheck
  <2>1. check'.answer = Answers(doc.conns) /\ UNCHANGED <<page, sync>>
    BY <1>3 DEF StartCheck
  <2>2. Heard(check'.answer.page, page'.version)
    BY <2>1, AnswersAreHeard
  <2> QED  BY <2>1, <2>2 DEF AnswersInv
<1>4. CASE FinishCheck
  <2>1. check' = None /\ \A c \in Clients : sync'[c] \in {sync[c], None}
    BY <1>4, CloseDropsMessages DEF FinishCheck, Revalidated
  <2> QED  BY <1>0, <2>1
<1>5. CASE RefuseStore \/ SendStore
  <2>1. check' = check
    BY <1>5 DEF RefuseStore, SendStore, Others
  <2>2. UNCHANGED sync \/ Invalidate(doc.id)
    BY <1>5 DEF RefuseStore, SendStore
  <2>3. \A c \in Clients : sync'[c] \in {sync[c], None}
    BY <2>2, InvalidateDropsMessages
  <2> QED  BY <1>0, <2>1, <2>3
<1>6. ASSUME NEW c \in Clients, Attach(c) \/ Edit(c)
      PROVE  AnswersInv'
  BY <1>6, MessageAsked DEF Attach, Edit
<1>7. ASSUME NEW c \in Clients, Leave(c) \/ Applied(c)
      PROVE  AnswersInv'
  <2>1. check' = check
    BY <1>7 DEF Leave, Applied
  <2>2. CASE \E cs, told : Close(cs, told, sync)
    BY <1>0, <2>1, <2>2, CloseDropsMessages
  <2>3. CASE sync' = [sync EXCEPT ![c] = None]
    BY <1>0, <2>1, <2>3 DEF TypeInv, Connected
  <2> QED  BY <1>7, <2>2, <2>3 DEF Leave, Applied
<1>8. ASSUME NEW c \in Clients, Validated(c)
      PROVE  AnswersInv'
  BY <1>8, MessageRead
<1> QED  BY <1>2, <1>3, <1>4, <1>5, <1>6, <1>7, <1>8 DEF Next, Serve, Check, Store

-----------------------------------------------------------------------------
(* Stores without a candidate                                              *)

(* The page is not what the server knows.                                  *)
PageMoved == ~page.open \/ page.version > persisted.version

(* Who could write all the time, and was not asked in vain, is still to be *)
(* asked.                                                                  *)
AskingInv ==
  store.pc = "asking" /\ ~store.uncertain =>
    PageMoved \/ store.able \subseteq store.left \cap editors

LEMMA PageStaysMoved ==
  ASSUME TypeInv, SaveInv, [Next]_vars, doc # None, UNCHANGED persisted, PageMoved
  PROVE  PageMoved'
<1>1. /\ page \in [version : Nat, content : Contents, open : BOOLEAN]
      /\ persisted.version \in Nat /\ persisted.version <= page.version
  BY NoneIsNothing DEF TypeInv, Stored, Snapshots, SaveInv, Known
<1>2. page'.version \in Nat /\ page.version <= page'.version
  BY PageMovesOn
<1>3. CASE page.version > persisted.version
  BY <1>1, <1>2, <1>3 DEF PageMoved
<1>4. CASE ~page.open
  <2>1. CASE Replace \/ Restore \/ UpdateMetadata \/ Update
    <3>1. ~page'.open \/ page'.version = page.version + 1
      BY <1>1, <1>4, <2>1 DEF Replace, Restore, UpdateMetadata, Update
    <3> QED  BY <1>1, <3>1 DEF PageMoved
  <2>2. CASE UNCHANGED page
    BY <1>4, <2>2 DEF PageMoved
  <2>3. UNCHANGED page \/ Replace \/ Restore \/ UpdateMetadata \/ Update
    BY DEF vars, Next, Others, ChangeAccess, Connect, Leave, Edit, Serve, StartLoad, Attach,
       Validated, Applied, FinishLoad, Check, StartCheck, FinishCheck, Store, StartStore,
       AskCandidate, RefuseStore, SendStore, FinishStore, Unload, UnloadLate
  <2> QED  BY <2>1, <2>2, <2>3
<1> QED  BY <1>3, <1>4 DEF PageMoved

LEMMA NextAsks ==
  ASSUME TypeInv, SaveInv, AskingInv, [Next]_vars
  PROVE  AskingInv'
<1> USE DEF memory, storing, counters, Others
<1>1. store \in Stores
  BY DEF TypeInv, Stored
<1>2. CASE StartStore
  <2>1. \/ store'.pc = "none"
        \/ store'.able = Candidates \cap editors /\ store'.left = Candidates
    BY <1>2, QuietTyped DEF StartStore, Stores
  <2>2. editors' = editors
    BY <1>2 DEF StartStore
  <2> QED  BY <2>1, <2>2 DEF AskingInv
<1>3. ASSUME store.pc = "asking", UNCHANGED persisted,
             ~store'.uncertain => ~store.uncertain,
             store.able \subseteq store.left \cap editors =>
               PageMoved' \/ store'.able \subseteq store'.left \cap editors'
      PROVE  AskingInv'
  <2>1. doc # None
    BY <1>3 DEF SaveInv
  <2> QED  BY <1>3, <2>1, PageStaysMoved DEF AskingInv
<1>4. ASSUME NEW c \in Clients, AskCandidate(c)  PROVE AskingInv'
  <2>1. /\ store.pc = "asking" /\ UNCHANGED <<page, editors, persisted>>
    BY <1>4 DEF AskCandidate, NextCandidate
  <2>2. CASE Accepted(c)
    BY <2>2, QuietTyped DEF Accepted, Stores, AskingInv
  <2>3. CASE store' = [store EXCEPT !.left = @ \ {c}, !.uncertain = TRUE]
    BY <1>1, <2>3 DEF Stores, AskingInv
  <2>4. CASE ~MayWrite(c) /\ store' = [store EXCEPT !.left = @ \ {c}]
    <3>1. /\ store'.left = store.left \ {c} /\ store'.able = store.able
          /\ store'.uncertain = store.uncertain
      BY <1>1, <2>4 DEF Stores
    <3>2. CASE page.open
      BY <1>3, <2>1, <2>4, <3>1, <3>2 DEF MayWrite
    <3>3. CASE ~page.open
      BY <2>1, <3>3 DEF AskingInv, PageMoved
    <3> QED  BY <3>2, <3>3
  <2> QED  BY <1>4, <2>2, <2>3, <2>4 DEF AskCandidate
<1>5. ASSUME NEW c \in Clients, ChangeAccess(c)  PROVE AskingInv'
  <2>1. /\ store'.pc = store.pc /\ store'.left = store.left
        /\ store'.able = store.able \cap editors' /\ store'.uncertain = store.uncertain
        /\ UNCHANGED persisted
    BY <1>1, <1>5 DEF ChangeAccess, Stores
  <2>2. CASE store.pc = "asking"
    BY <1>3, <2>1, <2>2
  <2>3. CASE store.pc # "asking"
    BY <2>1, <2>3 DEF AskingInv
  <2> QED  BY <2>2, <2>3
<1>6. CASE UNCHANGED <<store, editors, persisted>>
  <2>1. CASE store.pc = "asking"
    BY <1>3, <1>6, <2>1
  <2>2. CASE store.pc # "asking"
    BY <1>6, <2>2 DEF AskingInv
  <2> QED  BY <2>1, <2>2
<1>7. CASE RefuseStore \/ SendStore \/ Update \/ FinishStore \/ Unload
  <2>1. store'.pc # "asking"
    BY <1>1, <1>7, StoreEndsTyped, QuietTyped
       DEF RefuseStore, SendStore, Update, FinishStore, Unload, Stores
  <2> QED  BY <2>1 DEF AskingInv
<1>8. CASE FinishLoad
  <2>1. store'.pc = "none"
    BY <1>8 DEF FinishLoad, SaveInv
  <2> QED  BY <2>1 DEF AskingInv
<1>9. \/ UNCHANGED <<store, editors, persisted>> \/ StartStore \/ FinishLoad
      \/ (\E c \in Clients : AskCandidate(c) \/ ChangeAccess(c))
      \/ RefuseStore \/ SendStore \/ Update \/ FinishStore \/ Unload
  BY DEF vars, Next, Live, Replace, Restore, UpdateMetadata, Connect, Leave, Edit, Serve,
     StartLoad, Attach, Validated, Applied, Check, StartCheck, FinishCheck, Store,
     UnloadLate, MayUnload, SaveInv
<1> QED  BY <1>2, <1>4, <1>5, <1>6, <1>7, <1>8, <1>9

(* A document is invalidated only when the page has moved on from what the *)
(* server knows to be stored, is closed, or none of those whom a store     *)
(* found there could write it all the time: an answer that a save has      *)
(* overtaken does not count, nor does a request that failed                *)
(* (InvalidationsAreDue, onStoreDocument, replaced and revalidate of       *)
(* server.ts).                                                             *)
THEOREM InvalidationsHaveTheirReason == Spec => InvalidationsAreDue
<1> DEFINE Due == \/ page.version > persisted.version
                  \/ ~page.open
                  \/ store.pc = "asking" /\ store.able = {}
           Inv == TypeInv /\ SaveInv /\ AnswersInv /\ AskingInv
<1>1. Init => AnswersInv /\ AskingInv
  BY DEF Init, AnswersInv, AskingInv, Quiet
<1>2. TypeInv /\ SaveInv /\ AnswersInv /\ AskingInv /\ [Next]_vars => (AnswersInv /\ AskingInv)'
  BY NextHears, NextAsks
<1>3. Spec => [](AnswersInv /\ AskingInv)
  BY <1>1, <1>2, ServerKnowsPage, PTL DEF Spec
<1>4. ASSUME Inv, [Next]_vars, invalidated', ~invalidated
      PROVE  Due
  <2>1. ASSUME NEW p, p.version \in Nat, p.version <= page.version, Replaced(p)
        PROVE  Due
    <3>1. persisted.version \in Nat /\ page.version \in Nat
      BY <1>4, <2>1 DEF TypeInv, Stored, Snapshots, Replaced
    <3> QED  BY <2>1, <3>1 DEF Replaced
  <2>2. CASE FinishCheck
    BY <1>4, <2>1, <2>2 DEF FinishCheck, Revalidated, AnswersInv, Heard
  <2>3. ASSUME NEW c \in Clients, Validated(c)
        PROVE  Due
    BY <1>4, <2>1, <2>3 DEF Validated, Revalidated, AnswersInv, Heard
  <2>4. CASE RefuseStore
    BY <1>4, <2>4 DEF RefuseStore, AskingInv, PageMoved
  <2>5. CASE SendStore
    <3>1. Replaced(store) /\ Known(store) /\ store.version \in Nat
      BY <1>4, <2>5 DEF SendStore, SaveInv, TypeInv, Stored, Stores
    <3> QED  BY <2>1, <3>1 DEF Known
  <2>6. \/ FinishCheck \/ (\E c \in Clients : Validated(c)) \/ RefuseStore \/ SendStore
    BY <1>4 DEF vars, Next, Live, memory, storing, counters, Others, Replace, Restore,
       UpdateMetadata, ChangeAccess, Connect, Leave, Edit, Serve, StartLoad, Attach,
       Applied, FinishLoad, Check, StartCheck, Store, StartStore, AskCandidate, Update,
       FinishStore, Unload, Unloaded, UnloadLate
  <2> QED  BY <2>2, <2>3, <2>4, <2>5, <2>6
<1>5. Inv /\ [Next]_vars => [invalidated' /\ ~invalidated => Due]_vars
  BY <1>4
<1> QED  BY <1>3, <1>5, ServerKnowsPage, PTL DEF Spec, InvalidationsAreDue
=============================================================================
