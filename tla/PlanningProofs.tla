--------------------------- MODULE PlanningProofs ---------------------------
(***************************************************************************)
(* Proofs about PlanningTransactions, for any items, connections, runs and *)
(* keys, and for any length of a history.                                  *)
(*                                                                         *)
(* Two transactions never hold conflicting locks (Exclusion).  A script    *)
(* takes the lock that guards a read before the read (Guard), and whoever  *)
(* writes holds the locks that guard what it changes, so what was read     *)
(* stays true.  An undo has then compared the fingerprints of its items,   *)
(* and a fact's revision tells who made it (Facts), because no two         *)
(* transactions write at the same revision.                                *)
(***************************************************************************)
EXTENDS PlanningTransactions, FiniteSetTheorems, SequenceTheorems, TLAPS

-----------------------------------------------------------------------------
(* Scripts.                                                                *)

(* The lock under which a read is made.                                    *)
Guard(what) ==
  IF what = "key" THEN Exclusive(Graph)
  ELSE IF what \in {"running", "applied"} THEN Exclusive(Project)
  ELSE Exclusive(Revision)

(* A sequence of steps with reads of W, each of which has its guard before *)
(* it.                                                                     *)
Guarded(s, W) ==
  /\ \E T : s \in Seq(T)
  /\ \A n \in 1 .. Len(s) :
       \/ s[n].step = "lock"
       \/ \E what \in W : /\ s[n] = Look(what)
                          /\ \E m \in 1 .. (n - 1) : s[m] = Guard(what)

Has(s, x) == \E n \in 1 .. Len(s) : s[n] = x

(* Guards are kept by a concatenation.                                     *)
LEMMA Composed ==
  ASSUME NEW a, NEW b, NEW W, Guarded(a, W), Guarded(b, W)
  PROVE  /\ Guarded(a \o b, W)
         /\ \A x : Has(a, x) \/ Has(b, x) => Has(a \o b, x)
<1>1. PICK T1 : a \in Seq(T1)
  BY DEF Guarded
<1>2. PICK T2 : b \in Seq(T2)
  BY DEF Guarded
<1> DEFINE c == a \o b
           T == T1 \cup T2
<1>3. a \in Seq(T) /\ b \in Seq(T) /\ Len(a) \in Nat /\ Len(b) \in Nat
  BY <1>1, <1>2
<1>4. /\ c \in Seq(T) /\ Len(c) = Len(a) + Len(b)
      /\ \A n \in 1 .. Len(a) + Len(b) :
           c[n] = IF n <= Len(a) THEN a[n] ELSE b[n - Len(a)]
  BY <1>3, ConcatProperties
<1> HIDE DEF c, T
<1>5. \A n \in 1 .. Len(a) : n \in 1 .. Len(c) /\ c[n] = a[n]
  BY <1>3, <1>4
<1>6. \A n \in 1 .. Len(b) : Len(a) + n \in 1 .. Len(c) /\ c[Len(a) + n] = b[n]
  BY <1>3, <1>4
<1>7. ASSUME NEW n \in 1 .. Len(c)
      PROVE  \/ c[n].step = "lock"
             \/ \E what \in W : /\ c[n] = Look(what)
                                /\ \E m \in 1 .. (n - 1) : c[m] = Guard(what)
  <2>1. CASE n \in 1 .. Len(a)
    <3>1. CASE a[n].step = "lock"
      BY <1>5, <2>1, <3>1
    <3>2. ASSUME NEW what \in W, a[n] = Look(what), NEW m \in 1 .. (n - 1), a[m] = Guard(what)
          PROVE  c[n] = Look(what) /\ m \in 1 .. (n - 1) /\ c[m] = Guard(what)
      <4>1. m \in 1 .. Len(a)
        BY <1>3, <2>1
      <4> QED
        BY <1>5, <2>1, <3>2, <4>1
    <3> QED
      BY <2>1, <3>1, <3>2 DEF Guarded
  <2>2. CASE n \notin 1 .. Len(a)
    <3> DEFINE k == n - Len(a)
    <3>1. k \in 1 .. Len(b) /\ Len(a) + k = n
      BY <1>3, <1>4, <2>2
    <3> HIDE DEF k
    <3>2. CASE b[k].step = "lock"
      BY <1>6, <3>1, <3>2
    <3>3. ASSUME NEW what \in W, b[k] = Look(what), NEW m \in 1 .. (k - 1), b[m] = Guard(what)
          PROVE  c[n] = Look(what) /\ Len(a) + m \in 1 .. (n - 1) /\ c[Len(a) + m] = Guard(what)
      <4>1. m \in 1 .. Len(b) /\ Len(a) + m \in 1 .. (n - 1)
        BY <1>3, <3>1
      <4> QED
        BY <1>6, <3>1, <3>3, <4>1
    <3> QED
      BY <3>1, <3>2, <3>3 DEF Guarded
  <2> QED
    BY <2>1, <2>2
<1>8. \A x : Has(a, x) \/ Has(b, x) => Has(c, x)
  BY <1>5, <1>6 DEF Has
<1> QED
  BY <1>4, <1>7, <1>8 DEF Guarded, c

LEMMA InOrderGuarded ==
  ASSUME NEW S \in SUBSET Items, NEW W
  PROVE  /\ Guarded(InOrder(S), W) /\ Len(InOrder(S)) = Cardinality(S)
         /\ \E T : /\ InOrder(S) \in Seq(T)
                   /\ \A x \in T : x.step = "lock"
<1>1. Cardinality(S) \in Nat
  BY FS_Subset, FS_CardinalityType, PlanningAssumption
<1> DEFINE T == {InOrder(S)[n] : n \in 1 .. Cardinality(S)}
<1>2. /\ DOMAIN InOrder(S) = 1 .. Cardinality(S)
      /\ InOrder(S) = [n \in 1 .. Cardinality(S) |-> InOrder(S)[n]]
  BY DEF InOrder
<1>3. \A n \in 1 .. Cardinality(S) : InOrder(S)[n].step = "lock"
  BY DEF InOrder, Exclusive
<1>4. InOrder(S) \in [1 .. Cardinality(S) -> T]
  BY <1>2
<1>5. InOrder(S) \in Seq(T) /\ Len(InOrder(S)) = Cardinality(S)
  BY <1>1, <1>4
<1>6. \A x \in T : x.step = "lock"
  BY <1>3
<1> QED
  BY <1>3, <1>5, <1>6 DEF Guarded

LEMMA PairGuarded ==
  ASSUME NEW W, NEW x, NEW y,
         x.step = "lock",
         \/ y.step = "lock"
         \/ \E what \in W : y = Look(what) /\ x = Guard(what)
  PROVE  Guarded(<<x, y>>, W) /\ Has(<<x, y>>, x) /\ Has(<<x, y>>, y)
<1> DEFINE s == <<x, y>>
<1>1. s \in Seq({x, y}) /\ Len(s) = 2 /\ s[1] = x /\ s[2] = y
  OBVIOUS
<1> HIDE DEF s
<1>2. 1 \in 1 .. Len(s) /\ 2 \in 1 .. Len(s) /\ 1 \in 1 .. (2 - 1)
  BY <1>1
<1>3. \A n \in 1 .. Len(s) : n = 1 \/ n = 2
  BY <1>1
<1>4. Has(s, x) /\ Has(s, y)
  BY <1>1, <1>2 DEF Has
<1>5. Guarded(s, W)
  BY <1>1, <1>2, <1>3 DEF Guarded
<1> QED
  BY <1>4, <1>5 DEF s

LEMMA Steps ==
  /\ \A x : Exclusive(x).step = "lock" /\ Shared(x).step = "lock"
            /\ Exclusive(x).on = x /\ ~Exclusive(x).shared
  /\ \A what : Look(what).step = "look" /\ Look(what).on = what
  /\ \A a, b : Look(a) = Look(b) => a = b
  /\ Guard("key") = Exclusive(Graph)
  /\ Guard("running") = Exclusive(Project) /\ Guard("applied") = Exclusive(Project)
  /\ Guard("input") = Exclusive(Revision) /\ Guard("unchanged") = Exclusive(Revision)
<1>1. \A what : Look(what).step = "look" /\ Look(what).on = what
  BY DEF Look
<1>2. \A a, b : Look(a) = Look(b) => a = b
  BY <1>1
<1> QED
  BY <1>1, <1>2 DEF Exclusive, Shared, Guard

LEMMA ChangeScriptGuarded ==
  ASSUME NEW S \in SUBSET Items
  PROVE  /\ Guarded(ChangeScript(S), {"key"})
         /\ Has(ChangeScript(S), Exclusive(Graph))
         /\ Has(ChangeScript(S), Exclusive(Revision))
<1> DEFINE a == <<Exclusive(Graph), Look("key")>>
           b == InOrder(S)
           c == <<Shared(Project), Exclusive(Revision)>>
<1>1. Guarded(a, {"key"}) /\ Has(a, Exclusive(Graph))
  BY Steps, PairGuarded
<1>2. Guarded(b, {"key"})
  BY InOrderGuarded
<1>3. Guarded(c, {"key"}) /\ Has(c, Exclusive(Revision))
  BY Steps, PairGuarded
<1>4. ChangeScript(S) = (a \o b) \o c
  BY DEF ChangeScript
<1> HIDE DEF a, b, c
<1>5. Guarded(a \o b, {"key"}) /\ Has(a \o b, Exclusive(Graph))
  BY <1>1, <1>2, Composed
<1> QED
  BY <1>3, <1>4, <1>5, Composed

LEMMA RemarkScriptGuarded ==
  ASSUME NEW S \in SUBSET Items
  PROVE  Guarded(RemarkScript(S), {}) /\ Has(RemarkScript(S), Exclusive(Revision))
<1> DEFINE a == InOrder(S)
           b == <<Exclusive(Revision), Shared(Project)>>
<1>1. Guarded(a, {})
  BY InOrderGuarded
<1>2. Guarded(b, {}) /\ Has(b, Exclusive(Revision))
  BY Steps, PairGuarded
<1>3. RemarkScript(S) = a \o b
  BY DEF RemarkScript
<1> HIDE DEF a, b
<1> QED
  BY <1>1, <1>2, <1>3, Composed

LEMMA AttachScriptGuarded ==
  Guarded(AttachScript, {}) /\ Has(AttachScript, Exclusive(Revision))
BY Steps, PairGuarded DEF AttachScript

LEMMA EditScriptGuarded ==
  ASSUME NEW S \in SUBSET Items, S # {}
  PROVE  Guarded(EditScript(S), {}) /\ Has(EditScript(S), Exclusive(Revision))
<1>1. PICK T : /\ InOrder(S) \in Seq(T)
               /\ \A x \in T : x.step = "lock"
  BY InOrderGuarded
<1>2. InOrder(S) # <<>>
  <2>1. Cardinality(S) # 0
    BY FS_Subset, FS_EmptySet, PlanningAssumption
  <2>2. Len(InOrder(S)) # 0
    BY <2>1, InOrderGuarded
  <2> QED
    BY <2>2
<1> DEFINE h == Head(InOrder(S))
           b == Tail(InOrder(S))
           a == <<Exclusive(Graph), h>> \o <<Shared(Project), Exclusive(Revision)>>
<1>3. h \in T /\ b \in Seq(T)
  BY <1>1, <1>2, HeadTailProperties
<1>4. EditScript(S) = a \o b
  BY DEF EditScript
<1> HIDE DEF h, b
<1>5. Guarded(b, {})
  <2>1. \A n \in 1 .. Len(b) : b[n].step = "lock"
    BY <1>1, <1>3
  <2> QED
    BY <1>3, <2>1 DEF Guarded
<1>6. Guarded(a, {}) /\ Has(a, Exclusive(Revision))
  <2> DEFINE a1 == <<Exclusive(Graph), h>>
             a2 == <<Shared(Project), Exclusive(Revision)>>
  <2>1. Guarded(a1, {})
    BY <1>1, <1>3, Steps, PairGuarded
  <2>2. Guarded(a2, {}) /\ Has(a2, Exclusive(Revision))
    BY Steps, PairGuarded
  <2>3. a = a1 \o a2
    OBVIOUS
  <2> HIDE DEF a1, a2, a
  <2> QED
    BY <2>1, <2>2, <2>3, Composed
<1> HIDE DEF a
<1> QED
  BY <1>4, <1>5, <1>6, Composed

LEMMA CommitScriptGuarded ==
  ASSUME NEW S \in SUBSET Items
  PROVE  /\ Guarded(CommitScript(S), {"running", "input"})
         /\ \A x \in {Exclusive(Project), Exclusive(Revision), Look("running"), Look("input")} :
              Has(CommitScript(S), x)
<1> DEFINE W == {"running", "input"}
           g == <<Exclusive(Graph)>>
           a == <<Exclusive(Project), Look("running")>>
           b == <<Exclusive(Revision), Look("input")>>
           c == InOrder(S)
<1>1. Guarded(g, W)
  <2>1. g \in Seq({Exclusive(Graph)}) /\ Len(g) = 1 /\ g[1] = Exclusive(Graph)
    OBVIOUS
  <2> HIDE DEF g
  <2> QED
    BY <2>1, Steps DEF Guarded
<1>2. Guarded(a, W) /\ Has(a, Exclusive(Project)) /\ Has(a, Look("running"))
  BY Steps, PairGuarded
<1>3. Guarded(b, W) /\ Has(b, Exclusive(Revision)) /\ Has(b, Look("input"))
  BY Steps, PairGuarded
<1>4. Guarded(c, W)
  BY InOrderGuarded
<1>5. CommitScript(S) = ((g \o a) \o b) \o c
  BY DEF CommitScript
<1> HIDE DEF W, g, a, b, c
<1>6. Guarded(g \o a, W) /\ Has(g \o a, Exclusive(Project)) /\ Has(g \o a, Look("running"))
  BY <1>1, <1>2, Composed
<1>7. /\ Guarded((g \o a) \o b, W)
      /\ Has((g \o a) \o b, Exclusive(Project)) /\ Has((g \o a) \o b, Look("running"))
      /\ Has((g \o a) \o b, Exclusive(Revision)) /\ Has((g \o a) \o b, Look("input"))
  BY <1>3, <1>6, Composed
<1>8. /\ Guarded(((g \o a) \o b) \o c, W)
      /\ \A x : Has((g \o a) \o b, x) => Has(((g \o a) \o b) \o c, x)
  BY <1>4, <1>7, Composed
<1> QED
  BY <1>5, <1>7, <1>8 DEF W

LEMMA UndoScriptGuarded ==
  ASSUME NEW S \in SUBSET Items
  PROVE  /\ Guarded(UndoScript(S), {"applied", "unchanged"})
         /\ \A x \in {Exclusive(Project), Exclusive(Revision), Look("applied"), Look("unchanged")} :
              Has(UndoScript(S), x)
<1> DEFINE W == {"applied", "unchanged"}
           g == <<Exclusive(Graph)>>
           a == <<Exclusive(Project), Look("applied")>>
           b == InOrder(S)
           c == <<Exclusive(Revision), Look("unchanged")>>
<1>1. Guarded(g, W)
  <2>1. g \in Seq({Exclusive(Graph)}) /\ Len(g) = 1 /\ g[1] = Exclusive(Graph)
    OBVIOUS
  <2> HIDE DEF g
  <2> QED
    BY <2>1, Steps DEF Guarded
<1>2. Guarded(a, W) /\ Has(a, Exclusive(Project)) /\ Has(a, Look("applied"))
  BY Steps, PairGuarded
<1>3. Guarded(b, W)
  BY InOrderGuarded
<1>4. Guarded(c, W) /\ Has(c, Exclusive(Revision)) /\ Has(c, Look("unchanged"))
  BY Steps, PairGuarded
<1>5. UndoScript(S) = ((g \o a) \o b) \o c
  BY DEF UndoScript
<1> HIDE DEF W, g, a, b, c
<1>6. Guarded(g \o a, W) /\ Has(g \o a, Exclusive(Project)) /\ Has(g \o a, Look("applied"))
  BY <1>1, <1>2, Composed
<1>7. /\ Guarded((g \o a) \o b, W)
      /\ Has((g \o a) \o b, Exclusive(Project)) /\ Has((g \o a) \o b, Look("applied"))
  BY <1>3, <1>6, Composed
<1>8. /\ Guarded(((g \o a) \o b) \o c, W)
      /\ \A x : Has((g \o a) \o b, x) \/ Has(c, x) => Has(((g \o a) \o b) \o c, x)
  BY <1>4, <1>7, Composed
<1> QED
  BY <1>4, <1>5, <1>7, <1>8 DEF W

-----------------------------------------------------------------------------
(* Types.                                                                  *)

Kept == UNION {[S -> Values \cup {None}] : S \in SUBSET Items}

RunRecord ==
  [status : {"new", "running", "applied", "undone"}, revision : Nat,
   items : SUBSET Items, creates : BOOLEAN, value : Values \cup {None},
   input : Kept, before : Kept,
   after : UNION {[S -> Nat \X {"absent", "live", "deleted"} \X Nat] : S \in SUBSET Items}]

Transactions ==
  [kind : Kinds, got : Nat, request : Requests \cup {None}, run : Runs \cup {None}]

TypeInv ==
  /\ item \in [Items -> ItemRecord]
  /\ revision \in Nat
  /\ run \in [Runs -> RunRecord]
  /\ \A r \in Runs : DOMAIN run[r].before \subseteq DOMAIN run[r].after
  /\ saved \in [Keys -> Requests \cup {None}]
  /\ \A k \in Keys : saved[k] # None => saved[k] \in Requests /\ saved[k].key \in Keys
  /\ tx \in [Txs -> Transactions \cup {NoTx}]

(* A transaction has the request or the run that its kind needs.           *)
Fitting(x) ==
  /\ x.kind = "change" => x.request \in Requests /\ x.request.key \in Keys
  /\ x.kind \in {"edit", "delete"} =>
       x.request \in Requests /\ x.request.key = None /\ x.request.items # {}
  /\ x.kind \in {"remark", "attach"} =>
       x.request \in Requests /\ \E i \in Items : x.request.items = {i}
  /\ x.kind = "commit" => x.run \in Runs /\ run[x.run].status # "new"
  /\ x.kind = "undo" => x.run \in Runs /\ run[x.run].status \in {"applied", "undone"}

TxInv ==
  \A t \in Txs : Busy(t) => /\ Fitting(tx[t])
                            /\ \A n \in 1 .. tx[t].got : n \in 1 .. Len(Script(t))

LEMMA EmptyKept ==
  /\ <<>> \in Kept /\ DOMAIN <<>> = {}
  /\ <<>> \in UNION {[S -> Nat \X {"absent", "live", "deleted"} \X Nat] : S \in SUBSET Items}
<1>1. {} \in SUBSET Items
  OBVIOUS
<1>2. \A V : <<>> \in [{} -> V]
  OBVIOUS
<1> QED
  BY <1>1, <1>2 DEF Kept

LEMMA InitTyped == Init => TypeInv /\ TxInv
<1> SUFFICES ASSUME Init PROVE TypeInv /\ TxInv
  OBVIOUS
<1>1. \A t \in Txs : tx[t] = NoTx /\ ~Busy(t)
  BY DEF Init, NoTx, Busy
<1>2. TxInv
  BY <1>1 DEF TxInv
<1>3. item \in [Items -> ItemRecord] /\ revision \in Nat
  BY DEF Init, AtomicInit, ItemRecord
<1>4. \A r \in Runs : run[r] \in RunRecord /\ DOMAIN run[r].before \subseteq DOMAIN run[r].after
  BY EmptyKept DEF Init, AtomicInit, RunRecord
<1>5. run \in [Runs -> RunRecord]
  BY <1>4 DEF Init, AtomicInit
<1> QED
  BY <1>1, <1>2, <1>3, <1>4, <1>5 DEF Init, AtomicInit, TypeInv

LEMMA TxTyped ==
  ASSUME TypeInv, NEW t \in Txs
  PROVE  /\ Busy(t) => tx[t] \in Transactions
         /\ ~Busy(t) => tx[t] = NoTx
  BY DEF TypeInv, Busy, NoTx, Transactions, Kinds

LEMMA TypesImplyTypeOK == TypeInv => TypeOK
<1> SUFFICES ASSUME TypeInv PROVE TypeOK
  OBVIOUS
<1>1. \A r \in Runs :
       /\ run[r].status \in {"new", "running", "applied", "undone"}
       /\ run[r].revision \in Nat
       /\ run[r].items \subseteq Items /\ run[r].creates \in BOOLEAN
       /\ DOMAIN run[r].before \subseteq DOMAIN run[r].after
       /\ DOMAIN run[r].after \subseteq Items
  BY DEF TypeInv, RunRecord
<1>2. \A t \in Txs : Busy(t) =>
       /\ tx[t].kind \in Kinds
       /\ tx[t].got \in Nat
       /\ tx[t].request \in Requests \cup {None}
       /\ tx[t].run \in Runs \cup {None}
  BY TxTyped DEF Transactions
<1> QED
  BY <1>1, <1>2 DEF TypeOK, TypeInv

-----------------------------------------------------------------------------
(* What a transaction has done.                                            *)

Reads(kind) ==
  IF kind = "change" THEN {"key"}
  ELSE IF kind = "commit" THEN {"running", "input"}
  ELSE IF kind = "undo" THEN {"applied", "unchanged"}
  ELSE {}

(* Every kind of transaction reads under the guards, and ends with the     *)
(* locks on what it writes.                                                *)
LEMMA ScriptGuarded ==
  ASSUME TypeInv, NEW t \in Txs, Busy(t), Fitting(tx[t])
  PROVE  /\ Guarded(Script(t), Reads(tx[t].kind))
         /\ Has(Script(t), Exclusive(Revision))
         /\ tx[t].kind = "change" => Has(Script(t), Exclusive(Graph))
         /\ tx[t].kind \in {"commit", "undo"} =>
              /\ Has(Script(t), Exclusive(Project))
              /\ \A what \in Reads(tx[t].kind) : Has(Script(t), Look(what))
<1>1. tx[t] \in Transactions
  BY TxTyped
<1>2. \A q \in Requests : q.items \in SUBSET Items
  BY DEF Requests
<1>3. \A r \in Runs : run[r].items \in SUBSET Items /\ DOMAIN run[r].after \in SUBSET Items
  BY DEF TypeInv, RunRecord
<1>4. CASE tx[t].kind = "change"
  <2>1. Script(t) = ChangeScript(tx[t].request.items) /\ tx[t].request.items \in SUBSET Items
    BY <1>2, <1>4 DEF Script, Fitting
  <2>2. Reads(tx[t].kind) = {"key"}
    BY <1>4 DEF Reads
  <2> QED
    BY <1>4, <2>1, <2>2, ChangeScriptGuarded
<1>5. CASE tx[t].kind \in {"edit", "delete"}
  <2>1. Script(t) = EditScript(tx[t].request.items) /\ tx[t].request.items \in SUBSET Items
        /\ tx[t].request.items # {}
    BY <1>2, <1>5 DEF Script, Fitting
  <2>2. Reads(tx[t].kind) = {}
    BY <1>5 DEF Reads
  <2> QED
    BY <1>5, <2>1, <2>2, EditScriptGuarded
<1>6. CASE tx[t].kind = "remark"
  <2>1. Script(t) = RemarkScript(tx[t].request.items) /\ tx[t].request.items \in SUBSET Items
    BY <1>2, <1>6 DEF Script, Fitting
  <2>2. Reads(tx[t].kind) = {}
    BY <1>6 DEF Reads
  <2> QED
    BY <1>6, <2>1, <2>2, RemarkScriptGuarded
<1>7. CASE tx[t].kind = "attach"
  <2>1. Script(t) = AttachScript
    BY <1>7 DEF Script
  <2>2. Reads(tx[t].kind) = {}
    BY <1>7 DEF Reads
  <2> QED
    BY <1>7, <2>1, <2>2, AttachScriptGuarded
<1>8. CASE tx[t].kind = "commit"
  <2>1. Script(t) = CommitScript(run[tx[t].run].items) /\ run[tx[t].run].items \in SUBSET Items
    BY <1>3, <1>8 DEF Script, Fitting
  <2>2. Reads(tx[t].kind) = {"running", "input"}
    BY <1>8 DEF Reads
  <2> QED
    BY <1>8, <2>1, <2>2, CommitScriptGuarded
<1>9. CASE tx[t].kind = "undo"
  <2>1. Script(t) = UndoScript(DOMAIN run[tx[t].run].after)
        /\ DOMAIN run[tx[t].run].after \in SUBSET Items
    BY <1>3, <1>9 DEF Script, Fitting
  <2>2. Reads(tx[t].kind) = {"applied", "unchanged"}
    BY <1>9 DEF Reads
  <2> QED
    BY <1>9, <2>1, <2>2, UndoScriptGuarded
<1> QED
  BY <1>1, <1>4, <1>5, <1>6, <1>7, <1>8, <1>9 DEF Transactions, Kinds

LEMMA LenTyped ==
  ASSUME TypeInv, NEW t \in Txs, Busy(t), Fitting(tx[t])
  PROVE  Len(Script(t)) \in Nat
  BY ScriptGuarded DEF Guarded

(* A read that is made has its guard.                                      *)
LEMMA ReadsAreGuarded ==
  ASSUME TypeInv, TxInv, NEW t \in Txs, NEW s \in Done(t), s.step = "look"
  PROVE  /\ Busy(t)
         /\ \E what \in Reads(tx[t].kind) : s = Look(what) /\ Guard(what) \in Done(t)
<1>1. Busy(t) /\ \E n \in 1 .. tx[t].got : s = Script(t)[n]
  BY DEF Done
<1>2. PICK n \in 1 .. tx[t].got : s = Script(t)[n]
  BY <1>1
<1>3. Fitting(tx[t]) /\ tx[t].got \in Nat
  BY <1>1, TxTyped DEF TxInv, Transactions
<1>4. n \in 1 .. Len(Script(t))
  BY <1>1 DEF TxInv
<1>5. PICK what \in Reads(tx[t].kind) :
        /\ Script(t)[n] = Look(what)
        /\ \E m \in 1 .. (n - 1) : Script(t)[m] = Guard(what)
  BY <1>1, <1>2, <1>3, <1>4, ScriptGuarded DEF Guarded
<1>6. Guard(what) \in Done(t)
  <2>1. \A m \in 1 .. (n - 1) : m \in 1 .. tx[t].got
    BY <1>3
  <2> QED
    BY <1>1, <1>5, <2>1 DEF Done
<1> QED
  BY <1>1, <1>2, <1>5, <1>6

(* A transaction that is ready has all of its script behind it.            *)
LEMMA ReadyHas ==
  ASSUME TypeInv, TxInv, NEW t \in Txs, Ready(t), NEW x, Has(Script(t), x)
  PROVE  x \in Done(t)
  BY DEF Ready, Has, Done

-----------------------------------------------------------------------------
(* The invariant.                                                          *)

(* No two transactions hold conflicting locks.                             *)
Exclusion ==
  \A t, u \in Txs : t # u => \A a \in Done(t), b \in Done(u) : ~Conflict(a, b)

(* A fact's revision tells whose it is, and the values of a run are those  *)
(* of its input.                                                           *)
RunFacts(r) ==
  /\ run[r].status = "running" =>
       /\ DOMAIN run[r].input = run[r].items
       /\ run[r].revision <= revision
       /\ run[r].revision = revision =>
            \A i \in run[r].items : item[i].value = run[r].input[i]
  /\ run[r].status = "applied" =>
       /\ DOMAIN run[r].before = run[r].items
       /\ \A i \in run[r].items : run[r].before[i] = run[r].input[i]
       /\ \A i \in DOMAIN run[r].after :
            /\ run[r].after[i][3] <= revision
            /\ item[i].fact = run[r].after[i][3] => item[i].by = r

Facts ==
  /\ \A i \in Items : item[i].fact <= revision
  /\ \A r \in Runs : RunFacts(r)

IInv == TypeInv /\ TxInv /\ Exclusion /\ DecisionsStillHold /\ Facts

LEMMA InitIInv == Init => IInv
<1> SUFFICES ASSUME Init PROVE IInv
  OBVIOUS
<1>1. \A t \in Txs : Done(t) = {}
  BY DEF Init, NoTx, Busy, Done
<1>2. Exclusion /\ DecisionsStillHold
  BY <1>1 DEF Exclusion, DecisionsStillHold
<1>3. Facts
  BY DEF Init, AtomicInit, Facts, RunFacts
<1> QED
  BY <1>2, <1>3, InitTyped DEF IInv

(* Whose script does not change has done the same.                         *)
LEMMA ScriptStays ==
  ASSUME NEW u \in Txs, Busy(u),
         tx'[u].kind = tx[u].kind, tx'[u].request = tx[u].request, tx'[u].run = tx[u].run,
         tx[u].kind = "commit" => run'[tx[u].run].items = run[tx[u].run].items,
         tx[u].kind = "undo" => run'[tx[u].run].after = run[tx[u].run].after
  PROVE  Script(u)' = Script(u)
  BY DEF Script

LEMMA DoneStays ==
  ASSUME NEW u \in Txs, tx'[u] = tx[u], Busy(u) => Script(u)' = Script(u)
  PROVE  Done(u)' = Done(u) /\ Busy(u)' = Busy(u)
  BY DEF Done, Busy

(* A read stays true when what it has read has not changed.                *)
LEMMA HoldsStays ==
  ASSUME NEW u \in Txs, tx'[u] = tx[u], saved' = saved, run' = run, item' = item,
         revision' = revision, NEW what
  PROVE  Holds(u, what)' = Holds(u, what)
  BY DEF Holds, Untouched, Fingerprint

(* A transaction t that begins or ends without writing.                    *)
LEMMA OthersStay ==
  ASSUME IInv, NEW t \in Txs,
         \A u \in Txs \ {t} : tx'[u] = tx[u],
         UNCHANGED <<item, revision, run, saved>>
  PROVE  /\ \A u \in Txs \ {t} :
              /\ Done(u)' = Done(u) /\ Busy(u)' = Busy(u)
              /\ Busy(u) => /\ Fitting(tx[u])'
                            /\ \A n \in 1 .. tx'[u].got : n \in 1 .. Len(Script(u)')
              /\ \A s \in Done(u) : s.step = "look" => Holds(u, s.on)'
         /\ Facts'
<1>1. ASSUME NEW u \in Txs \ {t}
      PROVE  /\ Done(u)' = Done(u) /\ Busy(u)' = Busy(u)
             /\ Busy(u) => /\ Fitting(tx[u])'
                           /\ \A n \in 1 .. tx'[u].got : n \in 1 .. Len(Script(u)')
             /\ \A s \in Done(u) : s.step = "look" => Holds(u, s.on)'
  <2>1. Busy(u) => Script(u)' = Script(u)
    BY ScriptStays
  <2>2. Done(u)' = Done(u) /\ Busy(u)' = Busy(u)
    BY <2>1, DoneStays
  <2>3. Busy(u) => Fitting(tx[u])'
    BY DEF IInv, TxInv, Fitting
  <2>4. Busy(u) => \A n \in 1 .. tx'[u].got : n \in 1 .. Len(Script(u)')
    BY <2>1 DEF IInv, TxInv
  <2>5. \A s \in Done(u) : s.step = "look" => Holds(u, s.on)'
    BY HoldsStays DEF IInv, DecisionsStillHold
  <2> QED
    BY <2>2, <2>3, <2>4, <2>5
<1>2. Facts'
  BY DEF IInv, Facts, RunFacts
<1> QED
  BY <1>1, <1>2

LEMMA BeginKeeps ==
  ASSUME IInv, NEW t \in Txs, NEW kind \in Kinds,
         NEW request \in Requests \cup {None}, NEW r \in Runs \cup {None},
         Fitting([kind |-> kind, got |-> 0, request |-> request, run |-> r]),
         Begin(t, kind, request, r)
  PROVE  IInv'
<1> DEFINE x == [kind |-> kind, got |-> 0, request |-> request, run |-> r]
<1>1. tx' = [tx EXCEPT ![t] = x] /\ UNCHANGED <<item, revision, run, saved>>
  BY DEF Begin
<1>2. tx'[t] = x /\ \A u \in Txs \ {t} : tx'[u] = tx[u]
  BY <1>1 DEF IInv, TypeInv
<1>3. x \in Transactions
  BY DEF Transactions
<1>4. TypeInv'
  BY <1>1, <1>3 DEF IInv, TypeInv
<1>5. Done(t)' = {}
  BY <1>2 DEF Done
<1>6. Fitting(tx[t])' /\ \A n \in 1 .. tx'[t].got : n \in 1 .. Len(Script(t)')
  <2>1. Fitting(tx[t])'
    BY <1>1, <1>2 DEF Fitting
  <2>2. 1 .. tx'[t].got = {}
    BY <1>2
  <2> QED
    BY <2>1, <2>2
<1> HIDE DEF x
<1>7. TxInv'
  BY <1>1, <1>2, <1>6, OthersStay DEF TxInv
<1>8. Exclusion' /\ DecisionsStillHold' /\ Facts'
  <2>1. Facts' /\ \A u \in Txs \ {t} :
          /\ Done(u)' = Done(u)
          /\ \A s \in Done(u) : s.step = "look" => Holds(u, s.on)'
    BY <1>1, <1>2, OthersStay
  <2> QED
    BY <1>5, <2>1 DEF Exclusion, DecisionsStillHold, IInv
<1> QED
  BY <1>4, <1>7, <1>8 DEF IInv

LEMMA RollbackKeeps ==
  ASSUME IInv, NEW t \in Txs, Rollback(t)
  PROVE  IInv'
<1>1. tx' = [tx EXCEPT ![t] = NoTx] /\ UNCHANGED <<item, revision, run, saved>>
  BY DEF Rollback
<1>2. tx'[t] = NoTx /\ \A u \in Txs \ {t} : tx'[u] = tx[u]
  BY <1>1 DEF IInv, TypeInv
<1>3. TypeInv'
  BY <1>1 DEF IInv, TypeInv
<1>4. Done(t)' = {} /\ ~Busy(t)'
  BY <1>2 DEF Done, Busy, NoTx
<1>5. TxInv'
  BY <1>1, <1>2, <1>4, OthersStay DEF TxInv
<1>6. Exclusion' /\ DecisionsStillHold' /\ Facts'
  <2>1. Facts' /\ \A u \in Txs \ {t} :
          /\ Done(u)' = Done(u)
          /\ \A s \in Done(u) : s.step = "look" => Holds(u, s.on)'
    BY <1>1, <1>2, OthersStay
  <2> QED
    BY <1>4, <2>1 DEF Exclusion, DecisionsStillHold, IInv
<1> QED
  BY <1>3, <1>5, <1>6 DEF IInv

(* A transaction makes its next step.                                      *)
LEMMA AdvanceKeeps ==
  ASSUME IInv, NEW t \in Txs, Pending(t), Advance(t),
         \A u \in Txs : ~WaitsFor(t, u),
         NextStep(t).step = "look" => Holds(t, NextStep(t).on)
  PROVE  IInv'
<1>1. /\ tx' = [tx EXCEPT ![t].got = @ + 1]
      /\ UNCHANGED <<item, revision, run, saved>>
  BY DEF Advance
<1>2. Busy(t) /\ tx[t] \in Transactions /\ tx[t].got \in Nat /\ Fitting(tx[t])
  BY TxTyped DEF Pending, IInv, TxInv, Transactions
<1>3. Len(Script(t)) \in Nat /\ tx[t].got + 1 \in 1 .. Len(Script(t))
  BY <1>2, LenTyped DEF Pending, IInv
<1>4. /\ tx'[t] = [tx[t] EXCEPT !.got = @ + 1]
      /\ \A u \in Txs \ {t} : tx'[u] = tx[u]
  BY <1>1 DEF IInv, TypeInv
<1>5. /\ tx'[t].got = tx[t].got + 1 /\ tx'[t].kind = tx[t].kind
      /\ tx'[t].request = tx[t].request /\ tx'[t].run = tx[t].run
      /\ tx'[t] \in Transactions
  BY <1>2, <1>4 DEF Transactions
<1>6. TypeInv'
  BY <1>1, <1>4, <1>5 DEF IInv, TypeInv
<1>7. Script(t)' = Script(t) /\ Busy(t)'
  <2>1. Busy(t)'
    BY <1>2, <1>5 DEF Busy
  <2> QED
    BY <1>1, <1>2, <1>5, <2>1, ScriptStays
<1>8. Done(t)' = Done(t) \cup {NextStep(t)}
  <2>1. 1 .. tx'[t].got = (1 .. tx[t].got) \cup {tx[t].got + 1}
    BY <1>2, <1>5
  <2> QED
    BY <1>2, <1>7, <2>1 DEF Done, NextStep
<1>9. TxInv'
  <2>1. Fitting(tx[t])'
    BY <1>1, <1>2, <1>5 DEF Fitting
  <2>2. \A n \in 1 .. tx'[t].got : n \in 1 .. Len(Script(t)')
    BY <1>2, <1>3, <1>5, <1>7
  <2> QED
    BY <1>1, <1>4, <2>1, <2>2, OthersStay DEF TxInv
<1>10. Facts' /\ \A u \in Txs \ {t} :
         /\ Done(u)' = Done(u)
         /\ \A s \in Done(u) : s.step = "look" => Holds(u, s.on)'
  BY <1>1, <1>4, OthersStay
<1>11. Exclusion'
  <2>1. ASSUME NEW u \in Txs \ {t}, NEW b \in Done(u)
        PROVE  ~Conflict(NextStep(t), b) /\ ~Conflict(b, NextStep(t))
    BY DEF WaitsFor, Conflict
  <2>2. \A u \in Txs \ {t} : \A a \in Done(t)', b \in Done(u)' :
          ~Conflict(a, b) /\ ~Conflict(b, a)
    BY <1>8, <1>10, <2>1 DEF IInv, Exclusion
  <2>3. ASSUME NEW u \in Txs \ {t}, NEW v \in Txs \ {t}, u # v
        PROVE  \A a \in Done(u)', b \in Done(v)' : ~Conflict(a, b)
    BY <1>10, <2>3 DEF IInv, Exclusion
  <2> QED
    BY <2>2, <2>3 DEF Exclusion
<1>12. DecisionsStillHold'
  <2>1. \A what : Holds(t, what)' = Holds(t, what)
    BY <1>1, <1>5 DEF Holds, Untouched, Fingerprint
  <2>2. \A s \in Done(t)' : s.step = "look" => Holds(t, s.on)'
    BY <1>8, <2>1 DEF IInv, DecisionsStillHold
  <2> QED
    BY <1>10, <2>2 DEF DecisionsStillHold
<1> QED
  BY <1>6, <1>9, <1>10, <1>11, <1>12 DEF IInv

LEMMA AcquireKeeps == ASSUME IInv, NEW t \in Txs, Acquire(t) PROVE IInv'
  BY AdvanceKeeps DEF Acquire

LEMMA LookAroundKeeps == ASSUME IInv, NEW t \in Txs, LookAround(t) PROVE IInv'
<1>1. \A u \in Txs : ~WaitsFor(t, u)
  BY DEF LookAround, WaitsFor, Conflict
<1> QED
  BY <1>1, AdvanceKeeps DEF LookAround

(* A run is captured: no transaction works for it yet.                     *)
LEMMA CaptureKeeps == ASSUME IInv, NEW r \in Runs, Capture(r), UNCHANGED tx PROVE IInv'
<1>1. PICK S \in SUBSET Live, creates \in BOOLEAN, v \in Values :
        run' = [run EXCEPT ![r] =
            [@ EXCEPT !.status = "running", !.revision = revision, !.items = S,
                      !.creates = creates, !.value = v,
                      !.input = [i \in S |-> item[i].value]]]
  BY DEF Capture
<1>2. run[r].status = "new" /\ UNCHANGED <<item, revision, saved, tx>>
  BY DEF Capture
<1>3. run[r] \in RunRecord /\ S \in SUBSET Items /\ revision \in Nat
      /\ \A i \in S : item[i].value \in Values \cup {None}
  BY DEF IInv, TypeInv, Live, ItemRecord
<1>4. [i \in S |-> item[i].value] \in Kept
  BY <1>3 DEF Kept
<1> DEFINE x == [run[r] EXCEPT !.status = "running", !.revision = revision, !.items = S,
                      !.creates = creates, !.value = v,
                      !.input = [i \in S |-> item[i].value]]
<1>5. run'[r] = x /\ \A q \in Runs \ {r} : run'[q] = run[q]
  BY <1>1 DEF IInv, TypeInv
<1>6. /\ x \in RunRecord
      /\ x.status = "running" /\ x.revision = revision /\ x.items = S
      /\ x.input = [i \in S |-> item[i].value]
      /\ x.before = run[r].before /\ x.after = run[r].after
  BY <1>3, <1>4 DEF RunRecord
<1>7. TypeInv'
  <2>1. run' \in [Runs -> RunRecord]
    BY <1>1, <1>5, <1>6 DEF IInv, TypeInv
  <2>2. \A q \in Runs : DOMAIN run'[q].before \subseteq DOMAIN run'[q].after
    BY <1>5, <1>6 DEF IInv, TypeInv
  <2> QED
    BY <1>2, <2>1, <2>2 DEF IInv, TypeInv
<1> HIDE DEF x
<1>8. ASSUME NEW u \in Txs
      PROVE  /\ Done(u)' = Done(u) /\ Busy(u)' = Busy(u)
             /\ Busy(u) => Script(u)' = Script(u)
             /\ Busy(u) => Fitting(tx[u])'
  <2>1. Busy(u) => Fitting(tx[u])
    BY DEF IInv, TxInv
  <2>2. Busy(u) /\ tx[u].kind \in {"commit", "undo"} =>
          tx[u].run \in Runs \ {r} /\ run'[tx[u].run] = run[tx[u].run]
    BY <1>2, <1>5, <2>1 DEF Fitting
  <2>3. Busy(u) => Script(u)' = Script(u)
    BY <1>2, <2>2, ScriptStays
  <2>4. Done(u)' = Done(u) /\ Busy(u)' = Busy(u)
    BY <1>2, <2>3, DoneStays
  <2>5. Busy(u) => Fitting(tx[u])'
    BY <1>2, <2>1, <2>2 DEF Fitting
  <2> QED
    BY <2>3, <2>4, <2>5
<1>9. TxInv' /\ Exclusion'
  BY <1>2, <1>8 DEF IInv, TxInv, Exclusion
<1>10. DecisionsStillHold'
  <2>1. ASSUME NEW u \in Txs, NEW s \in Done(u), s.step = "look"
        PROVE  Holds(u, s.on)'
    <3>1. Holds(u, s.on) /\ Busy(u) /\ Fitting(tx[u])
      BY <2>1, ReadsAreGuarded DEF IInv, TxInv, DecisionsStillHold
    <3>2. PICK what \in Reads(tx[u].kind) : s = Look(what)
      BY <2>1, ReadsAreGuarded DEF IInv
    <3>3. s.on = what
      BY <3>2, Steps
    <3>4. CASE tx[u].kind = "change"
      <4>1. what = "key"
        BY <3>2, <3>4 DEF Reads
      <4> QED
        BY <1>2, <3>1, <3>3, <4>1 DEF Holds
    <3>5. CASE tx[u].kind \in {"commit", "undo"}
      <4>1. run'[tx[u].run] = run[tx[u].run]
        BY <1>2, <1>5, <3>1, <3>5 DEF Fitting
      <4>2. what \in {"running", "input", "applied", "unchanged"}
        BY <3>2, <3>5 DEF Reads
      <4> QED
        BY <1>2, <3>1, <3>3, <4>1, <4>2 DEF Holds, Untouched, Fingerprint
    <3> QED
      BY <3>2, <3>4, <3>5 DEF Reads
  <2> QED
    BY <1>8, <2>1 DEF DecisionsStillHold
<1>11. Facts'
  <2>1. RunFacts(r)'
    BY <1>2, <1>3, <1>5, <1>6 DEF RunFacts
  <2>2. \A q \in Runs \ {r} : RunFacts(q)'
    BY <1>2, <1>5 DEF IInv, Facts, RunFacts
  <2> QED
    BY <1>2, <2>1, <2>2 DEF IInv, Facts
<1> QED
  BY <1>7, <1>9, <1>10, <1>11 DEF IInv

-----------------------------------------------------------------------------
(* Commits.                                                                *)

(* What a commit of t changes of the runs: only its own, and of an undo    *)
(* only the status.                                                        *)
OwnRunOnly(t) ==
  \/ run' = run
  \/ /\ tx[t].kind \in {"commit", "undo"}
     /\ \A q \in Runs \ {tx[t].run} : run'[q] = run[q]
     /\ run'[tx[t].run].items = run[tx[t].run].items
     /\ run'[tx[t].run].status \in {"applied", "undone"}
     /\ tx[t].kind = "undo" => run'[tx[t].run].after = run[tx[t].run].after

(* Two transactions do not hold the same exclusive lock.                   *)
LEMMA OneHolder ==
  ASSUME Exclusion, NEW t \in Txs, NEW u \in Txs, t # u, NEW x,
         Exclusive(x) \in Done(t)
  PROVE  Exclusive(x) \notin Done(u)
  BY Steps DEF Exclusion, Conflict

(* What a ready transaction has read still holds.                          *)
LEMMA ReadyHolds ==
  ASSUME IInv, NEW t \in Txs, Ready(t)
  PROVE  /\ Busy(t) /\ Fitting(tx[t]) /\ tx[t] \in Transactions
         /\ Exclusive(Revision) \in Done(t)
         /\ tx[t].kind = "change" => Exclusive(Graph) \in Done(t)
         /\ tx[t].kind \in {"commit", "undo"} =>
              /\ Exclusive(Project) \in Done(t)
              /\ \A what \in Reads(tx[t].kind) : Holds(t, what)
<1>1. Busy(t) /\ Fitting(tx[t]) /\ tx[t] \in Transactions
  BY TxTyped DEF Ready, IInv, TxInv
<1>2. \A x : Has(Script(t), x) => x \in Done(t)
  BY ReadyHas DEF IInv
<1>3. ASSUME tx[t].kind \in {"commit", "undo"}, NEW what \in Reads(tx[t].kind)
      PROVE  Holds(t, what)
  <2>1. Look(what) \in Done(t)
    BY <1>1, <1>2, <1>3, ScriptGuarded DEF IInv
  <2> QED
    BY <2>1, Steps DEF IInv, DecisionsStillHold
<1> QED
  BY <1>1, <1>2, <1>3, ScriptGuarded DEF IInv

LEMMA WriterKeeps ==
  ASSUME IInv, NEW t \in Txs, Ready(t), End(t), OwnRunOnly(t),
         saved' = saved \/ tx[t].kind = "change",
         TypeInv', Facts'
  PROVE  IInv'
<1>1. tx' = [tx EXCEPT ![t] = NoTx]
  BY DEF End
<1>2. tx'[t] = NoTx /\ \A u \in Txs \ {t} : tx'[u] = tx[u]
  BY <1>1 DEF IInv, TypeInv
<1>3. Done(t)' = {} /\ ~Busy(t)'
  BY <1>2 DEF Done, Busy, NoTx
<1>4. tx[t].kind \in {"commit", "undo"} => tx[t].run \in Runs
  BY ReadyHolds DEF Fitting
<1>5. tx[t].kind = "commit" => run[tx[t].run].status = "running"
  <2> SUFFICES ASSUME tx[t].kind = "commit" PROVE run[tx[t].run].status = "running"
    OBVIOUS
  <2>1. "running" \in Reads(tx[t].kind)
    BY DEF Reads
  <2> QED
    BY <2>1, ReadyHolds DEF Holds
<1>6. ASSUME NEW u \in Txs \ {t}, Busy(u)
      PROVE  Fitting(tx[u])' /\ Script(u)' = Script(u)
  <2>1. Fitting(tx[u])
    BY <1>6 DEF IInv, TxInv
  <2>2. Fitting(tx[u])'
    BY <1>2, <1>4, <2>1 DEF Fitting, OwnRunOnly
  <2>3. tx[u].kind = "commit" => run'[tx[u].run].items = run[tx[u].run].items
    BY <2>1 DEF Fitting, OwnRunOnly
  <2>4. tx[u].kind = "undo" => run'[tx[u].run].after = run[tx[u].run].after
    BY <1>5, <2>1 DEF Fitting, OwnRunOnly
  <2> QED
    BY <1>2, <1>6, <2>2, <2>3, <2>4, ScriptStays
<1>7. \A u \in Txs \ {t} : Done(u)' = Done(u) /\ Busy(u)' = Busy(u)
  BY <1>2, <1>6, DoneStays
<1>8. TxInv'
  BY <1>2, <1>3, <1>6, <1>7 DEF IInv, TxInv
<1>9. Exclusion'
  BY <1>3, <1>7 DEF IInv, Exclusion
<1>10. ASSUME NEW u \in Txs \ {t}, NEW s \in Done(u), s.step = "look"
       PROVE  Holds(u, s.on)'
  <2>1. Holds(u, s.on) /\ Busy(u) /\ Fitting(tx[u])
    BY <1>10, ReadsAreGuarded DEF IInv, TxInv, DecisionsStillHold
  <2>2. PICK what \in Reads(tx[u].kind) : s = Look(what) /\ Guard(what) \in Done(u)
    BY <1>10, ReadsAreGuarded DEF IInv
  <2>3. s.on = what /\ what \in {"key", "running", "input", "applied", "unchanged"}
    BY <2>2, Steps DEF Reads
  <2>4. what \notin {"input", "unchanged"}
    BY <2>2, Steps, OneHolder, ReadyHolds DEF IInv
  <2>5. CASE what = "key"
    <3>1. Exclusive(Graph) \in Done(u)
      BY <2>2, <2>5, Steps
    <3>2. tx[t].kind # "change"
      BY <3>1, OneHolder, ReadyHolds DEF IInv
    <3> QED
      BY <1>2, <2>1, <2>3, <2>5, <3>2 DEF Holds
  <2>6. CASE what \in {"running", "applied"}
    <3>1. Exclusive(Project) \in Done(u)
      BY <2>2, <2>6, Steps
    <3>2. tx[t].kind \notin {"commit", "undo"}
      BY <3>1, OneHolder, ReadyHolds DEF IInv
    <3>3. run' = run
      BY <3>2 DEF OwnRunOnly
    <3> QED
      BY <1>2, <2>1, <2>3, <2>6, <3>3 DEF Holds
  <2> QED
    BY <2>3, <2>4, <2>5, <2>6
<1>11. DecisionsStillHold'
  BY <1>3, <1>7, <1>10 DEF DecisionsStillHold
<1> QED
  BY <1>8, <1>9, <1>11 DEF IInv

(* A written row is at the new revision, and its writer's.                 *)
LEMMA Written ==
  ASSUME NEW x \in ItemRecord, NEW v \in Values \cup {None},
         NEW who \in Runs \cup {None, "person"}, revision \in Nat
  PROVE  /\ Updated(x, v, who) \in ItemRecord
         /\ Updated(x, v, who).fact = revision + 1 /\ Updated(x, v, who).by = who
         /\ Updated(x, v, who).value = v
         /\ Deleted(x, who) \in ItemRecord
         /\ Deleted(x, who).fact = revision + 1 /\ Deleted(x, who).status = "deleted"
         /\ WithFact(x, who) \in ItemRecord /\ WithFact(x, who).fact = revision + 1
<1> DEFINE n == revision + 1
           k == x.version + 1
<1>a. n \in Nat /\ k \in Nat
  BY DEF ItemRecord
<1>b. /\ \A y : WithFact(y, who) = [y EXCEPT !.fact = n, !.by = who]
      /\ [x EXCEPT !.version = @ + 1, !.value = v] = [x EXCEPT !.version = k, !.value = v]
      /\ [x EXCEPT !.version = @ + 1, !.status = "deleted"]
           = [x EXCEPT !.version = k, !.status = "deleted"]
  BY DEF WithFact
<1>c. n = revision + 1
  OBVIOUS
<1> HIDE DEF n, k
<1>1. ASSUME NEW y \in ItemRecord
      PROVE  /\ WithFact(y, who) \in ItemRecord
             /\ WithFact(y, who).fact = revision + 1 /\ WithFact(y, who).by = who
             /\ WithFact(y, who).value = y.value /\ WithFact(y, who).status = y.status
  <2> DEFINE z == [y EXCEPT !.fact = n, !.by = who]
  <2>1. z \in ItemRecord /\ z.fact = n /\ z.by = who /\ z.value = y.value /\ z.status = y.status
    BY <1>a DEF ItemRecord
  <2> QED
    BY <1>b, <1>c, <2>1
<1>2. /\ [x EXCEPT !.version = @ + 1, !.value = v] \in ItemRecord
      /\ [x EXCEPT !.version = @ + 1, !.value = v].value = v
  <2> DEFINE z == [x EXCEPT !.version = k, !.value = v]
  <2>1. z \in ItemRecord /\ z.value = v
    BY <1>a DEF ItemRecord
  <2> QED
    BY <1>b, <2>1
<1>3. /\ [x EXCEPT !.version = @ + 1, !.status = "deleted"] \in ItemRecord
      /\ [x EXCEPT !.version = @ + 1, !.status = "deleted"].status = "deleted"
  <2> DEFINE z == [x EXCEPT !.version = k, !.status = "deleted"]
  <2>1. z \in ItemRecord /\ z.status = "deleted"
    BY <1>a DEF ItemRecord
  <2> QED
    BY <1>b, <2>1
<1> QED
  BY <1>1, <1>2, <1>3 DEF Updated, Deleted

(* All that is written is at the new revision.                             *)
Touched == \A i \in Items : item'[i] = item[i] \/ item'[i].fact = revision + 1

LEMMA FactsStay ==
  ASSUME TypeInv, Facts, revision' = revision + 1, Touched,
         NEW q \in Runs, run'[q] = run[q]
  PROVE  RunFacts(q)'
<1>1. RunFacts(q) /\ run[q] \in RunRecord /\ revision \in Nat
  BY DEF Facts, TypeInv
<1>2. \A i \in Items : item[i].fact <= revision /\ item[i].fact \in Nat
  BY DEF Facts, TypeInv, ItemRecord
<1>3. run[q].status = "running" => run[q].revision <= revision' /\ run[q].revision # revision'
  BY <1>1 DEF RunFacts, RunRecord
<1>4. ASSUME run[q].status = "applied", NEW i \in DOMAIN run[q].after
      PROVE  /\ run[q].after[i][3] <= revision'
             /\ item'[i].fact = run[q].after[i][3] => item'[i].by = q
  <2>1. run[q].after[i][3] \in Nat /\ i \in Items
    BY <1>1, <1>4 DEF RunRecord
  <2>2. /\ run[q].after[i][3] <= revision
        /\ item[i].fact = run[q].after[i][3] => item[i].by = q
    BY <1>1, <1>4 DEF RunFacts
  <2> QED
    BY <1>1, <2>1, <2>2 DEF Touched
<1> QED
  BY <1>1, <1>3, <1>4 DEF RunFacts

LEMMA FactsBounded ==
  ASSUME TypeInv, Facts, revision' = revision + 1, Touched
  PROVE  \A i \in Items : item'[i].fact <= revision'
<1>1. \A i \in Items : item[i].fact <= revision /\ item[i].fact \in Nat /\ revision \in Nat
  BY DEF Facts, TypeInv, ItemRecord
<1> QED
  BY <1>1 DEF Touched

(* Somebody writes who is no run.                                          *)
LEMMA PersonKeeps ==
  ASSUME IInv, NEW t \in Txs, Ready(t), End(t), run' = run,
         saved' = saved \/ tx[t].kind = "change",
         saved' \in [Keys -> Requests \cup {None}],
         \A k \in Keys : saved'[k] # None => saved'[k] \in Requests /\ saved'[k].key \in Keys,
         item' \in [Items -> ItemRecord], Touched, revision' = revision + 1
  PROVE  IInv'
<1>1. tx' \in [Txs -> Transactions \cup {NoTx}]
  BY DEF IInv, TypeInv, End
<1>2. TypeInv'
  BY <1>1 DEF IInv, TypeInv
<1>3. Facts'
  BY FactsStay, FactsBounded DEF IInv, Facts
<1>4. OwnRunOnly(t)
  BY DEF OwnRunOnly
<1> QED
  BY <1>2, <1>3, <1>4, WriterKeeps

LEMMA FinishChangeKeeps == ASSUME IInv, NEW t \in Txs, FinishChange(t) PROVE IInv'
<1> DEFINE request == tx[t].request
<1>1. /\ Ready(t) /\ End(t) /\ run' = run /\ revision' = revision + 1
      /\ tx[t].kind \in {"change", "edit"}
  BY DEF FinishChange, Change
<1>2. /\ request \in Requests /\ request.value \in Values
      /\ tx[t].kind = "edit" => request.key = None
  BY <1>1, ReadyHolds DEF Fitting, Requests
<1>3. item' = [i \in Items |-> IF i \in request.items
                               THEN Updated(item[i], request.value, "person")
                               ELSE item[i]]
  BY DEF FinishChange, Change
<1>4. saved' = IF request.key \in Keys THEN [saved EXCEPT ![request.key] = request] ELSE saved
  BY DEF FinishChange, Change
<1> HIDE DEF request
<1>5. item' \in [Items -> ItemRecord] /\ Touched
  <2>1. \A i \in Items : item[i] \in ItemRecord /\ revision \in Nat
    BY DEF IInv, TypeInv
  <2>2. \A i \in Items : /\ Updated(item[i], request.value, "person") \in ItemRecord
                         /\ Updated(item[i], request.value, "person").fact = revision + 1
    BY <1>2, <2>1, Written
  <2> QED
    BY <1>3, <2>1, <2>2 DEF Touched
<1>6. saved' = saved \/ tx[t].kind = "change"
  BY <1>1, <1>2, <1>4, PlanningAssumption
<1>7. /\ saved' \in [Keys -> Requests \cup {None}]
      /\ \A k \in Keys : saved'[k] # None => saved'[k] \in Requests /\ saved'[k].key \in Keys
  BY <1>2, <1>4 DEF IInv, TypeInv
<1> QED
  BY <1>1, <1>5, <1>6, <1>7, PersonKeeps

LEMMA FinishDeleteKeeps == ASSUME IInv, NEW t \in Txs, FinishDelete(t) PROVE IInv'
<1>1. /\ Ready(t) /\ End(t) /\ run' = run /\ saved' = saved /\ revision' = revision + 1
      /\ item' = [i \in Items |-> IF i \in tx[t].request.items
                               THEN Deleted(item[i], "person") ELSE item[i]]
  BY DEF FinishDelete, Delete
<1>2. \A i \in Items : item[i] \in ItemRecord /\ revision \in Nat
  BY DEF IInv, TypeInv
<1>3. \A i \in Items : /\ Deleted(item[i], "person") \in ItemRecord
                       /\ Deleted(item[i], "person").fact = revision + 1
  BY <1>2, Written
<1>4. item' \in [Items -> ItemRecord] /\ Touched
  BY <1>1, <1>2, <1>3 DEF Touched
<1> QED
  BY <1>1, <1>4, PersonKeeps DEF IInv, TypeInv

LEMMA FinishRemarkKeeps == ASSUME IInv, NEW t \in Txs, FinishRemark(t) PROVE IInv'
<1>1. /\ Ready(t) /\ End(t) /\ run' = run /\ saved' = saved /\ revision' = revision + 1
      /\ item' = [i \in Items |-> IF i \in tx[t].request.items
                               THEN WithFact(item[i], "person") ELSE item[i]]
  BY DEF FinishRemark, Remark
<1>2. \A i \in Items : item[i] \in ItemRecord /\ revision \in Nat
  BY DEF IInv, TypeInv
<1>3. \A i \in Items : /\ WithFact(item[i], "person") \in ItemRecord
                       /\ WithFact(item[i], "person").fact = revision + 1
  BY <1>2, Written
<1>4. item' \in [Items -> ItemRecord] /\ Touched
  BY <1>1, <1>2, <1>3 DEF Touched
<1> QED
  BY <1>1, <1>4, PersonKeeps DEF IInv, TypeInv

LEMMA FinishCommitKeeps == ASSUME IInv, NEW t \in Txs, FinishCommit(t) PROVE IInv'
<1>0. PICK r \in Runs : r = tx[t].run
  BY ReadyHolds DEF FinishCommit, Fitting
<1> DEFINE S == run[r].items
<1>1. Ready(t) /\ End(t) /\ tx[t].kind = "commit" /\ saved' = saved /\ revision' = revision + 1
  BY DEF FinishCommit, Batch
<1>2. PICK C \in SUBSET {i \in Items : item[i].status = "absent"} :
        /\ item' = [i \in Items |->
             IF i \in S THEN Updated(item[i], run[r].value, r)
             ELSE IF i \in C
               THEN Updated([item[i] EXCEPT !.status = "live"], run[r].value, r)
             ELSE item[i]]
        /\ run' = [run EXCEPT ![r] =
             [@ EXCEPT !.status = "applied",
                       !.before = OldValues(S),
                       !.after = [i \in Compared(S, C) |-> Fingerprint(item'[i])]]]
  BY <1>0 DEF FinishCommit, Batch
<1>3. r \in Runs /\ run[r] \in RunRecord /\ S \in SUBSET Items /\ revision \in Nat
      /\ run[r].value \in Values \cup {None} /\ r \in Runs \cup {None, "person"}
  BY DEF IInv, TypeInv, RunRecord
<1>4. run[r].status = "running" /\ revision = run[r].revision
  <2>1. Holds(t, "running") /\ Holds(t, "input")
    BY <1>1, ReadyHolds DEF Reads
  <2> QED
    BY <1>0, <2>1 DEF Holds
<1>5. DOMAIN run[r].input = S /\ \A i \in S : item[i].value = run[r].input[i]
  BY <1>3, <1>4 DEF IInv, Facts, RunFacts
<1> HIDE DEF S
<1>6. \A i \in Items : /\ item[i] \in ItemRecord
                       /\ [item[i] EXCEPT !.status = "live"] \in ItemRecord
                       /\ item[i].value \in Values \cup {None}
  BY DEF IInv, TypeInv, ItemRecord
<1>7. \A i \in Items :
        /\ Updated(item[i], run[r].value, r) \in ItemRecord
        /\ Updated(item[i], run[r].value, r).fact = revision + 1
        /\ Updated(item[i], run[r].value, r).by = r
        /\ Updated([item[i] EXCEPT !.status = "live"], run[r].value, r) \in ItemRecord
        /\ Updated([item[i] EXCEPT !.status = "live"], run[r].value, r).fact = revision + 1
        /\ Updated([item[i] EXCEPT !.status = "live"], run[r].value, r).by = r
  BY <1>3, <1>6, Written
<1>8. /\ item' \in [Items -> ItemRecord] /\ Touched
      /\ \A i \in S \cup C : item'[i].fact = revision + 1 /\ item'[i].by = r
  BY <1>2, <1>3, <1>6, <1>7 DEF Touched
<1> DEFINE after == [i \in S \cup C |-> Fingerprint(item'[i])]
           x == [run[r] EXCEPT !.status = "applied", !.before = OldValues(S), !.after = after]
<1>9. after \in UNION {[D -> Nat \X {"absent", "live", "deleted"} \X Nat] : D \in SUBSET Items}
  <2>1. \A i \in S \cup C : Fingerprint(item'[i]) \in Nat \X {"absent", "live", "deleted"} \X Nat
    BY <1>3, <1>8 DEF Fingerprint, ItemRecord
  <2>2. S \cup C \in SUBSET Items
    BY <1>3
  <2>3. after \in [S \cup C -> Nat \X {"absent", "live", "deleted"} \X Nat]
    BY <2>1
  <2> HIDE DEF after
  <2> QED
    BY <2>2, <2>3
<1>10. OldValues(S) \in Kept /\ DOMAIN OldValues(S) = S
       /\ \A i \in S : OldValues(S)[i] = item[i].value
  <2>1. OldValues(S) \in [S -> Values \cup {None}]
    BY <1>3, <1>6 DEF OldValues
  <2> QED
    BY <1>3, <2>1 DEF OldValues, Kept
<1>11. run'[r] = x /\ \A q \in Runs \ {r} : run'[q] = run[q]
  BY <1>2, <1>3 DEF IInv, TypeInv, Compared
<1>12. DOMAIN after = S \cup C /\ \A i \in S \cup C : after[i][3] = item'[i].fact
  BY DEF Fingerprint
<1> HIDE DEF after
<1>13. /\ x \in RunRecord /\ x.status = "applied" /\ x.before = OldValues(S) /\ x.after = after
       /\ x.items = S /\ x.input = run[r].input
  <2> HIDE DEF S
  <2>1. /\ x \in RunRecord /\ x.status = "applied" /\ x.before = OldValues(S) /\ x.after = after
        /\ x.items = run[r].items /\ x.input = run[r].input
    BY <1>3, <1>9, <1>10 DEF RunRecord
  <2> QED
    BY <2>1 DEF S
<1> HIDE DEF x
<1>14. TypeInv'
  <2>1. run' \in [Runs -> RunRecord]
    <3>1. run' = [q \in Runs |-> run'[q]]
      BY <1>2 DEF IInv, TypeInv
    <3>2. \A q \in Runs : run'[q] \in RunRecord
      BY <1>11, <1>13 DEF IInv, TypeInv
    <3> QED
      BY <3>1, <3>2
  <2>2. \A q \in Runs : DOMAIN run'[q].before \subseteq DOMAIN run'[q].after
    BY <1>10, <1>11, <1>12, <1>13 DEF IInv, TypeInv
  <2>3. tx' \in [Txs -> Transactions \cup {NoTx}]
    BY <1>1 DEF IInv, TypeInv, End
  <2>4. revision' \in Nat
    BY <1>1, <1>3
  <2> QED
    BY <1>1, <1>8, <2>1, <2>2, <2>3, <2>4 DEF IInv, TypeInv
<1>15. Facts'
  <2>1. RunFacts(r)'
    <3>1. run'[r].status = "applied" /\ DOMAIN run'[r].before = run'[r].items
      BY <1>10, <1>11, <1>13
    <3>2. \A i \in run'[r].items : run'[r].before[i] = run'[r].input[i]
      BY <1>5, <1>10, <1>11, <1>13
    <3>3. \A i \in DOMAIN run'[r].after :
            run'[r].after[i][3] = revision + 1 /\ item'[i].by = r
      BY <1>8, <1>11, <1>12, <1>13
    <3>4. revision + 1 <= revision'
      BY <1>1, <1>3
    <3> QED
      BY <3>1, <3>2, <3>3, <3>4 DEF RunFacts
  <2>2. \A q \in Runs \ {r} : RunFacts(q)'
    BY <1>1, <1>8, <1>11, FactsStay DEF IInv
  <2>3. \A i \in Items : item'[i].fact <= revision'
    BY <1>1, <1>8, FactsBounded DEF IInv
  <2> QED
    BY <2>1, <2>2, <2>3 DEF Facts
<1>16. OwnRunOnly(t)
  BY <1>0, <1>1, <1>11, <1>13 DEF OwnRunOnly, S
<1> QED
  BY <1>1, <1>14, <1>15, <1>16, WriterKeeps

(* An undo finds the items as the batch has left them, so they are the     *)
(* run's, and leaves them as the run's input was.                          *)
LEMMA FinishUndoTakesBack ==
  ASSUME IInv, NEW t \in Txs, FinishUndo(t)
  PROVE  LET r == tx[t].run IN
         /\ r \in Runs /\ \A q \in Runs \ {r} : run'[q] = run[q]
         /\ \A i \in DOMAIN run[r].after : item[i].by = r
         /\ \A i \in run[r].items : item'[i].value = run[r].input[i]
         /\ \A i \in DOMAIN run[r].after \ run[r].items : item'[i].status = "deleted"
<1> DEFINE r == tx[t].run
<1>1. /\ Ready(t) /\ tx[t].kind = "undo"
      /\ item' = [i \in Items |->
           IF i \in DOMAIN run[r].before THEN Updated(item[i], run[r].before[i], "person")
           ELSE IF i \in DOMAIN run[r].after THEN Deleted(item[i], "person")
           ELSE item[i]]
      /\ run' = [run EXCEPT ![r].status = "undone"]
  BY DEF FinishUndo, TakeBack
<1>2. r \in Runs /\ run[r] \in RunRecord /\ revision \in Nat
  BY <1>1, ReadyHolds DEF Fitting, IInv, TypeInv
<1>3. /\ run[r].status = "applied"
      /\ \A i \in DOMAIN run[r].after : Fingerprint(item[i]) = run[r].after[i]
  <2>1. Holds(t, "applied") /\ Holds(t, "unchanged")
    BY <1>1, ReadyHolds DEF Reads
  <2> QED
    BY <2>1 DEF Holds, Untouched
<1>4. /\ DOMAIN run[r].before = run[r].items
      /\ \A i \in run[r].items : run[r].before[i] = run[r].input[i]
      /\ \A i \in DOMAIN run[r].after :
           item[i].fact = run[r].after[i][3] => item[i].by = r
  BY <1>2, <1>3 DEF IInv, Facts, RunFacts
<1>5. run[r].items \in SUBSET Items /\ DOMAIN run[r].after \in SUBSET Items
      /\ \A i \in run[r].items : run[r].before[i] \in Values \cup {None}
  BY <1>2, <1>4 DEF RunRecord, Kept
<1> HIDE DEF r
<1>6. \A i \in DOMAIN run[r].after : item[i].by = r
  <2>1. \A i \in DOMAIN run[r].after : item[i].fact = run[r].after[i][3]
    <3>1. ASSUME NEW i \in DOMAIN run[r].after
          PROVE  item[i].fact = run[r].after[i][3]
      <4>1. Fingerprint(item[i])[3] = item[i].fact
        BY DEF Fingerprint
      <4> QED
        BY <1>3, <4>1
    <3> QED
      BY <3>1
  <2> QED
    BY <1>4, <2>1
<1>7. \A i \in run[r].items : item'[i].value = run[r].input[i]
  <2>1. ASSUME NEW i \in run[r].items
        PROVE  item'[i].value = run[r].input[i]
    <3>1. item'[i] = Updated(item[i], run[r].before[i], "person") /\ i \in Items
      BY <1>1, <1>4, <1>5 DEF r
    <3>2. item[i] \in ItemRecord
      BY <3>1 DEF IInv, TypeInv
    <3>3. run[r].before[i] \in Values \cup {None} /\ run[r].before[i] = run[r].input[i]
      BY <1>4, <1>5
    <3>4. Updated(item[i], run[r].before[i], "person").value = run[r].before[i]
      <4>1. ASSUME NEW y \in ItemRecord, NEW v \in Values \cup {None}
            PROVE  Updated(y, v, "person").value = v
        BY <1>2, Written
      <4> QED
        BY <3>2, <3>3, <4>1
    <3> QED
      BY <3>1, <3>3, <3>4
  <2> QED
    BY <2>1
<1>8. \A i \in DOMAIN run[r].after \ run[r].items : item'[i].status = "deleted"
  <2>1. ASSUME NEW i \in DOMAIN run[r].after \ run[r].items
        PROVE  item'[i].status = "deleted"
    <3>1. item'[i] = Deleted(item[i], "person") /\ i \in Items
      BY <1>1, <1>4, <1>5 DEF r
    <3>2. item[i] \in ItemRecord
      BY <3>1 DEF IInv, TypeInv
    <3> QED
      BY <1>2, <3>1, <3>2, Written
  <2> QED
    BY <2>1
<1>9. \A q \in Runs \ {r} : run'[q] = run[q]
  BY <1>1 DEF IInv, TypeInv, r
<1> QED
  BY <1>2, <1>6, <1>7, <1>8, <1>9 DEF r

LEMMA FinishUndoKeeps == ASSUME IInv, NEW t \in Txs, FinishUndo(t) PROVE IInv'
<1>0. PICK r \in Runs : r = tx[t].run
  BY ReadyHolds DEF FinishUndo, Fitting
<1>1. /\ Ready(t) /\ End(t) /\ tx[t].kind = "undo" /\ saved' = saved /\ revision' = revision + 1
      /\ item' = [i \in Items |->
           IF i \in DOMAIN run[r].before THEN Updated(item[i], run[r].before[i], "person")
           ELSE IF i \in DOMAIN run[r].after THEN Deleted(item[i], "person")
           ELSE item[i]]
      /\ run' = [run EXCEPT ![r].status = "undone"]
  BY <1>0 DEF FinishUndo, TakeBack
<1>2. r \in Runs /\ run[r] \in RunRecord /\ revision \in Nat
  BY DEF IInv, TypeInv
<1>3. \A i \in DOMAIN run[r].before : run[r].before[i] \in Values \cup {None}
  BY <1>2 DEF RunRecord, Kept
<1>4. item' \in [Items -> ItemRecord] /\ Touched
  <2>1. \A i \in Items : item[i] \in ItemRecord
    BY DEF IInv, TypeInv
  <2>2. ASSUME NEW i \in Items
        PROVE  /\ Deleted(item[i], "person") \in ItemRecord
               /\ Deleted(item[i], "person").fact = revision + 1
               /\ i \in DOMAIN run[r].before =>
                    /\ Updated(item[i], run[r].before[i], "person") \in ItemRecord
                    /\ Updated(item[i], run[r].before[i], "person").fact = revision + 1
    <3>1. item[i] \in ItemRecord /\ revision \in Nat
      BY <1>2, <2>1
    <3>2. /\ Deleted(item[i], "person") \in ItemRecord
          /\ Deleted(item[i], "person").fact = revision + 1
      <4>1. None \in Values \cup {None} /\ "person" \in Runs \cup {None, "person"}
        OBVIOUS
      <4> QED
        BY <3>1, <4>1, Written
    <3>3. ASSUME i \in DOMAIN run[r].before
          PROVE  /\ Updated(item[i], run[r].before[i], "person") \in ItemRecord
                 /\ Updated(item[i], run[r].before[i], "person").fact = revision + 1
      <4>1. run[r].before[i] \in Values \cup {None} /\ "person" \in Runs \cup {None, "person"}
        BY <1>3, <3>3
      <4> DEFINE v == run[r].before[i]
      <4> HIDE DEF v
      <4>2. /\ Updated(item[i], v, "person") \in ItemRecord
            /\ Updated(item[i], v, "person").fact = revision + 1
        BY <3>1, <4>1, Written DEF v
      <4> QED
        BY <4>2 DEF v
    <3> QED
      BY <3>2, <3>3
  <2>3. \A i \in Items : item'[i] \in ItemRecord /\ (item'[i] = item[i] \/ item'[i].fact = revision + 1)
    BY <1>1, <2>1, <2>2
  <2> QED
    BY <1>1, <2>3 DEF Touched
<1>5. /\ \A q \in Runs \ {r} : run'[q] = run[q]
      /\ run'[r] = [run[r] EXCEPT !.status = "undone"]
  BY <1>1, <1>2 DEF IInv, TypeInv
<1>6. /\ run'[r] \in RunRecord /\ run'[r].status = "undone"
      /\ run'[r].before = run[r].before /\ run'[r].after = run[r].after
      /\ run'[r].items = run[r].items
  BY <1>2, <1>5 DEF RunRecord
<1>7. TypeInv'
  <2>1. run' \in [Runs -> RunRecord]
    <3>1. run' = [q \in Runs |-> run'[q]]
      BY <1>1 DEF IInv, TypeInv
    <3>2. \A q \in Runs : run'[q] \in RunRecord
      BY <1>5, <1>6 DEF IInv, TypeInv
    <3> QED
      BY <3>1, <3>2
  <2>2. \A q \in Runs : DOMAIN run'[q].before \subseteq DOMAIN run'[q].after
    BY <1>5, <1>6 DEF IInv, TypeInv
  <2>3. tx' \in [Txs -> Transactions \cup {NoTx}]
    BY <1>1 DEF IInv, TypeInv, End
  <2>4. revision' \in Nat
    BY <1>1, <1>2
  <2> QED
    BY <1>1, <1>4, <2>1, <2>2, <2>3, <2>4 DEF IInv, TypeInv
<1>8. Facts'
  <2>1. RunFacts(r)'
    BY <1>6 DEF RunFacts
  <2>2. \A q \in Runs \ {r} : RunFacts(q)'
    BY <1>1, <1>4, <1>5, FactsStay DEF IInv
  <2>3. \A i \in Items : item'[i].fact <= revision'
    BY <1>1, <1>4, FactsBounded DEF IInv
  <2> QED
    BY <2>1, <2>2, <2>3 DEF Facts
<1>9. OwnRunOnly(t)
  BY <1>0, <1>1, <1>5, <1>6 DEF OwnRunOnly
<1> QED
  BY <1>1, <1>7, <1>8, <1>9, WriterKeeps

-----------------------------------------------------------------------------
(* Theorems.                                                               *)

LEMMA TransactionKeeps ==
  ASSUME IInv, NEW t \in Txs,
         \/ BeginChange(t) \/ BeginEdit(t) \/ BeginRemark(t)
         \/ BeginCommit(t) \/ BeginUndo(t)
         \/ Acquire(t) \/ LookAround(t) \/ Refuse(t) \/ GiveUp(t)
         \/ DeadlockVictim(t)
         \/ Finish(t)
  PROVE  IInv'
<1>1. \A k \in Keys \cup {None}, S \in SUBSET Live : \A request \in NewRequests(k, S) :
        /\ request \in Requests /\ request.key = k /\ request.items = S
  <2>1. ASSUME NEW S \in SUBSET Live
        PROVE  S \in SUBSET Items /\ Seen(S) \in UNION {[D -> Nat] : D \in SUBSET Items}
    <3>1. S \in SUBSET Items /\ Seen(S) \in [S -> Nat]
      BY DEF Seen, Live, IInv, TypeInv, ItemRecord
    <3> QED
      BY <3>1
  <2> QED
    BY <2>1 DEF NewRequests, Requests
<1>2. CASE BeginChange(t)
  <2>1. ASSUME NEW request, request \in Requests /\ request.key \in Keys,
               Begin(t, "change", request, None)
        PROVE  IInv'
    <3>1. "change" \in Kinds
      BY DEF Kinds
    <3>2. Fitting([kind |-> "change", got |-> 0, request |-> request, run |-> None])
      BY <2>1 DEF Fitting
    <3> QED
      BY <2>1, <3>1, <3>2, BeginKeeps
  <2>2. ASSUME NEW k \in Keys, NEW S \in (SUBSET Live) \ {{}}, NEW request \in NewRequests(k, S)
        PROVE  request \in Requests /\ request.key \in Keys
    BY <1>1, <2>2
  <2>3. ASSUME NEW request \in Resent
        PROVE  request \in Requests /\ request.key \in Keys
    <3>1. CASE \E k \in Keys : request = saved[k] /\ saved[k] # None
      BY <3>1 DEF IInv, TypeInv
    <3>2. CASE \E u \in Txs : request = tx[u].request /\ tx[u].kind = "change"
      <4>1. PICK u \in Txs : request = tx[u].request /\ tx[u].kind = "change"
        BY <3>2
      <4>2. Busy(u)
        BY <4>1 DEF Busy
      <4> QED
        BY <4>1, <4>2 DEF IInv, TxInv, Fitting
    <3> QED
      BY <2>3, <3>1, <3>2 DEF Resent
  <2> QED
    BY <1>2, <2>1, <2>2, <2>3 DEF BeginChange
<1>3. CASE BeginEdit(t)
  <2>1. PICK kind \in {"edit", "delete"}, S \in (SUBSET Live) \ {{}} :
          \E request \in NewRequests(None, S) : Begin(t, kind, request, None)
    BY <1>3 DEF BeginEdit
  <2>2. PICK request \in NewRequests(None, S) : Begin(t, kind, request, None)
    BY <2>1
  <2>3. request \in Requests /\ request.key = None /\ request.items # {}
    BY <1>1
  <2>4. Fitting([kind |-> kind, got |-> 0, request |-> request, run |-> None])
    BY <2>3 DEF Fitting
  <2>5. kind \in Kinds
    BY DEF Kinds
  <2> QED
    BY <2>2, <2>3, <2>4, <2>5, BeginKeeps
<1>4. CASE BeginRemark(t)
  <2>1. PICK i \in Live, kind \in {"remark", "attach"} :
          \E request \in NewRequests(None, {i}) : Begin(t, kind, request, None)
    BY <1>4 DEF BeginRemark
  <2>2. PICK request \in NewRequests(None, {i}) : Begin(t, kind, request, None)
    BY <2>1
  <2>3. request \in Requests /\ request.items = {i} /\ i \in Items
    BY <1>1 DEF Live
  <2>4. Fitting([kind |-> kind, got |-> 0, request |-> request, run |-> None])
    BY <2>3 DEF Fitting
  <2>5. kind \in Kinds
    BY DEF Kinds
  <2> QED
    BY <2>2, <2>3, <2>4, <2>5, BeginKeeps
<1>5. CASE BeginCommit(t)
  <2>1. PICK r \in Runs : run[r].status = "running" /\ Begin(t, "commit", None, r)
    BY <1>5 DEF BeginCommit
  <2>2. Fitting([kind |-> "commit", got |-> 0, request |-> None, run |-> r])
    BY <2>1 DEF Fitting
  <2>3. "commit" \in Kinds
    BY DEF Kinds
  <2> QED
    BY <2>1, <2>2, <2>3, BeginKeeps
<1>6. CASE BeginUndo(t)
  <2>1. PICK r \in Runs : run[r].status = "applied" /\ Begin(t, "undo", None, r)
    BY <1>6 DEF BeginUndo
  <2>2. Fitting([kind |-> "undo", got |-> 0, request |-> None, run |-> r])
    BY <2>1 DEF Fitting
  <2>3. "undo" \in Kinds
    BY DEF Kinds
  <2> QED
    BY <2>1, <2>2, <2>3, BeginKeeps
<1>7. CASE Acquire(t) \/ LookAround(t)
  BY <1>7, AcquireKeeps, LookAroundKeeps
<1>8. CASE Refuse(t) \/ GiveUp(t) \/ DeadlockVictim(t) \/ FinishFails(t)
  BY <1>8, RollbackKeeps DEF Refuse, GiveUp, DeadlockVictim, FinishFails
<1>9. CASE Finish(t)
  BY <1>8, <1>9, FinishChangeKeeps, FinishDeleteKeeps, FinishRemarkKeeps, FinishCommitKeeps,
     FinishUndoKeeps DEF Finish
<1> QED
  BY <1>2, <1>3, <1>4, <1>5, <1>6, <1>7, <1>8, <1>9

LEMMA NextIInv == ASSUME IInv, [Next]_vars PROVE IInv'
<1>1. CASE UNCHANGED vars
  <2>1. UNCHANGED <<item, revision, run, saved, tx>>
    BY <1>1 DEF vars
  <2>2. TypeInv' /\ Facts'
    BY <2>1 DEF IInv, TypeInv, Facts, RunFacts
  <2>3. \A u \in Txs : /\ Busy(u)' = Busy(u) /\ Done(u)' = Done(u)
                       /\ Busy(u) => Script(u)' = Script(u)
    BY <2>1, ScriptStays, DoneStays
  <2>4. TxInv'
    BY <2>1, <2>3 DEF IInv, TxInv, Fitting
  <2>5. Exclusion' /\ DecisionsStillHold'
    BY <2>1, <2>3, HoldsStays DEF IInv, Exclusion, DecisionsStillHold
  <2> QED
    BY <2>2, <2>4, <2>5 DEF IInv
<1>2. CASE Next
  BY <1>2, TransactionKeeps, CaptureKeeps DEF Next
<1> QED
  BY <1>1, <1>2

(* Every record stays of its type, whatever is begun, rolled back or       *)
(* committed (the tables of migrations/0009 and automation_runs).          *)
THEOREM PlanningTypes == Spec => []TypeOK
<1>1. Init => IInv
  BY InitIInv
<1>2. IInv /\ [Next]_vars => IInv'
  BY NextIInv
<1>3. IInv => TypeOK
  BY TypesImplyTypeOK DEF IInv
<1> QED
  BY <1>1, <1>2, <1>3, PTL DEF Spec

(* Two transactions never hold conflicting locks, and what any of them has *)
(* read stays true until it commits: each read is made under a lock that   *)
(* whoever could change the answer has to wait for (lockProject, the       *)
(* revision's row and the graph's advisory lock).                          *)
THEOREM ReadsStayTrue == Spec => [](Exclusion /\ DecisionsStillHold)
<1>1. Init => IInv
  BY InitIInv
<1>2. IInv /\ [Next]_vars => IInv'
  BY NextIInv
<1>3. IInv => Exclusion /\ DecisionsStillHold
  BY DEF IInv
<1> QED
  BY <1>1, <1>2, <1>3, PTL DEF Spec

(* Only an undo makes a run undone, and it takes back its own changes.     *)
LEMMA NextTakesBack ==
  ASSUME IInv, Next,
         NEW r \in Runs, run[r].status = "applied", run'[r].status = "undone"
  PROVE  /\ \A i \in DOMAIN run[r].after : item[i].by = r
         /\ \A i \in run[r].items : item'[i].value = run[r].input[i]
         /\ \A i \in DOMAIN run[r].after \ run[r].items : item'[i].status = "deleted"
<1>1. run' # run
  OBVIOUS
<1>2. ASSUME NEW q \in Runs, Capture(q) PROVE FALSE
  <2>1. \A p \in Runs : run'[p] = run[p] \/ (p = q /\ run[p].status = "new")
    BY <1>2 DEF Capture, IInv, TypeInv
  <2> QED
    BY <2>1
<1>3. ASSUME NEW t \in Txs, FinishCommit(t) PROVE FALSE
  <2>1. run'[r] = run[r] \/ run'[r].status = "applied"
    BY <1>3 DEF FinishCommit, Batch, IInv, TypeInv, RunRecord
  <2> QED
    BY <2>1
<1>4. PICK t \in Txs : FinishUndo(t)
  BY <1>1, <1>2, <1>3 DEF Next, BeginChange, BeginEdit, BeginRemark, BeginCommit, BeginUndo,
     Begin, Acquire, LookAround, Advance, Refuse, GiveUp, DeadlockVictim, Rollback,
     Finish, FinishChange, FinishDelete, FinishRemark, FinishFails, Change, Delete, Remark
<1>5. tx[t].run = r
  BY <1>4, FinishUndoTakesBack
<1> QED
  BY <1>4, <1>5, FinishUndoTakesBack

(* An undo never takes back what somebody did after the batch, and leaves  *)
(* the items as the run's input had them (undo.go compares fingerprints    *)
(* with the revision locked, which covers comments and attachments too).   *)
THEOREM UndosAreSafe == Spec => UndoTakesBackItsOwn
<1> DEFINE A == \A r \in Runs :
       run[r].status = "applied" /\ run'[r].status = "undone" =>
         /\ \A i \in DOMAIN run[r].after : item[i].by = r
         /\ \A i \in run[r].items : item'[i].value = run[r].input[i]
         /\ \A i \in DOMAIN run[r].after \ run[r].items :
              item'[i].status = "deleted"
<1>1. Init => IInv
  BY InitIInv
<1>2. IInv /\ [Next]_vars => IInv'
  BY NextIInv
<1>3. IInv /\ [Next]_vars => [A]_vars
  BY NextTakesBack
<1>4. UndoTakesBackItsOwn <=> [][A]_vars
  BY DEF UndoTakesBackItsOwn
<1> HIDE DEF A
<1> QED
  BY <1>1, <1>2, <1>3, <1>4, PTL DEF Spec

-----------------------------------------------------------------------------
(* The transactions are steps of AtomicPlanning.                           *)

(* A request that fits is one that its sender could have made just now.    *)
LEMMA FittingRequestIsNew ==
  ASSUME NEW request \in Requests, Change(request)
  PROVE  \E key \in Keys \cup {None}, S \in SUBSET Live :
           \E q \in NewRequests(key, S) : Change(q)
<1>1. /\ request.key \in Keys \cup {None} /\ request.items \in SUBSET Live
      /\ request.saw = Seen(request.items)
  BY DEF Change, Fits, Requests
<1>2. request \in NewRequests(request.key, request.items)
  BY <1>1 DEF NewRequests, Requests
<1> QED
  BY <1>1, <1>2

(* A commit and an undo find at their end what they have read before.      *)
LEMMA CommitIsAtomic == ASSUME IInv, NEW t \in Txs, FinishCommit(t) PROVE AtomicNext
<1>1. Ready(t) /\ tx[t].kind = "commit" /\ Batch(tx[t].run)
  BY DEF FinishCommit
<1>2. tx[t].run \in Runs
  BY <1>1, ReadyHolds DEF Fitting
<1>3. run[tx[t].run].status = "running" /\ revision = run[tx[t].run].revision
  <2>1. Holds(t, "running") /\ Holds(t, "input")
    BY <1>1, ReadyHolds DEF Reads
  <2> QED
    BY <2>1 DEF Holds
<1> QED
  BY <1>1, <1>2, <1>3 DEF Commit, AtomicNext

LEMMA UndoIsAtomic == ASSUME IInv, NEW t \in Txs, FinishUndo(t) PROVE AtomicNext
<1>1. Ready(t) /\ tx[t].kind = "undo" /\ TakeBack(tx[t].run)
  BY DEF FinishUndo
<1>2. tx[t].run \in Runs
  BY <1>1, ReadyHolds DEF Fitting
<1>3. run[tx[t].run].status = "applied" /\ Untouched(tx[t].run)
  <2>1. Holds(t, "applied") /\ Holds(t, "unchanged")
    BY <1>1, ReadyHolds DEF Reads
  <2> QED
    BY <2>1 DEF Holds
<1> QED
  BY <1>1, <1>2, <1>3 DEF Undo, AtomicNext

LEMMA PersonIsAtomic ==
  ASSUME IInv, NEW t \in Txs, FinishChange(t) \/ FinishDelete(t) \/ FinishRemark(t)
  PROVE  AtomicNext
<1>1. Ready(t)
  BY DEF FinishChange, FinishDelete, FinishRemark
<1>2. tx[t].request \in Requests
  BY <1>1, ReadyHolds DEF Fitting, FinishChange, FinishDelete, FinishRemark
<1>3. CASE FinishChange(t)
  BY <1>2, <1>3, FittingRequestIsNew DEF FinishChange, AtomicNext
<1>4. CASE FinishDelete(t)
  <2>1. Delete(tx[t].request.items) /\ tx[t].request.items \in SUBSET Live
    BY <1>4 DEF FinishDelete, Delete
  <2> QED
    BY <2>1 DEF AtomicNext
<1>5. CASE FinishRemark(t)
  <2>1. Remark(tx[t].request.items) /\ tx[t].request.items \in SUBSET Items
    BY <1>2, <1>5 DEF FinishRemark, Requests
  <2> QED
    BY <2>1 DEF AtomicNext
<1> QED
  BY <1>3, <1>4, <1>5

LEMMA NextIsAtomic == ASSUME IInv, [Next]_vars PROVE [AtomicNext]_facts
<1>1. ASSUME NEW t \in Txs, Finish(t) PROVE AtomicNext \/ UNCHANGED facts
  BY <1>1, CommitIsAtomic, UndoIsAtomic, PersonIsAtomic
     DEF Finish, FinishFails, Rollback, facts
<1>2. ASSUME NEW t \in Txs,
             \/ BeginChange(t) \/ BeginEdit(t) \/ BeginRemark(t)
             \/ BeginCommit(t) \/ BeginUndo(t)
             \/ Acquire(t) \/ LookAround(t) \/ Refuse(t) \/ GiveUp(t)
             \/ DeadlockVictim(t)
      PROVE  UNCHANGED facts
  BY <1>2 DEF BeginChange, BeginEdit, BeginRemark, BeginCommit, BeginUndo, Begin,
     Acquire, LookAround, Advance, Refuse, GiveUp, DeadlockVictim, Rollback, facts
<1>3. CASE UNCHANGED vars
  BY <1>3 DEF vars, facts
<1>4. ASSUME NEW r \in Runs, Capture(r) PROVE AtomicNext
  BY <1>4 DEF AtomicNext
<1> QED
  BY <1>1, <1>2, <1>3, <1>4 DEF Next

(* The planning transactions of a project are serialisable: whatever they  *)
(* read and lock step by step, and however often one gives up or is ended  *)
(* by a deadlock, the rows change as if each that commits took place at    *)
(* the moment of its commit (lockProject, the order of the item locks, and *)
(* the revision's row that every trigger of migrations/0009 locks).        *)
THEOREM TransactionsAreAtomic == Spec => ImplementsAtomicPlanning
<1>1. Init => IInv
  BY InitIInv
<1>2. IInv /\ [Next]_vars => IInv'
  BY NextIInv
<1>3. Init => AtomicInit
  BY DEF Init
<1>4. IInv /\ [Next]_vars => [AtomicNext]_facts
  BY NextIsAtomic
<1> QED
  BY <1>1, <1>2, <1>3, <1>4, PTL DEF Spec, ImplementsAtomicPlanning, AtomicSpec

-----------------------------------------------------------------------------
(* Deadlocks.                                                              *)

(* What a concatenation begins with.                                       *)
LEMMA BeginsAlike ==
  ASSUME NEW T, NEW a \in Seq(T), NEW b \in Seq(T), 1 \in 1 .. Len(a)
  PROVE  a \o b \in Seq(T) /\ 1 \in 1 .. Len(a \o b) /\ (a \o b)[1] = a[1]
  BY ConcatProperties

(* LockProject comes first.                                                *)
LEMMA GraphFirst ==
  ASSUME NEW S \in SUBSET Items
  PROVE  /\ ChangeScript(S)[1] = Exclusive(Graph)
         /\ S # {} => EditScript(S)[1] = Exclusive(Graph)
         /\ CommitScript(S)[1] = Exclusive(Graph)
         /\ UndoScript(S)[1] = Exclusive(Graph)
<1>1. PICK T : InOrder(S) \in Seq(T)
  BY InOrderGuarded
<1> DEFINE b == InOrder(S)
           g == Exclusive(Graph)
           p == Exclusive(Project)
           h == Exclusive(Revision)
           s == Shared(Project)
           U == T \cup {g, p, h, s, Look("key"), Look("running"), Look("input"),
                       Look("applied"), Look("unchanged")}
<1>2. b \in Seq(U)
  BY <1>1
<1>3. ChangeScript(S)[1] = g
  <2> DEFINE a == <<g, Look("key")>>
             c == <<s, h>>
  <2>1. a \in Seq(U) /\ c \in Seq(U) /\ 1 \in 1 .. Len(a) /\ a[1] = g
    OBVIOUS
  <2>2. ChangeScript(S) = (a \o b) \o c
    BY DEF ChangeScript
  <2> HIDE DEF a, b, c, U
  <2> QED
    BY <1>2, <2>1, <2>2, BeginsAlike
<1>4. ASSUME S # {} PROVE EditScript(S)[1] = g
  <2>1. b # <<>>
    BY <1>4, InOrderGuarded, FS_Subset, FS_EmptySet, PlanningAssumption
  <2>2. Head(b) \in U /\ Tail(b) \in Seq(U)
    BY <1>2, <2>1, HeadTailProperties
  <2> DEFINE a == <<g, Head(b), s, h>>
             c == Tail(b)
  <2>3. EditScript(S) = a \o c
    BY DEF EditScript
  <2>4. a \in Seq(U) /\ 1 \in 1 .. Len(a) /\ a[1] = g
    BY <2>2
  <2> HIDE DEF a, b, U
  <2> QED
    BY <2>2, <2>3, <2>4, BeginsAlike
<1>5. CommitScript(S)[1] = g
  <2> DEFINE a == <<g, p, Look("running"), h, Look("input")>>
  <2>1. a \in Seq(U) /\ 1 \in 1 .. Len(a) /\ a[1] = g
    OBVIOUS
  <2>2. CommitScript(S) = a \o b
    BY DEF CommitScript
  <2> HIDE DEF a, b, U
  <2> QED
    BY <1>2, <2>1, <2>2, BeginsAlike
<1>6. UndoScript(S)[1] = g
  <2> DEFINE a == <<g, p, Look("applied")>>
             c == <<h, Look("unchanged")>>
  <2>1. a \in Seq(U) /\ c \in Seq(U) /\ 1 \in 1 .. Len(a) /\ a[1] = g
    OBVIOUS
  <2>2. UndoScript(S) = (a \o b) \o c
    BY DEF UndoScript
  <2> HIDE DEF a, b, c, U
  <2> QED
    BY <1>2, <2>1, <2>2, BeginsAlike
<1> QED
  BY <1>3, <1>4, <1>5, <1>6

(* A planning transaction that has done anything holds the graph's lock.   *)
LEMMA PlannersHoldTheGraph ==
  ASSUME IInv, NEW t \in Txs, Done(t) # {}, tx[t].kind \notin {"remark", "attach"}
  PROVE  Exclusive(Graph) \in Done(t)
<1>1. Busy(t) /\ 1 \in 1 .. tx[t].got
  BY TxTyped DEF Done, IInv, Transactions
<1>2. tx[t] \in Transactions /\ Fitting(tx[t])
  BY <1>1, TxTyped DEF IInv, TxInv
<1>3. \A q \in Requests : q.items \in SUBSET Items
  BY DEF Requests
<1>4. \A r \in Runs : run[r].items \in SUBSET Items /\ DOMAIN run[r].after \in SUBSET Items
  BY DEF IInv, TypeInv, RunRecord
<1>5. Script(t)[1] = Exclusive(Graph)
  <2>1. CASE tx[t].kind = "change"
    <3>1. /\ Script(t) = ChangeScript(tx[t].request.items)
          /\ tx[t].request.items \in SUBSET Items
      BY <1>2, <1>3, <2>1 DEF Script, Fitting
    <3> QED
      BY <3>1, GraphFirst
  <2>2. CASE tx[t].kind \in {"edit", "delete"}
    <3>1. /\ Script(t) = EditScript(tx[t].request.items)
          /\ tx[t].request.items \in SUBSET Items /\ tx[t].request.items # {}
      BY <1>2, <1>3, <2>2 DEF Script, Fitting
    <3> QED
      BY <3>1, GraphFirst
  <2>3. CASE tx[t].kind = "commit"
    <3>1. /\ Script(t) = CommitScript(run[tx[t].run].items)
          /\ run[tx[t].run].items \in SUBSET Items
      BY <1>2, <1>4, <2>3 DEF Script, Fitting
    <3> QED
      BY <3>1, GraphFirst
  <2>4. CASE tx[t].kind = "undo"
    <3>1. /\ Script(t) = UndoScript(DOMAIN run[tx[t].run].after)
          /\ DOMAIN run[tx[t].run].after \in SUBSET Items
      BY <1>2, <1>4, <2>4 DEF Script, Fitting
    <3> QED
      BY <3>1, GraphFirst
  <2> QED
    BY <1>2, <2>1, <2>2, <2>3, <2>4 DEF Transactions, Kinds
<1> QED
  BY <1>1, <1>5 DEF Done

IsItem(x) == \E i : x = <<"item", i>>

(* A comment or attachment that waits and has done something waits for the *)
(* revision, and then holds an item, or for the project, which it shares.  *)
LEMMA RemarkWaits ==
  ASSUME IInv, NEW t \in Txs, Pending(t), Done(t) # {}, tx[t].kind \in {"remark", "attach"}
  PROVE  \/ /\ NextStep(t) = Exclusive(Revision)
            /\ \A s \in Done(t) : IsItem(s.on)
         \/ /\ NextStep(t) = Shared(Project)
            /\ \A s \in Done(t) : IsItem(s.on) \/ s.on = Revision
<1>1. Busy(t) /\ tx[t].got \in Nat /\ tx[t].got # 0
  BY TxTyped DEF Pending, Done, IInv, Transactions
<1>2. Done(t) = {Script(t)[n] : n \in 1 .. tx[t].got}
  BY <1>1 DEF Done
<1>3. CASE tx[t].kind = "attach"
  <2>1. Script(t) = <<Exclusive(Revision), Shared(Project)>>
    BY <1>3 DEF Script, AttachScript
  <2>2. tx[t].got = 1
    BY <1>1, <2>1 DEF Pending
  <2>3. NextStep(t) = Shared(Project) /\ Done(t) = {Exclusive(Revision)}
    BY <1>2, <2>1, <2>2 DEF NextStep
  <2> QED
    BY <2>3, Steps
<1>4. CASE tx[t].kind = "remark"
  <2>1. PICK i \in Items : tx[t].request.items = {i}
    BY <1>1, <1>4 DEF IInv, TxInv, Fitting
  <2> DEFINE b == InOrder({i})
  <2>2. Cardinality({i}) = 1 /\ Len(b) = 1
    <3>1. {i} \in SUBSET Items
      OBVIOUS
    <3>2. Cardinality({i}) = 1
      BY FS_Singleton
    <3>3. Len(b) = Cardinality({i})
      BY <3>1, InOrderGuarded
    <3> QED
      BY <3>2, <3>3
  <2>3. PICK x : b[1] = Exclusive(<<"item", x>>)
    <3>1. 1 \in 1 .. Cardinality({i})
      BY <2>2
    <3> QED
      BY <3>1 DEF InOrder
  <2>4. PICK T : b \in Seq(T)
    <3>1. {i} \in SUBSET Items
      OBVIOUS
    <3> QED
      BY <3>1, InOrderGuarded
  <2>5. Script(t) = b \o <<Exclusive(Revision), Shared(Project)>>
    BY <1>4, <2>1 DEF Script, RemarkScript
  <2> HIDE DEF b
  <2>6. /\ Len(Script(t)) = 3 /\ Script(t)[1] = Exclusive(<<"item", x>>)
        /\ Script(t)[2] = Exclusive(Revision) /\ Script(t)[3] = Shared(Project)
    <3> DEFINE c == <<Exclusive(Revision), Shared(Project)>>
               U == T \cup {Exclusive(Revision), Shared(Project)}
    <3>1. c \in Seq(U) /\ Len(c) = 2 /\ c[1] = Exclusive(Revision) /\ c[2] = Shared(Project)
      OBVIOUS
    <3>2. b \in Seq(U)
      BY <2>4
    <3> HIDE DEF c, U
    <3> QED
      BY <2>2, <2>3, <2>5, <3>1, <3>2, ConcatProperties DEF c
  <2>7. CASE tx[t].got = 1
    <3>1. NextStep(t) = Exclusive(Revision) /\ Done(t) = {Exclusive(<<"item", x>>)}
      BY <1>2, <2>6, <2>7 DEF NextStep
    <3> QED
      BY <3>1, Steps DEF IsItem
  <2>8. CASE tx[t].got = 2
    <3>1. /\ NextStep(t) = Shared(Project)
          /\ Done(t) = {Exclusive(<<"item", x>>), Exclusive(Revision)}
      BY <1>2, <2>6, <2>8 DEF NextStep
    <3> QED
      BY <3>1, Steps DEF IsItem
  <2>9. tx[t].got = 1 \/ tx[t].got = 2
    BY <1>1, <2>6 DEF Pending
  <2> QED
    BY <2>7, <2>8, <2>9
<1> QED
  BY <1>3, <1>4

(* In a cycle somebody waits for everyone: a cycle has none within it.     *)
LEMMA AllAreWaitedFor ==
  ASSUME NEW S \in SUBSET Txs, Cycle(S), NEW u \in S
  PROVE  \E t \in S : WaitsFor(t, u)
<1> SUFFICES ASSUME \A t \in S : ~WaitsFor(t, u)
             PROVE  FALSE
  OBVIOUS
<1>1. \A t \in S : \E v \in S : WaitsFor(t, v)
  BY DEF Cycle
<1>2. \A t \in S \ {u} : \E v \in S \ {u} : WaitsFor(t, v)
  BY <1>1
<1>3. S \ {u} # {}
  BY <1>1
<1>4. S \ {u} \in (SUBSET S) \ {{}, S}
  BY <1>3
<1>5. \E t \in S \ {u} : \A v \in S \ {u} : ~WaitsFor(t, v)
  BY <1>4 DEF Cycle
<1> QED
  BY <1>2, <1>5

LEMMA CyclesAreMixed == ASSUME IInv PROVE DeadlocksAreMixed
<1> SUFFICES ASSUME NEW S \in SUBSET Txs, Cycle(S)
             PROVE  \E g \in S : /\ tx[g].kind \notin {"remark", "attach"}
                                  /\ \A t \in S \ {g} : tx[t].kind \in {"remark", "attach"}
  BY DEF DeadlocksAreMixed
<1>1. \A t \in S : /\ t \in Txs /\ Pending(t) /\ Done(t) # {}
                    /\ \E u \in S : WaitsFor(t, u)
  <2>1. \A t \in S : \E u \in S : WaitsFor(t, u)
    BY DEF Cycle
  <2>2. \A t \in S : \E u \in S : WaitsFor(u, t)
    BY AllAreWaitedFor
  <2> QED
    BY <2>1, <2>2 DEF WaitsFor
<1>2. \E g \in S : tx[g].kind \notin {"remark", "attach"}
  <2> SUFFICES ASSUME \A t \in S : tx[t].kind \in {"remark", "attach"}
               PROVE  FALSE
    OBVIOUS
  <2>1. ASSUME NEW t \in S, NEW u \in S, WaitsFor(t, u)
        PROVE  NextStep(t) = Exclusive(Revision) /\ NextStep(u) = Shared(Project)
    <3>1. PICK held \in Done(u) : Conflict(NextStep(t), held)
      BY <2>1 DEF WaitsFor
    <3>2. NextStep(t).on = held.on
      BY <3>1 DEF Conflict
    <3>3. /\ \A i : <<"item", i>> # Project /\ <<"item", i>> # Revision
          /\ Project # Revision
      BY DEF Project, Revision
    <3>4. \/ NextStep(t) = Exclusive(Revision) \/ NextStep(t) = Shared(Project)
      BY <1>1, RemarkWaits
    <3>5. Exclusive(Revision).on = Revision /\ Shared(Project).on = Project
      BY DEF Exclusive, Shared
    <3>6. \/ NextStep(u) = Exclusive(Revision) /\ IsItem(held.on)
          \/ NextStep(u) = Shared(Project) /\ (IsItem(held.on) \/ held.on = Revision)
      BY <1>1, RemarkWaits
    <3> QED
      BY <3>2, <3>3, <3>4, <3>5, <3>6 DEF IsItem
  <2>2. PICK t \in S, u \in S, v \in S : WaitsFor(t, u) /\ WaitsFor(u, v)
    BY <1>1 DEF Cycle
  <2>3. NextStep(u) = Shared(Project) /\ NextStep(u) = Exclusive(Revision)
    BY <2>1, <2>2
  <2>4. Shared(Project) # Exclusive(Revision)
    BY DEF Shared, Exclusive
  <2> QED
    BY <2>3, <2>4
<1>3. ASSUME NEW g \in S, NEW t \in S, g # t,
             tx[g].kind \notin {"remark", "attach"}, tx[t].kind \notin {"remark", "attach"}
      PROVE  FALSE
  <2>1. Exclusive(Graph) \in Done(g) /\ Exclusive(Graph) \in Done(t)
    BY <1>1, <1>3, PlannersHoldTheGraph
  <2> QED
    BY <1>1, <1>3, <2>1, OneHolder DEF IInv
<1> QED
  BY <1>2, <1>3

(* A deadlock joins one transaction that plans with comments or            *)
(* attachments: those that plan take the graph's lock before all others    *)
(* (LockProject), and a comment or an attachment that holds the revision   *)
(* wants nothing more than to share the project.                           *)
THEOREM DeadlocksNeedRemarks == Spec => []DeadlocksAreMixed
<1>1. Init => IInv
  BY InitIInv
<1>2. IInv /\ [Next]_vars => IInv'
  BY NextIInv
<1>3. IInv => DeadlocksAreMixed
  BY CyclesAreMixed
<1> QED
  BY <1>1, <1>2, <1>3, PTL DEF Spec
=============================================================================
