--------------------------- MODULE WorkItemProofs ---------------------------
(***************************************************************************)
(* What WorkItemGraph keeps for every number of items, activities and      *)
(* projects.  The seven properties and the typing are inductive together:  *)
(* that a deleted epic leaves no story in an activity behind, say, needs   *)
(* StoriesMatchActivities before the step, and that needs                  *)
(* ActivitiesHaveEpics.                                                    *)
(***************************************************************************)
EXTENDS WorkItemGraph, TLAPS

GraphInv ==
  /\ TypeOK
  /\ ParentsAreKept /\ LevelsHold /\ NoParentCycle
  /\ ActivitiesHaveEpics /\ StoriesMatchActivities
  /\ BlocksStayInProject /\ NoDependencyCycle

-----------------------------------------------------------------------------
(* Fewer edges make no cycle.                                              *)
LEMMA FewerEdges ==
  ASSUME NEW E, NEW F, E \subseteq F, Acyclic(F)
  PROVE  Acyclic(E)
BY DEF Acyclic

(* Edges from where t does not lead to, to t, close no cycle: the argument *)
(* of every cycle check.  In a set of which everyone has a successor, what *)
(* t leads to would be such a set without the new edges.                   *)
LEMMA CheckedEdges ==
  ASSUME NEW E \in SUBSET (Items \X Items), NEW t \in Items, NEW D \in SUBSET Items,
         Acyclic(E), D \cap Reachable(E, t) = {}
  PROVE  Acyclic(E \cup (D \X {t}))
<1> DEFINE R == Reachable(E, t)
<1>1. t \in R
  BY DEF Reachable
<1>2. ASSUME NEW x \in R, NEW y \in Items, <<x, y>> \in E PROVE y \in R
  <2>1. ASSUME NEW S \in SUBSET Items, t \in S, \A e \in E : e[1] \in S => e[2] \in S
        PROVE  y \in S
    <3>1. x \in S BY <2>1 DEF Reachable
    <3> QED BY <3>1, <2>1, <1>2
  <2> QED BY <2>1 DEF Reachable
<1>3. SUFFICES ASSUME NEW S \in SUBSET Items, S # {},
                      \A x \in S : \E y \in S : <<x, y>> \in E \cup (D \X {t})
               PROVE  FALSE
  BY DEF Acyclic
<1>4. CASE t \in S
  <2> DEFINE T == S \cap R
  <2>1. T \in SUBSET Items /\ T # {} BY <1>1, <1>4
  <2>2. ASSUME NEW x \in T PROVE \E y \in T : <<x, y>> \in E
    <3>1. x \notin D OBVIOUS
    <3>2. PICK y \in S : <<x, y>> \in E \cup (D \X {t}) BY <1>3
    <3>3. <<x, y>> \in E BY <3>1, <3>2
    <3> QED BY <3>3, <1>2
  <2> HIDE DEF T
  <2> QED BY <2>1, <2>2 DEF Acyclic
<1>5. CASE t \notin S
  <2>1. \A x \in S : \E y \in S : <<x, y>> \in E BY <1>3, <1>5
  <2> QED BY <2>1, <1>3 DEF Acyclic
<1> QED BY <1>4, <1>5

(* Where edges keep within a set that holds t, those that start in it lead *)
(* as far from t as all edges do: replaceDependencies looks at the         *)
(* relations of one project only.                                          *)
LEMMA EdgesWithin ==
  ASSUME NEW E \in SUBSET (Items \X Items), NEW t \in Items,
         NEW P \in SUBSET Items, t \in P, \A e \in E : e[1] \in P => e[2] \in P
  PROVE  Reachable(E, t) \subseteq Reachable({e \in E : e[1] \in P}, t)
<1> DEFINE F == {e \in E : e[1] \in P}
<1>1. SUFFICES ASSUME NEW y \in Reachable(E, t), NEW S \in SUBSET Items, t \in S,
                      \A e \in F : e[1] \in S => e[2] \in S
               PROVE  y \in S
  BY DEF Reachable
<1>2. /\ S \cap P \in SUBSET Items /\ t \in S \cap P
      /\ \A e \in E : e[1] \in S \cap P => e[2] \in S \cap P
  BY <1>1
<1> QED BY <1>1, <1>2 DEF Reachable

(* A row i that passes ParentAccessible gets no cycle of ancestors.        *)
LEMMA NewParent ==
  ASSUME TypeOK, NoParentCycle, NEW i \in Items, NEW new \in ItemRecord,
         ParentAccessible(i, new, item[i]), item' = [item EXCEPT ![i] = new]
  PROVE  NoParentCycle'
<1> DEFINE E == {e \in Parents : e[1] # i}
<1>1. E \in SUBSET (Items \X Items) /\ E \subseteq Parents
  BY DEF Parents
<1>2. Acyclic(Parents) /\ Acyclic(E)
  BY <1>1, FewerEdges DEF NoParentCycle
<1>3. CASE new.parent = item[i].parent
  <2>1. Parents' = Parents BY <1>3 DEF Parents, TypeOK
  <2> QED BY <2>1, <1>2 DEF NoParentCycle, Acyclic
<1>4. CASE new.parent # item[i].parent /\ new.parent = None
  <2>1. Parents' \subseteq Parents
    BY <1>4, GraphAssumption DEF Parents, TypeOK
  <2>2. Acyclic(Parents') BY <2>1, <1>2, FewerEdges
  <2> QED BY <2>2 DEF NoParentCycle, Acyclic
<1>5. CASE new.parent # item[i].parent /\ new.parent # None
  <2>1. new.parent \in Items /\ i \notin Reachable(Parents, new.parent)
    BY <1>5 DEF ParentAccessible, ItemRecord
  <2>2. Acyclic(Parents \cup ({i} \X {new.parent}))
    <3>1. Parents \in SUBSET (Items \X Items) /\ {i} \in SUBSET Items BY DEF Parents
    <3>2. {i} \cap Reachable(Parents, new.parent) = {} BY <2>1
    <3> QED BY <3>1, <3>2, <2>1, <1>2, CheckedEdges
  <2>3. Parents' \subseteq Parents \cup ({i} \X {new.parent})
    BY DEF Parents, TypeOK
  <2>4. Acyclic(Parents') BY <2>2, <2>3, FewerEdges
  <2> QED BY <2>4 DEF NoParentCycle, Acyclic
<1> QED BY <1>3, <1>4, <1>5

(* Requests for item i in its project p leave the relations as they should *)
(* be: within the project, off the diagonal and without a cycle.           *)
LEMMA NewDependencies ==
  ASSUME TypeOK, BlocksStayInProject, NoDependencyCycle,
         NEW i \in Items, NEW p \in Projects, item[i].project \in {p, None},
         NEW B \in Dependencies(i, p)
  PROVE  /\ B \in SUBSET (Items \X Items) /\ \A j \in Items : <<j, j>> \notin B
         /\ \A e \in B : e \in blocks \/ (e[2] = i /\ item[e[1]].project = p)
         /\ Acyclic(B)
<1>1. CASE B = blocks
  BY <1>1 DEF TypeOK, NoDependencyCycle
<1>2. CASE B # blocks
  <2>1. PICK D \in SUBSET Blockers(i, p) : B = Others(i) \cup (D \X {i})
    BY <1>2 DEF Dependencies
  <2> DEFINE P == {j \in Items : j = i \/ item[j].project = p}
  <2>2. /\ Others(i) \in SUBSET (Items \X Items) /\ Others(i) \subseteq blocks
        /\ P \in SUBSET Items /\ i \in P
    BY DEF Others, TypeOK
  <2>3. \A e \in Others(i) : e[1] \in P => e[2] \in P
    BY GraphAssumption DEF Others, TypeOK, BlocksStayInProject
  <2>4. {e \in Others(i) : e[1] \in P}
          = {e \in Others(i) : item[e[1]].project = p}
    BY GraphAssumption DEF Others, TypeOK, BlocksStayInProject
  <2>5. Reachable(Others(i), i)
          \subseteq WaitingFor(i, {e \in Others(i) : item[e[1]].project = p})
    BY <2>2, <2>3, <2>4, EdgesWithin DEF WaitingFor
  <2>6. /\ D \in SUBSET Items /\ D \cap Reachable(Others(i), i) = {}
        /\ \A s \in D : s # i /\ item[s].project = p
    BY <2>1, <2>5 DEF Blockers
  <2>7. Acyclic(Others(i))
    BY <2>2, FewerEdges DEF NoDependencyCycle
  <2>8. Acyclic(B)
    BY <2>1, <2>2, <2>6, <2>7, CheckedEdges
  <2> QED BY <2>1, <2>2, <2>6, <2>8 DEF TypeOK
<1> QED BY <1>1, <1>2

-----------------------------------------------------------------------------
(* One lemma per action.                                                   *)

(* A created or updated row that passes the checks keeps the hierarchy.    *)
LEMMA ValidRow ==
  ASSUME GraphInv, NEW i \in Items, NEW new \in ItemRecord,
         item[i].status = "absent" \/ Kept(item[i]), Kept(new),
         item[i].project \in {None, new.project}, new.project # None,
         ParentAccessible(i, new, item[i]), RequirementValid(i, new, item[i]),
         item' = [item EXCEPT ![i] = new], activity' = activity
  PROVE  /\ item' \in [Items -> ItemRecord] /\ new.parent # i
         /\ ParentsAreKept' /\ LevelsHold' /\ NoParentCycle'
         /\ ActivitiesHaveEpics' /\ StoriesMatchActivities'
<1> USE GraphAssumption DEF GraphInv, TypeOK, ItemRecord
<1>1. item' \in [Items -> ItemRecord]
  OBVIOUS
<1>2. new.parent # i
  BY DEF ParentAccessible
<1>3. ParentsAreKept'
  <2>1. ASSUME NEW j \in Items, Kept(item'[j]), item'[j].parent # None
        PROVE  /\ Kept(item'[item'[j].parent])
               /\ item'[item'[j].parent].project = item'[j].project
    <3> DEFINE f == item'[j].parent
    <3>1. f \in Items
      BY <2>1, <1>1
    <3>2. CASE j = i
      <4>1. f = new.parent /\ f # i /\ item'[j].project = new.project /\ item'[f] = item[f]
        BY <3>1, <3>2, <1>2
      <4>2. CASE f = item[i].parent
        <5>1. item[i].status # "absent"
          <6>1. item[i].parent # None BY <3>1, <4>2
          <6>2. NoItem.parent = None BY DEF NoItem
          <6>3. item[i].status = "absent" => item[i] = NoItem BY DEF GraphInv, TypeOK
          <6> QED BY ONLY <6>1, <6>2, <6>3
        <5>2. Kept(item[i]) /\ item[i].project = new.project
          BY <5>1
        <5> QED BY <3>1, <3>2, <4>1, <4>2, <5>2 DEF ParentsAreKept
      <4>3. CASE f # item[i].parent
        BY <2>1, <4>1, <4>3 DEF ParentAccessible
      <4> QED BY <4>2, <4>3
    <3>3. CASE j # i
      <4>1. Kept(item[j]) /\ f = item[j].parent /\ item'[j] = item[j]
        BY <2>1, <3>3
      <4>2. Kept(item[f]) /\ item[f].project = item[j].project
        BY <2>1, <3>1, <4>1 DEF ParentsAreKept
      <4>3. CASE f = i
        <5>1. item[i].status # "absent"
          BY <4>2, <4>3 DEF Kept
        <5> QED BY <3>1, <4>1, <4>2, <4>3, <5>1 DEF NoItem
      <4>4. CASE f # i
        BY <3>1, <4>1, <4>2, <4>4
      <4> QED BY <4>3, <4>4
    <3> QED BY <3>2, <3>3
  <2> QED BY <2>1 DEF ParentsAreKept, Kept
<1>4. LevelsHold'
  <2>1. ASSUME NEW j \in Items, Kept(item'[j]), item'[j].kind # "none", item'[j].parent # None
        PROVE  <<item'[item'[j].parent].kind, item'[j].kind>> \in Levels
    <3>1. CASE j = i
      BY <2>1, <3>1, <1>2 DEF RequirementValid, ParentFits, Kept
    <3>2. CASE j # i /\ item[j].parent = i
      BY <2>1, <3>2 DEF RequirementValid, ChildrenFit, Children
    <3>3. CASE j # i /\ item[j].parent # i
      BY <2>1, <3>3 DEF LevelsHold, Kept
    <3> QED BY <3>1, <3>2, <3>3
  <2> QED BY <2>1 DEF LevelsHold, Kept
<1>5. NoParentCycle'
  BY NewParent
<1>6. ActivitiesHaveEpics'
  <2>1. ASSUME NEW a \in Activities, Kept(activity[a]), activity[a].epic = i
        PROVE  new.kind = "epic" /\ new.project = activity[a].project
    BY <2>1 DEF ActivitiesHaveEpics, RequirementValid, ActivitiesOf, Kept, ActivityRecord
  <2> QED BY <2>1 DEF ActivitiesHaveEpics, Kept, ActivityRecord
<1>7. StoriesMatchActivities'
  BY DEF StoriesMatchActivities, RequirementValid, ActivityFits, Kept
<1> QED BY <1>1, <1>2, <1>3, <1>4, <1>5, <1>6, <1>7

LEMMA CreateItemStep ==
  ASSUME GraphInv, NEW i \in Items, CreateItem(i)
  PROVE  GraphInv'
<1> USE GraphAssumption
<1>1. PICK p \in Projects, k \in InputKinds, s \in {"live", "archived"},
           parent \in Items \cup {None}, a \in Activities \cup {None} :
        LET new == [status |-> s, project |-> p, kind |-> k,
                    parent |-> parent, activity |-> a]
        IN /\ RequirementValid(i, new, NoItem)
           /\ ParentAccessible(i, new, NoItem)
           /\ item' = [item EXCEPT ![i] = new]
           /\ blocks' \in Dependencies(i, p)
  BY DEF CreateItem
<1> DEFINE new == [status |-> s, project |-> p, kind |-> k,
                   parent |-> parent, activity |-> a]
<1>2. item[i] = NoItem /\ activity' = activity
  BY DEF CreateItem, GraphInv, TypeOK
<1>3. new \in ItemRecord /\ Kept(new) /\ new.project = p /\ new.project # None
  BY DEF ItemRecord, Statuses, Kept
<1>4. /\ item' \in [Items -> ItemRecord] /\ new.parent # i
      /\ ParentsAreKept' /\ LevelsHold' /\ NoParentCycle'
      /\ ActivitiesHaveEpics' /\ StoriesMatchActivities'
  <2>1. item[i].status = "absent" /\ item[i].project = None BY <1>2 DEF NoItem
  <2> HIDE DEF new
  <2> QED BY <1>1, <1>2, <1>3, <2>1, ValidRow DEF new
<1>5. /\ blocks' \in SUBSET (Items \X Items) /\ \A j \in Items : <<j, j>> \notin blocks'
      /\ \A e \in blocks' : e \in blocks \/ (e[2] = i /\ item[e[1]].project = p)
      /\ Acyclic(blocks')
  BY <1>1, <1>2, NewDependencies DEF GraphInv, NoItem
<1>6. TypeOK'
  BY <1>1, <1>2, <1>3, <1>4, <1>5 DEF GraphInv, TypeOK, NoItem
<1>7. BlocksStayInProject'
  <2>1. \A e \in blocks : e[1] # i /\ e[2] # i
    BY <1>2 DEF GraphInv, BlocksStayInProject, NoItem
  <2> QED BY <1>1, <1>3, <1>5, <2>1 DEF GraphInv, BlocksStayInProject, TypeOK
<1>8. NoDependencyCycle'
  BY <1>5 DEF NoDependencyCycle, Acyclic
<1> QED BY <1>4, <1>6, <1>7, <1>8 DEF GraphInv

LEMMA UpdateItemStep ==
  ASSUME GraphInv, NEW i \in Items, UpdateItem(i)
  PROVE  GraphInv'
<1> USE GraphAssumption
<1>1. PICK k \in InputKinds \cup {item[i].kind}, s \in {"live", "archived"},
           parent \in Items \cup {None}, a \in Activities \cup {None} :
        LET row == [item[i] EXCEPT !.kind = k, !.parent = parent, !.activity = a]
        IN /\ RequirementValid(i, row, item[i])
           /\ ParentAccessible(i, row, item[i])
           /\ item' = [item EXCEPT ![i] = [row EXCEPT !.status = s]]
  BY DEF UpdateItem
<1> DEFINE row == [item[i] EXCEPT !.kind = k, !.parent = parent, !.activity = a]
           new == [row EXCEPT !.status = s]
           p == item[i].project
<1>2. /\ Kept(item[i]) /\ activity' = activity /\ blocks' \in Dependencies(i, p)
      /\ p \in Projects
  BY DEF UpdateItem, GraphInv, TypeOK, ItemRecord, Kept
<1>3. new \in ItemRecord /\ Kept(new) /\ new.project = p /\ new.project # None
  <2>1. k \in Kinds /\ item[i] \in ItemRecord
    BY DEF GraphInv, TypeOK, ItemRecord
  <2>2. new \in ItemRecord /\ new.status = s /\ new.project = p
    BY <2>1 DEF ItemRecord, Statuses
  <2> QED BY <1>2, <2>2 DEF Kept
<1>4. /\ item' \in [Items -> ItemRecord] /\ new.parent # i
      /\ ParentsAreKept' /\ LevelsHold' /\ NoParentCycle'
      /\ ActivitiesHaveEpics' /\ StoriesMatchActivities'
  <2>1. row \in ItemRecord /\ new \in ItemRecord
    BY <1>3 DEF GraphInv, TypeOK, ItemRecord
  <2>2. /\ new.project = row.project /\ new.kind = row.kind
        /\ new.parent = row.parent /\ new.activity = row.activity
    BY <2>1 DEF ItemRecord
  <2> HIDE DEF row, new
  <2>3. RequirementValid(i, new, item[i]) /\ ParentAccessible(i, new, item[i])
    BY <1>1, <2>2 DEF row, RequirementValid, ParentFits, ChildrenFit, ActivityFits,
       ParentAccessible
  <2> QED BY <1>1, <1>2, <1>3, <2>3, ValidRow DEF new, row
<1>5. /\ blocks' \in SUBSET (Items \X Items) /\ \A j \in Items : <<j, j>> \notin blocks'
      /\ \A e \in blocks' : e \in blocks \/ (e[2] = i /\ item[e[1]].project = p)
      /\ Acyclic(blocks')
  BY <1>2, NewDependencies DEF GraphInv
<1>6. TypeOK'
  BY <1>1, <1>2, <1>3, <1>4, <1>5 DEF GraphInv, TypeOK, Kept
<1>7. BlocksStayInProject'
  BY <1>1, <1>2, <1>3, <1>5 DEF GraphInv, BlocksStayInProject, TypeOK
<1>8. NoDependencyCycle'
  BY <1>5 DEF NoDependencyCycle, Acyclic
<1> QED BY <1>4, <1>6, <1>7, <1>8 DEF GraphInv

LEMMA DeleteItemStep ==
  ASSUME GraphInv, NEW i \in Items, DeleteItem(i)
  PROVE  GraphInv'
<1> USE GraphAssumption DEF GraphInv
<1>1. /\ Kept(item[i]) /\ ActivitiesOf(i) = {}
      /\ item' = Without(i) /\ activity' = activity /\ blocks' = blocks
  BY DEF DeleteItem, Deletable
<1>2. /\ item'[i] = [item[i] EXCEPT !.status = "deleted"]
      /\ \A j \in Children(i) : j # i /\ item'[j] = [item[j] EXCEPT !.parent = None]
      /\ \A j \in Items \ Children(i) : j # i => item'[j] = item[j]
  BY <1>1 DEF Without, Children, TypeOK
<1>3. /\ item' \in [Items -> ItemRecord]
      /\ \A j \in Items : /\ item'[j].project = item[j].project
                          /\ item'[j].kind = item[j].kind
                          /\ item'[j].activity = item[j].activity
                          /\ item'[j].parent \in {item[j].parent, None}
                          /\ j # i => item'[j].status = item[j].status
                          /\ Kept(item'[j]) => j # i /\ Kept(item[j])
                          /\ j # i /\ Kept(item[j]) => Kept(item'[j])
  BY <1>1, <1>2 DEF Without, TypeOK, ItemRecord, Statuses, Kept
<1>4. \A j \in Items : Kept(item'[j]) => item'[j].parent # i
  <2>1. ASSUME NEW j \in Items, Kept(item'[j]) PROVE item'[j].parent # i
    <3>1. CASE j \in Children(i)
      <4>1. item[j] \in ItemRecord BY DEF TypeOK
      <4>2. item'[j] = [item[j] EXCEPT !.parent = None] BY <1>2, <3>1
      <4>3. item'[j].parent = None BY ONLY <4>1, <4>2 DEF ItemRecord
      <4> QED BY <4>3
    <3>2. CASE j \notin Children(i)
      BY <1>2, <1>3, <2>1, <3>2 DEF Children
    <3> QED BY <3>1, <3>2
  <2> QED BY <2>1
<1>5. TypeOK'
  <2>1. ASSUME NEW j \in Items
        PROVE  /\ item'[j].status = "absent" <=> item'[j].project = None
               /\ item'[j].status = "absent" => item'[j] = NoItem
               /\ item'[j].parent # j
    <3>1. CASE j = i \/ j \in Children(i)
      <4>1. Kept(item[j])
        BY <1>1, <3>1 DEF Children
      <4>2. item[j].status # "absent" /\ item[j].project # None
        BY <4>1 DEF TypeOK, Kept
      <4>3. item'[j].status # "absent"
        <5>1. CASE j = i BY <1>2, <5>1 DEF TypeOK, ItemRecord
        <5>2. CASE j # i BY <1>3, <4>2, <5>2
        <5> QED BY <5>1, <5>2
      <4> QED BY <1>3, <4>2, <4>3 DEF TypeOK
    <3>2. CASE j \notin Children(i) /\ j # i BY <1>2, <3>2 DEF TypeOK
    <3> QED BY <3>1, <3>2
  <2> QED BY <1>1, <1>3, <2>1 DEF TypeOK
<1>6. ParentsAreKept'
  <2>1. ASSUME NEW j \in Items, Kept(item'[j]), item'[j].parent # None
        PROVE  /\ Kept(item'[item'[j].parent])
               /\ item'[item'[j].parent].project = item'[j].project
    BY <1>3, <1>4, <2>1 DEF ParentsAreKept, TypeOK, ItemRecord
  <2> QED BY <2>1 DEF ParentsAreKept, Kept
<1>7. LevelsHold'
  <2>1. ASSUME NEW j \in Items, Kept(item'[j]), item'[j].kind # "none", item'[j].parent # None
        PROVE  <<item'[item'[j].parent].kind, item'[j].kind>> \in Levels
    BY <1>3, <2>1 DEF LevelsHold, TypeOK, ItemRecord
  <2> QED BY <2>1 DEF LevelsHold, Kept
<1>8. NoParentCycle'
  <2>1. Parents' \subseteq Parents
    BY <1>3 DEF Parents
  <2>2. Acyclic(Parents') BY <2>1, FewerEdges DEF NoParentCycle
  <2> QED BY <2>2 DEF NoParentCycle, Acyclic
<1>9. ActivitiesHaveEpics'
  <2>1. ASSUME NEW a \in Activities, Kept(activity[a]), activity[a].epic # None
        PROVE  /\ Kept(item'[activity[a].epic]) /\ item'[activity[a].epic].kind = "epic"
               /\ item'[activity[a].epic].project = activity[a].project
    BY <1>1, <1>3, <2>1 DEF ActivitiesHaveEpics, ActivitiesOf, TypeOK, ActivityRecord
  <2> QED BY <1>1, <2>1 DEF ActivitiesHaveEpics, Kept
<1>10. StoriesMatchActivities'
  <2>1. ASSUME NEW j \in Items, Kept(item'[j]), item'[j].activity # None
        PROVE  LET a == activity[item'[j].activity]
               IN  /\ item'[j].kind = "story" /\ Kept(a)
                   /\ a.project = item'[j].project /\ a.epic = item'[j].parent
    <3>1. /\ Kept(item[j]) /\ item[j].activity # None /\ item'[j].activity = item[j].activity
          /\ item[j].activity \in Activities
      BY <1>3, <2>1 DEF TypeOK, ItemRecord
    <3>2. j \notin Children(i)
      BY <1>1, <3>1 DEF StoriesMatchActivities, ActivitiesOf, Children
    <3> QED BY <1>2, <1>3, <2>1, <3>1, <3>2 DEF StoriesMatchActivities
  <2> QED BY <1>1, <2>1 DEF StoriesMatchActivities, Kept
<1>11. BlocksStayInProject' /\ NoDependencyCycle'
  BY <1>1, <1>3 DEF BlocksStayInProject, NoDependencyCycle, Acyclic, TypeOK
<1> QED BY <1>5, <1>6, <1>7, <1>8, <1>9, <1>10, <1>11

LEMMA MoveItemStep ==
  ASSUME GraphInv, NEW i \in Items, NEW q \in Projects, MoveItem(i, q)
  PROVE  GraphInv'
<1> USE GraphAssumption DEF GraphInv
<1>1. /\ Kept(item[i]) /\ Children(i) = {} /\ \A a \in Activities : activity[a].epic # i
      /\ item' = [item EXCEPT ![i].project = q, ![i].parent = None, ![i].activity = None]
      /\ blocks' = blocks \ RelationsOf(i) /\ activity' = activity
  BY DEF MoveItem
<1>2. /\ item'[i].project = q /\ item'[i].parent = None /\ item'[i].activity = None
      /\ item'[i].kind = item[i].kind /\ item'[i].status = item[i].status
      /\ \A j \in Items \ {i} : item'[j] = item[j]
  BY <1>1 DEF TypeOK, ItemRecord
<1>3. item' \in [Items -> ItemRecord]
  <2>1. item'[i] = [item[i] EXCEPT !.project = q, !.parent = None, !.activity = None]
    BY <1>1 DEF TypeOK
  <2>2. item[i] \in ItemRecord BY DEF TypeOK
  <2>3. item'[i] \in ItemRecord BY <2>1, <2>2 DEF ItemRecord
  <2> QED BY <1>1, <2>3 DEF TypeOK
<1>4. \A j \in Items : Kept(item'[j]) => item'[j].parent # i
  BY <1>1, <1>2 DEF Children
<1>5. TypeOK'
  BY <1>1, <1>2, <1>3 DEF TypeOK, Kept
<1>6. ParentsAreKept'
  <2>1. ASSUME NEW j \in Items, Kept(item'[j]), item'[j].parent # None
        PROVE  /\ Kept(item'[item'[j].parent])
               /\ item'[item'[j].parent].project = item'[j].project
    BY <1>2, <1>4, <2>1 DEF ParentsAreKept, TypeOK, ItemRecord
  <2> QED BY <2>1 DEF ParentsAreKept, Kept
<1>7. LevelsHold'
  <2>1. ASSUME NEW j \in Items, Kept(item'[j]), item'[j].kind # "none", item'[j].parent # None
        PROVE  <<item'[item'[j].parent].kind, item'[j].kind>> \in Levels
    BY <1>2, <1>4, <2>1 DEF LevelsHold, TypeOK, ItemRecord
  <2> QED BY <2>1 DEF LevelsHold, Kept
<1>8. NoParentCycle'
  <2>1. Parents' \subseteq Parents
    BY <1>2 DEF Parents
  <2>2. Acyclic(Parents') BY <2>1, FewerEdges DEF NoParentCycle
  <2> QED BY <2>2 DEF NoParentCycle, Acyclic
<1>9. ActivitiesHaveEpics'
  BY <1>1, <1>2 DEF ActivitiesHaveEpics, TypeOK, ActivityRecord, Kept
<1>10. StoriesMatchActivities'
  BY <1>1, <1>2 DEF StoriesMatchActivities, Kept
<1>11. BlocksStayInProject'
  BY <1>1, <1>2 DEF BlocksStayInProject, RelationsOf, TypeOK
<1>12. NoDependencyCycle'
  <2>1. Acyclic(blocks')
    BY <1>1, FewerEdges DEF NoDependencyCycle
  <2> QED BY <2>1 DEF NoDependencyCycle, Acyclic
<1> QED BY <1>5, <1>6, <1>7, <1>8, <1>9, <1>10, <1>11, <1>12

LEMMA ArchiveItemStep ==
  ASSUME GraphInv, NEW i \in Items, ArchiveItem(i)
  PROVE  GraphInv'
<1> USE GraphAssumption DEF GraphInv
<1>1. /\ item[i].status = "live" /\ item' = [item EXCEPT ![i].status = "archived"]
      /\ activity' = activity /\ blocks' = blocks
  BY DEF ArchiveItem
<1>2. /\ item' \in [Items -> ItemRecord]
      /\ \A j \in Items : /\ item'[j].project = item[j].project
                          /\ item'[j].kind = item[j].kind
                          /\ item'[j].activity = item[j].activity
                          /\ item'[j].parent = item[j].parent
                          /\ Kept(item'[j]) <=> Kept(item[j])
                          /\ item'[j].status = "absent" => item'[j] = item[j]
  <2>1. item'[i] = [item[i] EXCEPT !.status = "archived"] /\ item[i] \in ItemRecord
    BY <1>1 DEF TypeOK
  <2>2. /\ item'[i] \in ItemRecord /\ item'[i].status = "archived"
        /\ item'[i].project = item[i].project /\ item'[i].kind = item[i].kind
        /\ item'[i].activity = item[i].activity /\ item'[i].parent = item[i].parent
    BY ONLY <2>1 DEF ItemRecord, Statuses
  <2> QED BY <1>1, <2>2 DEF TypeOK, Kept
<1>3. TypeOK'
  <2>1. \A j \in Items : item'[j].status = "absent" <=> item[j].status = "absent"
    BY <1>1, <1>2 DEF TypeOK
  <2> QED BY <1>1, <1>2, <2>1 DEF TypeOK
<1>4. ParentsAreKept' /\ LevelsHold'
  BY <1>2 DEF ParentsAreKept, LevelsHold, TypeOK, ItemRecord, Kept
<1>5. ActivitiesHaveEpics' /\ StoriesMatchActivities'
  BY <1>1, <1>2 DEF ActivitiesHaveEpics, StoriesMatchActivities, TypeOK, ActivityRecord, Kept
<1>6. NoParentCycle' /\ BlocksStayInProject' /\ NoDependencyCycle'
  <2>1. Parents' = Parents BY <1>2 DEF Parents
  <2> QED BY <1>1, <1>2, <2>1 DEF NoParentCycle, NoDependencyCycle, Acyclic, BlocksStayInProject, TypeOK
<1> QED BY <1>3, <1>4, <1>5, <1>6

LEMMA RelationStep ==
  ASSUME GraphInv, NEW s \in Items, NEW t \in Items,
         AddRelation(s, t) \/ DeleteRelation(s, t)
  PROVE  GraphInv'
<1> USE GraphAssumption DEF GraphInv
<1>1. item' = item /\ activity' = activity
  BY DEF AddRelation, DeleteRelation
<1>2. /\ ParentsAreKept' /\ LevelsHold' /\ NoParentCycle'
      /\ ActivitiesHaveEpics' /\ StoriesMatchActivities'
  BY <1>1 DEF ParentsAreKept, LevelsHold, NoParentCycle, Acyclic, Parents,
              ActivitiesHaveEpics, StoriesMatchActivities, Kept
<1>3. CASE AddRelation(s, t)
  <2>1. /\ blocks' = blocks \cup ({s} \X {t}) /\ s # t
        /\ item[s].project = item[t].project /\ item[s].project # None
        /\ {s} \cap Reachable(blocks, t) = {}
    <3>1. {s} \X {t} = {<<s, t>>} OBVIOUS
    <3>2. /\ blocks' = blocks \cup {<<s, t>>} /\ s # t /\ Kept(item[s])
          /\ item[s].project = item[t].project /\ s \notin WaitingFor(t, blocks)
      BY <1>3 DEF AddRelation
    <3>3. item[s].project # None BY <3>2 DEF TypeOK, Kept
    <3> QED BY <3>1, <3>2, <3>3 DEF WaitingFor
  <2>2. Acyclic(blocks')
    <3>1. blocks \in SUBSET (Items \X Items) /\ {s} \in SUBSET Items BY DEF TypeOK
    <3> QED BY <2>1, <3>1, CheckedEdges DEF NoDependencyCycle
  <2>3. TypeOK' /\ BlocksStayInProject'
    BY <1>1, <2>1 DEF TypeOK, BlocksStayInProject
  <2> QED BY <1>2, <2>2, <2>3 DEF NoDependencyCycle, Acyclic
<1>4. CASE DeleteRelation(s, t)
  <2>1. blocks' \subseteq blocks
    BY <1>4 DEF DeleteRelation
  <2>2. Acyclic(blocks')
    BY <2>1, FewerEdges DEF NoDependencyCycle
  <2>3. TypeOK' /\ BlocksStayInProject'
    BY <1>1, <2>1 DEF TypeOK, BlocksStayInProject
  <2> QED BY <1>2, <2>2, <2>3 DEF NoDependencyCycle, Acyclic
<1> QED BY <1>3, <1>4

(* A row of an activity that is created or updated.                        *)
LEMMA ActivityRow ==
  ASSUME GraphInv, NEW a \in Activities, NEW e \in Items \cup {None},
         NEW p \in Projects, NEW s \in {"live", "archived"},
         activity[a].project \in {None, p},
         \/ EpicAccessible(e, p) /\ Members(a) = {}
         \/ Kept(activity[a]) /\ e = activity[a].epic,
         activity' = [activity EXCEPT ![a] = [status |-> s, project |-> p, epic |-> e]],
         item' = item, blocks' = blocks
  PROVE  GraphInv'
<1> USE GraphAssumption DEF GraphInv
<1>1. /\ activity' \in [Activities -> ActivityRecord]
      /\ activity'[a].status = s /\ activity'[a].project = p /\ activity'[a].epic = e
      /\ Kept(activity'[a])
  BY DEF TypeOK, ActivityRecord, Statuses, Kept
<1>2. TypeOK'
  BY <1>1 DEF TypeOK
<1>3. ActivitiesHaveEpics'
  <2>1. ASSUME e # None
        PROVE  Kept(item[e]) /\ item[e].kind = "epic" /\ item[e].project = p
    <3>1. CASE EpicAccessible(e, p)
      BY <2>1, <3>1 DEF EpicAccessible, Kept
    <3>2. CASE Kept(activity[a]) /\ e = activity[a].epic
      <4>1. activity[a].project = p
        BY <3>2 DEF TypeOK, Kept
      <4> QED BY <2>1, <3>2, <4>1 DEF ActivitiesHaveEpics
    <3> QED BY <3>1, <3>2
  <2>2. ASSUME NEW b \in Activities, Kept(activity'[b]), activity'[b].epic # None
        PROVE  /\ Kept(item[activity'[b].epic]) /\ item[activity'[b].epic].kind = "epic"
               /\ item[activity'[b].epic].project = activity'[b].project
    <3>1. CASE b = a BY <1>1, <2>1, <2>2, <3>1
    <3>2. CASE b # a BY <2>2, <3>2 DEF ActivitiesHaveEpics, TypeOK
    <3> QED BY <3>1, <3>2
  <2> QED BY <2>2 DEF ActivitiesHaveEpics, Kept
<1>4. StoriesMatchActivities'
  <2>1. ASSUME NEW j \in Items, Kept(item[j]), item[j].activity # None
        PROVE  LET b == activity'[item[j].activity]
               IN  /\ item[j].kind = "story" /\ Kept(b)
                   /\ b.project = item[j].project /\ b.epic = item[j].parent
    <3>1. CASE item[j].activity = a
      <4>1. Kept(activity[a]) /\ e = activity[a].epic
        BY <2>1, <3>1 DEF Members
      <4>2. activity[a].project = p
        BY <4>1 DEF TypeOK, Kept
      <4> QED BY <1>1, <2>1, <3>1, <4>1, <4>2 DEF StoriesMatchActivities
    <3>2. CASE item[j].activity # a
      BY <2>1, <3>2 DEF StoriesMatchActivities, TypeOK, ItemRecord
    <3> QED BY <3>1, <3>2
  <2> QED BY <2>1 DEF StoriesMatchActivities, Kept
<1>5. /\ ParentsAreKept' /\ LevelsHold' /\ NoParentCycle'
      /\ BlocksStayInProject' /\ NoDependencyCycle'
  BY DEF ParentsAreKept, LevelsHold, NoParentCycle, Acyclic, Parents,
         BlocksStayInProject, NoDependencyCycle, Kept
<1> QED BY <1>2, <1>3, <1>4, <1>5

LEMMA CreateActivityStep ==
  ASSUME GraphInv, NEW a \in Activities, CreateActivity(a)
  PROVE  GraphInv'
<1>1. PICK p \in Projects, e \in Items \cup {None}, s \in {"live", "archived"} :
        /\ EpicAccessible(e, p)
        /\ activity' = [activity EXCEPT ![a] = [status |-> s, project |-> p, epic |-> e]]
  BY DEF CreateActivity
<1>2. activity[a].status = "absent" /\ activity[a].project = None /\ item' = item /\ blocks' = blocks
  BY DEF CreateActivity, GraphInv, TypeOK
<1>3. Members(a) = {}
  BY <1>2, GraphAssumption DEF GraphInv, StoriesMatchActivities, Members, Kept
<1> QED BY <1>1, <1>2, <1>3, ActivityRow

LEMMA UpdateActivityStep ==
  ASSUME GraphInv, NEW a \in Activities, UpdateActivity(a)
  PROVE  GraphInv'
<1>1. PICK e \in Items \cup {None}, s \in {"live", "archived"} :
        /\ e # activity[a].epic =>
             EpicAccessible(e, activity[a].project) /\ EpicMayChange(a)
        /\ activity' = [activity EXCEPT ![a].epic = e, ![a].status = s]
  BY DEF UpdateActivity
<1> DEFINE p == activity[a].project
<1>2. /\ Kept(activity[a]) /\ item' = item /\ blocks' = blocks /\ p \in Projects
  BY GraphAssumption DEF UpdateActivity, GraphInv, TypeOK, ActivityRecord, Kept
<1>3. activity' = [activity EXCEPT ![a] = [status |-> s, project |-> p, epic |-> e]]
  <2>1. activity[a] \in ActivityRecord BY DEF GraphInv, TypeOK
  <2>2. /\ activity' \in [Activities -> ActivityRecord]
        /\ activity'[a].epic = e /\ activity'[a].status = s /\ activity'[a].project = p
        /\ \A b \in Activities \ {a} : activity'[b] = activity[b]
    BY <1>1, <2>1 DEF GraphInv, TypeOK, ActivityRecord, Statuses
  <2>3. activity'[a] = [status |-> s, project |-> p, epic |-> e]
    BY <2>2 DEF ActivityRecord
  <2> QED BY <2>2, <2>3 DEF GraphInv, TypeOK
<1>4. \/ EpicAccessible(e, p) /\ Members(a) = {}
      \/ Kept(activity[a]) /\ e = activity[a].epic
  BY <1>1, <1>2 DEF EpicMayChange
<1> HIDE DEF p
<1> QED BY <1>2, <1>3, <1>4, ActivityRow DEF p

LEMMA DeleteActivityStep ==
  ASSUME GraphInv, NEW a \in Activities, DeleteActivity(a)
  PROVE  GraphInv'
<1> USE GraphAssumption DEF GraphInv
<1>1. PICK to \in (Activities \cup {None}) \ {a} :
        /\ to # None =>
             /\ activity[to].status = "live"
             /\ activity[to].project = activity[a].project
             /\ activity[to].epic = activity[a].epic
        /\ item' = [i \in Items |->
                      IF i \in Members(a) THEN [item[i] EXCEPT !.activity = to]
                      ELSE item[i]]
  BY DEF DeleteActivity
<1>2. /\ Kept(activity[a]) /\ activity' = [activity EXCEPT ![a].status = "deleted"]
      /\ blocks' = blocks
  BY DEF DeleteActivity
<1>3. /\ activity' \in [Activities -> ActivityRecord] /\ activity'[a].status = "deleted"
      /\ activity'[a].project = activity[a].project
      /\ \A b \in Activities \ {a} : activity'[b] = activity[b]
  <2>1. activity[a] \in ActivityRecord /\ activity'[a] = [activity[a] EXCEPT !.status = "deleted"]
    BY <1>2 DEF TypeOK
  <2>2. /\ activity'[a] \in ActivityRecord /\ activity'[a].status = "deleted"
        /\ activity'[a].project = activity[a].project
    BY ONLY <2>1 DEF ActivityRecord, Statuses
  <2> QED BY <1>2, <2>2 DEF TypeOK
<1>4. ASSUME NEW j \in Items
      PROVE  /\ item'[j] \in ItemRecord
             /\ item'[j].status = item[j].status /\ item'[j].project = item[j].project
             /\ item'[j].kind = item[j].kind /\ item'[j].parent = item[j].parent
             /\ item'[j].activity = IF j \in Members(a) THEN to ELSE item[j].activity
             /\ j \notin Members(a) => item'[j] = item[j]
  <2>1. item[j] \in ItemRecord BY DEF TypeOK
  <2>2. CASE j \in Members(a)
    <3>1. item'[j] = [item[j] EXCEPT !.activity = to] BY <1>1, <2>2
    <3>2. to \in Activities \cup {None} BY <1>1
    <3> QED BY <2>1, <2>2, <3>1, <3>2 DEF ItemRecord
  <2>3. CASE j \notin Members(a)
    BY <1>1, <2>1, <2>3
  <2> QED BY <2>2, <2>3
<1>5. TypeOK'
  <2>1. item' \in [Items -> ItemRecord] BY <1>1, <1>4
  <2>2. \A j \in Items : item'[j].status = "absent" => item'[j] = NoItem
    BY <1>4 DEF TypeOK, Members, Kept
  <2>3. activity[a].project # None BY <1>2 DEF TypeOK, Kept
  <2> QED BY <1>2, <1>3, <1>4, <2>1, <2>2, <2>3 DEF TypeOK
<1>6. ParentsAreKept' /\ LevelsHold'
  BY <1>4 DEF ParentsAreKept, LevelsHold, Kept, TypeOK, ItemRecord
<1>7. ActivitiesHaveEpics'
  BY <1>3, <1>4 DEF ActivitiesHaveEpics, Kept, TypeOK, ActivityRecord
<1>8. StoriesMatchActivities'
  <2>1. ASSUME NEW j \in Items, Kept(item'[j]), item'[j].activity # None
        PROVE  LET b == activity'[item'[j].activity]
               IN  /\ item'[j].kind = "story" /\ Kept(b)
                   /\ b.project = item'[j].project /\ b.epic = item'[j].parent
    <3>1. Kept(item[j]) BY <1>4, <2>1 DEF Kept
    <3>2. CASE j \in Members(a)
      <4>1. /\ item[j].kind = "story" /\ activity[a].project = item[j].project
            /\ activity[a].epic = item[j].parent
        BY <3>1, <3>2 DEF StoriesMatchActivities, Members
      <4>2. item'[j].activity = to /\ to # None /\ to \in Activities \ {a}
        BY <1>1, <1>4, <2>1, <3>2
      <4> QED BY <1>1, <1>3, <1>4, <4>1, <4>2 DEF Kept
    <3>3. CASE j \notin Members(a)
      <4>1. item[j].activity \in Activities \ {a}
        BY <1>4, <2>1, <3>1, <3>3 DEF Members, TypeOK, ItemRecord
      <4> QED BY <1>3, <1>4, <2>1, <3>1, <3>3, <4>1 DEF StoriesMatchActivities
    <3> QED BY <3>2, <3>3
  <2> QED BY <2>1 DEF StoriesMatchActivities, Kept
<1>9. NoParentCycle' /\ BlocksStayInProject' /\ NoDependencyCycle'
  <2>1. Parents' = Parents BY <1>4 DEF Parents
  <2> QED BY <1>2, <1>4, <2>1 DEF NoParentCycle, NoDependencyCycle, Acyclic, BlocksStayInProject, TypeOK
<1> QED BY <1>5, <1>6, <1>7, <1>8, <1>9

-----------------------------------------------------------------------------
LEMMA InitGraph == Init => GraphInv
<1> USE GraphAssumption DEF Init
<1>1. Init => TypeOK
  BY DEF TypeOK, NoItem, NoActivity, ItemRecord, ActivityRecord, Statuses, Kinds
<1>2. Init => ParentsAreKept /\ LevelsHold /\ ActivitiesHaveEpics
              /\ StoriesMatchActivities /\ BlocksStayInProject
  BY DEF ParentsAreKept, LevelsHold, ActivitiesHaveEpics, StoriesMatchActivities,
         BlocksStayInProject, NoItem, NoActivity, Kept
<1>3. Init => NoParentCycle /\ NoDependencyCycle
  BY DEF NoParentCycle, NoDependencyCycle, Acyclic, Parents, NoItem
<1> QED BY <1>1, <1>2, <1>3 DEF GraphInv

LEMMA NextGraph == GraphInv /\ [Next]_vars => GraphInv'
<1> SUFFICES ASSUME GraphInv, [Next]_vars PROVE GraphInv'
  OBVIOUS
<1>1. CASE Next
  BY <1>1, CreateItemStep, UpdateItemStep, DeleteItemStep, MoveItemStep, ArchiveItemStep,
     RelationStep, CreateActivityStep, UpdateActivityStep, DeleteActivityStep DEF Next
<1>2. CASE UNCHANGED vars
  BY <1>2 DEF vars, GraphInv, TypeOK, ParentsAreKept, LevelsHold, NoParentCycle, Acyclic,
              Parents, ActivitiesHaveEpics, StoriesMatchActivities, BlocksStayInProject,
              NoDependencyCycle, Kept
<1> QED BY <1>1, <1>2

LEMMA GraphHolds == Spec => []GraphInv
BY InitGraph, NextGraph, PTL DEF Spec

(* Items and activities are well typed.                                    *)
THEOREM GraphTypeCorrect == Spec => []TypeOK
<1>1. GraphInv => TypeOK BY DEF GraphInv
<1> QED BY GraphHolds, <1>1, PTL

(* The hierarchy of every project is a forest of existing items whose      *)
(* classified items are on their levels (validateFields,                   *)
(* validateRequirement, deleteItem, move).                                 *)
THEOREM HierarchyIsSound == Spec => []HierarchyHolds
<1>1. GraphInv => HierarchyHolds BY DEF GraphInv, HierarchyHolds
<1> QED BY GraphHolds, <1>1, PTL

(* The story map agrees with the hierarchy (updateActivity,                *)
(* deleteActivity, validateRequirement).                                   *)
THEOREM StoryMapIsSound == Spec => []StoryMapHolds
<1>1. GraphInv => StoryMapHolds BY DEF GraphInv, StoryMapHolds
<1> QED BY GraphHolds, <1>1, PTL

(* Dependencies never close a cycle and stay in a project, although one of *)
(* the two checks looks at the relations of one project only (addRelation, *)
(* replaceDependencies, move).                                             *)
THEOREM DependenciesAreSound == Spec => []DependenciesHold
<1>1. GraphInv => DependenciesHold BY DEF GraphInv, DependenciesHold
<1> QED BY GraphHolds, <1>1, PTL

=============================================================================
