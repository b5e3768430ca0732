--------------------------- MODULE WorkItemGraph ---------------------------
(***************************************************************************)
(* internal/workitems and the activities of internal/requirements: what    *)
(* binds the work items of several projects together.  Items form a        *)
(* hierarchy (unclassified items nest freely; epic, story and task have    *)
(* their levels), stories belong to activities of their epic's story map,  *)
(* and items block each other.                                             *)
(*                                                                         *)
(* Every operation here takes the graph lock of its projects (lockGraphs)  *)
(* for the whole transaction, so one action is one transaction; only       *)
(* Archive does without, and it writes one column of one row.  A bulk      *)
(* change or a change set is one transaction of several operations: its    *)
(* result is that of the operations one after the other.  Versions are     *)
(* left out: an operation that names a wrong one changes nothing.          *)
(*                                                                         *)
(* A definition whose comment begins with "Slip" is no part of the model.  *)
(***************************************************************************)
EXTENDS Naturals, FiniteSets

CONSTANTS Items,       \* ids of work items
          Activities,  \* ids of activities
          Projects,
          None,        \* NULL
          InputKinds,  \* bound: the kinds that requests set
          MaxBlocks    \* bound: dependencies that exist at a time

Kinds == {"none", "epic", "story", "task"}

ASSUME GraphAssumption ==
  /\ None \notin Items \cup Activities \cup Projects
  /\ InputKinds \subseteq Kinds

VARIABLES item,      \* rows of work_items
          activity,  \* rows of requirement_activities
          blocks     \* live rows <<source, target>> of work_item_relations

vars == <<item, activity, blocks>>

Statuses == {"absent", "live", "archived", "deleted"}

ItemRecord == [status : Statuses, project : Projects \cup {None}, kind : Kinds,
               parent : Items \cup {None}, activity : Activities \cup {None}]

ActivityRecord == [status : Statuses, project : Projects \cup {None},
                   epic : Items \cup {None}]

NoItem == [status |-> "absent", project |-> None, kind |-> "none",
           parent |-> None, activity |-> None]

NoActivity == [status |-> "absent", project |-> None, epic |-> None]

(* deleted_at IS NULL.                                                     *)
Kept(row) == row.status \in {"live", "archived"}

Children(i) == {c \in Items : Kept(item[c]) /\ item[c].parent = i}

ActivitiesOf(e) == {a \in Activities : Kept(activity[a]) /\ activity[a].epic = e}

Members(a) == {i \in Items : Kept(item[i]) /\ item[i].activity = a}

(* Rows are well formed; what was never created is blank; the CHECKs of    *)
(* the schema forbid an item to be its own parent or to block itself.      *)
TypeOK ==
  /\ item \in [Items -> ItemRecord]
  /\ activity \in [Activities -> ActivityRecord]
  /\ blocks \subseteq Items \X Items
  /\ \A i \in Items :
       /\ item[i].status = "absent" <=> item[i].project = None
       /\ item[i].status = "absent" => item[i] = NoItem
       /\ item[i].parent # i
       /\ <<i, i>> \notin blocks
  /\ \A a \in Activities :
       /\ activity[a].status = "absent" <=> activity[a].project = None
       /\ activity[a].status = "absent" => activity[a] = NoActivity

-----------------------------------------------------------------------------
(* Edges.                                                                  *)

Parents == {e \in Items \X Items : item[e[1]].parent = e[2]}

(* The items that edges lead to from x, x among them: what the recursive   *)
(* queries of validateFields, addRelation and replaceDependencies compute. *)
Reachable(edges, x) ==
  LET Closed == {S \in SUBSET Items :
                   x \in S /\ \A e \in edges : e[1] \in S => e[2] \in S}
  IN  {y \in Items : \A S \in Closed : y \in S}

Acyclic(edges) ==
  \A S \in SUBSET Items :
    S # {} => \E x \in S : \A y \in S : <<x, y>> \notin edges

-----------------------------------------------------------------------------
(* validateFields and validateRequirement, for the row new that is to      *)
(* replace old.                                                            *)

(* A parent that changes is an item of the project and no descendant.      *)
ParentAccessible(i, new, old) ==
  new.parent \notin {None, old.parent} =>
    /\ new.parent # i
    /\ Kept(item[new.parent]) /\ item[new.parent].project = new.project
    /\ i \notin Reachable(Parents, new.parent)

Levels == {<<"epic", "story">>, <<"story", "task">>}

(* A classified item's parent is one level up and, when it is new, not     *)
(* archived.                                                               *)
ParentFits(new, old) ==
  (new.kind # "none" /\ new.parent # None) =>
    /\ Kept(item[new.parent]) /\ item[new.parent].project = new.project
    /\ new.parent = old.parent \/ item[new.parent].status = "live"
    /\ <<item[new.parent].kind, new.kind>> \in Levels

(* Slip: the children are forgotten.                                       *)
ChildrenNeedNotFit(i, new) == TRUE

(* Classified children still fit.                                          *)
ChildrenFit(i, new) ==
  \A c \in Children(i) :
    item[c].kind = "none" \/ <<new.kind, item[c].kind>> \in Levels

(* An activity is the story's epic's and, when it is new, not archived.    *)
ActivityFits(new, old) ==
  new.activity # None =>
    /\ new.kind = "story"
    /\ Kept(activity[new.activity])
    /\ activity[new.activity].project = new.project
    /\ new.activity = old.activity \/ activity[new.activity].status = "live"
    /\ activity[new.activity].epic = new.parent

RequirementValid(i, new, old) ==
  /\ ParentFits(new, old)
  /\ ChildrenFit(i, new)
  /\ new.kind = "epic" \/ ActivitiesOf(i) = {}
  /\ ActivityFits(new, old)

(* Slip: only what i blocks itself is looked at.                           *)
WaitingForNext(i, edges) == {e[2] : e \in {f \in edges : f[1] = i}}

(* What waits for i, i among them.                                         *)
WaitingFor(i, edges) == Reachable(edges, i)

Others(i) == {e \in blocks : e[2] # i}

(* replaceDependencies: blockers are items of the project that do not,     *)
(* along the project's own relations, wait for i.  The check of the second *)
(* blocker sees the first one, which changes nothing: it leads to i.       *)
Blockers(i, project) ==
  LET waiting == WaitingFor(i, {e \in Others(i) : item[e[1]].project = project})
  IN  {s \in Items \ {i} :
         /\ Kept(item[s]) /\ item[s].project = project
         /\ s \notin waiting}

(* The relations after a request for item i, which may name its blockers.  *)
Dependencies(i, project) ==
  {blocks} \cup {Others(i) \cup (D \X {i}) : D \in SUBSET Blockers(i, project)}

-----------------------------------------------------------------------------
(* Requests.                                                               *)

Init ==
  /\ item = [i \in Items |-> NoItem]
  /\ activity = [a \in Activities |-> NoActivity]
  /\ blocks = {}

(* createItem, also by duplicate, intake and the public API: a row with    *)
(* any hierarchy fields that pass, and its blockers.  archived_at is a     *)
(* field like the others (fields), which no check looks at.                *)
CreateItem(i) ==
  /\ item[i].status = "absent"
  /\ \E p \in Projects, k \in InputKinds, s \in {"live", "archived"},
        parent \in Items \cup {None}, a \in Activities \cup {None} :
       LET new == [status |-> s, project |-> p, kind |-> k,
                   parent |-> parent, activity |-> a]
       IN /\ RequirementValid(i, new, NoItem)
          /\ ParentAccessible(i, new, NoItem)
          /\ item' = [item EXCEPT ![i] = new]
          /\ blocks' \in Dependencies(i, p)
  /\ Cardinality(blocks') <= MaxBlocks
  /\ UNCHANGED activity

(* updateItem: fields that are not sent keep their values (mergedText).    *)
(* An archived item may be changed, and brought back.                      *)
UpdateItem(i) ==
  LET dependencies == Dependencies(i, item[i].project) IN
  /\ Kept(item[i])
  /\ \E k \in InputKinds \cup {item[i].kind},
        parent \in Items \cup {None}, a \in Activities \cup {None} :
       LET new == [item[i] EXCEPT !.kind = k, !.parent = parent, !.activity = a]
       IN /\ RequirementValid(i, new, item[i])
          /\ ParentAccessible(i, new, item[i])
          /\ \E s \in {"live", "archived"} :
               item' = [item EXCEPT ![i] = [new EXCEPT !.status = s]]
  /\ blocks' \in dependencies
  /\ Cardinality(blocks') <= MaxBlocks
  /\ UNCHANGED activity

(* The rows once i is deleted: its children lose their parent.             *)
Without(i) ==
  [j \in Items |->
     IF j = i THEN [item[j] EXCEPT !.status = "deleted"]
     ELSE IF j \in Children(i) THEN [item[j] EXCEPT !.parent = None]
     ELSE item[j]]

Deletable(i) == Kept(item[i]) /\ ActivitiesOf(i) = {}

(* deleteItem.  The row keeps its own parent, and its relations stay.      *)
DeleteItem(i) ==
  /\ Deletable(i)
  /\ item' = Without(i)
  /\ UNCHANGED <<activity, blocks>>

RelationsOf(i) == {e \in blocks : i \in {e[1], e[2]}}

(* move to project q: not with children, and not with an activity, deleted *)
(* ones included, whose foreign key would point across projects.           *)
MoveItem(i, q) ==
  /\ Kept(item[i]) /\ q # item[i].project
  /\ Children(i) = {}
  /\ \A a \in Activities : activity[a].epic # i
  /\ item' = [item EXCEPT ![i].project = q, ![i].parent = None,
                          ![i].activity = None]
  /\ blocks' = blocks \ RelationsOf(i)
  /\ UNCHANGED activity

(* addRelation, "blocks": the cycle check follows every live relation.     *)
AddRelation(s, t) ==
  /\ s # t /\ <<s, t>> \notin blocks
  /\ Kept(item[s]) /\ Kept(item[t]) /\ item[s].project = item[t].project
  /\ s \notin WaitingFor(t, blocks)
  /\ Cardinality(blocks) < MaxBlocks
  /\ blocks' = blocks \cup {<<s, t>>}
  /\ UNCHANGED <<item, activity>>

(* deleteRelation, on either end that still exists.                        *)
DeleteRelation(s, t) ==
  /\ <<s, t>> \in blocks
  /\ Kept(item[s]) \/ Kept(item[t])
  /\ blocks' = blocks \ {<<s, t>>}
  /\ UNCHANGED <<item, activity>>

(* runProjectAutomation archives an old item.                              *)
ArchiveItem(i) ==
  /\ item[i].status = "live"
  /\ item' = [item EXCEPT ![i].status = "archived"]
  /\ UNCHANGED <<activity, blocks>>

-----------------------------------------------------------------------------
(* Activities.                                                             *)

(* validateEpic: a live epic of the project, or none.                      *)
EpicAccessible(e, p) ==
  e # None =>
    item[e].project = p /\ item[e].kind = "epic" /\ item[e].status = "live"

CreateActivity(a) ==
  /\ activity[a].status = "absent"
  /\ \E p \in Projects, e \in Items \cup {None}, s \in {"live", "archived"} :
       /\ EpicAccessible(e, p)
       /\ activity' = [activity EXCEPT ![a] = [status |-> s, project |-> p, epic |-> e]]
  /\ UNCHANGED <<item, blocks>>

(* Slip: only live stories count.                                          *)
EpicMayChangeUnlessLive(a) == \A i \in Members(a) : item[i].status # "live"

EpicMayChange(a) == Members(a) = {}

(* updateActivity: the epic of a populated activity stays; archived_at may *)
(* be set and cleared.                                                     *)
UpdateActivity(a) ==
  /\ Kept(activity[a])
  /\ \E e \in Items \cup {None}, s \in {"live", "archived"} :
       /\ e # activity[a].epic =>
            EpicAccessible(e, activity[a].project) /\ EpicMayChange(a)
       /\ activity' = [activity EXCEPT ![a].epic = e, ![a].status = s]
  /\ UNCHANGED <<item, blocks>>

(* deleteActivity: its stories go to another activity of the same epic, or *)
(* to none, each by an update that may still refuse.                       *)
DeleteActivity(a) ==
  /\ Kept(activity[a])
  /\ \E to \in (Activities \cup {None}) \ {a} :
       /\ to # None =>
            /\ activity[to].status = "live"
            /\ activity[to].project = activity[a].project
            /\ activity[to].epic = activity[a].epic
       /\ \A i \in Members(a) :
            RequirementValid(i, [item[i] EXCEPT !.activity = to], item[i])
       /\ item' = [i \in Items |->
                     IF i \in Members(a) THEN [item[i] EXCEPT !.activity = to]
                     ELSE item[i]]
  /\ activity' = [activity EXCEPT ![a].status = "deleted"]
  /\ UNCHANGED blocks

Next ==
  \/ \E i \in Items :
       \/ CreateItem(i) \/ UpdateItem(i) \/ DeleteItem(i) \/ ArchiveItem(i)
       \/ \E q \in Projects : MoveItem(i, q)
       \/ \E t \in Items : AddRelation(i, t) \/ DeleteRelation(i, t)
  \/ \E a \in Activities :
       CreateActivity(a) \/ UpdateActivity(a) \/ DeleteActivity(a)

Spec == Init /\ [][Next]_vars

-----------------------------------------------------------------------------
(* Properties.                                                             *)

(* An item that is not deleted has a parent of its own project that is not *)
(* deleted either, whatever was deleted or moved since                     *)
(* (deleteItem, move).                                                     *)
ParentsAreKept ==
  \A i \in Items : Kept(item[i]) /\ item[i].parent # None =>
    /\ Kept(item[item[i].parent])
    /\ item[item[i].parent].project = item[i].project

(* A story is only ever under an epic and a task only under a story, and   *)
(* an epic under nothing, through all changes of type and parent of either *)
(* (validateRequirement).                                                  *)
LevelsHold ==
  \A i \in Items :
    Kept(item[i]) /\ item[i].kind # "none" /\ item[i].parent # None =>
      <<item[item[i].parent].kind, item[i].kind>> \in Levels

(* Nobody is his own ancestor, deleted items included (validateFields).    *)
NoParentCycle == Acyclic(Parents)

(* An activity belongs to an epic of its project that is not deleted, or   *)
(* to none (validateEpic, deleteItem, move, validateRequirement).          *)
ActivitiesHaveEpics ==
  \A a \in Activities : Kept(activity[a]) /\ activity[a].epic # None =>
    LET e == item[activity[a].epic] IN
    Kept(e) /\ e.kind = "epic" /\ e.project = activity[a].project

(* Only stories are in an activity, one that is not deleted, of their      *)
(* project and of the epic they are under (validateRequirement,            *)
(* updateActivity, deleteActivity, move).                                  *)
StoriesMatchActivities ==
  \A i \in Items : Kept(item[i]) /\ item[i].activity # None =>
    LET a == activity[item[i].activity] IN
    /\ item[i].kind = "story"
    /\ Kept(a) /\ a.project = item[i].project /\ a.epic = item[i].parent

(* A dependency joins two items of one project, also after either is moved *)
(* or deleted (move).                                                      *)
BlocksStayInProject ==
  \A e \in blocks :
    item[e[1]].project = item[e[2]].project /\ item[e[1]].project # None

(* No item waits, in any number of steps, for itself (addRelation and      *)
(* replaceDependencies, which check different sets of relations).          *)
NoDependencyCycle == Acyclic(blocks)

(* The hierarchy of every project is a forest of existing items on their   *)
(* levels, through all changes of type, parent, activity and project.      *)
HierarchyHolds == ParentsAreKept /\ LevelsHold /\ NoParentCycle

(* The story map agrees with the hierarchy, through all changes of either. *)
StoryMapHolds == ActivitiesHaveEpics /\ StoriesMatchActivities

(* Dependencies are acyclic and stay within a project, although the two    *)
(* ways to add one check different sets of relations.                      *)
DependenciesHold == BlocksStayInProject /\ NoDependencyCycle
=============================================================================
