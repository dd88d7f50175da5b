---------------------------- MODULE BlockVersions ----------------------------
(***************************************************************************)
(* The block store of one course: every block is a stack of versions, a    *)
(* teacher edits a private draft version, and publishing turns the         *)
(* teacher's drafts into published versions, merged with what others       *)
(* published meanwhile, and records a checkpoint.                          *)
(*                                                                         *)
(* One action is one committed transaction of internal/pg/blocks.go,       *)
(* checkpoints.go or taskgroups.go.  That is the unit of atomicity of the  *)
(* blocks table: a publish, a restore, a rebalance and a task update hold  *)
(* the course row FOR UPDATE, every edit holds it FOR SHARE, and two edits *)
(* of one block are ordered by an advisory lock held to commit.  A         *)
(* transaction that fails rolls back and is a stuttering step.             *)
(*                                                                         *)
(* Positions are abstracted to their order: CreateBlock and MoveBlock may  *)
(* choose any of them, a superset of what the midpoint computation does,   *)
(* so the insertion point (which may always be "first") is left out.       *)
(***************************************************************************)
EXTENDS Naturals, Sequences

CONSTANTS
  Teacher,         \* the teachers of the course
  Block,           \* block ids; one whose stack is empty again is a fresh one
  TaskBlock,       \* the blocks of type "task"; a block's type never changes
  Data,            \* what a block's data may be
  Group,           \* task group ids
  TaskName,        \* task names
  MaxPosition,     \* bound: number of distinct positions
  MaxVersion,      \* bound: versions of a block
  MaxCheckpoints,  \* bound: checkpoints of the course
  Absent           \* no version, no task

Position == 1..MaxPosition
Version  == 1..MaxVersion
NoBase   == 0

VersionRow ==
  [data : Data, position : Position, draft : BOOLEAN, deleted : BOOLEAN,
   createdBy : Teacher, base : Version \cup {NoBase}]

Stack == [Version -> VersionRow \cup {Absent}]

Task == [group : Group, name : TaskName, live : BOOLEAN]

ASSUME ConstantsAssumption ==
  /\ MaxVersion \in Nat \ {0}
  /\ MaxPosition \in Nat \ {0}
  /\ MaxCheckpoints \in Nat
  /\ TaskBlock \subseteq Block
  /\ Absent \notin VersionRow
  /\ Absent \notin Task

VARIABLES
  blocks,        \* block id -> its stack of versions (table blocks)
  tasks,         \* task block id -> its task (tables tasks and task_blocks)
  groups,        \* task group id -> "none", "live" or "deleted"
  checkpoints,   \* in commit order, the version of every live block or 0
  courseDeleted  \* the course row is soft-deleted

vars == <<blocks, tasks, groups, checkpoints, courseDeleted>>

-----------------------------------------------------------------------------
(* Reading a stack                                                         *)

EmptyStack == [v \in Version |-> Absent]

Present(s)   == {v \in Version : s[v] # Absent}
Published(s) == {v \in Present(s) : ~s[v].draft}

\* Mutant: the filter by author is forgotten.
EveryonesDrafts(s, u) == {v \in Present(s) : s[v].draft}

OwnDrafts(s, u) == {v \in Present(s) : s[v].draft /\ s[v].createdBy = u}
OwnDraft(s, u)  == CHOOSE v \in OwnDrafts(s, u) : TRUE

\* The latest published version.
IsHead(s, v) == v \in Published(s) /\ \A w \in Published(s) : w <= v
HeadVersion(s) == CHOOSE v \in Version : IsHead(s, v)
HasLiveHead(s) == Published(s) # {} /\ ~s[HeadVersion(s)].deleted

\* Mutant: the first number not in use.
IsFirstFree(s, n) ==
  /\ n \notin Present(s)
  /\ \A v \in Version : v < n => v \in Present(s)

\* The version number a new version gets: MAX(version) + 1.
IsNext(s, n) ==
  /\ \A v \in Present(s) : v < n
  /\ n = 1 \/ n - 1 \in Present(s)
NextVersion(s) == CHOOSE n \in Version : IsNext(s, n)
HasRoom(s)     == \E n \in Version : IsNext(s, n)   \* bound: MaxVersion

\* What the viewer sees of a block: the own draft, else the head.
LiveInView(s, u) ==
  \/ \E v \in OwnDrafts(s, u) : ~s[v].deleted
  \/ OwnDrafts(s, u) = {} /\ HasLiveHead(s)

\* Mutant: the latest published version even when it is a deletion.
AllHeads(R) ==
  [b \in Block |-> IF Published(R[b]) # {} THEN HeadVersion(R[b]) ELSE 0]

LiveHeads(R) ==
  [b \in Block |-> IF HasLiveHead(R[b]) THEN HeadVersion(R[b]) ELSE 0]

-----------------------------------------------------------------------------
(* Drafting: the stack in which u edits version d after loading `seen'     *)

\* Mutant: an own draft does not stop a new one.
CanDraftTwice(s, u, seen, d) ==
  \/ seen \in OwnDrafts(s, u) /\ ~s[seen].deleted /\ d = seen
  \/ seen \in Published(s) /\ ~s[seen].deleted /\ IsNext(s, d)

\* Mutant: a deleted version can be edited.
CanDraftDeleted(s, u, seen, d) ==
  \/ OwnDrafts(s, u) = {seen} /\ ~s[seen].deleted /\ d = seen
  \/ OwnDrafts(s, u) = {} /\ seen \in Published(s) /\ IsNext(s, d)

CanDraft(s, u, seen, d) ==
  \/ OwnDrafts(s, u) = {seen} /\ ~s[seen].deleted /\ d = seen
  \/ /\ OwnDrafts(s, u) = {}
     /\ seen \in Published(s) /\ ~s[seen].deleted
     /\ IsNext(s, d)

Drafted(s, u, seen, d) ==
  IF d = seen THEN s
  ELSE [s EXCEPT ![d] = [s[seen] EXCEPT !.draft = TRUE, !.createdBy = u,
                                        !.base = seen]]

-----------------------------------------------------------------------------
(* Publishing one draft                                                    *)

\* mine: whether the draft's data counts as changed (see UpdateTask).
DataMine(s, d) == s[d].base # NoBase /\ s[d].data # s[s[d].base].data

\* Mutant: the base version is not compared with the head.
NeverOutdated(s, d) == FALSE

\* Mutant: the base is compared with the head by its data.
OutdatedData(s, d) ==
  s[d].base # NoBase /\ s[HeadVersion(s)].data # s[s[d].base].data

\* Somebody published the block since the draft's base version.
Outdated(s, d) == s[d].base # NoBase /\ HeadVersion(s) # s[d].base

Conflicting(s, d, mine) ==
  LET draft == s[d]
      base  == s[draft.base]
      head  == s[HeadVersion(s)]
  IN  /\ Outdated(s, d)
      /\ \/ /\ head.deleted /\ ~draft.deleted
            /\ mine \/ draft.position # base.position
         \/ /\ draft.deleted /\ ~head.deleted
            /\ head.data # base.data \/ head.position # base.position
         \/ /\ ~draft.deleted /\ ~head.deleted
            /\ mine /\ head.data # base.data

\* Mutant: the draft's position wins although it was not moved.
MergeOver(base, head, draft, mine) ==
  [head EXCEPT
     !.data      = IF mine /\ ~draft.deleted THEN draft.data ELSE @,
     !.position  = IF ~draft.deleted THEN draft.position ELSE @,
     !.deleted   = draft.deleted,
     !.createdBy = draft.createdBy]

Merge(base, head, draft, mine) ==
  [head EXCEPT
     !.data      = IF mine /\ ~draft.deleted THEN draft.data ELSE @,
     !.position  = IF draft.position # base.position /\ ~draft.deleted
                   THEN draft.position ELSE @,
     !.deleted   = draft.deleted,
     !.createdBy = draft.createdBy]

Without(s, d) == [s EXCEPT ![d] = Absent]

InPlace(s, d) == [s EXCEPT ![d].draft = FALSE, ![d].base = NoBase]

PublishDraft(s, d, mine) ==
  LET head == s[HeadVersion(s)]
      rest == Without(s, d)
  IN  CASE s[d].base = NoBase /\ s[d].deleted -> rest
        [] Outdated(s, d) /\ head.deleted     -> rest
        [] Outdated(s, d) /\ ~head.deleted    ->
             [rest EXCEPT ![NextVersion(rest)] =
                Merge(s[s[d].base], head, s[d], mine)]
        [] OTHER                              -> InPlace(s, d)

PublishesDeleted(s, d) ==
  s[d].deleted \/ (Outdated(s, d) /\ s[HeadVersion(s)].deleted)

PublishHasRoom(s, d) == Outdated(s, d) => HasRoom(Without(s, d))

-----------------------------------------------------------------------------
(* Tasks                                                                   *)

IsLiveTask(t) == t # Absent /\ t.live

\* Mutant: only drafts keep a task.
LinksTaskByDraft(s) == \E v \in Present(s) : s[v].draft /\ ~s[v].deleted

\* A version still links the block's task: a live draft or a live head.
LinksTask(s) ==
  HasLiveHead(s) \/ \E v \in Present(s) : s[v].draft /\ ~s[v].deleted

\* Mutant: the tasks that were just deleted still count, being seen as they
\* were before the statement.
EmptiedBefore(T, gone) ==
  {g \in Group :
     /\ \E b \in gone : T[b].group = g
     /\ \A b \in TaskBlock : IsLiveTask(T[b]) => T[b].group # g}

\* The groups that lose the last of their live tasks.
Emptied(T, gone) ==
  {g \in Group :
     /\ \E b \in gone : T[b].group = g
     /\ ~\E b \in TaskBlock \ gone : IsLiveTask(T[b]) /\ T[b].group = g}

\* deleteUnlinkedTasks(B) as a change of T and G, the block stacks being R.
\* This and CreateTask are one step here; two that overlap each miss what the
\* other does to a group (CourseTransactions, GroupsFollowTasks).
DeleteUnlinkedTasks(B, R, T, G) ==
  LET gone == {b \in B \cap TaskBlock : IsLiveTask(T[b]) /\ ~LinksTask(R[b])}
  IN  /\ tasks' = [b \in TaskBlock |->
                     IF b \in gone THEN [T[b] EXCEPT !.live = FALSE] ELSE T[b]]
      /\ groups' = [g \in Group |-> IF g \in Emptied(T, gone) THEN "deleted" ELSE G[g]]

\* The new task of block b: in a live group or a new one, under a name no
\* task of the group u can see has.
CreateTask(u, b) ==
  \E g \in Group, name \in TaskName :
    /\ groups[g] \in {"none", "live"}
    /\ tasks[b] = Absent
    /\ \A c \in TaskBlock : IsLiveTask(tasks[c]) /\ LiveInView(blocks[c], u) =>
         ~(tasks[c].group = g /\ tasks[c].name = name)
    /\ tasks' = [tasks EXCEPT ![b] = [group |-> g, name |-> name, live |-> TRUE]]
    /\ groups' = [groups EXCEPT ![g] = "live"]

-----------------------------------------------------------------------------
Init ==
  /\ blocks = [b \in Block |-> EmptyStack]
  /\ tasks = [b \in TaskBlock |-> Absent]
  /\ groups = [g \in Group |-> "none"]
  /\ checkpoints = <<>>
  /\ courseDeleted = FALSE

CreateBlock(u, b, x, p) ==
  /\ ~courseDeleted
  /\ blocks[b] = EmptyStack
  /\ blocks' = [blocks EXCEPT ![b][1] =
       [data |-> x, position |-> p, draft |-> TRUE, deleted |-> FALSE,
        createdBy |-> u, base |-> NoBase]]
  /\ IF b \in TaskBlock THEN CreateTask(u, b) ELSE UNCHANGED <<tasks, groups>>
  /\ UNCHANGED <<checkpoints, courseDeleted>>

\* A task block has no data of its own to patch; the call still drafts it.
PatchBlock(u, b, seen, d, x) ==
  LET s == Drafted(blocks[b], u, seen, d)
  IN  /\ ~courseDeleted
      /\ CanDraft(blocks[b], u, seen, d)
      /\ b \in TaskBlock => x = s[d].data
      /\ blocks' = [blocks EXCEPT ![b] = [s EXCEPT ![d].data = x]]
      /\ UNCHANGED <<tasks, groups, checkpoints, courseDeleted>>

MoveBlock(u, b, seen, d, p) ==
  /\ ~courseDeleted
  /\ CanDraft(blocks[b], u, seen, d)
  /\ blocks' = [blocks EXCEPT ![b] =
       [Drafted(blocks[b], u, seen, d) EXCEPT ![d].position = p]]
  /\ UNCHANGED <<tasks, groups, checkpoints, courseDeleted>>

DeleteBlockByID(u, b, seen, d) ==
  LET s == Drafted(blocks[b], u, seen, d)
  IN  /\ ~courseDeleted
      /\ CanDraft(blocks[b], u, seen, d)
      /\ blocks' = [blocks EXCEPT ![b] =
           IF s[d].base = NoBase THEN Without(s, d)
           ELSE [s EXCEPT ![d].deleted = TRUE]]
      /\ DeleteUnlinkedTasks({b}, blocks', tasks, groups)
      /\ UNCHANGED <<checkpoints, courseDeleted>>

\* Mutant: the checkpoint is filled before the drafts are published.
CreateCheckpointFirst ==
  /\ Len(checkpoints) < MaxCheckpoints
  /\ checkpoints' = Append(checkpoints, LiveHeads(blocks))

CreateCheckpoint ==
  /\ Len(checkpoints) < MaxCheckpoints
  /\ checkpoints' = Append(checkpoints, LiveHeads(blocks'))

WithDraft(u) == {b \in Block : OwnDrafts(blocks[b], u) # {}}

PublishDrafts(u) ==
  LET drafted  == WithDraft(u)
      draft(b) == OwnDraft(blocks[b], u)
      mine(b)  == DataMine(blocks[b], draft(b))
  IN  /\ ~courseDeleted
      /\ drafted # {}
      /\ \A b \in drafted : /\ ~Conflicting(blocks[b], draft(b), mine(b))
                            /\ PublishHasRoom(blocks[b], draft(b))
      /\ blocks' = [b \in Block |->
           IF b \in drafted THEN PublishDraft(blocks[b], draft(b), mine(b))
           ELSE blocks[b]]
      /\ DeleteUnlinkedTasks(
           {b \in drafted : PublishesDeleted(blocks[b], draft(b))},
           blocks', tasks, groups)
      /\ CreateCheckpoint
      /\ UNCHANGED courseDeleted

DiscardDrafts(u) ==
  /\ ~courseDeleted
  /\ blocks' = [b \in Block |-> [v \in Version |->
       IF v \in OwnDrafts(blocks[b], u) THEN Absent ELSE blocks[b][v]]]
  /\ DeleteUnlinkedTasks(WithDraft(u), blocks', tasks, groups)
  /\ UNCHANGED <<checkpoints, courseDeleted>>

\* An existing draft keeps the edit; a draft this call creates is published
\* at once.  The settings it writes are freshly encoded JSON, which never
\* equals the text of the stored jsonb, so a merge takes them as changed.
\* The call ends by reading the task back, which fails if it was deleted
\* between the first read of it and the course row lock.
UpdateTask(u, b, seen, d, x) ==
  LET s == [Drafted(blocks[b], u, seen, d) EXCEPT ![d].data = x]
  IN  /\ ~courseDeleted
      /\ IsLiveTask(tasks[b])
      /\ CanDraft(blocks[b], u, seen, d)
      /\ IF d = seen
         THEN /\ blocks' = [blocks EXCEPT ![b] = s]
              /\ UNCHANGED checkpoints
         ELSE /\ ~Conflicting(s, d, TRUE)
              /\ PublishHasRoom(s, d)
              /\ blocks' = [blocks EXCEPT ![b] = PublishDraft(s, d, TRUE)]
              /\ CreateCheckpoint
      /\ LiveInView(blocks'[b], u)
      /\ UNCHANGED <<tasks, groups, courseDeleted>>

-----------------------------------------------------------------------------
(* Restoring a checkpoint: target maps each block to a version or 0        *)

\* Mutant: a block that was only moved is not restored.
RestoredData(s, target) ==
  /\ target # 0
  /\ ~HasLiveHead(s) \/ s[HeadVersion(s)].data # s[target].data

\* The checkpoint's version of the block differs from the published one.
Restored(s, target) ==
  /\ target # 0
  /\ \/ ~HasLiveHead(s)
     \/ s[HeadVersion(s)].data # s[target].data
     \/ s[HeadVersion(s)].position # s[target].position

\* The block was published after the checkpoint.
Removed(s, target) == target = 0 /\ HasLiveHead(s)

\* Mutant: the published version is overwritten.
Overwrite(s, v, u, deleted) ==
  [s EXCEPT ![HeadVersion(s)] =
     [s[v] EXCEPT !.draft = FALSE, !.deleted = deleted, !.createdBy = u,
                  !.base = NoBase]]

Republish(s, v, u, deleted) ==
  [s EXCEPT ![NextVersion(s)] =
     [s[v] EXCEPT !.draft = FALSE, !.deleted = deleted, !.createdBy = u,
                  !.base = NoBase]]

\* The tasks of the restored blocks are live again, with their groups.
Undeleted(B) ==
  {b \in B \cap TaskBlock : tasks[b] # Absent /\ ~tasks[b].live}

RestoreCheckpoint(u, i) ==
  LET target   == checkpoints[i]
      restored == {b \in Block : Restored(blocks[b], target[b])}
      removed  == {b \in Block : Removed(blocks[b], target[b])}
      back     == Undeleted(restored)
  IN  /\ ~courseDeleted
      /\ \A b \in restored \cup removed : HasRoom(blocks[b])
      /\ blocks' = [b \in Block |->
           CASE b \in restored -> Republish(blocks[b], target[b], u, FALSE)
             [] b \in removed  ->
                  Republish(blocks[b], HeadVersion(blocks[b]), u, TRUE)
             [] OTHER          -> blocks[b]]
      /\ DeleteUnlinkedTasks(removed, blocks',
           [b \in TaskBlock |->
              IF b \in back THEN [tasks[b] EXCEPT !.live = TRUE] ELSE tasks[b]],
           [g \in Group |->
              IF \E b \in back : tasks[b].group = g THEN "live" ELSE groups[g]])
      /\ CreateCheckpoint
      /\ UNCHANGED courseDeleted

-----------------------------------------------------------------------------
\* Mutant: drafts keep their positions.
RemapPublished(s, f) ==
  [v \in Version |->
     IF v \in Published(s) THEN [s[v] EXCEPT !.position = f[s[v].position]]
     ELSE s[v]]

\* Mutant: the new positions start one too high.
RemapShifted(s, f) ==
  [v \in Version |->
     IF s[v] = Absent THEN Absent
     ELSE [s[v] EXCEPT !.position = f[s[v].position] + 1]]

\* f renumbers the positions in use, in the same order.
Remap(s, f) ==
  [v \in Version |->
     IF s[v] = Absent THEN Absent
     ELSE [s[v] EXCEPT !.position = f[s[v].position]]]

UsedPositions ==
  {p \in Position : \E b \in Block, v \in Version :
     blocks[b][v] # Absent /\ blocks[b][v].position = p}

RebalanceBlockPositions(f) ==
  /\ ~courseDeleted
  /\ \A p, q \in UsedPositions : p < q => f[p] < f[q]
  /\ blocks' = [b \in Block |-> Remap(blocks[b], f)]
  /\ UNCHANGED <<tasks, groups, checkpoints, courseDeleted>>

DeleteCourseByID ==
  /\ ~courseDeleted
  /\ courseDeleted' = TRUE
  /\ UNCHANGED <<blocks, tasks, groups, checkpoints>>

Next ==
  \/ \E u \in Teacher, b \in Block, x \in Data, p \in Position :
       CreateBlock(u, b, x, p)
  \/ \E u \in Teacher, b \in Block, seen, d \in Version :
       \/ \E x \in Data : PatchBlock(u, b, seen, d, x)
       \/ \E p \in Position : MoveBlock(u, b, seen, d, p)
       \/ DeleteBlockByID(u, b, seen, d)
  \/ \E u \in Teacher, b \in TaskBlock, seen, d \in Version, x \in Data :
       UpdateTask(u, b, seen, d, x)
  \/ \E u \in Teacher : PublishDrafts(u) \/ DiscardDrafts(u)
  \/ \E u \in Teacher, i \in 1..MaxCheckpoints :
       i <= Len(checkpoints) /\ RestoreCheckpoint(u, i)
  \/ \E f \in [Position -> Position] : RebalanceBlockPositions(f)
  \/ DeleteCourseByID

Spec == Init /\ [][Next]_vars

-----------------------------------------------------------------------------
(* Invariants                                                              *)

\* Every variable has its type; a checkpoint maps each block to a version of
\* it, or to 0 (CreateTables.sql, tables blocks, tasks and checkpoints).
TypeOK ==
  /\ blocks \in [Block -> Stack]
  /\ tasks \in [TaskBlock -> Task \cup {Absent}]
  /\ groups \in [Group -> {"none", "live", "deleted"}]
  /\ checkpoints \in Seq([Block -> Version \cup {0}])
  /\ courseDeleted \in BOOLEAN

\* A teacher never has two drafts of one block, so getOwnDraft and the
\* viewer's block view (DISTINCT ON ... draft DESC) have one row to find.
OneDraftPerAuthor ==
  \A b \in Block, u \in Teacher : \A v, w \in OwnDrafts(blocks[b], u) : v = w

\* A draft of a new block is the block's only version; any other was copied
\* from an older published version, live and still there, so publishDraft
\* always finds the head and the base it merges with.
Anchored(s, d) ==
  \/ s[d].base = NoBase /\ ~s[d].deleted /\ Present(s) = {d}
  \/ s[d].base \in Published(s) /\ ~s[s[d].base].deleted /\ s[d].base < d

DraftsAnchored ==
  \A b \in Block, d \in Version :
    d \in Present(blocks[b]) \ Published(blocks[b]) => Anchored(blocks[b], d)

\* The newest checkpoint, in commit order, is the published course as it is
\* now; before the first one nothing is published (createCheckpoint runs at
\* the end of everything that publishes).
LatestCheckpointIsPublished ==
  IF checkpoints = <<>>
  THEN \A b \in Block : Published(blocks[b]) = {}
  ELSE \A b \in Block :
         LET v == checkpoints[Len(checkpoints)][b]
         IN  IF HasLiveHead(blocks[b]) THEN IsHead(blocks[b], v) ELSE v = 0

\* Every version a checkpoint names is still there, published and live, so
\* the checkpoint can be shown and restored whatever was done since.
CheckpointsRestorable ==
  \A i \in 1..Len(checkpoints) : \A b \in Block :
    LET v == checkpoints[i][b]
    IN  v # 0 => v \in Published(blocks[b]) /\ ~blocks[b][v].deleted

\* What the comment above deleteUnlinkedTasksSQL says of task groups: a group is
\* there just as long as it has a live task.
GroupsFollowTasks ==
  \A g \in Group : groups[g] = "live" <=>
    \E b \in TaskBlock : IsLiveTask(tasks[b]) /\ tasks[b].group = g

\* What the schema says of task names (CreateTables.sql, table tasks): the
\* name of a task is unique among the tasks of its group.
TaskNamesUnique ==
  \A b, c \in TaskBlock :
    b # c /\ HasLiveHead(blocks[b]) /\ HasLiveHead(blocks[c]) =>
      <<tasks[b].group, tasks[b].name>> # <<tasks[c].group, tasks[c].name>>

-----------------------------------------------------------------------------
(* Action properties                                                       *)

\* A published version is never removed or changed; only its position may be
\* renumbered, and two published versions keep comparing as they did
\* (RebalanceBlockPositions).
SamePublished(s, t, v) ==
  /\ v \in Published(t)
  /\ t[v].data = s[v].data
  /\ t[v].deleted = s[v].deleted

PublishedKept ==
  [][\A b, c \in Block :
       \A v \in Published(blocks[b]), w \in Published(blocks[c]) :
         /\ SamePublished(blocks[b], blocks'[b], v)
         /\ blocks[b][v].position < blocks[c][w].position <=>
            blocks'[b][v].position < blocks'[c][w].position]_vars

\* A newly published version is the block's new head: none slips in below a
\* version published earlier, whatever order the drafts were started in.
PublishedOnTop ==
  [][\A b \in Block : \A v \in Published(blocks'[b]) \ Published(blocks[b]) :
       \A w \in Published(blocks[b]) : w < v]_vars

\* One transaction works for one teacher: what it publishes is that teacher's
\* and no draft of another is edited, published, discarded or made to look
\* moved (drafts are private, getOwnDraftSQL and deleteOwnDraftsSQL).
SameDraft(s, t, d) ==
  /\ t[d] # Absent
  /\ [t[d] EXCEPT !.position = s[d].position] = s[d]
  /\ s[d].base # NoBase =>
       ((t[d].position = t[s[d].base].position) <=>
        (s[d].position = s[s[d].base].position))

PublishesFor(s, t, u) ==
  \E v \in Published(t) \ Published(s) : t[v].createdBy = u

DraftsTouched(s, t, u) == \E d \in OwnDrafts(s, u) : ~SameDraft(s, t, d)

OthersDraftsKept ==
  [][\A b, c \in Block, u, w \in Teacher : u # w =>
       ~(/\ DraftsTouched(blocks[b], blocks'[b], w)
         /\ \/ DraftsTouched(blocks[c], blocks'[c], u)
            \/ PublishesFor(blocks[c], blocks'[c], u))]_vars

\* A publish takes all the drafts of its author or none: a conflict in one block
\* keeps the drafts of every other block (PublishDrafts rolls back as one).
PublishAllOrNothing ==
  [][\A b, c \in Block, u \in Teacher :
       OwnDrafts(blocks[b], u) \cap Published(blocks'[b]) # {} =>
         OwnDrafts(blocks'[c], u) = {}]_vars

IsRestore == \E u \in Teacher, i \in 1..Len(checkpoints) : RestoreCheckpoint(u, i)

\* No lost update: a publish gives a block data the published head does not
\* have only if the head still has the data the edit started from: the base
\* of the author's draft, or the version UpdateTask was told it edits.
NoLostUpdate ==
  [][\A b \in Block :
       LET s == blocks[b]
           t == blocks'[b]
           h == s[HeadVersion(s)].data
           k == t[HeadVersion(t)]
       IN  HasLiveHead(s) /\ HasLiveHead(t) /\ k.data # h =>
             \/ \E d \in OwnDrafts(s, k.createdBy) :
                  s[d].base # NoBase /\ s[s[d].base].data = h
             \/ \E seen, d \in Version :
                  /\ seen \in Published(s) /\ s[seen].data = h
                  /\ b \in TaskBlock /\ UpdateTask(k.createdBy, b, seen, d, k.data)
             \/ IsRestore]_vars

\* A publish deletes no block whose published data changed since the author
\* of the deletion loaded it.
NoBlindDelete ==
  [][\A b \in Block :
       LET s == blocks[b]
           t == blocks'[b]
       IN  HasLiveHead(s) /\ ~HasLiveHead(t) =>
             \/ \E d \in OwnDrafts(s, t[HeadVersion(t)].createdBy) :
                  /\ s[d].deleted
                  /\ s[s[d].base].data = s[HeadVersion(s)].data
             \/ IsRestore]_vars

\* A block whose deletion was published comes back only by a restore, never
\* by publishing a draft somebody still had of it.
DeletedUntilRestored ==
  [][(\E b \in Block : /\ Published(blocks[b]) # {} /\ ~HasLiveHead(blocks[b])
                       /\ HasLiveHead(blocks'[b])) => IsRestore]_vars

\* After a restore the published course is the checkpoint's: the same blocks
\* with the same data at the same positions.
RestoreYieldsCheckpoint ==
  [][\A i \in 1..Len(checkpoints) :
       /\ checkpoints' # checkpoints
       /\ \E u \in Teacher : RestoreCheckpoint(u, i)
       => \A b \in Block :
            LET v == checkpoints[i][b]
                t == blocks'[b]
            IN  /\ HasLiveHead(t) <=> v # 0
                /\ v # 0 =>
                     /\ t[HeadVersion(t)].data = blocks[b][v].data
                     /\ t[HeadVersion(t)].position = blocks[b][v].position]_vars

\* A rebalance decides nothing: a draft that could be published without a
\* conflict before it still can, and no other (RebalanceBlockPositions keeps
\* the order of positions and which of them are equal).
Renumbered ==
  /\ UNCHANGED <<tasks, groups, checkpoints, courseDeleted>>
  /\ \A b \in Block : Present(blocks[b]) = Present(blocks'[b])
  /\ \E f \in [Position -> Position] : RebalanceBlockPositions(f)

RebalanceKeepsConflicts ==
  [][Renumbered =>
       \A b \in Block : \A d \in Present(blocks[b]) : blocks[b][d].draft =>
         \A mine \in BOOLEAN : Conflicting(blocks'[b], d, mine) <=>
                               Conflicting(blocks[b], d, mine)]_vars
==============================================================================
