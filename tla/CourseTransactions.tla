-------------------------- MODULE CourseTransactions --------------------------
(***************************************************************************)
(* The transactions of BlockVersions taken apart into the statements of    *)
(* internal/pg/blocks.go, checkpoints.go and taskgroups.go, as Postgres    *)
(* interleaves them under READ COMMITTED: a statement sees what is         *)
(* committed and what its own transaction wrote.                           *)
(*                                                                         *)
(* What keeps them apart is the course row, locked FOR SHARE by the edits  *)
(* of blocks and FOR UPDATE by a publish, a restore, a rebalance and a     *)
(* task update; an advisory lock on the block a draft is made of; and the  *)
(* locks on written rows.  All are held to the end of the transaction.     *)
(*                                                                         *)
(* The variables of BlockVersions are the committed tables.  An argument   *)
(* is chosen at the first statement that uses it.  Whatever makes a        *)
(* statement fail rolls the transaction back, as an error anywhere in it,  *)
(* a lost connection or a crash does: Rollback is always possible.         *)
(***************************************************************************)
EXTENDS BlockVersionsCourse

CONSTANTS
  Connection,  \* transactions open at once
  None,
  Kept         \* a row the transaction did not write

\* Kept is no row, and None is nobody and no block.
ASSUME KeptAssumption ==
  /\ Kept \notin VersionRow \cup Task \cup {Absent, "none", "live", "deleted"}
  /\ Kept \notin [Block -> Version \cup {0}]
  /\ None \notin Teacher \cup Block

VARIABLE txn   \* connection -> its transaction

txVars == <<vars, txn>>

SharedOp    == {"create", "patch", "move", "delete", "discard"}
ExclusiveOp == {"update", "publish", "restore", "rebalance"}

NoRows == [b \in Block |-> [v \in Version |-> Kept]]

NoTxn ==
  [pc |-> "idle", op |-> None, user |-> None,
   block     |-> None,  \* the block edited
   seen      |-> 0,     \* the version it is edited from
   draft     |-> 0,     \* the draft that takes the edit
   locked    |-> {},    \* advisory locks
   todo      |-> {},    \* blocks with a draft left to publish
   unlinked  |-> {},    \* blocks that may have lost their task
   rows      |-> NoRows,
   taskRows  |-> [b \in TaskBlock |-> Kept],
   groupRows |-> [g \in Group |-> Kept],
   checkpoint |-> Kept]

TxInit == Init /\ txn = [c \in Connection |-> NoTxn]

-----------------------------------------------------------------------------
(* What a statement sees, and whom it waits for                            *)

Over(row, committed) == IF row = Kept THEN committed ELSE row

Sees(c) == [b \in Block |-> [v \in Version |-> Over(txn[c].rows[b][v], blocks[b][v])]]
SeesTasks(c)  == [b \in TaskBlock |-> Over(txn[c].taskRows[b], tasks[b])]
SeesGroups(c) == [g \in Group |-> Over(txn[c].groupRows[g], groups[g])]

\* The rows written so far, with block b become s.  A row written with the
\* value it has is as good as not written.
Writes(c, b, s) ==
  [txn[c].rows EXCEPT ![b] =
     [v \in Version |-> IF s[v] = blocks[b][v] THEN Kept ELSE s[v]]]

Others(c) == Connection \ {c}
Active(c) == txn[c].pc \notin {"idle", "lock"}

\* Mutant: a publish locks the course row for share.
CourseFreeToPublish(c, op) ==
  \A o \in Others(c) : Active(o) =>
    {op, txn[o].op} \cap (ExclusiveOp \ {"publish"}) = {}

\* Mutant: an edit does not lock the course row.
CourseFreeToEdit(c, op) ==
  \A o \in Others(c) : Active(o) => ~({op, txn[o].op} \subseteq ExclusiveOp)

CourseFree(c, op) ==
  \A o \in Others(c) : Active(o) => {op, txn[o].op} \cap ExclusiveOp = {}

\* Mutant: no advisory lock.
BlockAlwaysFree(c, b) == TRUE

BlockFree(c, b) == \A o \in Others(c) : b \notin txn[o].locked

RowFree(c, b, v) == \A o \in Others(c) : txn[o].rows[b][v] = Kept

Goes(c, t) == txn' = [txn EXCEPT ![c] = t] /\ UNCHANGED vars

-----------------------------------------------------------------------------
(* Beginning: the lock on the course row, which answers if there is one    *)

FirstStep ==
  [create |-> "insert new", patch |-> "ensure draft", move |-> "ensure draft",
   delete |-> "ensure draft", discard |-> "discard", publish |-> "read drafts",
   restore |-> "restore", rebalance |-> "rebalance", update |-> "ensure draft"]

LockCourse(c, u, op) ==
  /\ txn[c].pc = "idle"
  /\ op # "update"
  /\ ~courseDeleted
  /\ CourseFree(c, op)
  /\ Goes(c, [NoTxn EXCEPT !.pc = FirstStep[op], !.op = op, !.user = u])

\* UpdateTask looks for the task before it locks the course.
GetTaskBlock(c, u, b) ==
  /\ txn[c].pc = "idle"
  /\ IsLiveTask(tasks[b])
  /\ Goes(c, [NoTxn EXCEPT !.pc = "lock", !.op = "update", !.user = u, !.block = b])

LockCourseForUpdate(c) ==
  /\ txn[c].pc = "lock"
  /\ ~courseDeleted
  /\ CourseFree(c, "update")
  /\ Goes(c, [txn[c] EXCEPT !.pc = FirstStep["update"]])

-----------------------------------------------------------------------------
(* Creating a block                                                        *)

InsertNewBlock(c, b, x, p) ==
  /\ txn[c].pc = "insert new"
  /\ blocks[b] = EmptyStack
  /\ b \in TaskBlock => tasks[b] = Absent
  /\ \A v \in Version : RowFree(c, b, v)
  /\ Goes(c, [txn[c] EXCEPT
       !.block = b,
       !.rows[b][1] = [data |-> x, position |-> p, draft |-> TRUE, deleted |-> FALSE,
                       createdBy |-> txn[c].user, base |-> NoBase],
       !.pc = IF b \in TaskBlock THEN "create task" ELSE "commit"])

\* The group is a live one or created here, for which its id is unused.
InsertTask(c, g, name) ==
  LET T == SeesTasks(c)
      R == Sees(c)
  IN  /\ txn[c].pc = "create task"
      /\ \/ groups[g] = "live"
         \/ groups[g] = "none" /\ \A o \in Others(c) : txn[o].groupRows[g] = Kept
      /\ \A b \in TaskBlock : IsLiveTask(T[b]) /\ LiveInView(R[b], txn[c].user) =>
           ~(T[b].group = g /\ T[b].name = name)
      /\ Goes(c, [txn[c] EXCEPT
           !.taskRows[txn[c].block] = [group |-> g, name |-> name, live |-> TRUE],
           !.groupRows[g] = IF groups[g] = "none" THEN "live" ELSE Kept,
           !.pc = "commit"])

-----------------------------------------------------------------------------
(* Editing a block in a draft                                              *)

\* ensureDraft: the advisory lock, then the search for an own draft.
GetOwnDraft(c, b, seen) ==
  LET s == Sees(c)[b]
      u == txn[c].user
  IN  /\ txn[c].pc = "ensure draft"
      /\ txn[c].block \in {None, b}
      /\ BlockFree(c, b)
      /\ \/ OwnDrafts(s, u) = {}
         \/ seen \in OwnDrafts(s, u) /\ ~s[seen].deleted
      /\ Goes(c, [txn[c] EXCEPT
           !.block = b, !.seen = seen, !.draft = seen, !.locked = {b},
           !.pc = IF OwnDrafts(s, u) = {} THEN "insert draft" ELSE "write"])

\* ensureDraft: the seen version copied under the next version number.
InsertDraft(c, n) ==
  LET b    == txn[c].block
      s    == Sees(c)[b]
      seen == txn[c].seen
  IN  /\ txn[c].pc = "insert draft"
      /\ seen \in Published(s) /\ ~s[seen].deleted
      /\ IsNext(s, n)
      /\ RowFree(c, b, n)
      /\ Goes(c, [txn[c] EXCEPT
           !.rows = Writes(c, b, Drafted(s, txn[c].user, seen, n)),
           !.draft = n,
           !.pc = "write"])

\* The draft as the statement that edits it leaves it.  A task block has no
\* data of its own to patch.
Edited(c, row) ==
  CASE txn[c].op = "patch"  -> IF txn[c].block \in TaskBlock THEN {row}
                               ELSE {[row EXCEPT !.data = x] : x \in Data}
    [] txn[c].op = "update" -> {[row EXCEPT !.data = x] : x \in Data}
    [] txn[c].op = "move"   -> {[row EXCEPT !.position = p] : p \in Position}
    [] txn[c].op = "delete" -> IF row.base = NoBase THEN {Absent}
                               ELSE {[row EXCEPT !.deleted = TRUE]}

\* Only the tasks of task blocks can be unlinked.
UnlinkOf(B, next) == IF B \cap TaskBlock = {} THEN next ELSE "unlink"

AfterWrite(c) ==
  CASE txn[c].op = "delete" -> UnlinkOf({txn[c].block}, "commit")
    [] txn[c].op = "update" /\ txn[c].draft # txn[c].seen -> "publish"
    [] OTHER -> "commit"

\* A draft that was discarded since it was found is not written to, which is
\* no error.
WriteDraft(c) ==
  LET b == txn[c].block
      d == txn[c].draft
      s == Sees(c)[b]
  IN  /\ txn[c].pc = "write"
      /\ RowFree(c, b, d)
      /\ \E row \in IF s[d] = Absent THEN {Absent} ELSE Edited(c, s[d]) :
           Goes(c, [txn[c] EXCEPT
             !.rows = Writes(c, b, [s EXCEPT ![d] = row]),
             !.todo = IF AfterWrite(c) = "publish" THEN {b} ELSE {},
             !.unlinked = IF txn[c].op = "delete" THEN {b} ELSE {},
             !.pc = AfterWrite(c)])

DeleteOwnDrafts(c) ==
  LET R == Sees(c)
      u == txn[c].user
      drafted == {b \in Block : OwnDrafts(R[b], u) # {}}
  IN  /\ txn[c].pc = "discard"
      /\ \A b \in Block : \A d \in OwnDrafts(R[b], u) : RowFree(c, b, d)
      /\ Goes(c, [txn[c] EXCEPT
           !.rows = [b \in Block |-> [v \in Version |->
                       IF v \in OwnDrafts(R[b], u) THEN Absent ELSE Kept]],
           !.unlinked = drafted,
           !.pc = UnlinkOf(drafted, "commit")])

-----------------------------------------------------------------------------
(* Publishing                                                              *)

GetOwnDrafts(c) ==
  LET drafted == {b \in Block : OwnDrafts(Sees(c)[b], txn[c].user) # {}}
  IN  /\ txn[c].pc = "read drafts"
      /\ drafted # {}
      /\ Goes(c, [txn[c] EXCEPT !.todo = drafted, !.pc = "publish"])

\* Mutant: each draft is published in a transaction of its own.
AfterAnyPublish(c, b, gone) == UnlinkOf(gone, "checkpoint")

AfterPublish(c, b, gone) ==
  IF txn[c].todo # {b} THEN "publish" ELSE UnlinkOf(gone, "checkpoint")

\* One draft, in the order of block ids.  A conflict rolls everything back,
\* after the other drafts were tried too, which changes nothing.
PublishNext(c) ==
  LET b    == CHOOSE b \in txn[c].todo : TRUE
      s    == Sees(c)[b]
      d    == OwnDraft(s, txn[c].user)
      mine == txn[c].op = "update" \/ DataMine(s, d)
      gone == IF PublishesDeleted(s, d) THEN txn[c].unlinked \cup {b} ELSE txn[c].unlinked
  IN  /\ txn[c].pc = "publish"
      /\ txn[c].todo # {}
      /\ BlockFree(c, b)
      /\ OwnDrafts(s, txn[c].user) # {}
      /\ ~Conflicting(s, d, mine)
      /\ PublishHasRoom(s, d)
      /\ Goes(c, [txn[c] EXCEPT
           !.rows = Writes(c, b, PublishDraft(s, d, mine)),
           !.locked = @ \cup {b},
           !.todo = @ \ {b},
           !.unlinked = gone,
           !.pc = AfterPublish(c, b, gone)])

\* The statements of a restore up to the undeleted tasks.
RestoreBlocks(c, i) ==
  LET R        == Sees(c)
      target   == checkpoints[i]
      restored == {b \in Block : Restored(R[b], target[b])}
      removed  == {b \in Block : Removed(R[b], target[b])}
      back     == Undeleted(restored)
      stack(b) == CASE b \in restored -> Republish(R[b], target[b], txn[c].user, FALSE)
                    [] b \in removed  -> Republish(R[b], HeadVersion(R[b]), txn[c].user, TRUE)
                    [] OTHER          -> R[b]
  IN  /\ txn[c].pc = "restore"
      /\ \A b \in restored \cup removed : HasRoom(R[b])
      /\ Goes(c, [txn[c] EXCEPT
           !.rows = [b \in Block |-> Writes(c, b, stack(b))[b]],
           !.taskRows = [b \in TaskBlock |->
              IF b \in back THEN [tasks[b] EXCEPT !.live = TRUE] ELSE Kept],
           !.groupRows = [g \in Group |->
              IF groups[g] # "live" /\ \E b \in back : tasks[b].group = g
              THEN "live" ELSE Kept],
           !.unlinked = removed,
           !.pc = UnlinkOf(removed, "checkpoint")])

RemapPositions(c, f) ==
  /\ txn[c].pc = "rebalance"
  /\ \A p, q \in UsedPositions : p < q => f[p] < f[q]
  /\ Goes(c, [txn[c] EXCEPT
       !.rows = [b \in Block |-> Writes(c, b, Remap(blocks[b], f))[b]],
       !.pc = "commit"])

-----------------------------------------------------------------------------
(* Ending                                                                  *)

\* deleteUnlinkedTasks, on the tasks of the blocks it is given.
Unlink(c) ==
  LET T    == SeesTasks(c)
      gone == {b \in txn[c].unlinked \cap TaskBlock :
                 IsLiveTask(T[b]) /\ ~LinksTask(Sees(c)[b])}
      dead == Emptied(T, gone)
  IN  /\ txn[c].pc = "unlink"
      /\ \A o \in Others(c) : /\ \A b \in gone : txn[o].taskRows[b] = Kept
                              /\ \A g \in dead : txn[o].groupRows[g] = Kept
      /\ Goes(c, [txn[c] EXCEPT
           !.taskRows = [b \in TaskBlock |->
              IF b \in gone THEN [T[b] EXCEPT !.live = FALSE] ELSE @[b]],
           !.groupRows = [g \in Group |-> IF g \in dead THEN "deleted" ELSE @[g]],
           !.pc = IF txn[c].op \in {"publish", "restore"} THEN "checkpoint" ELSE "commit"])

FillCheckpoint(c) ==
  /\ txn[c].pc = "checkpoint"
  /\ Len(checkpoints) < MaxCheckpoints
  /\ Goes(c, [txn[c] EXCEPT !.checkpoint = LiveHeads(Sees(c)), !.pc = "commit"])

\* What a call reads back at its end must be there.
ReadsBack(c) ==
  txn[c].op \in {"patch", "update"} =>
    LET b == txn[c].block
    IN  /\ LiveInView(Sees(c)[b], txn[c].user)
        /\ txn[c].op = "update" => IsLiveTask(tasks[b])

Commit(c) ==
  /\ txn[c].pc = "commit"
  /\ ReadsBack(c)
  /\ blocks' = Sees(c)
  /\ tasks' = SeesTasks(c)
  /\ groups' = SeesGroups(c)
  /\ checkpoints' = IF txn[c].checkpoint = Kept THEN checkpoints
                    ELSE Append(checkpoints, txn[c].checkpoint)
  /\ UNCHANGED courseDeleted
  /\ txn' = [txn EXCEPT ![c] = NoTxn]

Rollback(c) ==
  /\ txn[c].pc # "idle"
  /\ Goes(c, NoTxn)

\* The update of the course row waits for all who locked it.
DeleteCourse ==
  /\ \A c \in Connection : ~Active(c)
  /\ DeleteCourseByID
  /\ UNCHANGED txn

TxNext ==
  \/ \E c \in Connection :
       \/ \E u \in Teacher :
            \/ \E op \in SharedOp \cup ExclusiveOp : LockCourse(c, u, op)
            \/ \E b \in TaskBlock : GetTaskBlock(c, u, b)
       \/ LockCourseForUpdate(c)
       \/ \E b \in Block, x \in Data, p \in Position : InsertNewBlock(c, b, x, p)
       \/ \E g \in Group, name \in TaskName : InsertTask(c, g, name)
       \/ \E b \in Block, seen \in Version : GetOwnDraft(c, b, seen)
       \/ \E n \in Version : InsertDraft(c, n)
       \/ WriteDraft(c)
       \/ DeleteOwnDrafts(c)
       \/ GetOwnDrafts(c)
       \/ PublishNext(c)
       \/ \E i \in 1..MaxCheckpoints : i <= Len(checkpoints) /\ RestoreBlocks(c, i)
       \/ \E f \in [Position -> Position] : RemapPositions(c, f)
       \/ Unlink(c)
       \/ FillCheckpoint(c)
       \/ Commit(c)
       \/ Rollback(c)
  \/ DeleteCourse

TxSpec == TxInit /\ [][TxNext]_txVars

-----------------------------------------------------------------------------
(* Properties, with those of BlockVersions                                 *)

\* A discard deletes the drafts there are when its statement runs; one the
\* same teacher starts before it commits stays.
DiscardFoundDrafts ==
  \E u \in Teacher : LET shown == [b \in Block |-> DraftContent(blocks[b], u)]
                      left  == [b \in Block |-> DraftContent(blocks'[b], u)]
                  IN  /\ \A b \in Block : left[b] \in {shown[b], Absent}
                      /\ \A w \in Teacher \ {u}, b \in Block :
                           DraftContent(blocks[b], w) = DraftContent(blocks'[b], w)
                      /\ \A b \in Block :
                           PublishedContent(blocks[b]) = PublishedContent(blocks'[b])
                      /\ UNCHANGED <<checkpoints, courseDeleted>>

\* The locks make the course what Course promises although transactions run
\* side by side: each commit is one step of one teacher on the course as it
\* is then, and nothing a rolled back transaction did ever shows (lockCourse,
\* lockCourseForUpdate, lockBlockSQL).
CommitsImplementCourse ==
  [][\/ UNCHANGED <<blocks, checkpoints, courseDeleted>>
     \/ DiscardFoundDrafts
     \/ AsUsersSeeIt!Next]_vars

\* Nothing is committed by anyone else between the first statement of a
\* publish, a restore, a rebalance or a task update and its commit, so what it
\* read of the course is still so when it commits (lockCourseForUpdate).
ExclusiveUndisturbed ==
  [][\A c \in Connection :
       Active(c) /\ txn[c].op \in ExclusiveOp =>
         UNCHANGED vars \/ txn'[c] = NoTxn]_txVars

\* However requests overlap, a task block students see has its task: no
\* discard or delete takes it away on what it read before (deleteUnlinkedTasks).
PublishedHasTask ==
  \A b \in TaskBlock : HasLiveHead(blocks[b]) => IsLiveTask(tasks[b])

\* What an operation that needs the course to itself is on its own.
ExclusiveCommit(c) ==
  LET t == txn[c]
  IN  CASE t.op = "publish"   -> PublishDrafts(t.user)
        [] t.op = "restore"   -> \E i \in 1..Len(checkpoints) : RestoreCheckpoint(t.user, i)
        [] t.op = "rebalance" -> \E f \in [Position -> Position] : RebalanceBlockPositions(f)
        [] t.op = "update"    -> \E x \in Data :
                                   UpdateTask(t.user, t.block, t.seen, t.draft, x)

\* What needs the course to itself has it: each publish, restore, rebalance and
\* task update is, when it commits, one action of BlockVersions on the course
\* as it is then, tasks and groups included, however many statements and other
\* transactions lie between (lockCourseForUpdate).
ExclusiveAtomic ==
  [][\A c \in Connection :
       txn[c].op \in ExclusiveOp /\ Commit(c) => ExclusiveCommit(c)]_txVars

\* What needs the course to itself keeps each task group there just as long as
\* it has a live task: over all its statements a publish, a restore or a task
\* update leaves no group empty, and takes none from a task (deleteUnlinkedTasks,
\* undeleteTasksSQL).  The edits that share the course do not: see the run
\* group_skew.
ExclusiveKeepsGroups ==
  [][\A c \in Connection :
       txn[c].op \in ExclusiveOp /\ Commit(c) /\ GroupsFollowTasks =>
         GroupsFollowTasks']_txVars
===============================================================================
