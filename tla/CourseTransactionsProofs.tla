----------------------- MODULE CourseTransactionsProofs -----------------------
(***************************************************************************)
(* Theorems of CourseTransactions for any numbers of connections,          *)
(* teachers, blocks and versions: transactions taken apart into statements *)
(* still come to what BlockVersions and Course say of them.                *)
(*                                                                         *)
(* LockInv, that the locks on the course row keep apart what must be, is   *)
(* inductive by itself.  The rest needs to know what an open transaction   *)
(* has written so far.  Fits says it of each, stage by stage, in terms of  *)
(* the tables as committed now, not as they were when it read them: that   *)
(* it still fits after another's commit is the point.  Exclusive           *)
(* operations are alone (LockInv), so nothing of theirs can change.  Those *)
(* that share the course write each row alone (RowsApart), edit each block *)
(* alone (LocksApart), and what another leaves of the block is enough      *)
(* (EditedStack).  At the commit, Fits is the action of BlockVersions for  *)
(* what is exclusive, and for what is shared what users see of an edit.    *)
(***************************************************************************)
EXTENDS CourseTransactions, BlockVersionsCourseProofs

\* A transaction that waits for the course row is a task update, which knows
\* no more yet than its block.
Shaped ==
  /\ DOMAIN txn = Connection
  /\ \A c \in Connection : {"pc", "op"} \subseteq DOMAIN txn[c]
  /\ \A c \in Connection : txn[c].pc = "lock" => txn[c].op = "update"

\* Of two transactions that hold the course row, neither has it to itself.
Apart ==
  \A c, o \in Connection :
    c # o /\ Active(c) /\ Active(o) => {txn[c].op, txn[o].op} \cap ExclusiveOp = {}

LockInv == Shaped /\ Apart

LEMMA InitLockInv == TxInit => LockInv
BY DEF TxInit, NoTxn, LockInv, Shaped, Apart, Active

LEMMA NoTxnIdle == NoTxn.pc = "idle" /\ {"pc", "op"} \subseteq DOMAIN NoTxn
BY DEF NoTxn

\* Whoever has the course row is past waiting for it.
LEMMA FirstStepActive ==
  ASSUME NEW op \in SharedOp \cup ExclusiveOp
  PROVE  FirstStep[op] \notin {"idle", "lock"}
<1>1. CASE op \in SharedOp
  <2>1. /\ FirstStep["create"] = "insert new" /\ FirstStep["discard"] = "discard"
        /\ FirstStep["patch"] = "ensure draft" /\ FirstStep["move"] = "ensure draft"
        /\ FirstStep["delete"] = "ensure draft"
    BY DEF FirstStep
  <2>2. QED
    BY <1>1, <2>1 DEF SharedOp
<1>2. CASE op \in ExclusiveOp
  <2>1. /\ FirstStep["update"] = "ensure draft" /\ FirstStep["publish"] = "read drafts"
        /\ FirstStep["restore"] = "restore" /\ FirstStep["rebalance"] = "rebalance"
    BY DEF FirstStep
  <2>2. QED
    BY <1>2, <2>1 DEF ExclusiveOp
<1>3. QED
  BY <1>1, <1>2

\* One transaction takes the course row when it is free for it.
LEMMA LockStep ==
  ASSUME LockInv, NEW c \in Connection, NEW t,
         {"pc", "op"} \subseteq DOMAIN t, t.pc # "lock", CourseFree(c, t.op),
         txn' = [txn EXCEPT ![c] = t]
  PROVE  LockInv'
<1>1. txn'[c] = t /\ \A o \in Connection \ {c} : txn'[o] = txn[o]
  BY DEF LockInv, Shaped
<1>2. Shaped'
  BY <1>1 DEF LockInv, Shaped
<1>3. Apart'
  <2> SUFFICES ASSUME NEW a \in Connection, NEW o \in Connection, a # o, Active(a)', Active(o)'
               PROVE  {txn'[a].op, txn'[o].op} \cap ExclusiveOp = {}
    BY DEF Apart
  <2>1. CASE a = c
    BY <1>1, <2>1 DEF CourseFree, Others, Active
  <2>2. CASE o = c
    BY <1>1, <2>2 DEF CourseFree, Others, Active
  <2>3. CASE a # c /\ o # c
    BY <1>1, <2>3 DEF LockInv, Apart, Active
  <2>4. QED
    BY <2>1, <2>2, <2>3
<1>4. QED
  BY <1>2, <1>3 DEF LockInv

\* One that holds it goes on, with the same operation.
LEMMA HoldStep ==
  ASSUME LockInv, NEW c \in Connection, NEW t, Active(c),
         {"pc", "op"} \subseteq DOMAIN t, t.pc # "lock", t.op = txn[c].op,
         txn' = [txn EXCEPT ![c] = t]
  PROVE  LockInv'
<1>1. txn'[c] = t /\ \A o \in Connection \ {c} : txn'[o] = txn[o]
  BY DEF LockInv, Shaped
<1>2. Shaped'
  BY <1>1 DEF LockInv, Shaped
<1>3. Apart'
  BY <1>1 DEF LockInv, Apart, Active
<1>4. QED
  BY <1>2, <1>3 DEF LockInv

\* One that ends frees it.
LEMMA EndStep ==
  ASSUME LockInv, NEW c \in Connection, NEW t,
         {"pc", "op"} \subseteq DOMAIN t, t.pc = "idle",
         txn' = [txn EXCEPT ![c] = t]
  PROVE  LockInv'
<1>1. txn'[c] = t /\ \A o \in Connection \ {c} : txn'[o] = txn[o]
  BY DEF LockInv, Shaped
<1>2. Shaped'
  BY <1>1 DEF LockInv, Shaped
<1>3. Apart'
  BY <1>1 DEF LockInv, Apart, Active
<1>4. QED
  BY <1>2, <1>3 DEF LockInv

\* The statements of a transaction that holds the course row.
Holds(c) ==
  \/ \E b \in Block, x \in Data, p \in Position : InsertNewBlock(c, b, x, p)
  \/ \E g \in Group, name \in TaskName : InsertTask(c, g, name)
  \/ \E b \in Block, seen \in Version : GetOwnDraft(c, b, seen)
  \/ \E n \in Version : InsertDraft(c, n)
  \/ WriteDraft(c)
  \/ DeleteOwnDrafts(c)
  \/ GetOwnDrafts(c)
  \/ PublishNext(c)
  \/ \E i \in 1..MaxCheckpoints : i <= Len(checkpoints) /\ RestoreBlocks(c, i)
  \/ \E f \in [Position -> Position] : RemapPositions(c, f)
  \/ Unlink(c)
  \/ FillCheckpoint(c)

\* Each of them runs while the transaction is active, writes nothing to the
\* tables, and leaves it active with the operation it had.
GoesOn(c) ==
  /\ Active(c)
  /\ UNCHANGED vars
  /\ txn' = [txn EXCEPT ![c] = txn'[c]]
  /\ {"pc", "op"} \subseteq DOMAIN txn'[c]
  /\ txn'[c].pc # "lock"
  /\ txn'[c].op = txn[c].op

LEMMA AfterWriteSteps == \A c : AfterWrite(c) \in {"unlink", "commit", "publish"}
BY DEF AfterWrite, UnlinkOf

LEMMA HoldsGoesOn ==
  ASSUME LockInv, NEW c \in Connection, Holds(c)
  PROVE  GoesOn(c)
<1> USE DEF Goes, GoesOn, Active
<1>0. c \in DOMAIN txn /\ {"pc", "op"} \subseteq DOMAIN txn[c]
  BY DEF LockInv, Shaped
<1>1. ASSUME NEW b \in Block, NEW x \in Data, NEW p \in Position, InsertNewBlock(c, b, x, p)
      PROVE  GoesOn(c)
  BY <1>0, <1>1 DEF InsertNewBlock
<1>2. ASSUME NEW g \in Group, NEW name \in TaskName, InsertTask(c, g, name)
      PROVE  GoesOn(c)
  BY <1>0, <1>2 DEF InsertTask
<1>3. ASSUME NEW b \in Block, NEW seen \in Version, GetOwnDraft(c, b, seen)
      PROVE  GoesOn(c)
  BY <1>0, <1>3 DEF GetOwnDraft
<1>4. ASSUME NEW n \in Version, InsertDraft(c, n)
      PROVE  GoesOn(c)
  BY <1>0, <1>4 DEF InsertDraft
<1>5. CASE WriteDraft(c)
  <2> HIDE DEF Goes, GoesOn, Active
  <2>1. \E rows, todo, unlinked :
          Goes(c, [txn[c] EXCEPT !.rows = rows, !.todo = todo,
                                 !.unlinked = unlinked, !.pc = AfterWrite(c)])
    BY <1>5 DEF WriteDraft
  <2>2. PICK rows, todo, unlinked :
          Goes(c, [txn[c] EXCEPT !.rows = rows, !.todo = todo,
                                 !.unlinked = unlinked, !.pc = AfterWrite(c)])
    BY <2>1
  <2> DEFINE t == [txn[c] EXCEPT !.rows = rows, !.todo = todo,
                                 !.unlinked = unlinked, !.pc = AfterWrite(c)]
  <2>3. Goes(c, t) /\ Active(c)
    BY <1>5, <2>2 DEF WriteDraft, Active
  <2>4. t.pc = AfterWrite(c) /\ t.op = txn[c].op /\ {"pc", "op"} \subseteq DOMAIN t
    BY <1>0
  <2> HIDE DEF t
  <2>5. t.pc # "lock"
    BY <2>4, AfterWriteSteps
  <2>6. QED
    BY <1>0, <2>3, <2>4, <2>5 DEF Goes, GoesOn
<1>6. CASE DeleteOwnDrafts(c)
  BY <1>0, <1>6 DEF DeleteOwnDrafts, UnlinkOf
<1>7. CASE GetOwnDrafts(c)
  BY <1>0, <1>7 DEF GetOwnDrafts
<1>8. CASE PublishNext(c)
  BY <1>0, <1>8 DEF PublishNext, AfterPublish, UnlinkOf
<1>9. ASSUME NEW i \in 1..MaxCheckpoints, RestoreBlocks(c, i)
      PROVE  GoesOn(c)
  BY <1>0, <1>9 DEF RestoreBlocks, UnlinkOf
<1>10. ASSUME NEW f \in [Position -> Position], RemapPositions(c, f)
       PROVE  GoesOn(c)
  BY <1>0, <1>10 DEF RemapPositions
<1>11. CASE Unlink(c)
  BY <1>0, <1>11 DEF Unlink
<1>12. CASE FillCheckpoint(c)
  BY <1>0, <1>12 DEF FillCheckpoint
<1>13. QED
  BY <1>1, <1>2, <1>3, <1>4, <1>5, <1>6, <1>7, <1>8, <1>9, <1>10, <1>11, <1>12 DEF Holds

\* Every step of a transaction keeps the locks on the course row apart.
THEOREM StepLockInv == LockInv /\ [TxNext]_txVars => LockInv'
<1> SUFFICES ASSUME LockInv, [TxNext]_txVars PROVE LockInv'
  OBVIOUS
<1>1. ASSUME NEW c \in Connection, NEW u \in Teacher, NEW op \in SharedOp \cup ExclusiveOp,
             LockCourse(c, u, op)
      PROVE  LockInv'
  <2> DEFINE t == [NoTxn EXCEPT !.pc = FirstStep[op], !.op = op, !.user = u]
  <2>1. {"pc", "op"} \subseteq DOMAIN t /\ t.pc = FirstStep[op] /\ t.op = op
    BY NoTxnIdle DEF NoTxn
  <2>2. txn' = [txn EXCEPT ![c] = t] /\ CourseFree(c, op)
    BY <1>1 DEF LockCourse, Goes
  <2> HIDE DEF t
  <2>3. QED
    BY <2>1, <2>2, FirstStepActive, LockStep
<1>2. ASSUME NEW c \in Connection, NEW u \in Teacher, NEW b \in TaskBlock, GetTaskBlock(c, u, b)
      PROVE  LockInv'
  <2> DEFINE t == [NoTxn EXCEPT !.pc = "lock", !.op = "update", !.user = u, !.block = b]
  <2>1. {"pc", "op"} \subseteq DOMAIN t /\ t.pc = "lock" /\ t.op = "update"
    BY NoTxnIdle DEF NoTxn
  <2>2. txn' = [txn EXCEPT ![c] = t]
    BY <1>2 DEF GetTaskBlock, Goes
  <2> HIDE DEF t
  <2>3. txn'[c] = t /\ \A o \in Connection \ {c} : txn'[o] = txn[o]
    BY <2>2 DEF LockInv, Shaped
  <2>4. QED
    BY <2>1, <2>2, <2>3 DEF LockInv, Shaped, Apart, Active
<1>3. ASSUME NEW c \in Connection, LockCourseForUpdate(c)
      PROVE  LockInv'
  <2> DEFINE t == [txn[c] EXCEPT !.pc = FirstStep["update"]]
  <2>1. txn[c].op = "update" /\ {"pc", "op"} \subseteq DOMAIN txn[c]
    BY <1>3 DEF LockCourseForUpdate, LockInv, Shaped
  <2>2. {"pc", "op"} \subseteq DOMAIN t /\ t.pc = FirstStep["update"] /\ t.op = "update"
    BY <2>1
  <2>3. txn' = [txn EXCEPT ![c] = t] /\ CourseFree(c, "update")
    BY <1>3 DEF LockCourseForUpdate, Goes
  <2> HIDE DEF t
  <2>4. FirstStep["update"] # "lock"
    BY FirstStepActive DEF ExclusiveOp
  <2>5. QED
    BY <2>2, <2>3, <2>4, LockStep
<1>4. ASSUME NEW c \in Connection, Holds(c)
      PROVE  LockInv'
  BY <1>4, HoldsGoesOn, HoldStep DEF GoesOn
<1>5. ASSUME NEW c \in Connection, Commit(c) \/ Rollback(c)
      PROVE  LockInv'
  <2>1. txn' = [txn EXCEPT ![c] = NoTxn]
    BY <1>5 DEF Commit, Rollback, Goes
  <2>2. QED
    BY <2>1, NoTxnIdle, EndStep
<1>6. CASE DeleteCourse \/ UNCHANGED txVars
  BY <1>6 DEF DeleteCourse, txVars, LockInv, Shaped, Apart, Active
<1>7. QED
  BY <1>1, <1>2, <1>3, <1>4, <1>5, <1>6 DEF TxNext, Holds

\* Two transactions hold the course row at once only if both may share it.
THEOREM LocksExclude == TxSpec => []LockInv
BY InitLockInv, StepLockInv, PTL DEF TxSpec

\* While a publish, restore, rebalance or task update runs, no one else
\* commits: what it read of the course is so when it commits.
THEOREM Undisturbed == TxSpec => ExclusiveUndisturbed
<1> DEFINE Alone ==
      \A c \in Connection :
        Active(c) /\ txn[c].op \in ExclusiveOp => UNCHANGED vars \/ txn'[c] = NoTxn
<1>1. LockInv /\ [TxNext]_txVars => [Alone]_txVars
  <2> SUFFICES ASSUME LockInv, TxNext, NEW c \in Connection, Active(c),
                      txn[c].op \in ExclusiveOp
               PROVE  UNCHANGED vars \/ txn'[c] = NoTxn
    OBVIOUS
  <2>1. ASSUME NEW o \in Connection, Commit(o)
        PROVE  UNCHANGED vars \/ txn'[c] = NoTxn
    <3>1. Active(o)
      BY <2>1 DEF Commit, Active
    <3>2. c = o
      BY <3>1 DEF LockInv, Apart
    <3>3. QED
      BY <2>1, <3>2 DEF Commit, LockInv, Shaped
  <2>2. ASSUME NEW o \in Connection, Holds(o)
        PROVE  UNCHANGED vars
    BY <2>2, HoldsGoesOn DEF GoesOn
  <2>3. ASSUME NEW o \in Connection,
               \/ \E u \in Teacher :
                    \/ \E op \in SharedOp \cup ExclusiveOp : LockCourse(o, u, op)
                    \/ \E b \in TaskBlock : GetTaskBlock(o, u, b)
               \/ LockCourseForUpdate(o)
               \/ Rollback(o)
        PROVE  UNCHANGED vars
    BY <2>3 DEF LockCourse, GetTaskBlock, LockCourseForUpdate, Rollback, Goes
  <2>4. ~DeleteCourse
    BY DEF DeleteCourse
  <2>5. QED
    BY <2>1, <2>2, <2>3, <2>4 DEF TxNext, Holds
<1>2. QED
  BY <1>1, LocksExclude, PTL DEF TxSpec, ExclusiveUndisturbed

-----------------------------------------------------------------------------
(* What a transaction is at                                                *)

Steps ==
  {"idle", "lock", "insert new", "create task", "ensure draft", "insert draft",
   "write", "discard", "read drafts", "publish", "restore", "rebalance",
   "unlink", "checkpoint", "commit"}

Txn ==
  [pc : Steps, op : SharedOp \cup ExclusiveOp \cup {None},
   user : Teacher \cup {None}, block : Block \cup {None},
   seen : Version \cup {0}, draft : Version \cup {0},
   locked : SUBSET Block, todo : SUBSET Block, unlinked : SUBSET Block,
   rows : [Block -> [Version -> VersionRow \cup {Absent, Kept}]],
   taskRows : [TaskBlock -> Task \cup {Kept}],
   groupRows : [Group -> {"live", "deleted", Kept}],
   checkpoint : [Block -> Version \cup {0}] \cup {Kept}]

\* What transaction t sees when B are the stacks, T the tasks and G the groups
\* committed.
Shown(t, B) == [b \in Block |-> [v \in Version |-> Over(t.rows[b][v], B[b][v])]]
ShownTasks(t, T)  == [b \in TaskBlock |-> Over(t.taskRows[b], T[b])]
ShownGroups(t, G) == [g \in Group |-> Over(t.groupRows[g], G[g])]

TasksKept(t) ==
  /\ t.taskRows = [b \in TaskBlock |-> Kept]
  /\ t.groupRows = [g \in Group |-> Kept]

Unwritten(t) == t.rows = NoRows /\ TasksKept(t) /\ t.checkpoint = Kept

\* The one row written.
Only(b, d, row) ==
  [c \in Block |-> [v \in Version |-> IF c = b /\ v = d THEN row ELSE Kept]]

Waits(t) ==
  /\ t.pc = "lock" /\ t.op = "update"
  /\ t.user \in Teacher /\ t.block \in TaskBlock
  /\ Unwritten(t) /\ t.locked = {} /\ t.unlinked = {}

Begins(t) ==
  /\ t.op \in SharedOp \cup ExclusiveOp
  /\ t.pc = FirstStep[t.op]
  /\ t.user \in Teacher
  /\ IF t.op = "update" THEN t.block \in TaskBlock ELSE t.block = None
  /\ Unwritten(t) /\ t.locked = {} /\ t.unlinked = {}

Creates(t, B) ==
  /\ t.op = "create" /\ t.pc \in {"create task", "commit"}
  /\ t.user \in Teacher /\ t.block \in Block
  /\ t.pc = "create task" => t.block \in TaskBlock
  /\ t.locked = {} /\ t.checkpoint = Kept
  /\ B[t.block] = EmptyStack
  /\ \E x \in Data, p \in Position :
       t.rows = Only(t.block, 1,
                     [data |-> x, position |-> p, draft |-> TRUE, deleted |-> FALSE,
                      createdBy |-> t.user, base |-> NoBase])

Editing(t) ==
  /\ t.op \in {"patch", "move", "delete", "update"}
  /\ t.user \in Teacher /\ t.block \in Block
  /\ t.op = "update" => t.block \in TaskBlock
  /\ t.seen \in Version /\ t.draft \in Version
  /\ t.locked = {t.block}

\* Before its draft is made the block may still be another's new one.
CopiesNext(t, B) ==
  /\ t.pc = "insert draft"
  /\ Editing(t) /\ Unwritten(t) /\ t.unlinked = {}
  /\ Published(B[t.block]) # {} => OwnDrafts(B[t.block], t.user) = {}

\* The draft found, which may be discarded meanwhile unless the course is the
\* transaction's own, or the draft made.
WritesNext(t, B) ==
  LET s == B[t.block]
      d == t.draft
  IN  /\ t.pc = "write"
      /\ Editing(t) /\ TasksKept(t) /\ t.checkpoint = Kept /\ t.unlinked = {}
      /\ \/ /\ d = t.seen
            /\ t.rows = NoRows
            /\ s[d] # Absent => s[d].draft /\ ~s[d].deleted
            /\ t.op = "update" => CanDraft(s, t.user, d, d)
         \/ /\ d # t.seen
            /\ CanEdit(s, t.user, t.seen, d)
            /\ t.op = "update" => CanDraft(s, t.user, t.seen, d)
            /\ t.rows = Only(t.block, d, Drafted(s, t.user, t.seen, d)[d])

\* The row of an edited draft: its author and base are those of the draft
\* that was found or made.
EditedRow(s, seen, d, row) ==
  \/ row = Kept
  \/ /\ row = Absent
     /\ s[d] # Absent /\ s[d].draft /\ s[d].base = NoBase
  \/ /\ row \in VersionRow
     /\ row.draft
     /\ row.deleted => row.base # NoBase
     /\ CanEdit(s, row.createdBy, seen, d)
     /\ row.base = Drafted(s, row.createdBy, seen, d)[d].base

Edits(t, B) ==
  /\ t.op \in {"patch", "move", "delete"} /\ t.pc \in {"unlink", "commit"}
  /\ Editing(t) /\ t.checkpoint = Kept
  /\ \E row \in VersionRow \cup {Absent, Kept} :
       /\ EditedRow(B[t.block], t.seen, t.draft, row)
       /\ t.rows = Only(t.block, t.draft, row)

UpdatesDraft(t, B) ==
  /\ t.op = "update" /\ t.pc = "commit"
  /\ Editing(t) /\ TasksKept(t) /\ t.checkpoint = Kept
  /\ t.draft = t.seen
  /\ CanDraft(B[t.block], t.user, t.seen, t.draft)
  /\ \E x \in Data : Shown(t, B) =
       [B EXCEPT ![t.block] = TaskDraft(@, t.user, t.seen, t.draft, x)]

\* createCheckpoint, when it was there.
Checkpointed(t, B, K) ==
  IF t.pc = "commit"
  THEN /\ t.checkpoint = LiveHeads(Shown(t, B)) /\ t.checkpoint # Kept
       /\ Len(K) < MaxCheckpoints
  ELSE t.checkpoint = Kept

UpdatesTask(t, B, K) ==
  /\ t.op = "update" /\ t.pc \in {"publish", "checkpoint", "commit"}
  /\ Editing(t) /\ TasksKept(t) /\ t.unlinked = {}
  /\ t.draft # t.seen
  /\ CanDraft(B[t.block], t.user, t.seen, t.draft)
  /\ \E x \in Data :
       LET s == TaskDraft(B[t.block], t.user, t.seen, t.draft, x)
       IN  IF t.pc = "publish"
           THEN t.todo = {t.block} /\ Shown(t, B) = [B EXCEPT ![t.block] = s]
           ELSE /\ ~Conflicting(s, t.draft, TRUE)
                /\ PublishHasRoom(s, t.draft)
                /\ Shown(t, B) = [B EXCEPT ![t.block] = PublishDraft(s, t.draft, TRUE)]
  /\ Checkpointed(t, B, K)

Discards(t, B) ==
  /\ t.op = "discard" /\ t.pc \in {"unlink", "commit"}
  /\ t.user \in Teacher /\ t.locked = {} /\ t.checkpoint = Kept
  /\ \A b \in Block, v \in Version : t.rows[b][v] # Kept =>
       t.rows[b][v] = Absent /\ v \in OwnDrafts(B[b], t.user)

\* deleteUnlinkedTasks as a change from T and G to S and H.
Unlinks(U, R, T, G, S, H) ==
  LET gone == {b \in U \cap TaskBlock : IsLiveTask(T[b]) /\ ~LinksTask(R[b])}
  IN  /\ S = [b \in TaskBlock |->
                IF b \in gone THEN [T[b] EXCEPT !.live = FALSE] ELSE T[b]]
      /\ H = [g \in Group |-> IF g \in Emptied(T, gone) THEN "deleted" ELSE G[g]]

PublishesAll(t, B, T, G, K) ==
  LET drafted  == {b \in Block : OwnDrafts(B[b], t.user) # {}}
      done     == drafted \ t.todo
      draft(b) == OwnDraft(B[b], t.user)
      mine(b)  == DataMine(B[b], draft(b))
  IN  /\ t.op = "publish" /\ t.pc \in {"publish", "unlink", "checkpoint", "commit"}
      /\ t.user \in Teacher
      /\ drafted # {} /\ t.todo \subseteq drafted
      /\ t.pc = "publish" <=> t.todo # {}
      /\ \A b \in done : /\ ~Conflicting(B[b], draft(b), mine(b))
                         /\ PublishHasRoom(B[b], draft(b))
      /\ Shown(t, B) = [b \in Block |->
           IF b \in done THEN PublishDraft(B[b], draft(b), mine(b)) ELSE B[b]]
      /\ t.unlinked = {b \in done : PublishesDeleted(B[b], draft(b))}
      /\ IF t.pc \in {"publish", "unlink"} THEN TasksKept(t)
         ELSE Unlinks(t.unlinked, Shown(t, B), T, G, ShownTasks(t, T), ShownGroups(t, G))
      /\ Checkpointed(t, B, K)

RestoresTo(target, t, B, T, G, K) ==
  LET restored == {b \in Block : Restored(B[b], target[b])}
      removed  == {b \in Block : Removed(B[b], target[b])}
      back     == {b \in restored \cap TaskBlock : T[b] # Absent /\ ~T[b].live}
      T1 == [b \in TaskBlock |-> IF b \in back THEN [T[b] EXCEPT !.live = TRUE] ELSE T[b]]
      G1 == [g \in Group |-> IF \E b \in back : T[b].group = g THEN "live" ELSE G[g]]
  IN  /\ t.op = "restore" /\ t.pc \in {"unlink", "checkpoint", "commit"}
      /\ t.user \in Teacher
      /\ \A b \in restored \cup removed : HasRoom(B[b])
      /\ Shown(t, B) = [b \in Block |->
           CASE b \in restored -> Republish(B[b], target[b], t.user, FALSE)
             [] b \in removed  -> Republish(B[b], HeadVersion(B[b]), t.user, TRUE)
             [] OTHER          -> B[b]]
      /\ t.unlinked = removed
      /\ IF t.pc = "unlink" THEN ShownTasks(t, T) = T1 /\ ShownGroups(t, G) = G1
         ELSE Unlinks(removed, Shown(t, B), T1, G1, ShownTasks(t, T), ShownGroups(t, G))
      /\ Checkpointed(t, B, K)

Restores(t, B, T, G, K) == \E i \in 1..Len(K) : RestoresTo(K[i], t, B, T, G, K)

Rebalances(t, B) ==
  /\ t.op = "rebalance" /\ t.pc = "commit"
  /\ TasksKept(t) /\ t.checkpoint = Kept
  /\ \E f \in [Position -> Position] :
       /\ \A p, q \in Position :
            /\ \E b \in Block, v \in Version : B[b][v] # Absent /\ B[b][v].position = p
            /\ \E b \in Block, v \in Version : B[b][v] # Absent /\ B[b][v].position = q
            /\ p < q
            => f[p] < f[q]
       /\ Shown(t, B) = [b \in Block |-> Remap(B[b], f)]

Fits(t, B, T, G, K) ==
  \/ t = NoTxn
  \/ Waits(t)
  \/ Begins(t)
  \/ Creates(t, B)
  \/ CopiesNext(t, B)
  \/ WritesNext(t, B)
  \/ Edits(t, B)
  \/ UpdatesDraft(t, B)
  \/ UpdatesTask(t, B, K)
  \/ Discards(t, B)
  \/ PublishesAll(t, B, T, G, K)
  \/ Restores(t, B, T, G, K)
  \/ Rebalances(t, B)

TxTypeOK == txn \in [Connection -> Txn]

LocksApart ==
  \A c, o \in Connection : c # o => txn[c].locked \cap txn[o].locked = {}

RowsApart ==
  \A c, o \in Connection : c # o =>
    \A b \in Block, v \in Version : Kept \in {txn[c].rows[b][v], txn[o].rows[b][v]}

CourseThere == (\E c \in Connection : Active(c)) => ~courseDeleted

AllFit == \A c \in Connection : Fits(txn[c], blocks, tasks, groups, checkpoints)

TxInv ==
  /\ IInv /\ Recorded
  /\ TxTypeOK /\ LockInv /\ LocksApart /\ RowsApart /\ CourseThere
  /\ AllFit

-----------------------------------------------------------------------------
(* Transactions                                                            *)

LEMMA NoTxnFacts ==
  /\ NoTxn \in Txn /\ Unwritten(NoTxn)
  /\ NoTxn.pc = "idle" /\ NoTxn.locked = {} /\ NoTxn.unlinked = {} /\ NoTxn.block = None
<1>1. NoRows \in [Block -> [Version -> VersionRow \cup {Absent, Kept}]]
  BY DEF NoRows
<1> QED
  BY <1>1 DEF NoTxn, Txn, Steps, Unwritten, TasksKept

\* The first statement of an operation, and the operations it may be of.
LEMMA FirstSteps ==
  ASSUME NEW op \in SharedOp \cup ExclusiveOp
  PROVE  /\ FirstStep[op] \in {"insert new", "ensure draft", "discard", "read drafts",
                               "restore", "rebalance"}
         /\ FirstStep[op] = "insert new" => op = "create"
         /\ FirstStep[op] = "ensure draft" => op \in {"patch", "move", "delete", "update"}
         /\ FirstStep[op] = "discard" => op = "discard"
         /\ FirstStep[op] = "read drafts" => op = "publish"
         /\ FirstStep[op] = "restore" => op = "restore"
         /\ FirstStep[op] = "rebalance" => op = "rebalance"
<1>1. CASE op \in SharedOp
  <2>1. /\ FirstStep["create"] = "insert new" /\ FirstStep["discard"] = "discard"
        /\ FirstStep["patch"] = "ensure draft" /\ FirstStep["move"] = "ensure draft"
        /\ FirstStep["delete"] = "ensure draft"
    BY DEF FirstStep
  <2>2. QED
    BY <1>1, <2>1 DEF SharedOp
<1>2. CASE op \in ExclusiveOp
  <2>1. /\ FirstStep["update"] = "ensure draft" /\ FirstStep["publish"] = "read drafts"
        /\ FirstStep["restore"] = "restore" /\ FirstStep["rebalance"] = "rebalance"
    BY DEF FirstStep
  <2>2. QED
    BY <1>2, <2>1 DEF ExclusiveOp
<1>3. QED
  BY <1>1, <1>2

\* The stage of a transaction follows from its next statement.
LEMMA StageOf ==
  ASSUME NEW t, NEW B, NEW T, NEW G, NEW K, Fits(t, B, T, G, K)
  PROVE  /\ t.pc = "idle" => t = NoTxn
         /\ t.pc = "lock" => Waits(t)
         /\ t.pc \in {"insert new", "ensure draft", "discard", "read drafts", "restore",
                      "rebalance"} => Begins(t)
         /\ t.pc = "create task" => Creates(t, B)
         /\ t.pc = "insert draft" => CopiesNext(t, B)
         /\ t.pc = "write" => WritesNext(t, B)
         /\ t.pc = "publish" => UpdatesTask(t, B, K) \/ PublishesAll(t, B, T, G, K)
         /\ t.pc = "unlink" => \/ Edits(t, B) \/ Discards(t, B)
                               \/ PublishesAll(t, B, T, G, K) \/ Restores(t, B, T, G, K)
         /\ t.pc = "checkpoint" => \/ UpdatesTask(t, B, K) \/ PublishesAll(t, B, T, G, K)
                                   \/ Restores(t, B, T, G, K)
         /\ t.pc = "commit" => \/ Creates(t, B) \/ Edits(t, B) \/ UpdatesDraft(t, B)
                               \/ UpdatesTask(t, B, K) \/ Discards(t, B)
                               \/ PublishesAll(t, B, T, G, K) \/ Restores(t, B, T, G, K)
                               \/ Rebalances(t, B)
<1>1. CASE t = NoTxn
  BY <1>1, NoTxnFacts
<1>2. CASE Begins(t)
  <2>1. t.pc \in {"insert new", "ensure draft", "discard", "read drafts",
                  "restore", "rebalance"}
    BY <1>2, FirstSteps DEF Begins
  <2>2. QED
    BY <1>2, <2>1
<1>3. CASE Waits(t)
  BY <1>3 DEF Waits
<1>4. CASE Creates(t, B)
  BY <1>4 DEF Creates
<1>5. CASE CopiesNext(t, B)
  BY <1>5 DEF CopiesNext
<1>6. CASE WritesNext(t, B)
  BY <1>6 DEF WritesNext
<1>7. CASE Edits(t, B)
  BY <1>7 DEF Edits
<1>8. CASE UpdatesDraft(t, B)
  BY <1>8 DEF UpdatesDraft
<1>9. CASE UpdatesTask(t, B, K)
  BY <1>9 DEF UpdatesTask
<1>10. CASE Discards(t, B)
  BY <1>10 DEF Discards
<1>11. CASE PublishesAll(t, B, T, G, K)
  BY <1>11 DEF PublishesAll
<1>12. CASE Restores(t, B, T, G, K)
  BY <1>12 DEF Restores, RestoresTo
<1>13. CASE Rebalances(t, B)
  BY <1>13 DEF Rebalances
<1>14. QED
  BY <1>1, <1>2, <1>3, <1>4, <1>5, <1>6, <1>7, <1>8, <1>9, <1>10, <1>11, <1>12, <1>13
  DEF Fits

\* A transaction that does not hold the course row has written and locked
\* nothing.
LEMMA InactiveUnwritten ==
  ASSUME NEW t, NEW B, NEW T, NEW G, NEW K, Fits(t, B, T, G, K), t.pc \in {"idle", "lock"}
  PROVE  t.rows = NoRows /\ t.locked = {}
<1>1. t = NoTxn \/ Waits(t)
  BY StageOf
<1> QED
  BY <1>1, NoTxnFacts DEF Waits, Unwritten

\* A statement that fits, takes no lock another has, and writes no row another
\* has written, keeps the invariant.
LEMMA GoesInv ==
  ASSUME TxInv, LockInv', NEW c \in Connection, NEW t \in Txn, Goes(c, t),
         Fits(t, blocks, tasks, groups, checkpoints),
         \A o \in Others(c) : t.locked \cap txn[o].locked = {},
         \A o \in Others(c), b \in Block, v \in Version :
           t.rows[b][v] = Kept \/ txn[o].rows[b][v] = Kept,
         ~courseDeleted \/ t.pc \in {"idle", "lock"}
  PROVE  TxInv'
<1>1. /\ blocks' = blocks /\ tasks' = tasks /\ groups' = groups
      /\ checkpoints' = checkpoints /\ courseDeleted' = courseDeleted
      /\ txn' = [txn EXCEPT ![c] = t]
  BY DEF Goes, vars
<1>2. txn \in [Connection -> Txn]
  BY DEF TxInv, TxTypeOK
<1>3. txn'[c] = t /\ \A o \in Connection : o # c => txn'[o] = txn[o]
  BY <1>1, <1>2
<1>4. IInv'
  BY <1>1, NextIInv DEF TxInv, vars
<1>5. Recorded'
  BY <1>1 DEF TxInv, Recorded
<1>6. TxTypeOK'
  BY <1>1, <1>2 DEF TxTypeOK
<1>7. LocksApart'
  BY <1>3 DEF TxInv, LocksApart, Others
<1>8. RowsApart'
  BY <1>3 DEF TxInv, RowsApart, Others
<1>9. CourseThere'
  BY <1>1, <1>3 DEF TxInv, CourseThere, Active
<1>10. AllFit'
  <2> SUFFICES ASSUME NEW o \in Connection
               PROVE  Fits(txn'[o], blocks', tasks', groups', checkpoints')
    BY DEF AllFit
  <2>1. CASE o = c
    BY <1>1, <1>3, <2>1
  <2>2. CASE o # c
    BY <1>1, <1>3, <2>2 DEF TxInv, AllFit
  <2>3. QED
    BY <2>1, <2>2
<1>11. QED
  BY <1>4, <1>5, <1>6, <1>7, <1>8, <1>9, <1>10 DEF TxInv

\* The same for a statement that takes no lock and writes no row.
LEMMA GoesOnInv ==
  ASSUME TxInv, LockInv', NEW c \in Connection, Active(c), NEW t \in Txn, Goes(c, t),
         Fits(t, blocks, tasks, groups, checkpoints),
         t.locked = txn[c].locked, t.rows = txn[c].rows
  PROVE  TxInv'
<1>1. \A o \in Others(c) : t.locked \cap txn[o].locked = {}
  BY DEF TxInv, LocksApart, Others
<1>2. \A o \in Others(c), b \in Block, v \in Version :
        t.rows[b][v] = Kept \/ txn[o].rows[b][v] = Kept
  BY DEF TxInv, RowsApart, Others
<1>3. ~courseDeleted
  BY DEF TxInv, CourseThere
<1> QED
  BY <1>1, <1>2, <1>3, GoesInv

\* One that starts from nothing and neither locks nor writes.
LEMMA GoesAnewInv ==
  ASSUME TxInv, LockInv', NEW c \in Connection, NEW t \in Txn, Goes(c, t),
         Fits(t, blocks, tasks, groups, checkpoints),
         t.locked = {}, t.rows = NoRows,
         ~courseDeleted \/ t.pc \in {"idle", "lock"}
  PROVE  TxInv'
<1>1. \A o \in Others(c), b \in Block, v \in Version :
        t.rows[b][v] = Kept \/ txn[o].rows[b][v] = Kept
  BY DEF NoRows
<1> QED
  BY <1>1, GoesInv

-----------------------------------------------------------------------------
(* Beginning                                                               *)

\* What begins, and how: nothing is written yet, and no block is locked.
LEMMA LockCourseInv ==
  ASSUME TxInv, LockInv', NEW c \in Connection, NEW u \in Teacher,
         NEW op \in SharedOp \cup ExclusiveOp, LockCourse(c, u, op)
  PROVE  TxInv'
<1> DEFINE t == [NoTxn EXCEPT !.pc = FirstStep[op], !.op = op, !.user = u]
<1>1. /\ t.pc = FirstStep[op] /\ t.op = op /\ t.user = u /\ t.rows = NoRows
      /\ t.locked = {} /\ t.unlinked = {} /\ t.block = None /\ Unwritten(t)
  BY NoTxnFacts DEF Unwritten, TasksKept, Txn
<1>2. t \in Txn
  <2>1. PICK step : step = FirstStep[op]
    OBVIOUS
  <2>2. step \in Steps
    BY <2>1, FirstSteps DEF Steps
  <2>3. t = [NoTxn EXCEPT !.pc = step, !.op = op, !.user = u]
    BY <2>1
  <2> HIDE DEF t
  <2>4. QED
    BY <2>2, <2>3, NoTxnFacts DEF Txn
<1>3. Goes(c, t) /\ ~courseDeleted /\ op # "update"
  BY DEF LockCourse
<1> HIDE DEF t
<1>4. Fits(t, blocks, tasks, groups, checkpoints)
  BY <1>1, <1>3 DEF Fits, Begins
<1> QED
  BY <1>1, <1>2, <1>3, <1>4, GoesAnewInv

LEMMA GetTaskBlockInv ==
  ASSUME TxInv, LockInv', NEW c \in Connection, NEW u \in Teacher,
         NEW b \in TaskBlock, GetTaskBlock(c, u, b)
  PROVE  TxInv'
<1> DEFINE t == [NoTxn EXCEPT !.pc = "lock", !.op = "update", !.user = u, !.block = b]
<1>1. /\ t.pc = "lock" /\ t.op = "update" /\ t.user = u /\ t.block = b /\ t.rows = NoRows
      /\ t.locked = {} /\ t.unlinked = {} /\ Unwritten(t)
  BY NoTxnFacts DEF Unwritten, TasksKept, Txn
<1>2. t \in Txn
  <2>1. b \in Block
    BY ConstantsAssumption
  <2>2. PICK step : step = "lock"
    OBVIOUS
  <2>3. PICK update : update = "update"
    OBVIOUS
  <2>4. step \in Steps /\ update \in SharedOp \cup ExclusiveOp
    BY <2>2, <2>3 DEF Steps, ExclusiveOp
  <2>5. t = [NoTxn EXCEPT !.pc = step, !.op = update, !.user = u, !.block = b]
    BY <2>2, <2>3
  <2> HIDE DEF t
  <2>6. QED
    BY <2>1, <2>4, <2>5, NoTxnFacts DEF Txn
<1>3. Goes(c, t)
  BY DEF GetTaskBlock
<1> HIDE DEF t
<1>4. Fits(t, blocks, tasks, groups, checkpoints)
  BY <1>1 DEF Fits, Waits
<1> QED
  BY <1>1, <1>2, <1>3, <1>4, GoesAnewInv

LEMMA LockCourseForUpdateInv ==
  ASSUME TxInv, LockInv', NEW c \in Connection, LockCourseForUpdate(c)
  PROVE  TxInv'
<1> DEFINE t == [txn[c] EXCEPT !.pc = FirstStep["update"]]
<1>0. txn[c] \in Txn /\ Waits(txn[c])
  BY StageOf DEF TxInv, TxTypeOK, AllFit, LockCourseForUpdate
<1>1. /\ t.pc = FirstStep["update"] /\ t.op = "update" /\ t.user = txn[c].user
      /\ t.block = txn[c].block /\ t.rows = NoRows
      /\ t.locked = {} /\ t.unlinked = {} /\ Unwritten(t)
  BY <1>0 DEF Unwritten, TasksKept, Txn, Waits
<1>2. t \in Txn
  BY <1>0, FirstSteps DEF Txn, Steps, ExclusiveOp
<1>3. Goes(c, t) /\ ~courseDeleted
  BY DEF LockCourseForUpdate
<1> HIDE DEF t
<1>4. Fits(t, blocks, tasks, groups, checkpoints)
  BY <1>0, <1>1 DEF Fits, Begins, Waits, ExclusiveOp
<1> QED
  BY <1>1, <1>2, <1>3, <1>4, GoesAnewInv

-----------------------------------------------------------------------------
(* What a transaction sees and writes                                      *)

LEMMA SeesShown ==
  ASSUME NEW c
  PROVE  /\ Sees(c) = Shown(txn[c], blocks)
         /\ SeesTasks(c) = ShownTasks(txn[c], tasks)
         /\ SeesGroups(c) = ShownGroups(txn[c], groups)
BY DEF Sees, Shown, SeesTasks, ShownTasks, SeesGroups, ShownGroups

LEMMA KeptFacts ==
  /\ Kept \notin VersionRow /\ Kept # Absent /\ Kept \notin Task
  /\ \A x : Over(Kept, x) = x
  /\ \A r, x : r # Kept => Over(r, x) = r
BY KeptAssumption DEF Over

\* Without rows written, the stacks are the committed ones.
LEMMA UnwrittenShown ==
  ASSUME NEW t, NEW B \in [Block -> Stack], t.rows = NoRows
  PROVE  Shown(t, B) = B
<1>1. \A b \in Block : \A v \in Version : Over(t.rows[b][v], B[b][v]) = B[b][v]
  BY KeptFacts DEF NoRows
<1>2. \A b \in Block : B[b] = [v \in Version |-> Over(t.rows[b][v], B[b][v])]
  BY <1>1 DEF Stack
<1>3. QED
  BY <1>2 DEF Shown

LEMMA ShownType ==
  ASSUME NEW t \in Txn, NEW B \in [Block -> Stack]
  PROVE  Shown(t, B) \in [Block -> Stack]
<1>1. \A b \in Block, v \in Version : Over(t.rows[b][v], B[b][v]) \in VersionRow \cup {Absent}
  BY DEF Txn, Over, Stack
<1>2. QED
  BY <1>1 DEF Shown, Stack

\* The rows that make the stack of block b what it is written to be.
LEMMA WritesShown ==
  ASSUME TxInv, NEW c \in Connection, NEW b \in Block, NEW s \in Stack, NEW t,
         t.rows = Writes(c, b, s)
  PROVE  /\ Shown(t, blocks) = [Sees(c) EXCEPT ![b] = s]
         /\ t.rows \in [Block -> [Version -> VersionRow \cup {Absent, Kept}]]
         /\ \A v \in Version : t.rows[b][v] # Kept => s[v] # blocks[b][v]
         /\ \A a \in Block : a # b => t.rows[a] = txn[c].rows[a]
<1>1. txn[c] \in Txn /\ blocks \in [Block -> Stack]
  BY DEF TxInv, TxTypeOK, IInv, StacksSound
<1>2. PICK rows : rows = txn[c].rows
  OBVIOUS
<1>3. rows \in [Block -> [Version -> VersionRow \cup {Absent, Kept}]]
  BY <1>1, <1>2 DEF Txn
<1>4. PICK w : w = [v \in Version |-> IF s[v] = blocks[b][v] THEN Kept ELSE s[v]]
  OBVIOUS
<1>5. t.rows = [rows EXCEPT ![b] = w]
  BY <1>2, <1>4 DEF Writes
<1>6. w \in [Version -> VersionRow \cup {Absent, Kept}]
  BY <1>4 DEF Stack
<1>7. t.rows[b] = w /\ \A a \in Block : a # b => t.rows[a] = rows[a]
  BY <1>3, <1>5
<1>8. \A v \in Version : Over(w[v], blocks[b][v]) = s[v]
  BY <1>4, KeptFacts DEF Stack, Over
<1>9. [v \in Version |-> Over(w[v], blocks[b][v])] = s
  BY <1>8 DEF Stack
<1>10. Shown(t, blocks) = [Sees(c) EXCEPT ![b] = s]
  BY <1>2, <1>7, <1>9 DEF Shown, Sees
<1>11. QED
  BY <1>2, <1>3, <1>4, <1>5, <1>6, <1>7, <1>10

LEMMA NoRowsOnly ==
  ASSUME NEW b, NEW d
  PROVE  NoRows = Only(b, d, Kept)
BY DEF NoRows, Only

\* A transaction that writes one row of a block.
LEMMA OnlyWritten ==
  ASSUME TxInv, NEW c \in Connection, NEW b \in Block, NEW d \in Version, NEW old,
         txn[c].rows = Only(b, d, old), NEW row
  PROVE  Writes(c, b, [Sees(c)[b] EXCEPT ![d] = row]) =
           Only(b, d, IF row = blocks[b][d] THEN Kept ELSE row)
<1>1. PICK s : s = [Sees(c)[b] EXCEPT ![d] = row]
  OBVIOUS
<1>2. \A v \in Version : v # d => Sees(c)[b][v] = blocks[b][v]
  BY KeptFacts DEF Sees, Only
<1>3. s[d] = row /\ \A v \in Version : v # d => s[v] = blocks[b][v]
  <2>1. DOMAIN Sees(c)[b] = Version
    BY DEF Sees
  <2>2. QED
    BY <1>1, <1>2, <2>1
<1>4. PICK new : new = IF row = blocks[b][d] THEN Kept ELSE row
  OBVIOUS
<1>5. [v \in Version |-> IF s[v] = blocks[b][v] THEN Kept ELSE s[v]] =
      [v \in Version |-> IF v = d THEN new ELSE Kept]
  BY <1>3, <1>4
<1>6. [txn[c].rows EXCEPT ![b] = [v \in Version |-> IF v = d THEN new ELSE Kept]]
        = Only(b, d, new)
  BY DEF Only
<1>7. Writes(c, b, s) = Only(b, d, new)
  BY <1>5, <1>6 DEF Writes
<1>8. QED
  BY <1>1, <1>4, <1>7

LEMMA OnlyFacts ==
  ASSUME NEW b, NEW d, NEW row
  PROVE  /\ \A a \in Block, v \in Version :
              Only(b, d, row)[a][v] = IF a = b /\ v = d THEN row ELSE Kept
         /\ row \in VersionRow \cup {Absent, Kept} =>
              Only(b, d, row) \in [Block -> [Version -> VersionRow \cup {Absent, Kept}]]
BY DEF Only

\* What is seen with one row written.
LEMMA OnlyShown ==
  ASSUME NEW B \in [Block -> Stack], NEW t, NEW b \in Block, NEW d \in Version, NEW row,
         t.rows = Only(b, d, row)
  PROVE  Shown(t, B) = [B EXCEPT ![b] = [B[b] EXCEPT ![d] = Over(row, B[b][d])]]
<1>1. \A a \in Block : a # b => [v \in Version |-> Over(t.rows[a][v], B[a][v])] = B[a]
  BY KeptFacts, OnlyFacts DEF Stack
<1>2. [v \in Version |-> Over(t.rows[b][v], B[b][v])] = [B[b] EXCEPT ![d] = Over(row, B[b][d])]
  BY KeptFacts, OnlyFacts DEF Stack
<1>3. QED
  BY <1>1, <1>2 DEF Shown

\* Only one row is written, and nobody else has written it.
LEMMA OnlyApart ==
  ASSUME NEW c \in Connection, NEW b \in Block, NEW d \in Version, NEW row,
         RowFree(c, b, d)
  PROVE  \A o \in Others(c), a \in Block, v \in Version :
           Only(b, d, row)[a][v] = Kept \/ txn[o].rows[a][v] = Kept
BY OnlyFacts DEF RowFree

-----------------------------------------------------------------------------
(* Creating a block                                                        *)

\* A new block is a first draft on an empty stack.
LEMMA InsertNewBlockInv ==
  ASSUME TxInv, LockInv', NEW c \in Connection, NEW b \in Block, NEW x \in Data,
         NEW p \in Position, InsertNewBlock(c, b, x, p)
  PROVE  TxInv'
<1>1. PICK row : row = [data |-> x, position |-> p, draft |-> TRUE, deleted |-> FALSE,
                        createdBy |-> txn[c].user, base |-> NoBase]
  OBVIOUS
<1>2. PICK step : step = IF b \in TaskBlock THEN "create task" ELSE "commit"
  OBVIOUS
<1> DEFINE t == [txn[c] EXCEPT !.block = b, !.rows[b][1] = row, !.pc = step]
<1>3. /\ Goes(c, t) /\ txn[c].pc = "insert new" /\ blocks[b] = EmptyStack
      /\ \A v \in Version : RowFree(c, b, v)
  BY <1>1, <1>2 DEF InsertNewBlock
<1>4. txn[c] \in Txn /\ Begins(txn[c])
  BY <1>3, StageOf DEF TxInv, TxTypeOK, AllFit
<1>5. txn[c].op = "create" /\ txn[c].user \in Teacher
  BY <1>3, <1>4, FirstSteps DEF Begins
<1>6. row \in VersionRow
  BY <1>1, <1>5 DEF VersionRow
<1>7. /\ t.pc = step /\ t.op = "create" /\ t.user = txn[c].user /\ t.block = b
      /\ t.locked = {} /\ t.checkpoint = Kept
      /\ t.rows = Only(b, 1, row)
  <2>1. [NoRows EXCEPT ![b][1] = row] = Only(b, 1, row)
    BY VersionFacts DEF NoRows, Only
  <2>2. txn[c].rows = NoRows
    BY <1>4 DEF Begins, Unwritten
  <2>3. t.rows = [txn[c].rows EXCEPT ![b][1] = row]
    BY <1>4 DEF Txn
  <2>4. t.rows = Only(b, 1, row)
    BY <2>1, <2>2, <2>3
  <2>5. /\ t.pc = step /\ t.op = "create" /\ t.user = txn[c].user /\ t.block = b
        /\ t.locked = {} /\ t.checkpoint = Kept
    BY <1>4, <1>5 DEF Begins, Unwritten, Txn
  <2>6. QED
    BY <2>4, <2>5
<1>8. t \in Txn
  <2>1. Only(b, 1, row) \in [Block -> [Version -> VersionRow \cup {Absent, Kept}]]
    BY <1>6, OnlyFacts
  <2>2. PICK rows : rows = t.rows
    OBVIOUS
  <2>3. t = [txn[c] EXCEPT !.block = b, !.rows = rows, !.pc = step]
    BY <1>4, <2>2 DEF Txn
  <2>4. step \in Steps
    BY <1>2 DEF Steps
  <2> HIDE DEF t
  <2>5. QED
    BY <1>4, <1>7, <2>1, <2>2, <2>3, <2>4 DEF Txn
<1> HIDE DEF t
<1>9. Creates(t, blocks)
  BY <1>1, <1>2, <1>3, <1>5, <1>7 DEF Creates
<1>10. ~courseDeleted
  BY <1>3 DEF TxInv, CourseThere, Active
<1>11. \A o \in Others(c), a \in Block, v \in Version :
         t.rows[a][v] = Kept \/ txn[o].rows[a][v] = Kept
  <2>1. 1 \in Version /\ RowFree(c, b, 1)
    BY <1>3, VersionFacts
  <2>2. \A o \in Others(c), a \in Block, v \in Version :
          Only(b, 1, row)[a][v] = Kept \/ txn[o].rows[a][v] = Kept
    BY <2>1, OnlyApart
  <2>3. QED
    BY <1>7, <2>2
<1>12. QED
  BY <1>3, <1>7, <1>8, <1>9, <1>10, <1>11, GoesInv DEF Fits

LEMMA InsertTaskInv ==
  ASSUME TxInv, LockInv', NEW c \in Connection, NEW g \in Group, NEW name \in TaskName,
         InsertTask(c, g, name)
  PROVE  TxInv'
<1>1. PICK taskRow : taskRow = [group |-> g, name |-> name, live |-> TRUE]
  OBVIOUS
<1>2. PICK groupRow : groupRow = IF groups[g] = "none" THEN "live" ELSE Kept
  OBVIOUS
<1> DEFINE t == [txn[c] EXCEPT !.taskRows[txn[c].block] = taskRow,
                               !.groupRows[g] = groupRow, !.pc = "commit"]
<1>3. Goes(c, t) /\ txn[c].pc = "create task"
  BY <1>1, <1>2 DEF InsertTask
<1>4. txn[c] \in Txn /\ Creates(txn[c], blocks)
  BY <1>3, StageOf DEF TxInv, TxTypeOK, AllFit
<1>5. /\ t.pc = "commit" /\ t.op = txn[c].op /\ t.user = txn[c].user /\ t.block = txn[c].block
      /\ t.locked = txn[c].locked /\ t.rows = txn[c].rows /\ t.checkpoint = txn[c].checkpoint
  BY <1>4 DEF Txn
<1>6. t \in Txn
  <2>1. taskRow \in Task
    BY <1>1 DEF Task
  <2>2. PICK T : T = [txn[c].taskRows EXCEPT ![txn[c].block] = taskRow]
    OBVIOUS
  <2>3. PICK G : G = [txn[c].groupRows EXCEPT ![g] = groupRow]
    OBVIOUS
  <2>4. T \in [TaskBlock -> Task \cup {Kept}]
    BY <1>4, <2>1, <2>2 DEF Txn
  <2>5. G \in [Group -> {"live", "deleted", Kept}]
    BY <1>2, <1>4, <2>3 DEF Txn
  <2>6. t = [txn[c] EXCEPT !.taskRows = T, !.groupRows = G, !.pc = "commit"]
    BY <1>4, <2>2, <2>3 DEF Txn
  <2>7. "commit" \in Steps
    BY DEF Steps
  <2> HIDE DEF t
  <2>8. QED
    BY <1>4, <2>4, <2>5, <2>6, <2>7 DEF Txn
<1> HIDE DEF t
<1>7. Creates(t, blocks)
  BY <1>4, <1>5 DEF Creates
<1>8. QED
  BY <1>3, <1>5, <1>6, <1>7, GoesOnInv DEF Fits, Active

-----------------------------------------------------------------------------
(* Editing a block in a draft                                              *)

LEMMA StacksOf ==
  ASSUME TxInv
  PROVE  /\ blocks \in [Block -> Stack] /\ \A b \in Block : SoundStack(blocks[b])
         /\ \A c \in Connection : txn[c] \in Txn
BY DEF TxInv, TxTypeOK, IInv, StacksSound

\* ensureDraft finds the draft to edit, or that one must be made.
LEMMA GetOwnDraftInv ==
  ASSUME TxInv, LockInv', NEW c \in Connection, NEW b \in Block, NEW seen \in Version,
         GetOwnDraft(c, b, seen)
  PROVE  TxInv'
<1>1. PICK s : s = blocks[b]
  OBVIOUS
<1>2. PICK u : u = txn[c].user
  OBVIOUS
<1>3. PICK step : step = IF OwnDrafts(s, u) = {} THEN "insert draft" ELSE "write"
  OBVIOUS
<1> DEFINE t == [txn[c] EXCEPT !.block = b, !.seen = seen, !.draft = seen,
                               !.locked = {b}, !.pc = step]
<1>4. txn[c] \in Txn /\ Begins(txn[c]) /\ txn[c].pc = "ensure draft"
  BY StageOf DEF GetOwnDraft, TxInv, TxTypeOK, AllFit
<1>5. txn[c].op \in {"patch", "move", "delete", "update"} /\ u \in Teacher
  BY <1>2, <1>4, FirstSteps DEF Begins
<1>6. Sees(c) = blocks
  BY <1>4, SeesShown, UnwrittenShown, StacksOf DEF Begins, Unwritten
<1>7. /\ Goes(c, t) /\ BlockFree(c, b) /\ txn[c].block \in {None, b}
      /\ \/ OwnDrafts(s, u) = {}
         \/ seen \in OwnDrafts(s, u) /\ ~s[seen].deleted
  BY <1>1, <1>2, <1>3, <1>6 DEF GetOwnDraft
<1>8. txn[c].op = "update" => b \in TaskBlock
  BY <1>4, <1>7, ConstantsAssumption, KeptAssumption DEF Begins
<1>9. /\ t.pc = step /\ t.op = txn[c].op /\ t.user = u /\ t.block = b /\ t.seen = seen
      /\ t.draft = seen /\ t.locked = {b} /\ t.unlinked = {} /\ t.rows = NoRows
      /\ Unwritten(t)
  BY <1>2, <1>4 DEF Begins, Unwritten, TasksKept, Txn
<1>10. t \in Txn
  <2>1. step \in Steps
    BY <1>3 DEF Steps
  <2>2. QED
    BY <1>4, <2>1 DEF Txn
<1> HIDE DEF t
<1>11. Editing(t)
  BY <1>5, <1>8, <1>9 DEF Editing
<1>12. /\ ~courseDeleted
       /\ \A o \in Others(c) : t.locked \cap txn[o].locked = {}
       /\ \A o \in Others(c), a \in Block, v \in Version :
            t.rows[a][v] = Kept \/ txn[o].rows[a][v] = Kept
  <2>1. ~courseDeleted
    BY <1>4 DEF TxInv, CourseThere, Active
  <2>2. \A o \in Others(c) : t.locked \cap txn[o].locked = {}
    BY <1>7, <1>9 DEF BlockFree
  <2>3. \A o \in Others(c), a \in Block, v \in Version :
          t.rows[a][v] = Kept \/ txn[o].rows[a][v] = Kept
    BY <1>9 DEF NoRows
  <2>4. QED
    BY <2>1, <2>2, <2>3
<1>13. CASE OwnDrafts(s, u) = {}
  <2>1. CopiesNext(t, blocks)
    BY <1>1, <1>3, <1>9, <1>11, <1>13 DEF CopiesNext
  <2>2. QED
    BY <2>1, <1>7, <1>10, <1>12, GoesInv DEF Fits
<1>14. CASE OwnDrafts(s, u) # {}
  <2>1. seen \in OwnDrafts(s, u) /\ ~s[seen].deleted
    BY <1>7, <1>14
  <2>2. SoundStack(s)
    BY <1>1, StacksOf
  <2>3. OwnDrafts(s, u) = {seen}
    BY <1>5, <2>1, <2>2 DEF SoundStack
  <2>4. CanDraft(s, u, seen, seen)
    BY <2>1, <2>3 DEF CanDraft
  <2>5. s[seen].draft
    BY <2>1 DEF OwnDrafts
  <2>6. WritesNext(t, blocks)
    BY <1>1, <1>3, <1>9, <1>11, <1>14, <2>1, <2>4, <2>5 DEF WritesNext, Unwritten
  <2>7. QED
    BY <2>6, <1>7, <1>10, <1>12, GoesInv DEF Fits
<1>15. QED
  BY <1>13, <1>14

\* The draft a published version is copied to.
LEMMA CopiedDraft ==
  ASSUME NEW s, SoundStack(s), NEW u \in Teacher, NEW seen \in Published(s),
         NEW n \in Version, \A v \in Present(s) : v < n,
         NEW row, row = Drafted(s, u, seen, n)[n]
  PROVE  /\ n # seen /\ n \notin Present(s) /\ s[n] = Absent
         /\ row \in VersionRow /\ row.draft /\ row.createdBy = u /\ row.base = seen
         /\ row.deleted = s[seen].deleted
         /\ Drafted(s, u, seen, n) = [s EXCEPT ![n] = row]
<1>1. seen \in Version /\ seen \in Present(s) /\ s \in Stack
  BY DEF Published, Present, SoundStack
<1>2. n # seen /\ n \notin Present(s) /\ s[n] = Absent
  BY <1>1, VersionFacts DEF Present
<1>3. PICK copy : copy = [s[seen] EXCEPT !.draft = TRUE, !.createdBy = u, !.base = seen]
  OBVIOUS
<1>4. Drafted(s, u, seen, n) = [s EXCEPT ![n] = copy]
  BY <1>2, <1>3 DEF Drafted
<1>5. row = copy
  BY <1>1, <1>4 DEF Stack
<1>6. s[seen] \in VersionRow
  BY <1>1, RowType
<1>7. /\ copy \in VersionRow /\ copy.draft /\ copy.createdBy = u /\ copy.base = seen
      /\ copy.deleted = s[seen].deleted
  BY <1>1, <1>3, <1>6 DEF VersionRow
<1>8. QED
  BY <1>2, <1>4, <1>5, <1>7

\* ensureDraft makes a draft of the version seen.
LEMMA InsertDraftInv ==
  ASSUME TxInv, LockInv', NEW c \in Connection, NEW n \in Version, InsertDraft(c, n)
  PROVE  TxInv'
<1>1. PICK b : b = txn[c].block
  OBVIOUS
<1>2. PICK u : u = txn[c].user
  OBVIOUS
<1>3. PICK seen : seen = txn[c].seen
  OBVIOUS
<1>4. txn[c] \in Txn /\ CopiesNext(txn[c], blocks) /\ txn[c].pc = "insert draft"
  BY StageOf DEF InsertDraft, TxInv, TxTypeOK, AllFit
<1>5. b \in Block /\ u \in Teacher /\ seen \in Version
  BY <1>1, <1>2, <1>3, <1>4 DEF CopiesNext, Editing
<1>6. PICK s : s = blocks[b]
  OBVIOUS
<1>7. Sees(c) = blocks
  BY <1>4, SeesShown, UnwrittenShown, StacksOf DEF CopiesNext, Unwritten
<1>8. PICK rows : rows = Writes(c, b, Drafted(s, u, seen, n))
  OBVIOUS
<1> DEFINE t == [txn[c] EXCEPT !.rows = rows, !.draft = n, !.pc = "write"]
<1>9. /\ Goes(c, t) /\ seen \in Published(s) /\ ~s[seen].deleted
      /\ IsNext(s, n) /\ RowFree(c, b, n)
  BY <1>1, <1>2, <1>3, <1>6, <1>7, <1>8 DEF InsertDraft
<1>10. SoundStack(s) /\ s \in Stack
  BY <1>5, <1>6, StacksOf
<1>11. OwnDrafts(s, u) = {} /\ \A v \in Present(s) : v < n
  BY <1>1, <1>2, <1>4, <1>6, <1>9 DEF CopiesNext, IsNext
<1>12. PICK row : row = Drafted(s, u, seen, n)[n]
  OBVIOUS
<1>13. /\ n # seen /\ s[n] = Absent /\ row \in VersionRow
       /\ Drafted(s, u, seen, n) = [s EXCEPT ![n] = row]
  BY <1>5, <1>9, <1>10, <1>11, <1>12, CopiedDraft
<1>14. rows = Only(b, n, row)
  <2>1. txn[c].rows = Only(b, n, Kept)
    BY <1>4, NoRowsOnly DEF CopiesNext, Unwritten
  <2>2. row # blocks[b][n]
    BY <1>6, <1>13, ConstantsAssumption
  <2>3. Writes(c, b, [Sees(c)[b] EXCEPT ![n] = row]) = Only(b, n, row)
    BY <1>5, <2>1, <2>2, OnlyWritten
  <2>4. QED
    BY <1>6, <1>7, <1>8, <1>13, <2>3
<1>15. rows \in [Block -> [Version -> VersionRow \cup {Absent, Kept}]]
  BY <1>13, <1>14, OnlyFacts
<1>16. /\ t.pc = "write" /\ t.op = txn[c].op /\ t.user = u /\ t.block = b /\ t.seen = seen
       /\ t.draft = n /\ t.locked = txn[c].locked /\ t.unlinked = txn[c].unlinked
       /\ t.rows = rows
       /\ TasksKept(t) /\ t.checkpoint = Kept
  BY <1>1, <1>2, <1>3, <1>4 DEF CopiesNext, Unwritten, TasksKept, Txn
<1>17. t \in Txn
  BY <1>4, <1>15 DEF Txn, Steps
<1> HIDE DEF t
<1>18. Editing(t)
  BY <1>1, <1>2, <1>3, <1>4, <1>16 DEF Editing, CopiesNext
<1>19. CanEdit(s, u, seen, n) /\ CanDraft(s, u, seen, n)
  BY <1>9, <1>11 DEF CanEdit, CanDraft
<1>20. WritesNext(t, blocks)
  BY <1>6, <1>12, <1>13, <1>14, <1>16, <1>18, <1>19, <1>4 DEF WritesNext, CopiesNext
<1>21. \A o \in Others(c), a \in Block, v \in Version :
         t.rows[a][v] = Kept \/ txn[o].rows[a][v] = Kept
  BY <1>5, <1>9, <1>14, <1>16, OnlyApart
<1>22. \A o \in Others(c) : t.locked \cap txn[o].locked = {}
  BY <1>16 DEF TxInv, LocksApart, Others
<1>23. ~courseDeleted
  BY <1>4 DEF TxInv, CourseThere, Active
<1>24. QED
  BY <1>9, <1>17, <1>20, <1>21, <1>22, <1>23, GoesInv DEF Fits

\* What a statement makes of a draft: its author and base stay, and it is
\* deleted only if it has a base.
LEMMA EditedFacts ==
  ASSUME NEW c, txn[c].op \in {"patch", "move", "delete", "update"},
         NEW row \in VersionRow, row.draft, ~row.deleted, NEW new \in Edited(c, row)
  PROVE  /\ new = Absent => row.base = NoBase
         /\ \/ new = Absent
            \/ /\ new \in VersionRow /\ new.draft
               /\ new.createdBy = row.createdBy /\ new.base = row.base
               /\ new.deleted => new.base # NoBase
         /\ txn[c].op = "update" => \E x \in Data : new = [row EXCEPT !.data = x]
         /\ txn[c].op # "delete" => new \in VersionRow /\ ~new.deleted
<1>1. CASE txn[c].op = "patch"
  <2>1. new = row \/ \E x \in Data : new = [row EXCEPT !.data = x]
    BY <1>1 DEF Edited
  <2>2. QED
    BY <1>1, <2>1, ConstantsAssumption DEF VersionRow
<1>2. CASE txn[c].op = "update"
  <2>1. \E x \in Data : new = [row EXCEPT !.data = x]
    BY <1>2 DEF Edited
  <2>2. QED
    BY <1>2, <2>1, ConstantsAssumption DEF VersionRow
<1>3. CASE txn[c].op = "move"
  <2>1. \E p \in Position : new = [row EXCEPT !.position = p]
    BY <1>3 DEF Edited
  <2>2. QED
    BY <1>3, <2>1, ConstantsAssumption DEF VersionRow
<1>4. CASE txn[c].op = "delete"
  <2>1. \/ row.base = NoBase /\ new = Absent
        \/ row.base # NoBase /\ new = [row EXCEPT !.deleted = TRUE]
    BY <1>4 DEF Edited
  <2>2. CASE row.base = NoBase /\ new = Absent
    BY <1>4, <2>2
  <2>3. CASE row.base # NoBase /\ new = [row EXCEPT !.deleted = TRUE]
    <3>1. /\ new \in VersionRow /\ new.draft /\ new.createdBy = row.createdBy
          /\ new.base = row.base
      BY <2>3 DEF VersionRow
    <3>2. QED
      BY <1>4, <2>3, <3>1, ConstantsAssumption
  <2>4. QED
    BY <2>1, <2>2, <2>3
<1>5. QED
  BY <1>1, <1>2, <1>3, <1>4

\* The row an edit leaves of the draft it found or made.
LEMMA WrittenRow ==
  ASSUME NEW c, txn[c].op \in {"patch", "move", "delete", "update"},
         NEW s, SoundStack(s), NEW u \in Teacher, NEW seen \in Version, NEW d \in Version,
         NEW old,
         \/ d = seen /\ old = s[d] /\ (old # Absent => old.draft /\ ~old.deleted)
         \/ d # seen /\ CanEdit(s, u, seen, d) /\ old = Drafted(s, u, seen, d)[d],
         NEW row \in IF old = Absent THEN {Absent} ELSE Edited(c, old)
  PROVE  /\ row \in VersionRow \cup {Absent}
         /\ row = s[d] \/ EditedRow(s, seen, d, row)
         /\ old \in VersionRow \cup {Absent}
<1>0. s \in Stack
  BY DEF SoundStack
<1>1. CASE old = Absent
  <2>1. d = seen
    <3>1. ASSUME d # seen  PROVE FALSE
      <4>1. seen \in Published(s) /\ ~s[seen].deleted /\ \A v \in Present(s) : v < d
        BY <3>1 DEF CanEdit
      <4>2. old \in VersionRow
        BY <3>1, <4>1, CopiedDraft
      <4>3. QED
        BY <1>1, <4>2, ConstantsAssumption
    <3>2. QED
      BY <3>1
  <2>2. QED
    BY <1>1, <2>1
<1>2. CASE old # Absent /\ d = seen
  <2>1. d \in Present(s) /\ old = s[d] /\ old.draft /\ ~old.deleted
    BY <1>2 DEF Present
  <2>2. old \in VersionRow
    BY <1>0, <2>1, RowType
  <2>3. PICK w : w = old.createdBy
    OBVIOUS
  <2>4. w \in Teacher /\ d \in OwnDrafts(s, w)
    BY <2>1, <2>2, <2>3 DEF VersionRow, OwnDrafts
  <2>5. OwnDrafts(s, w) = {d}
    BY <2>4 DEF SoundStack
  <2>6. CanEdit(s, w, seen, d) /\ Drafted(s, w, seen, d)[d] = old
    BY <1>2, <2>1, <2>5 DEF CanEdit, Drafted
  <2>7. /\ row = Absent => old.base = NoBase
        /\ \/ row = Absent
           \/ /\ row \in VersionRow /\ row.draft /\ row.createdBy = w /\ row.base = old.base
              /\ row.deleted => row.base # NoBase
    BY <1>2, <2>1, <2>2, <2>3, EditedFacts
  <2>8. CASE row = Absent
    BY <1>2, <2>1, <2>2, <2>7, <2>8 DEF EditedRow
  <2>9. CASE row # Absent
    BY <2>2, <2>6, <2>7, <2>9 DEF EditedRow
  <2>10. QED
    BY <2>8, <2>9
<1>3. CASE old # Absent /\ d # seen
  <2>1. /\ CanEdit(s, u, seen, d) /\ old = Drafted(s, u, seen, d)[d]
        /\ seen \in Published(s) /\ ~s[seen].deleted /\ \A v \in Present(s) : v < d
    BY <1>3 DEF CanEdit
  <2>2. /\ old \in VersionRow /\ old.draft /\ old.createdBy = u /\ old.base = seen
        /\ old.deleted = s[seen].deleted
    BY <2>1, CopiedDraft
  <2>3. old.base # NoBase
    BY <2>2, VersionFacts
  <2>4. /\ row \in VersionRow /\ row.draft /\ row.createdBy = u /\ row.base = old.base
        /\ row.deleted => row.base # NoBase
    BY <1>3, <2>1, <2>2, <2>3, EditedFacts
  <2>5. QED
    BY <2>1, <2>2, <2>4 DEF EditedRow
<1>4. QED
  BY <1>1, <1>2, <1>3

LEMMA AfterWriteOf ==
  ASSUME NEW c, txn[c].op \in {"patch", "move", "delete", "update"}
  PROVE  /\ txn[c].op # "update" => AfterWrite(c) \in {"unlink", "commit"}
         /\ txn[c].op = "update" =>
              AfterWrite(c) = IF txn[c].draft # txn[c].seen THEN "publish" ELSE "commit"
BY DEF AfterWrite, UnlinkOf

\* The draft is edited, or was discarded meanwhile and is left alone.
LEMMA WriteDraftInv ==
  ASSUME TxInv, LockInv', NEW c \in Connection, WriteDraft(c)
  PROVE  TxInv'
<1>1. PICK b : b = txn[c].block
  OBVIOUS
<1>2. PICK u : u = txn[c].user
  OBVIOUS
<1>3. PICK seen : seen = txn[c].seen
  OBVIOUS
<1>4. PICK d : d = txn[c].draft
  OBVIOUS
<1>5. txn[c] \in Txn /\ WritesNext(txn[c], blocks) /\ txn[c].pc = "write"
  BY StageOf DEF WriteDraft, TxInv, TxTypeOK, AllFit
<1>6. /\ b \in Block /\ u \in Teacher /\ seen \in Version /\ d \in Version
      /\ txn[c].op \in {"patch", "move", "delete", "update"} /\ txn[c].locked = {b}
      /\ txn[c].op = "update" => b \in TaskBlock
      /\ TasksKept(txn[c]) /\ txn[c].checkpoint = Kept
  BY <1>1, <1>2, <1>3, <1>4, <1>5 DEF WritesNext, Editing
<1>7. PICK s : s = blocks[b]
  OBVIOUS
<1>8. SoundStack(s) /\ s \in Stack /\ blocks \in [Block -> Stack]
  BY <1>6, <1>7, StacksOf
<1>9. PICK write : write = IF d = seen THEN Kept ELSE Drafted(s, u, seen, d)[d]
  OBVIOUS
<1>10. /\ txn[c].rows = Only(b, d, write)
       /\ d = seen => (s[d] # Absent => s[d].draft /\ ~s[d].deleted)
       /\ d # seen => CanEdit(s, u, seen, d)
       /\ txn[c].op = "update" => CanDraft(s, u, seen, d)
  BY <1>1, <1>2, <1>3, <1>4, <1>5, <1>7, <1>9, NoRowsOnly DEF WritesNext
<1>11. PICK old : old = Over(write, s[d])
  OBVIOUS
<1>12. /\ d = seen => old = s[d]
       /\ d # seen => old = Drafted(s, u, seen, d)[d]
  <2>1. CASE d = seen
    BY <1>9, <1>11, <2>1, KeptFacts
  <2>2. CASE d # seen
    <3>1. seen \in Published(s) /\ \A v \in Present(s) : v < d
      BY <1>10, <2>2 DEF CanEdit
    <3>2. write \in VersionRow
      BY <1>6, <1>8, <1>9, <2>2, <3>1, CopiedDraft
    <3>3. QED
      BY <1>9, <1>11, <2>2, <3>2, KeptFacts
  <2>3. QED
    BY <2>1, <2>2
<1>13. Sees(c)[b] = [s EXCEPT ![d] = old] /\ Sees(c)[b][d] = old
  <2>1. Sees(c) = [blocks EXCEPT ![b] = [s EXCEPT ![d] = old]]
    BY <1>6, <1>7, <1>8, <1>10, <1>11, OnlyShown, SeesShown
  <2>2. QED
    BY <1>6, <1>8, <2>1 DEF Stack
<1>14. PICK row \in IF old = Absent THEN {Absent} ELSE Edited(c, old) :
         Goes(c, [txn[c] EXCEPT
           !.rows = Writes(c, b, [Sees(c)[b] EXCEPT ![d] = row]),
           !.todo = IF AfterWrite(c) = "publish" THEN {b} ELSE {},
           !.unlinked = IF txn[c].op = "delete" THEN {b} ELSE {},
           !.pc = AfterWrite(c)])
  BY <1>1, <1>4, <1>13 DEF WriteDraft
<1>15. /\ row \in VersionRow \cup {Absent}
       /\ row = s[d] \/ EditedRow(s, seen, d, row)
       /\ old \in VersionRow \cup {Absent}
  <2>1. \/ d = seen /\ old = s[d] /\ (old # Absent => old.draft /\ ~old.deleted)
        \/ d # seen /\ CanEdit(s, u, seen, d) /\ old = Drafted(s, u, seen, d)[d]
    BY <1>10, <1>12
  <2>2. QED
    BY <1>6, <1>8, <1>14, <2>1, WrittenRow
<1>16. PICK new : new = IF row = s[d] THEN Kept ELSE row
  OBVIOUS
<1>17. PICK rows : rows = Only(b, d, new)
  OBVIOUS
<1>18. Writes(c, b, [Sees(c)[b] EXCEPT ![d] = row]) = rows
  BY <1>6, <1>7, <1>10, <1>16, <1>17, OnlyWritten
<1>19. PICK todo : todo = IF AfterWrite(c) = "publish" THEN {b} ELSE {}
  OBVIOUS
<1>20. PICK unlinked : unlinked = IF txn[c].op = "delete" THEN {b} ELSE {}
  OBVIOUS
<1>21. PICK step : step = AfterWrite(c)
  OBVIOUS
<1> DEFINE t == [txn[c] EXCEPT !.rows = rows, !.todo = todo,
                               !.unlinked = unlinked, !.pc = step]
<1>22. Goes(c, t)
  BY <1>14, <1>18, <1>19, <1>20, <1>21
<1>23. new \in VersionRow \cup {Absent, Kept} /\ Over(new, s[d]) = row
  BY <1>15, <1>16, KeptFacts
<1>24. /\ t.pc = step /\ t.op = txn[c].op /\ t.user = u /\ t.block = b /\ t.seen = seen
       /\ t.draft = d /\ t.locked = txn[c].locked /\ t.unlinked = unlinked /\ t.todo = todo
       /\ t.rows = rows /\ TasksKept(t) /\ t.checkpoint = Kept
  BY <1>1, <1>2, <1>3, <1>4, <1>5, <1>6 DEF TasksKept, Txn
<1>25. t \in Txn
  <2>1. rows \in [Block -> [Version -> VersionRow \cup {Absent, Kept}]]
    BY <1>17, <1>23, OnlyFacts
  <2>2. step \in Steps
    BY <1>21, AfterWriteSteps DEF Steps
  <2>3. todo \in SUBSET Block /\ unlinked \in SUBSET Block
    BY <1>6, <1>19, <1>20
  <2>4. QED
    BY <1>5, <2>1, <2>2, <2>3 DEF Txn
<1> HIDE DEF t
<1>26. Editing(t)
  BY <1>6, <1>24 DEF Editing
<1>27. Fits(t, blocks, tasks, groups, checkpoints)
  <2>1. CASE txn[c].op # "update"
    <3>1. step \in {"unlink", "commit"}
      BY <1>6, <1>21, <2>1, AfterWriteOf
    <3>2. EditedRow(s, seen, d, new)
      BY <1>15, <1>16 DEF EditedRow
    <3>3. Edits(t, blocks)
      BY <1>6, <1>7, <1>17, <1>23, <1>24, <1>26, <2>1, <3>1, <3>2 DEF Edits
    <3>4. QED
      BY <3>3 DEF Fits
  <2>2. CASE txn[c].op = "update"
    <3>1. step = IF d # seen THEN "publish" ELSE "commit"
      BY <1>3, <1>4, <1>6, <1>21, <2>2, AfterWriteOf
    <3>2. CanDraft(s, u, seen, d)
      BY <1>10, <2>2
    <3>3. old \in VersionRow /\ old.draft /\ ~old.deleted
      <4>1. CASE d = seen
        <5>1. d \in OwnDrafts(s, u) /\ ~s[seen].deleted
          <6>1. d \in Nat /\ ~(d < d)
            BY <1>6, VersionFacts
          <6>2. d \in Published(s) /\ IsNext(s, d) => d < d
            BY DEF IsNext, Published
          <6>3. OwnDrafts(s, u) = {seen} /\ ~s[seen].deleted
            BY <3>2, <4>1, <6>1, <6>2 DEF CanDraft
          <6>4. QED
            BY <4>1, <6>3
        <5>2. QED
          BY <1>12, <1>15, <4>1, <5>1 DEF OwnDrafts, Present
      <4>2. CASE d # seen
        <5>1. seen \in Published(s) /\ ~s[seen].deleted /\ \A v \in Present(s) : v < d
          BY <3>2, <4>2 DEF CanDraft, IsNext
        <5>2. QED
          BY <1>6, <1>8, <1>12, <4>2, <5>1, CopiedDraft
      <4>3. QED
        BY <4>1, <4>2
    <3>4. PICK x \in Data : row = [old EXCEPT !.data = x]
      BY <1>6, <1>14, <2>2, <3>3, ConstantsAssumption, EditedFacts
    <3>5. [s EXCEPT ![d] = row] = TaskDraft(s, u, seen, d, x)
      <4>1. Drafted(s, u, seen, d)[d] = old
        BY <1>12 DEF Drafted
      <4>2. Drafted(s, u, seen, d) = [s EXCEPT ![d] = old]
        <5>1. CASE d = seen
          BY <1>8, <1>12, <5>1 DEF Drafted, Stack
        <5>2. CASE d # seen
          <6>1. seen \in Published(s) /\ \A v \in Present(s) : v < d
            BY <3>2, <5>2 DEF CanDraft, IsNext
          <6>2. QED
            BY <1>6, <1>8, <1>12, <5>2, <6>1, CopiedDraft
        <5>3. QED
          BY <5>1, <5>2
      <4>3. TaskDraft(s, u, seen, d, x) = [[s EXCEPT ![d] = old] EXCEPT ![d] = row]
        BY <3>4, <4>1, <4>2 DEF TaskDraft
      <4>4. QED
        BY <1>8, <4>3 DEF Stack
    <3>6. Shown(t, blocks) = [blocks EXCEPT ![b] = TaskDraft(s, u, seen, d, x)]
      <4>1. t.rows = Only(b, d, new)
        BY <1>17, <1>24
      <4>2. Shown(t, blocks) =
              [blocks EXCEPT ![b] = [blocks[b] EXCEPT ![d] = Over(new, blocks[b][d])]]
        BY <1>6, <1>8, <4>1, OnlyShown
      <4>3. QED
        BY <1>7, <1>23, <3>5, <4>2
    <3>7. unlinked = {} /\ (d # seen => todo = {b})
      BY <1>19, <1>20, <1>21, <2>2, <3>1
    <3>8. CASE d = seen
      <4>1. UpdatesDraft(t, blocks)
        BY <1>7, <1>24, <1>26, <2>2, <3>1, <3>2, <3>6, <3>8 DEF UpdatesDraft
      <4>2. QED
        BY <4>1 DEF Fits
    <3>9. CASE d # seen
      <4>1. UpdatesTask(t, blocks, checkpoints)
        BY <1>7, <1>24, <1>26, <2>2, <3>1, <3>2, <3>6, <3>7, <3>9
        DEF UpdatesTask, Checkpointed
      <4>2. QED
        BY <4>1 DEF Fits
    <3>10. QED
      BY <3>8, <3>9
  <2>3. QED
    BY <2>1, <2>2
<1>28. \A o \in Others(c), a \in Block, v \in Version :
         t.rows[a][v] = Kept \/ txn[o].rows[a][v] = Kept
  <2>1. RowFree(c, b, d)
    BY <1>1, <1>4 DEF WriteDraft
  <2>2. QED
    BY <1>6, <1>17, <1>24, <2>1, OnlyApart
<1>29. \A o \in Others(c) : t.locked \cap txn[o].locked = {}
  BY <1>24 DEF TxInv, LocksApart, Others
<1>30. ~courseDeleted
  BY <1>5 DEF TxInv, CourseThere, Active
<1>31. QED
  BY <1>22, <1>25, <1>27, <1>28, <1>29, <1>30, GoesInv

-----------------------------------------------------------------------------
(* Discarding drafts                                                       *)

LEMMA UnlinkOfSteps ==
  ASSUME NEW B, NEW next
  PROVE  /\ UnlinkOf(B, next) \in {"unlink", next}
         /\ UnlinkOf(B, next) # "unlink" => B \cap TaskBlock = {}
BY DEF UnlinkOf

\* A discard deletes only drafts of its user.
LEMMA DeleteOwnDraftsInv ==
  ASSUME TxInv, LockInv', NEW c \in Connection, DeleteOwnDrafts(c)
  PROVE  TxInv'
<1>1. PICK u : u = txn[c].user
  OBVIOUS
<1>2. txn[c] \in Txn /\ Begins(txn[c]) /\ txn[c].pc = "discard"
  BY StageOf DEF DeleteOwnDrafts, TxInv, TxTypeOK, AllFit
<1>3. txn[c].op = "discard" /\ u \in Teacher
  BY <1>1, <1>2, FirstSteps DEF Begins
<1>4. Sees(c) = blocks
  BY <1>2, SeesShown, UnwrittenShown, StacksOf DEF Begins, Unwritten
<1>5. PICK drafted \in SUBSET Block : drafted = {b \in Block : OwnDrafts(blocks[b], u) # {}}
  OBVIOUS
<1>6. PICK rows : rows = [b \in Block |-> [v \in Version |->
                            IF v \in OwnDrafts(blocks[b], u) THEN Absent ELSE Kept]]
  OBVIOUS
<1>7. PICK step : step = UnlinkOf(drafted, "commit")
  OBVIOUS
<1> DEFINE t == [txn[c] EXCEPT !.rows = rows, !.unlinked = drafted, !.pc = step]
<1>8. /\ Goes(c, t)
      /\ \A b \in Block : \A d \in OwnDrafts(blocks[b], u) : RowFree(c, b, d)
  BY <1>1, <1>4, <1>5, <1>6, <1>7 DEF DeleteOwnDrafts
<1>9. /\ t.pc = step /\ t.op = "discard" /\ t.user = u /\ t.locked = {}
      /\ t.rows = rows /\ t.checkpoint = Kept
  BY <1>1, <1>2, <1>3 DEF Begins, Unwritten, Txn
<1>10. step \in {"unlink", "commit"}
  BY <1>7, UnlinkOfSteps
<1>11. t \in Txn
  <2>1. rows \in [Block -> [Version -> VersionRow \cup {Absent, Kept}]]
    BY <1>6
  <2>2. step \in Steps
    BY <1>10 DEF Steps
  <2>3. QED
    BY <1>2, <1>5, <2>1, <2>2 DEF Txn
<1> HIDE DEF t
<1>12. \A b \in Block, v \in Version : rows[b][v] # Kept =>
         rows[b][v] = Absent /\ v \in OwnDrafts(blocks[b], u)
  BY <1>6
<1>13. Discards(t, blocks)
  BY <1>3, <1>9, <1>10, <1>12 DEF Discards
<1>14. \A o \in Others(c), a \in Block, v \in Version :
         t.rows[a][v] = Kept \/ txn[o].rows[a][v] = Kept
  BY <1>8, <1>9, <1>12 DEF RowFree
<1>15. ~courseDeleted
  BY <1>2 DEF TxInv, CourseThere, Active
<1>16. QED
  BY <1>8, <1>9, <1>11, <1>13, <1>14, <1>15, GoesInv DEF Fits

-----------------------------------------------------------------------------
(* Statements of a transaction that has the course to itself               *)

\* A transaction that has the course to itself is alone in what it writes and locks.
LEMMA AloneApart ==
  ASSUME TxInv, NEW c \in Connection, Active(c), txn[c].op \in ExclusiveOp
  PROVE  \A o \in Others(c) :
           txn[o].pc \in {"idle", "lock"} /\ txn[o].rows = NoRows /\ txn[o].locked = {}
<1> SUFFICES ASSUME NEW o \in Others(c)
             PROVE  txn[o].pc \in {"idle", "lock"} /\ txn[o].rows = NoRows /\ txn[o].locked = {}
  OBVIOUS
<1>1. o \in Connection /\ o # c
  BY DEF Others
<1>2. ~Active(o)
  BY <1>1 DEF TxInv, LockInv, Apart
<1>3. txn[o].pc \in {"idle", "lock"}
  BY <1>2 DEF Active
<1>4. Fits(txn[o], blocks, tasks, groups, checkpoints)
  BY <1>1 DEF TxInv, AllFit
<1>5. QED
  BY <1>3, <1>4, InactiveUnwritten

LEMMA GoesAloneInv ==
  ASSUME TxInv, LockInv', NEW c \in Connection, Active(c), txn[c].op \in ExclusiveOp,
         NEW t \in Txn, Goes(c, t), Fits(t, blocks, tasks, groups, checkpoints)
  PROVE  TxInv'
<1>1. \A o \in Others(c) : t.locked \cap txn[o].locked = {}
  BY AloneApart
<1>2. \A o \in Others(c), b \in Block, v \in Version :
        t.rows[b][v] = Kept \/ txn[o].rows[b][v] = Kept
  BY AloneApart DEF NoRows
<1>3. ~courseDeleted
  BY DEF TxInv, CourseThere
<1>4. QED
  BY <1>1, <1>2, <1>3, GoesInv

\* Without tasks or groups written, they are the committed ones.
LEMMA TasksKeptShown ==
  ASSUME TxInv, NEW t, TasksKept(t)
  PROVE  ShownTasks(t, tasks) = tasks /\ ShownGroups(t, groups) = groups
<1>1. tasks \in [TaskBlock -> Task \cup {Absent}] /\ groups \in [Group -> {"none", "live", "deleted"}]
  BY DEF TxInv, IInv, TypeOK
<1>2. ShownTasks(t, tasks) = [b \in TaskBlock |-> tasks[b]]
  BY KeptFacts DEF TasksKept, ShownTasks
<1>3. ShownGroups(t, groups) = [g \in Group |-> groups[g]]
  BY KeptFacts DEF TasksKept, ShownGroups
<1>4. QED
  BY <1>1, <1>2, <1>3

\* Without a task block among the blocks nothing is unlinked.
LEMMA NothingUnlinked ==
  ASSUME NEW U, U \cap TaskBlock = {}, NEW R, NEW T, DOMAIN T = TaskBlock,
         NEW G, DOMAIN G = Group, T = [b \in TaskBlock |-> T[b]], G = [g \in Group |-> G[g]]
  PROVE  Unlinks(U, R, T, G, T, G)
<1>1. {b \in U \cap TaskBlock : IsLiveTask(T[b]) /\ ~LinksTask(R[b])} = {}
  OBVIOUS
<1>2. QED
  BY <1>1 DEF Unlinks, Emptied

\* A publish starts with all drafts of its user left to do.
LEMMA GetOwnDraftsInv ==
  ASSUME TxInv, LockInv', NEW c \in Connection, GetOwnDrafts(c)
  PROVE  TxInv'
<1>1. PICK u : u = txn[c].user
  OBVIOUS
<1>2. txn[c] \in Txn /\ Begins(txn[c]) /\ txn[c].pc = "read drafts"
  BY StageOf DEF GetOwnDrafts, TxInv, TxTypeOK, AllFit
<1>3. txn[c].op = "publish" /\ u \in Teacher
  BY <1>1, <1>2, FirstSteps DEF Begins
<1>4. Sees(c) = blocks
  BY <1>2, SeesShown, UnwrittenShown, StacksOf DEF Begins, Unwritten
<1>5. PICK drafted \in SUBSET Block : drafted = {b \in Block : OwnDrafts(blocks[b], u) # {}}
  OBVIOUS
<1> DEFINE t == [txn[c] EXCEPT !.todo = drafted, !.pc = "publish"]
<1>6. Goes(c, t) /\ drafted # {}
  BY <1>1, <1>4, <1>5 DEF GetOwnDrafts
<1>7. /\ t.pc = "publish" /\ t.op = "publish" /\ t.user = u /\ t.todo = drafted
      /\ t.unlinked = {} /\ t.rows = NoRows /\ TasksKept(t) /\ t.checkpoint = Kept
  BY <1>1, <1>2, <1>3 DEF Begins, Unwritten, TasksKept, Txn
<1>8. t \in Txn
  BY <1>2, <1>5 DEF Txn, Steps
<1> HIDE DEF t
<1>9. Shown(t, blocks) = blocks /\ blocks \in [Block -> Stack]
  BY <1>7, UnwrittenShown, StacksOf
<1>10. PublishesAll(t, blocks, tasks, groups, checkpoints)
  <2>1. {b \in Block : OwnDrafts(blocks[b], t.user) # {}} \ t.todo = {}
    BY <1>5, <1>7
  <2>2. blocks = [b \in Block |-> blocks[b]]
    BY <1>9
  <2>3. QED
    BY <1>3, <1>5, <1>6, <1>7, <1>9, <2>1, <2>2 DEF PublishesAll, Checkpointed
<1>11. QED
  BY <1>2, <1>3, <1>6, <1>8, <1>10, GoesAloneInv DEF Fits, Active, ExclusiveOp

\* The draft of its author is the one found.
LEMMA OwnDraftIs ==
  ASSUME NEW s, SoundStack(s), NEW u \in Teacher, OwnDrafts(s, u) # {}
  PROVE  /\ OwnDraft(s, u) \in OwnDrafts(s, u)
         /\ \A d \in OwnDrafts(s, u) : OwnDraft(s, u) = d
         /\ OwnDraft(s, u) \in Version
         /\ OwnDraft(s, u) \in Present(s) \ Published(s)
<1>1. OwnDraft(s, u) \in OwnDrafts(s, u)
  BY DEF OwnDraft
<1>2. \A v, w \in OwnDrafts(s, u) : v = w
  BY DEF SoundStack
<1>3. OwnDraft(s, u) \in Present(s) \ Published(s)
  BY <1>1 DEF OwnDrafts, Published
<1>4. QED
  BY <1>1, <1>2, <1>3 DEF Present

\* One more draft is published, and the stacks are those of the drafts done so far.
LEMMA PublishNextInv ==
  ASSUME TxInv, LockInv', NEW c \in Connection, PublishNext(c)
  PROVE  TxInv'
<1>1. PICK b : b = CHOOSE a \in txn[c].todo : TRUE
  OBVIOUS
<1>2. PICK u : u = txn[c].user
  OBVIOUS
<1>3. PICK s : s = Sees(c)[b]
  OBVIOUS
<1>4. PICK d : d = OwnDraft(s, u)
  OBVIOUS
<1>5. PICK mine : mine = (txn[c].op = "update" \/ DataMine(s, d))
  OBVIOUS
<1>6. PICK gone : gone = IF PublishesDeleted(s, d) THEN txn[c].unlinked \cup {b}
                         ELSE txn[c].unlinked
  OBVIOUS
<1>7. PICK p : p = PublishDraft(s, d, mine)
  OBVIOUS
<1>8. PICK rows : rows = Writes(c, b, p)
  OBVIOUS
<1>9. PICK locked : locked = txn[c].locked \cup {b}
  OBVIOUS
<1>10. PICK todo : todo = txn[c].todo \ {b}
  OBVIOUS
<1>11. PICK step : step = IF txn[c].todo # {b} THEN "publish" ELSE UnlinkOf(gone, "checkpoint")
  OBVIOUS
<1> DEFINE t == [txn[c] EXCEPT !.rows = rows, !.locked = locked, !.todo = todo,
                               !.unlinked = gone, !.pc = step]
<1>12. /\ txn[c].pc = "publish" /\ txn[c].todo # {} /\ OwnDrafts(s, u) # {}
       /\ ~Conflicting(s, d, mine) /\ PublishHasRoom(s, d)
  BY <1>1, <1>2, <1>3, <1>4, <1>5 DEF PublishNext
<1>13. Goes(c, t)
  BY <1>1, <1>2, <1>3, <1>4, <1>5, <1>6, <1>7, <1>8, <1>9, <1>10, <1>11 DEF PublishNext, AfterPublish
<1>14. b \in txn[c].todo
  BY <1>1, <1>12
<1>15. /\ txn[c] \in Txn /\ b \in Block
       /\ \/ UpdatesTask(txn[c], blocks, checkpoints)
          \/ PublishesAll(txn[c], blocks, tasks, groups, checkpoints)
  BY <1>12, <1>14, StageOf DEF TxInv, TxTypeOK, AllFit, Txn
<1>16. Sees(c) = Shown(txn[c], blocks) /\ blocks \in [Block -> Stack]
  BY SeesShown, StacksOf
<1>17. u \in Teacher
  BY <1>2, <1>15 DEF UpdatesTask, Editing, PublishesAll
<1>18. mine \in BOOLEAN
  BY <1>5 DEF DataMine
<1>19. SoundStack(s) => /\ p \in Stack
                        /\ Shown(t, blocks) = [Sees(c) EXCEPT ![b] = p]
                        /\ t \in Txn
  <2> SUFFICES ASSUME SoundStack(s)
               PROVE  /\ p \in Stack
                      /\ Shown(t, blocks) = [Sees(c) EXCEPT ![b] = p]
                      /\ t \in Txn
    OBVIOUS
  <2>1. d \in Present(s) \ Published(s)
    BY <1>4, <1>12, <1>17, OwnDraftIs
  <2>2. p \in Stack
    BY <1>7, <1>12, <1>18, <2>1, PublishDraftSound DEF SoundStep, SoundStack
  <2>3. t.rows = Writes(c, b, p)
    BY <1>8, <1>15 DEF Txn
  <2>4. /\ Shown(t, blocks) = [Sees(c) EXCEPT ![b] = p]
        /\ rows \in [Block -> [Version -> VersionRow \cup {Absent, Kept}]]
    <3>1. /\ Shown(t, blocks) = [Sees(c) EXCEPT ![b] = p]
          /\ t.rows \in [Block -> [Version -> VersionRow \cup {Absent, Kept}]]
      <4> HIDE DEF t
      <4>1. QED
        BY <1>15, <2>2, <2>3, WritesShown
    <3>2. QED
      BY <1>8, <2>3, <3>1
  <2>5. gone \in SUBSET Block /\ locked \in SUBSET Block /\ todo \in SUBSET Block
    BY <1>6, <1>9, <1>10, <1>15 DEF Txn
  <2>6. step \in Steps
    BY <1>11, UnlinkOfSteps DEF Steps
  <2>7. t \in Txn
    BY <1>15, <2>4, <2>5, <2>6 DEF Txn
  <2>8. QED
    BY <2>2, <2>4, <2>7
<1>20. /\ t.pc = step /\ t.op = txn[c].op /\ t.user = u /\ t.block = txn[c].block
       /\ t.seen = txn[c].seen /\ t.draft = txn[c].draft /\ t.locked = locked
       /\ t.unlinked = gone /\ t.todo = todo
       /\ TasksKept(txn[c]) => TasksKept(t)
       /\ t.checkpoint = txn[c].checkpoint
  BY <1>2, <1>15 DEF Txn, TasksKept
<1> HIDE DEF t
<1>21. CASE UpdatesTask(txn[c], blocks, checkpoints)
  <2>1. PICK seen : seen = txn[c].seen
    OBVIOUS
  <2>2. /\ txn[c].op = "update" /\ Editing(txn[c]) /\ TasksKept(txn[c])
        /\ txn[c].unlinked = {} /\ txn[c].draft # seen /\ txn[c].todo = {txn[c].block}
        /\ CanDraft(blocks[txn[c].block], u, seen, txn[c].draft)
        /\ txn[c].checkpoint = Kept
    BY <1>2, <1>12, <1>21, <2>1 DEF UpdatesTask, Checkpointed
  <2>3. b = txn[c].block
    BY <1>14, <2>2
  <2>4. PICK x \in Data : Shown(txn[c], blocks) =
          [blocks EXCEPT ![b] = TaskDraft(blocks[b], u, seen, txn[c].draft, x)]
    BY <1>2, <1>12, <1>21, <2>1, <2>3 DEF UpdatesTask
  <2>5. s = TaskDraft(blocks[b], u, seen, txn[c].draft, x)
    BY <1>3, <1>15, <1>16, <2>4
  <2>6. seen \in Version /\ txn[c].draft \in Version /\ IInv
    BY <2>1, <2>2 DEF Editing, TxInv
  <2>7. /\ SoundStack(s) /\ txn[c].draft \in Present(s) \ Published(s)
        /\ ~s[txn[c].draft].deleted
        /\ s[txn[c].draft].base = seen /\ s[txn[c].draft].createdBy = u
    BY <1>15, <1>17, <2>1, <2>2, <2>3, <2>5, <2>6, DraftedData DEF SoundEdit, SoundStep
  <2>8. d = txn[c].draft
    <3>1. txn[c].draft \in OwnDrafts(s, u)
      BY <2>7 DEF OwnDrafts, Published
    <3>2. QED
      BY <1>4, <1>17, <2>7, <3>1, OwnDraftIs
  <2>9. PICK yes \in BOOLEAN : yes = TRUE
    OBVIOUS
  <2>10. mine = yes
    BY <1>5, <2>2, <2>9
  <2>11. gone = {}
    <3>1. ~PublishesDeleted(s, d)
      <4>1. ~s[d].deleted
        BY <2>7, <2>8
      <4>2. Outdated(s, d) /\ s[HeadVersion(s)].deleted => Conflicting(s, d, mine)
        BY <2>9, <2>10, <4>1 DEF Conflicting
      <4>3. QED
        BY <1>12, <4>1, <4>2 DEF PublishesDeleted
    <3>2. QED
      BY <1>6, <2>2, <3>1
  <2>12. step = "checkpoint" /\ locked = {b}
    BY <1>9, <1>11, <2>2, <2>3, <2>11 DEF UnlinkOf, Editing
  <2>13. Shown(t, blocks) = [blocks EXCEPT ![b] = p]
    BY <1>15, <1>16, <1>19, <2>4, <2>7
  <2>14. Editing(t)
    BY <1>20, <2>1, <2>2, <2>3, <2>12, <1>2 DEF Editing
  <2>15. UpdatesTask(t, blocks, checkpoints)
    <3>1. /\ t.op = "update" /\ t.pc = "checkpoint" /\ Editing(t) /\ TasksKept(t)
          /\ t.unlinked = {} /\ t.draft # t.seen /\ t.draft = d /\ t.block = b
          /\ CanDraft(blocks[t.block], t.user, t.seen, t.draft)
          /\ t.checkpoint = Kept
      BY <1>20, <2>1, <2>2, <2>3, <2>8, <2>11, <2>12, <2>14
    <3>2. /\ TaskDraft(blocks[t.block], t.user, t.seen, t.draft, x) = s
          /\ ~Conflicting(s, t.draft, TRUE) /\ PublishHasRoom(s, t.draft)
          /\ Shown(t, blocks) = [blocks EXCEPT ![t.block] = PublishDraft(s, t.draft, TRUE)]
      BY <1>7, <1>12, <1>20, <2>1, <2>5, <2>8, <2>9, <2>10, <2>13, <3>1
    <3>3. QED
      BY <3>1, <3>2 DEF UpdatesTask, Checkpointed
  <2>16. QED
    BY <1>12, <1>13, <1>19, <2>2, <2>7, <2>15, GoesAloneInv DEF Fits, Active, ExclusiveOp
<1>22. CASE PublishesAll(txn[c], blocks, tasks, groups, checkpoints)
  <2>1. PICK drafted \in SUBSET Block : drafted = {a \in Block : OwnDrafts(blocks[a], u) # {}}
    OBVIOUS
  <2> DEFINE done(r)  == drafted \ r
             draft(a) == OwnDraft(blocks[a], u)
             owns(a)  == DataMine(blocks[a], draft(a))
             after(a) == PublishDraft(blocks[a], draft(a), owns(a))
  <2>2. /\ txn[c].op = "publish" /\ drafted # {} /\ txn[c].todo \subseteq drafted
        /\ \A a \in done(txn[c].todo) : /\ ~Conflicting(blocks[a], draft(a), owns(a))
                                        /\ PublishHasRoom(blocks[a], draft(a))
        /\ Shown(txn[c], blocks) =
             [a \in Block |-> IF a \in done(txn[c].todo) THEN after(a) ELSE blocks[a]]
        /\ txn[c].unlinked = {a \in done(txn[c].todo) : PublishesDeleted(blocks[a], draft(a))}
        /\ TasksKept(txn[c]) /\ txn[c].checkpoint = Kept
    BY <1>2, <1>12, <1>22, <2>1 DEF PublishesAll, Checkpointed
  <2>3. s = blocks[b] /\ SoundStack(s)
    BY <1>3, <1>14, <1>15, <1>16, <2>2, StacksOf
  <2>4. d = draft(b) /\ mine = owns(b) /\ p = after(b)
    <3>1. d = draft(b)
      BY <1>4, <2>3
    <3>2. mine = DataMine(s, d)
      BY <1>5, <2>2 DEF DataMine
    <3>3. QED
      BY <1>7, <2>3, <3>1, <3>2
  <2>5. done(todo) = done(txn[c].todo) \cup {b} /\ todo \subseteq drafted
    BY <1>10, <1>14, <2>2
  <2>6. \A a \in done(todo) : /\ ~Conflicting(blocks[a], draft(a), owns(a))
                              /\ PublishHasRoom(blocks[a], draft(a))
    BY <1>12, <2>2, <2>3, <2>4, <2>5
  <2>7. Shown(t, blocks) =
          [a \in Block |-> IF a \in done(todo) THEN after(a) ELSE blocks[a]]
    <3> HIDE DEF after
    <3>1. Shown(t, blocks) = [Shown(txn[c], blocks) EXCEPT ![b] = after(b)]
      BY <1>16, <1>19, <2>3, <2>4
    <3> HIDE DEF done
    <3>2. QED
      BY <2>2, <2>5, <3>1
  <2>8. gone = {a \in done(todo) : PublishesDeleted(blocks[a], draft(a))}
    BY <1>6, <2>2, <2>3, <2>4, <2>5
  <2>9. /\ step \in {"publish", "unlink", "checkpoint"}
        /\ step = "publish" <=> todo # {}
        /\ step = "checkpoint" => gone \cap TaskBlock = {}
    <3>1. CASE txn[c].todo # {b}
      BY <1>10, <1>11, <1>14, <3>1
    <3>2. CASE txn[c].todo = {b}
      BY <1>10, <1>11, <3>2, UnlinkOfSteps
    <3>3. QED
      BY <3>1, <3>2
  <2>10. TasksKept(t) /\ t.checkpoint = Kept /\ t.op = "publish"
    BY <1>20, <2>2
  <2>11. step = "checkpoint" =>
           Unlinks(t.unlinked, Shown(t, blocks), tasks, groups,
                   ShownTasks(t, tasks), ShownGroups(t, groups))
    <3>1. ShownTasks(t, tasks) = tasks /\ ShownGroups(t, groups) = groups
      BY <2>10, TasksKeptShown
    <3>2. /\ tasks = [a \in TaskBlock |-> tasks[a]] /\ DOMAIN tasks = TaskBlock
          /\ groups = [g \in Group |-> groups[g]] /\ DOMAIN groups = Group
      BY DEF TxInv, IInv, TypeOK
    <3>3. QED
      BY <1>20, <2>9, <3>1, <3>2, NothingUnlinked
  <2>12. PublishesAll(t, blocks, tasks, groups, checkpoints)
    <3>1. /\ t.op = "publish" /\ t.pc \in {"publish", "unlink", "checkpoint", "commit"}
          /\ t.user \in Teacher
          /\ drafted # {} /\ t.todo \subseteq drafted
          /\ t.pc = "publish" <=> t.todo # {}
      BY <1>17, <1>20, <2>2, <2>5, <2>9, <2>10
    <3>2. {a \in Block : OwnDrafts(blocks[a], t.user) # {}} = drafted
      BY <1>20, <2>1
    <3>3. \A a \in drafted \ t.todo :
            /\ ~Conflicting(blocks[a], OwnDraft(blocks[a], t.user),
                            DataMine(blocks[a], OwnDraft(blocks[a], t.user)))
            /\ PublishHasRoom(blocks[a], OwnDraft(blocks[a], t.user))
      BY <1>20, <2>6
    <3>4. Shown(t, blocks) = [a \in Block |->
            IF a \in drafted \ t.todo
            THEN PublishDraft(blocks[a], OwnDraft(blocks[a], t.user),
                              DataMine(blocks[a], OwnDraft(blocks[a], t.user)))
            ELSE blocks[a]]
      BY <1>20, <2>7
    <3>5. t.unlinked = {a \in drafted \ t.todo :
                          PublishesDeleted(blocks[a], OwnDraft(blocks[a], t.user))}
      BY <1>20, <2>8
    <3>6. IF t.pc \in {"publish", "unlink"} THEN TasksKept(t)
          ELSE Unlinks(t.unlinked, Shown(t, blocks), tasks, groups,
                       ShownTasks(t, tasks), ShownGroups(t, groups))
      BY <1>20, <2>9, <2>10, <2>11
    <3>7. Checkpointed(t, blocks, checkpoints)
      BY <1>20, <2>9, <2>10 DEF Checkpointed
    <3>8. QED
      BY <3>1, <3>2, <3>3, <3>4, <3>5, <3>6, <3>7 DEF PublishesAll
  <2>13. QED
    BY <1>12, <1>13, <1>19, <2>2, <2>3, <2>12, GoesAloneInv DEF Fits, Active, ExclusiveOp
<1>23. QED
  BY <1>15, <1>21, <1>22

\* The rows that make every stack what it is written to be.
LEMMA AllWritesShown ==
  ASSUME TxInv, NEW c \in Connection, NEW f \in [Block -> Stack], NEW t,
         t.rows = [b \in Block |-> Writes(c, b, f[b])[b]]
  PROVE  /\ Shown(t, blocks) = f
         /\ t.rows \in [Block -> [Version -> VersionRow \cup {Absent, Kept}]]
<1>1. \A b \in Block : Writes(c, b, f[b])[b] =
        [v \in Version |-> IF f[b][v] = blocks[b][v] THEN Kept ELSE f[b][v]]
  BY StacksOf DEF Writes, Txn
<1>2. \A b \in Block : t.rows[b] =
        [v \in Version |-> IF f[b][v] = blocks[b][v] THEN Kept ELSE f[b][v]]
  BY <1>1
<1>3. \A b \in Block, v \in Version : Over(t.rows[b][v], blocks[b][v]) = f[b][v]
  <2> SUFFICES ASSUME NEW b \in Block, NEW v \in Version
               PROVE  Over(t.rows[b][v], blocks[b][v]) = f[b][v]
    OBVIOUS
  <2>1. t.rows[b][v] = IF f[b][v] = blocks[b][v] THEN Kept ELSE f[b][v]
    BY <1>2
  <2>2. f[b][v] # Kept
    BY KeptFacts DEF Stack
  <2>3. QED
    BY <2>1, <2>2 DEF Over
<1>4. \A b \in Block : [v \in Version |-> Over(t.rows[b][v], blocks[b][v])] = f[b]
  BY <1>3 DEF Stack
<1>5. Shown(t, blocks) = f
  BY <1>4 DEF Shown
<1>6. \A b \in Block : t.rows[b] \in [Version -> VersionRow \cup {Absent, Kept}]
  <2> SUFFICES ASSUME NEW b \in Block
               PROVE  t.rows[b] \in [Version -> VersionRow \cup {Absent, Kept}]
    OBVIOUS
  <2>1. \A v \in Version : f[b][v] \in VersionRow \cup {Absent, Kept}
    BY DEF Stack
  <2>2. QED
    BY <1>2, <2>1
<1>7. QED
  BY <1>5, <1>6

\* A rebalance renumbers every version at once.
LEMMA RemapPositionsInv ==
  ASSUME TxInv, LockInv', NEW c \in Connection, NEW f \in [Position -> Position],
         RemapPositions(c, f)
  PROVE  TxInv'
<1>1. txn[c] \in Txn /\ Begins(txn[c]) /\ txn[c].pc = "rebalance"
  BY StageOf DEF RemapPositions, TxInv, TxTypeOK, AllFit
<1>2. txn[c].op = "rebalance"
  BY <1>1, FirstSteps DEF Begins
<1>3. PICK g : g = [b \in Block |-> Remap(blocks[b], f)]
  OBVIOUS
<1>4. g \in [Block -> Stack]
  <2>1. \A b \in Block : Remap(blocks[b], f) \in Stack
    BY StacksOf, RemapSound DEF Quiet, SoundStack
  <2>2. QED
    BY <1>3, <2>1
<1>5. PICK rows : rows = [b \in Block |-> Writes(c, b, Remap(blocks[b], f))[b]]
  OBVIOUS
<1> DEFINE t == [txn[c] EXCEPT !.rows = rows, !.pc = "commit"]
<1>6. Goes(c, t) /\ \A p, q \in UsedPositions : p < q => f[p] < f[q]
  BY <1>5 DEF RemapPositions
<1>7. /\ t.pc = "commit" /\ t.op = "rebalance" /\ TasksKept(t) /\ t.checkpoint = Kept
      /\ t.rows = rows
  BY <1>1, <1>2 DEF Begins, Unwritten, TasksKept, Txn
<1>8. t.rows = [b \in Block |-> Writes(c, b, g[b])[b]]
  BY <1>3, <1>5, <1>7
<1>9. Shown(t, blocks) = g /\ rows \in [Block -> [Version -> VersionRow \cup {Absent, Kept}]]
  <2> HIDE DEF t
  <2>1. QED
    BY <1>4, <1>7, <1>8, AllWritesShown
<1>10. t \in Txn
  BY <1>1, <1>9 DEF Txn, Steps
<1> HIDE DEF t
<1>11. \A p, q \in Position :
         /\ \E b \in Block, v \in Version : blocks[b][v] # Absent /\ blocks[b][v].position = p
         /\ \E b \in Block, v \in Version : blocks[b][v] # Absent /\ blocks[b][v].position = q
         /\ p < q
         => f[p] < f[q]
  BY <1>6 DEF UsedPositions
<1>12. Rebalances(t, blocks)
  BY <1>3, <1>7, <1>9, <1>11 DEF Rebalances
<1>13. QED
  BY <1>1, <1>2, <1>6, <1>10, <1>12, GoesAloneInv DEF Fits, Active, ExclusiveOp

\* What a restore and a removal write is a sound stack.
LEMMA RestoredStack ==
  ASSUME IInv, NEW i \in 1..Len(checkpoints), NEW b \in Block, NEW u \in Teacher,
         HasRoom(blocks[b])
  PROVE  /\ Restored(blocks[b], checkpoints[i][b]) =>
              SoundStep(blocks[b], Republish(blocks[b], checkpoints[i][b], u, FALSE))
         /\ Removed(blocks[b], checkpoints[i][b]) =>
              SoundStep(blocks[b], Republish(blocks[b], HeadVersion(blocks[b]), u, TRUE))
<1>1. SoundStack(blocks[b])
  BY DEF IInv, StacksSound
<1>2. PICK no \in BOOLEAN : no = FALSE
  OBVIOUS
<1>3. PICK yes \in BOOLEAN : yes = TRUE
  OBVIOUS
<1>4. ASSUME Restored(blocks[b], checkpoints[i][b])
      PROVE  SoundStep(blocks[b], Republish(blocks[b], checkpoints[i][b], u, no))
  <2>1. checkpoints[i][b] \in Published(blocks[b])
    BY <1>4 DEF Restored, IInv, CheckpointsRestorable
  <2>2. QED
    BY <1>1, <2>1, RepublishSound
<1>5. ASSUME Removed(blocks[b], checkpoints[i][b])
      PROVE  SoundStep(blocks[b], Republish(blocks[b], HeadVersion(blocks[b]), u, yes))
  <2>1. HeadVersion(blocks[b]) \in Published(blocks[b])
    BY <1>1, <1>5, LiveHeadFacts DEF Removed
  <2>2. QED
    BY <1>1, <2>1, RepublishSound
<1>6. QED
  BY <1>2, <1>3, <1>4, <1>5

\* A restore republishes what the checkpoint has and deletes what it has not.
LEMMA RestoreBlocksInv ==
  ASSUME TxInv, LockInv', NEW c \in Connection, NEW i \in 1..Len(checkpoints),
         RestoreBlocks(c, i)
  PROVE  TxInv'
<1>1. PICK u : u = txn[c].user
  OBVIOUS
<1>2. txn[c] \in Txn /\ Begins(txn[c]) /\ txn[c].pc = "restore"
  BY StageOf DEF RestoreBlocks, TxInv, TxTypeOK, AllFit
<1>3. txn[c].op = "restore" /\ u \in Teacher
  BY <1>1, <1>2, FirstSteps DEF Begins
<1>4. Sees(c) = blocks
  BY <1>2, SeesShown, UnwrittenShown, StacksOf DEF Begins, Unwritten
<1>5. PICK target : target = checkpoints[i]
  OBVIOUS
<1>6. PICK restored \in SUBSET Block : restored = {b \in Block : Restored(blocks[b], target[b])}
  OBVIOUS
<1>7. PICK removed \in SUBSET Block : removed = {b \in Block : Removed(blocks[b], target[b])}
  OBVIOUS
<1>8. PICK back : back = {b \in restored \cap TaskBlock : tasks[b] # Absent /\ ~tasks[b].live}
  OBVIOUS
<1>9. back = Undeleted(restored)
  BY <1>8 DEF Undeleted
<1> DEFINE stack(b) == CASE b \in restored -> Republish(blocks[b], target[b], u, FALSE)
                         [] b \in removed  -> Republish(blocks[b], HeadVersion(blocks[b]), u, TRUE)
                         [] OTHER          -> blocks[b]
<1>10. PICK f : f = [b \in Block |-> stack(b)]
  OBVIOUS
<1>11. PICK rows : rows = [b \in Block |-> Writes(c, b, stack(b))[b]]
  OBVIOUS
<1>12. PICK T : T = [b \in TaskBlock |->
                       IF b \in back THEN [tasks[b] EXCEPT !.live = TRUE] ELSE Kept]
  OBVIOUS
<1>13. PICK G : G = [g \in Group |->
                       IF groups[g] # "live" /\ \E b \in back : tasks[b].group = g
                       THEN "live" ELSE Kept]
  OBVIOUS
<1>14. PICK step : step = UnlinkOf(removed, "checkpoint")
  OBVIOUS
<1> DEFINE t == [txn[c] EXCEPT !.rows = rows, !.taskRows = T, !.groupRows = G,
                               !.unlinked = removed, !.pc = step]
<1>15. Goes(c, t) /\ \A b \in restored \cup removed : HasRoom(blocks[b])
  <2>1. LET R        == Sees(c)
            restored_ == {b \in Block : Restored(R[b], target[b])}
            removed_  == {b \in Block : Removed(R[b], target[b])}
        IN  restored_ = restored /\ removed_ = removed
    BY <1>4, <1>6, <1>7
  <2>2. QED
    BY <1>1, <1>4, <1>5, <1>6, <1>7, <1>9, <1>11, <1>12, <1>13, <1>14 DEF RestoreBlocks
<1>16. f \in [Block -> Stack]
  <2>1. \A b \in Block : stack(b) \in Stack
    <3> SUFFICES ASSUME NEW b \in Block  PROVE stack(b) \in Stack
      OBVIOUS
    <3>1. CASE b \in restored
      <4>1. Republish(blocks[b], target[b], u, FALSE) \in Stack
        BY <1>3, <1>5, <1>6, <1>15, <3>1, RestoredStack DEF TxInv, SoundStep, SoundStack
      <4>0. b \notin removed
        BY <1>6, <1>7, <3>1 DEF Restored, Removed
      <4>2. stack(b) = Republish(blocks[b], target[b], u, FALSE)
        BY <3>1, <4>0
      <4>3. QED
        BY <4>1, <4>2
    <3>2. CASE b \notin restored /\ b \in removed
      <4>1. Republish(blocks[b], HeadVersion(blocks[b]), u, TRUE) \in Stack
        BY <1>3, <1>5, <1>7, <1>15, <3>2, RestoredStack DEF TxInv, SoundStep, SoundStack
      <4>2. stack(b) = Republish(blocks[b], HeadVersion(blocks[b]), u, TRUE)
        BY <3>2
      <4>3. QED
        BY <4>1, <4>2
    <3>3. CASE b \notin restored /\ b \notin removed
      BY <3>3, StacksOf
    <3>4. QED
      BY <3>1, <3>2, <3>3
  <2> HIDE DEF stack
  <2>2. QED
    BY <1>10, <2>1
<1>17. /\ t.pc = step /\ t.op = "restore" /\ t.user = u /\ t.unlinked = removed
       /\ t.rows = rows /\ t.taskRows = T /\ t.groupRows = G /\ t.checkpoint = Kept
  BY <1>1, <1>2, <1>3 DEF Begins, Unwritten, Txn
<1>18. t.rows = [b \in Block |-> Writes(c, b, f[b])[b]]
  <2> HIDE DEF stack, t
  <2>1. QED
    BY <1>10, <1>11, <1>17
<1>19. Shown(t, blocks) = f /\ rows \in [Block -> [Version -> VersionRow \cup {Absent, Kept}]]
  <2> HIDE DEF t, stack
  <2>1. QED
    BY <1>16, <1>17, <1>18, AllWritesShown
<1>20. /\ tasks \in [TaskBlock -> Task \cup {Absent}]
       /\ groups \in [Group -> {"none", "live", "deleted"}]
  BY DEF TxInv, IInv, TypeOK
<1>21. \A b \in back : b \in TaskBlock /\ tasks[b] \in Task /\ [tasks[b] EXCEPT !.live = TRUE] \in Task
  BY <1>8, <1>20 DEF Task
<1>22. step \in {"unlink", "checkpoint"} /\ (step # "unlink" => removed \cap TaskBlock = {})
  BY <1>14, UnlinkOfSteps
<1>23. t \in Txn
  <2>1. T \in [TaskBlock -> Task \cup {Kept}]
    BY <1>12, <1>21
  <2>2. G \in [Group -> {"live", "deleted", Kept}]
    BY <1>13
  <2>3. step \in Steps
    BY <1>22 DEF Steps
  <2> HIDE DEF stack
  <2>4. QED
    BY <1>2, <1>7, <1>19, <2>1, <2>2, <2>3 DEF Txn
<1> HIDE DEF t, stack
<1>24. PICK T1 : T1 = [b \in TaskBlock |->
                         IF b \in back THEN [tasks[b] EXCEPT !.live = TRUE] ELSE tasks[b]]
  OBVIOUS
<1>25. PICK G1 : G1 = [g \in Group |->
                         IF \E b \in back : tasks[b].group = g THEN "live" ELSE groups[g]]
  OBVIOUS
<1>26. ShownTasks(t, tasks) = T1
  <2>1. \A b \in TaskBlock : Over(T[b], tasks[b]) =
          IF b \in back THEN [tasks[b] EXCEPT !.live = TRUE] ELSE tasks[b]
    <3> SUFFICES ASSUME NEW b \in TaskBlock
                 PROVE  Over(T[b], tasks[b]) =
                          IF b \in back THEN [tasks[b] EXCEPT !.live = TRUE] ELSE tasks[b]
      OBVIOUS
    <3>1. CASE b \in back
      BY <1>12, <1>21, <3>1, KeptFacts
    <3>2. CASE b \notin back
      BY <1>12, <3>2, KeptFacts
    <3>3. QED
      BY <3>1, <3>2
  <2>2. QED
    BY <1>17, <1>24, <2>1 DEF ShownTasks
<1>27. ShownGroups(t, groups) = G1
  <2>1. \A g \in Group : Over(G[g], groups[g]) =
          IF \E b \in back : tasks[b].group = g THEN "live" ELSE groups[g]
    <3> SUFFICES ASSUME NEW g \in Group
                 PROVE  Over(G[g], groups[g]) =
                          IF \E b \in back : tasks[b].group = g THEN "live" ELSE groups[g]
      OBVIOUS
    <3>1. G[g] = IF groups[g] # "live" /\ \E b \in back : tasks[b].group = g
                 THEN "live" ELSE Kept
      BY <1>13
    <3>2. Kept # "live"
      BY KeptAssumption
    <3>3. QED
      BY <3>1, <3>2, KeptFacts
  <2>2. QED
    BY <1>17, <1>25, <2>1 DEF ShownGroups
<1>28. IF t.pc = "unlink"
       THEN ShownTasks(t, tasks) = T1 /\ ShownGroups(t, groups) = G1
       ELSE Unlinks(removed, Shown(t, blocks), T1, G1,
                    ShownTasks(t, tasks), ShownGroups(t, groups))
  <2>1. /\ T1 = [b \in TaskBlock |-> T1[b]] /\ DOMAIN T1 = TaskBlock
        /\ G1 = [g \in Group |-> G1[g]] /\ DOMAIN G1 = Group
    BY <1>24, <1>25
  <2>2. t.pc # "unlink" => Unlinks(removed, Shown(t, blocks), T1, G1, T1, G1)
    BY <1>17, <1>22, <2>1, NothingUnlinked
  <2>3. QED
    BY <1>26, <1>27, <2>2
<1>29. Restores(t, blocks, tasks, groups, checkpoints)
  <2>1. /\ t.op = "restore" /\ t.pc \in {"unlink", "checkpoint", "commit"}
        /\ t.user \in Teacher /\ \A b \in restored \cup removed : HasRoom(blocks[b])
        /\ t.unlinked = removed
        /\ Checkpointed(t, blocks, checkpoints)
    BY <1>3, <1>15, <1>17, <1>22 DEF Checkpointed
  <2>2. Shown(t, blocks) = [b \in Block |->
             CASE b \in restored -> Republish(blocks[b], target[b], t.user, FALSE)
               [] b \in removed  -> Republish(blocks[b], HeadVersion(blocks[b]), t.user, TRUE)
               [] OTHER          -> blocks[b]]
    BY <1>10, <1>17, <1>19 DEF stack
  <2>3. RestoresTo(target, t, blocks, tasks, groups, checkpoints)
    BY <1>6, <1>7, <1>8, <1>24, <1>25, <1>28, <2>1, <2>2 DEF RestoresTo
  <2>4. QED
    BY <1>5, <2>3 DEF Restores
<1>30. QED
  BY <1>2, <1>3, <1>15, <1>23, <1>29, GoesAloneInv DEF Fits, Active, ExclusiveOp

-----------------------------------------------------------------------------
(* Ending                                                                  *)

LEMMA TasksOf ==
  ASSUME TxInv, NEW c \in Connection
  PROVE  /\ SeesTasks(c) \in [TaskBlock -> Task \cup {Absent}]
         /\ SeesGroups(c) \in [Group -> {"none", "live", "deleted"}]
<1>1. /\ tasks \in [TaskBlock -> Task \cup {Absent}]
      /\ groups \in [Group -> {"none", "live", "deleted"}] /\ txn[c] \in Txn
  BY StacksOf DEF TxInv, IInv, TypeOK
<1>2. PICK T : T = txn[c].taskRows
  OBVIOUS
<1>3. PICK G : G = txn[c].groupRows
  OBVIOUS
<1>4. T \in [TaskBlock -> Task \cup {Kept}] /\ G \in [Group -> {"live", "deleted", Kept}]
  BY <1>1, <1>2, <1>3 DEF Txn
<1>5. \A b \in TaskBlock : Over(T[b], tasks[b]) \in Task \cup {Absent}
  BY <1>1, <1>4 DEF Over
<1>6. \A g \in Group : Over(G[g], groups[g]) \in {"none", "live", "deleted"}
  BY <1>1, <1>4 DEF Over
<1>7. QED
  BY <1>2, <1>3, <1>5, <1>6 DEF SeesTasks, SeesGroups

\* The statement that deletes the unlinked tasks: what it deletes, and the rows
\* it leaves.
GoneTasks(c) ==
  {b \in txn[c].unlinked \cap TaskBlock :
     IsLiveTask(SeesTasks(c)[b]) /\ ~LinksTask(Sees(c)[b])}

DeadGroups(c) == Emptied(SeesTasks(c), GoneTasks(c))

UnlinkedTaskRows(c) ==
  [b \in TaskBlock |->
     IF b \in GoneTasks(c) THEN [SeesTasks(c)[b] EXCEPT !.live = FALSE]
     ELSE txn[c].taskRows[b]]

UnlinkedGroupRows(c) ==
  [g \in Group |-> IF g \in DeadGroups(c) THEN "deleted" ELSE txn[c].groupRows[g]]

LEMMA UnlinkWrites ==
  ASSUME TxInv, NEW c \in Connection, NEW t,
         t.taskRows = UnlinkedTaskRows(c), t.groupRows = UnlinkedGroupRows(c)
  PROVE  /\ Unlinks(txn[c].unlinked, Sees(c), SeesTasks(c), SeesGroups(c),
                    ShownTasks(t, tasks), ShownGroups(t, groups))
         /\ t.taskRows \in [TaskBlock -> Task \cup {Kept}]
         /\ t.groupRows \in [Group -> {"live", "deleted", Kept}]
<1> DEFINE T == SeesTasks(c)
           G == SeesGroups(c)
           R == Sees(c)
<1> HIDE DEF T, G, R
<1>1. PICK gone : gone = GoneTasks(c)
  OBVIOUS
<1>2. PICK dead : dead = DeadGroups(c)
  OBVIOUS
<1>3. gone = {b \in txn[c].unlinked \cap TaskBlock : IsLiveTask(T[b]) /\ ~LinksTask(R[b])}
  BY <1>1 DEF GoneTasks, T, R
<1>4. dead = Emptied(T, gone)
  BY <1>1, <1>2 DEF DeadGroups, T
<1>5. t.taskRows = [b \in TaskBlock |->
           IF b \in gone THEN [T[b] EXCEPT !.live = FALSE] ELSE txn[c].taskRows[b]]
  BY <1>1 DEF UnlinkedTaskRows, T
<1>6. t.groupRows = [g \in Group |-> IF g \in dead THEN "deleted" ELSE txn[c].groupRows[g]]
  BY <1>2 DEF UnlinkedGroupRows
<1>7. /\ T \in [TaskBlock -> Task \cup {Absent}] /\ G \in [Group -> {"none", "live", "deleted"}]
      /\ txn[c] \in Txn
  BY TasksOf, StacksOf DEF T, G
<1>8. \A b \in TaskBlock : T[b] = Over(txn[c].taskRows[b], tasks[b])
  BY DEF SeesTasks, T
<1>9. \A g \in Group : G[g] = Over(txn[c].groupRows[g], groups[g])
  BY DEF SeesGroups, G
<1>10. \A b \in gone : b \in TaskBlock /\ T[b] \in Task
  BY <1>7, <1>3 DEF IsLiveTask
<1>11. \A b \in gone : [T[b] EXCEPT !.live = FALSE] \in Task
  <2> SUFFICES ASSUME NEW b \in gone  PROVE [T[b] EXCEPT !.live = FALSE] \in Task
    OBVIOUS
  <2>1. PICK w : w = T[b]
    OBVIOUS
  <2>2. w \in Task
    BY <1>10, <2>1
  <2>3. [w EXCEPT !.live = FALSE] \in Task
    BY <2>2 DEF Task
  <2>4. QED
    BY <2>1, <2>3
<1>12. ShownTasks(t, tasks) =
        [b \in TaskBlock |-> IF b \in gone THEN [T[b] EXCEPT !.live = FALSE] ELSE T[b]]
  <2>1. \A b \in TaskBlock : Over(t.taskRows[b], tasks[b]) =
          IF b \in gone THEN [T[b] EXCEPT !.live = FALSE] ELSE T[b]
    <3> SUFFICES ASSUME NEW b \in TaskBlock
                 PROVE  Over(t.taskRows[b], tasks[b]) =
                          IF b \in gone THEN [T[b] EXCEPT !.live = FALSE] ELSE T[b]
      OBVIOUS
    <3>1. PICK w : w = [T[b] EXCEPT !.live = FALSE]
      OBVIOUS
    <3>2. CASE b \in gone
      <4>1. t.taskRows[b] = w /\ w \in Task
        BY <1>11, <1>5, <3>1, <3>2
      <4>2. QED
        BY <3>1, <3>2, <4>1, KeptFacts
    <3>3. CASE b \notin gone
      <4>1. t.taskRows[b] = txn[c].taskRows[b]
        BY <1>5, <3>3
      <4>2. QED
        BY <1>8, <3>3, <4>1
    <3>4. QED
      BY <3>2, <3>3
  <2>2. QED
    BY <2>1 DEF ShownTasks
<1>13. ShownGroups(t, groups) = [g \in Group |-> IF g \in dead THEN "deleted" ELSE G[g]]
  <2>1. \A g \in Group : Over(t.groupRows[g], groups[g]) = IF g \in dead THEN "deleted" ELSE G[g]
    <3> SUFFICES ASSUME NEW g \in Group
                 PROVE  Over(t.groupRows[g], groups[g]) = IF g \in dead THEN "deleted" ELSE G[g]
      OBVIOUS
    <3>1. t.groupRows[g] = IF g \in dead THEN "deleted" ELSE txn[c].groupRows[g]
      BY <1>6
    <3>2. "deleted" # Kept
      BY KeptAssumption
    <3>3. QED
      BY <1>9, <3>1, <3>2, KeptFacts
  <2>2. QED
    BY <2>1 DEF ShownGroups
<1>15. Unlinks(txn[c].unlinked, R, T, G, ShownTasks(t, tasks), ShownGroups(t, groups))
  BY <1>3, <1>4, <1>12, <1>13 DEF Unlinks
<1>16. t.taskRows \in [TaskBlock -> Task \cup {Kept}]
  <2>1. \A b \in TaskBlock : txn[c].taskRows[b] \in Task \cup {Kept}
    BY <1>7 DEF Txn
  <2>2. QED
    BY <1>11, <1>5, <2>1
<1>17. t.groupRows \in [Group -> {"live", "deleted", Kept}]
  <2>1. \A g \in Group : txn[c].groupRows[g] \in {"live", "deleted", Kept}
    BY <1>7 DEF Txn
  <2>2. QED
    BY <1>6, <2>1
<1>18. QED
  BY <1>15, <1>16, <1>17 DEF T, G, R

\* What deleteUnlinkedTasks does is the same whenever it runs.
LEMMA UnlinkInv ==
  ASSUME TxInv, LockInv', NEW c \in Connection, Unlink(c)
  PROVE  TxInv'
<1>1. PICK T : T = SeesTasks(c)
  OBVIOUS
<1>2. PICK G : G = SeesGroups(c)
  OBVIOUS
<1>3. PICK R : R = Sees(c)
  OBVIOUS
<1>6. PICK taskRows : taskRows = UnlinkedTaskRows(c)
  OBVIOUS
<1>7. PICK groupRows : groupRows = UnlinkedGroupRows(c)
  OBVIOUS
<1>8. PICK step : step = IF txn[c].op \in {"publish", "restore"} THEN "checkpoint" ELSE "commit"
  OBVIOUS
<1> DEFINE t == [txn[c] EXCEPT !.taskRows = taskRows, !.groupRows = groupRows, !.pc = step]
<1>9. Goes(c, t) /\ txn[c].pc = "unlink"
  BY <1>6, <1>7, <1>8 DEF Unlink, UnlinkedTaskRows, UnlinkedGroupRows, GoneTasks, DeadGroups
<1>10. /\ txn[c] \in Txn
       /\ \/ Edits(txn[c], blocks) \/ Discards(txn[c], blocks)
          \/ PublishesAll(txn[c], blocks, tasks, groups, checkpoints)
          \/ Restores(txn[c], blocks, tasks, groups, checkpoints)
  BY <1>9, StageOf DEF TxInv, TxTypeOK, AllFit
<1>11. /\ t.pc = step /\ t.op = txn[c].op /\ t.user = txn[c].user /\ t.block = txn[c].block
       /\ t.seen = txn[c].seen /\ t.draft = txn[c].draft
       /\ t.locked = txn[c].locked /\ t.todo = txn[c].todo
       /\ t.unlinked = txn[c].unlinked /\ t.rows = txn[c].rows /\ t.checkpoint = txn[c].checkpoint
       /\ t.taskRows = taskRows /\ t.groupRows = groupRows
  BY <1>10 DEF Txn
<1>12. /\ Unlinks(txn[c].unlinked, R, T, G, ShownTasks(t, tasks), ShownGroups(t, groups))
       /\ taskRows \in [TaskBlock -> Task \cup {Kept}]
       /\ groupRows \in [Group -> {"live", "deleted", Kept}]
  <2>1. t.taskRows = taskRows /\ t.groupRows = groupRows
    BY <1>11
  <2> HIDE DEF t
  <2>2. /\ Unlinks(txn[c].unlinked, R, T, G, ShownTasks(t, tasks), ShownGroups(t, groups))
        /\ t.taskRows \in [TaskBlock -> Task \cup {Kept}]
        /\ t.groupRows \in [Group -> {"live", "deleted", Kept}]
    BY <1>1, <1>2, <1>3, <1>6, <1>7, <2>1, UnlinkWrites
  <2>3. QED
    BY <2>1, <2>2
<1>13. t \in Txn
  <2>1. step \in Steps
    BY <1>8 DEF Steps
  <2>2. QED
    BY <1>10, <1>12, <2>1 DEF Txn
<1> HIDE DEF t
<1>14. R = Shown(t, blocks) /\ R = Shown(txn[c], blocks)
  BY <1>3, <1>11, SeesShown DEF Shown
<1>15. CASE Edits(txn[c], blocks)
  <2>1. step = "commit"
    BY <1>8, <1>15 DEF Edits
  <2>2. Edits(t, blocks)
    <3>1. PICK row \in VersionRow \cup {Absent, Kept} :
            /\ EditedRow(blocks[txn[c].block], txn[c].seen, txn[c].draft, row)
            /\ txn[c].rows = Only(txn[c].block, txn[c].draft, row)
      BY <1>15 DEF Edits
    <3>2. Editing(t)
      BY <1>11, <1>15 DEF Edits, Editing
    <3>3. QED
      BY <1>11, <1>15, <2>1, <3>1, <3>2 DEF Edits
  <2>3. QED
    BY <1>9, <1>11, <1>13, <2>2, GoesOnInv DEF Fits, Active
<1>16. CASE Discards(txn[c], blocks)
  <2>1. step = "commit"
    BY <1>8, <1>16 DEF Discards
  <2>2. Discards(t, blocks)
    BY <1>11, <1>16, <2>1 DEF Discards
  <2>3. QED
    BY <1>9, <1>11, <1>13, <2>2, GoesOnInv DEF Fits, Active
<1>17. CASE PublishesAll(txn[c], blocks, tasks, groups, checkpoints)
  <2>1. step = "checkpoint" /\ TasksKept(txn[c]) /\ txn[c].checkpoint = Kept
    BY <1>8, <1>9, <1>17 DEF PublishesAll, Checkpointed
  <2>2. T = tasks /\ G = groups
    BY <1>1, <1>2, <2>1, SeesShown, TasksKeptShown
  <2>3. /\ Unlinks(t.unlinked, Shown(t, blocks), tasks, groups,
                   ShownTasks(t, tasks), ShownGroups(t, groups))
        /\ Shown(t, blocks) = Shown(txn[c], blocks)
        /\ Checkpointed(t, blocks, checkpoints)
    BY <1>11, <1>12, <1>14, <2>1, <2>2 DEF Checkpointed
  <2>4. PublishesAll(t, blocks, tasks, groups, checkpoints)
    BY <1>9, <1>11, <1>17, <2>1, <2>3 DEF PublishesAll
  <2>5. QED
    BY <1>9, <1>11, <1>13, <2>4, GoesOnInv DEF Fits, Active
<1>18. CASE Restores(txn[c], blocks, tasks, groups, checkpoints)
  <2>1. PICK i \in 1..Len(checkpoints) :
          RestoresTo(checkpoints[i], txn[c], blocks, tasks, groups, checkpoints)
    BY <1>18 DEF Restores
  <2>2. PICK target : target = checkpoints[i]
    OBVIOUS
  <2>3. step = "checkpoint" /\ txn[c].checkpoint = Kept
    BY <1>8, <1>9, <2>1 DEF RestoresTo, Checkpointed
  <2>4. /\ T = ShownTasks(txn[c], tasks) /\ G = ShownGroups(txn[c], groups)
        /\ Unlinks(t.unlinked, Shown(t, blocks), T, G,
                   ShownTasks(t, tasks), ShownGroups(t, groups))
        /\ Shown(t, blocks) = Shown(txn[c], blocks)
        /\ Checkpointed(t, blocks, checkpoints)
    BY <1>1, <1>2, <1>11, <1>12, <1>14, <2>3, SeesShown DEF Checkpointed
  <2>5. RestoresTo(target, t, blocks, tasks, groups, checkpoints)
    BY <1>9, <1>11, <2>1, <2>2, <2>3, <2>4 DEF RestoresTo
  <2>6. QED
    BY <1>9, <1>11, <1>13, <2>2, <2>5, GoesOnInv DEF Fits, Active, Restores
<1>19. QED
  BY <1>10, <1>15, <1>16, <1>17, <1>18

\* What a publish, a restore or a task update sees when it fills its checkpoint.
LEMMA CheckpointedSound ==
  ASSUME TxInv, NEW c \in Connection, txn[c].pc = "checkpoint", NEW b \in Block
  PROVE  SoundStack(Sees(c)[b])
<1>1. /\ IInv /\ txn[c] \in Txn /\ blocks \in [Block -> Stack] /\ SoundStack(blocks[b])
      /\ Sees(c) = Shown(txn[c], blocks)
  BY SeesShown, StacksOf DEF TxInv
<1>2. \/ UpdatesTask(txn[c], blocks, checkpoints)
      \/ PublishesAll(txn[c], blocks, tasks, groups, checkpoints)
      \/ Restores(txn[c], blocks, tasks, groups, checkpoints)
  BY StageOf DEF TxInv, AllFit
<1>3. PICK u : u = txn[c].user
  OBVIOUS
<1>4. CASE UpdatesTask(txn[c], blocks, checkpoints)
  <2>1. PICK a : a = txn[c].block
    OBVIOUS
  <2>2. PICK seen : seen = txn[c].seen
    OBVIOUS
  <2>3. PICK d : d = txn[c].draft
    OBVIOUS
  <2>4. /\ u \in Teacher /\ a \in Block /\ seen \in Version /\ d \in Version
        /\ CanDraft(blocks[a], u, seen, d)
    BY <1>3, <1>4, <2>1, <2>2, <2>3 DEF UpdatesTask, Editing
  <2>5. PICK x \in Data :
          LET s == TaskDraft(blocks[a], u, seen, d, x)
          IN  /\ PublishHasRoom(s, d)
              /\ Shown(txn[c], blocks) = [blocks EXCEPT ![a] = PublishDraft(s, d, TRUE)]
    BY <1>3, <1>4, <2>1, <2>2, <2>3 DEF UpdatesTask
  <2>6. PICK s : s = TaskDraft(blocks[a], u, seen, d, x)
    OBVIOUS
  <2>7. SoundStack(s) /\ d \in Present(s) \ Published(s)
    BY <1>1, <2>4, <2>6, DraftedData DEF SoundEdit, SoundStep
  <2>8. PICK yes \in BOOLEAN : yes = TRUE
    OBVIOUS
  <2>9. PICK p : p = PublishDraft(s, d, yes)
    OBVIOUS
  <2>10. SoundStack(p)
    BY <2>5, <2>6, <2>7, <2>9, PublishDraftSound DEF SoundStep
  <2>11. Sees(c) = [blocks EXCEPT ![a] = p]
    BY <1>1, <2>5, <2>6, <2>8, <2>9
  <2>12. QED
    BY <1>1, <2>10, <2>11
<1>5. CASE PublishesAll(txn[c], blocks, tasks, groups, checkpoints)
  <2>1. PICK d : d = OwnDraft(blocks[b], u)
    OBVIOUS
  <2>2. PICK mine : mine = DataMine(blocks[b], d)
    OBVIOUS
  <2>3. mine \in BOOLEAN /\ u \in Teacher
    BY <1>3, <1>5, <2>2 DEF DataMine, PublishesAll
  <2>4. \/ Sees(c)[b] = blocks[b]
        \/ /\ OwnDrafts(blocks[b], u) # {} /\ PublishHasRoom(blocks[b], d)
           /\ Sees(c)[b] = PublishDraft(blocks[b], d, mine)
    BY <1>1, <1>3, <1>5, <2>1, <2>2 DEF PublishesAll
  <2>5. CASE Sees(c)[b] = blocks[b]
    BY <1>1, <2>5
  <2>6. CASE Sees(c)[b] # blocks[b]
    BY <1>1, <2>1, <2>3, <2>4, <2>6, OwnDraftIs, PublishDraftSound DEF SoundStep
  <2>7. QED
    BY <2>5, <2>6
<1>6. CASE Restores(txn[c], blocks, tasks, groups, checkpoints)
  <2>1. PICK i \in 1..Len(checkpoints) :
          RestoresTo(checkpoints[i], txn[c], blocks, tasks, groups, checkpoints)
    BY <1>6 DEF Restores
  <2>2. u \in Teacher
    BY <1>3, <2>1 DEF RestoresTo
  <2>3. Restored(blocks[b], checkpoints[i][b]) =>
          /\ HasRoom(blocks[b])
          /\ Sees(c)[b] = Republish(blocks[b], checkpoints[i][b], u, FALSE)
    <3> SUFFICES ASSUME Restored(blocks[b], checkpoints[i][b])
                 PROVE  /\ HasRoom(blocks[b])
                        /\ Sees(c)[b] = Republish(blocks[b], checkpoints[i][b], u, FALSE)
      OBVIOUS
    <3>1. HasRoom(blocks[b])
      BY <2>1 DEF RestoresTo
    <3>2. Sees(c)[b] = Republish(blocks[b], checkpoints[i][b], u, FALSE)
      <4>1. ~Removed(blocks[b], checkpoints[i][b])
        BY DEF Restored, Removed
      <4>2. QED
        BY <1>1, <1>3, <2>1, <4>1 DEF RestoresTo
    <3>3. QED
      BY <3>1, <3>2
  <2>4. ~Restored(blocks[b], checkpoints[i][b]) /\ Removed(blocks[b], checkpoints[i][b]) =>
          /\ HasRoom(blocks[b])
          /\ Sees(c)[b] = Republish(blocks[b], HeadVersion(blocks[b]), u, TRUE)
    BY <1>1, <1>3, <2>1 DEF RestoresTo
  <2>5. ~Restored(blocks[b], checkpoints[i][b]) /\ ~Removed(blocks[b], checkpoints[i][b]) =>
          Sees(c)[b] = blocks[b]
    BY <1>1, <1>3, <2>1 DEF RestoresTo
  <2>6. CASE Restored(blocks[b], checkpoints[i][b])
    BY <1>1, <2>2, <2>3, <2>6, RestoredStack DEF SoundStep
  <2>7. CASE ~Restored(blocks[b], checkpoints[i][b]) /\ Removed(blocks[b], checkpoints[i][b])
    BY <1>1, <2>2, <2>4, <2>7, RestoredStack DEF SoundStep
  <2>8. QED
    BY <1>1, <2>5, <2>6, <2>7
<1>7. QED
  BY <1>2, <1>4, <1>5, <1>6

\* The checkpoint records the heads as the transaction leaves them.
LEMMA FillCheckpointInv ==
  ASSUME TxInv, LockInv', NEW c \in Connection, FillCheckpoint(c)
  PROVE  TxInv'
<1>1. PICK R : R = Sees(c)
  OBVIOUS
<1>2. PICK heads : heads = LiveHeads(R)
  OBVIOUS
<1> DEFINE t == [txn[c] EXCEPT !.checkpoint = heads, !.pc = "commit"]
<1>3. Goes(c, t) /\ txn[c].pc = "checkpoint" /\ Len(checkpoints) < MaxCheckpoints
  BY <1>1, <1>2 DEF FillCheckpoint
<1>4. /\ txn[c] \in Txn
      /\ \/ UpdatesTask(txn[c], blocks, checkpoints)
         \/ PublishesAll(txn[c], blocks, tasks, groups, checkpoints)
         \/ Restores(txn[c], blocks, tasks, groups, checkpoints)
  BY <1>3, StageOf DEF TxInv, TxTypeOK, AllFit
<1>5. heads \in [Block -> Version \cup {0}]
  <2>1. \A b \in Block :
          (IF HasLiveHead(R[b]) THEN HeadVersion(R[b]) ELSE 0) \in Version \cup {0}
    BY <1>1, <1>3, CheckpointedSound, LiveHeadFacts
  <2>2. QED
    BY <1>2, <2>1 DEF LiveHeads
<1>6. /\ t.pc = "commit" /\ t.op = txn[c].op /\ t.user = txn[c].user /\ t.block = txn[c].block
      /\ t.seen = txn[c].seen /\ t.draft = txn[c].draft
      /\ t.locked = txn[c].locked /\ t.todo = txn[c].todo
      /\ t.unlinked = txn[c].unlinked /\ t.rows = txn[c].rows /\ t.checkpoint = heads
      /\ t.taskRows = txn[c].taskRows /\ t.groupRows = txn[c].groupRows
  BY <1>4 DEF Txn
<1>7. t \in Txn
  BY <1>4, <1>5 DEF Txn, Steps
<1> HIDE DEF t
<1>8. /\ Shown(t, blocks) = Shown(txn[c], blocks) /\ R = Shown(t, blocks)
      /\ ShownTasks(t, tasks) = ShownTasks(txn[c], tasks)
      /\ ShownGroups(t, groups) = ShownGroups(txn[c], groups)
  BY <1>1, <1>6, SeesShown DEF Shown, ShownTasks, ShownGroups
<1>9. Checkpointed(t, blocks, checkpoints)
  <2>1. heads # Kept
    BY <1>5, KeptAssumption
  <2>2. QED
    BY <1>2, <1>3, <1>6, <1>8, <2>1 DEF Checkpointed
<1>10. CASE UpdatesTask(txn[c], blocks, checkpoints)
  <2>1. Editing(t) /\ TasksKept(t)
    BY <1>6, <1>10 DEF UpdatesTask, Editing, TasksKept
  <2>2. UpdatesTask(t, blocks, checkpoints)
    <3>1. PICK x \in Data :
            LET s == TaskDraft(blocks[txn[c].block], txn[c].user, txn[c].seen, txn[c].draft, x)
            IN  /\ ~Conflicting(s, txn[c].draft, TRUE)
                /\ PublishHasRoom(s, txn[c].draft)
                /\ Shown(txn[c], blocks) =
                     [blocks EXCEPT ![txn[c].block] = PublishDraft(s, txn[c].draft, TRUE)]
      BY <1>3, <1>10 DEF UpdatesTask
    <3>2. QED
      BY <1>6, <1>8, <1>9, <1>10, <2>1, <3>1 DEF UpdatesTask
  <2>3. QED
    BY <1>3, <1>6, <1>7, <2>2, GoesOnInv DEF Fits, Active
<1>11. CASE PublishesAll(txn[c], blocks, tasks, groups, checkpoints)
  <2>1. PublishesAll(t, blocks, tasks, groups, checkpoints)
    <3>1. txn[c].todo = {}
      BY <1>3, <1>11 DEF PublishesAll
    <3>2. /\ t.op = "publish" /\ t.user \in Teacher
          /\ Unlinks(t.unlinked, Shown(t, blocks), tasks, groups,
                     ShownTasks(t, tasks), ShownGroups(t, groups))
      BY <1>3, <1>6, <1>8, <1>11 DEF PublishesAll
    <3>3. PICK drafted : drafted = {b \in Block : OwnDrafts(blocks[b], txn[c].user) # {}}
      OBVIOUS
    <3>4. drafted = {b \in Block : OwnDrafts(blocks[b], t.user) # {}}
      BY <1>6, <3>3
    <3>5. /\ drafted # {} /\ t.todo \subseteq drafted
          /\ \A b \in drafted \ t.todo :
               /\ ~Conflicting(blocks[b], OwnDraft(blocks[b], t.user),
                               DataMine(blocks[b], OwnDraft(blocks[b], t.user)))
               /\ PublishHasRoom(blocks[b], OwnDraft(blocks[b], t.user))
      BY <1>6, <1>11, <3>3 DEF PublishesAll
    <3>6. Shown(t, blocks) = [b \in Block |->
            IF b \in drafted \ t.todo
            THEN PublishDraft(blocks[b], OwnDraft(blocks[b], t.user),
                              DataMine(blocks[b], OwnDraft(blocks[b], t.user)))
            ELSE blocks[b]]
      BY <1>6, <1>8, <1>11, <3>3 DEF PublishesAll
    <3>7. t.unlinked = {b \in drafted \ t.todo :
                          PublishesDeleted(blocks[b], OwnDraft(blocks[b], t.user))}
      BY <1>6, <1>11, <3>3 DEF PublishesAll
    <3>8. QED
      BY <1>6, <1>9, <3>1, <3>2, <3>4, <3>5, <3>6, <3>7 DEF PublishesAll
  <2>2. QED
    BY <1>3, <1>6, <1>7, <2>1, GoesOnInv DEF Fits, Active
<1>12. CASE Restores(txn[c], blocks, tasks, groups, checkpoints)
  <2>1. PICK i \in 1..Len(checkpoints) :
          RestoresTo(checkpoints[i], txn[c], blocks, tasks, groups, checkpoints)
    BY <1>12 DEF Restores
  <2>2. PICK target : target = checkpoints[i]
    OBVIOUS
  <2>3. RestoresTo(target, t, blocks, tasks, groups, checkpoints)
    BY <1>3, <1>6, <1>8, <1>9, <2>1, <2>2 DEF RestoresTo
  <2>4. QED
    BY <1>3, <1>6, <1>7, <2>2, <2>3, GoesOnInv DEF Fits, Active, Restores
<1>13. QED
  BY <1>4, <1>10, <1>11, <1>12

\* A transaction that rolls back was as if it had never been.
LEMMA RollbackInv ==
  ASSUME TxInv, LockInv', NEW c \in Connection, Rollback(c)
  PROVE  TxInv'
<1>1. Goes(c, NoTxn)
  BY DEF Rollback
<1>2. NoTxn.rows = NoRows /\ NoTxn.pc = "idle" /\ NoTxn.locked = {} /\ NoTxn \in Txn
  BY NoTxnFacts DEF Unwritten
<1>3. Fits(NoTxn, blocks, tasks, groups, checkpoints)
  BY DEF Fits
<1>4. PICK t : t = NoTxn
  OBVIOUS
<1>5. QED
  BY <1>1, <1>2, <1>3, <1>4, GoesAnewInv

\* The course ends when nobody holds its row.
LEMMA DeleteCourseInv ==
  ASSUME TxInv, LockInv', DeleteCourse
  PROVE  TxInv'
<1>1. DeleteCourseByID /\ UNCHANGED txn /\ \A c \in Connection : ~Active(c)
  BY DEF DeleteCourse
<1>2. UNCHANGED <<blocks, tasks, groups, checkpoints, txn>>
  BY <1>1 DEF DeleteCourseByID
<1>3. IInv'
  BY <1>1, NextIInv DEF Next, TxInv
<1>4. Recorded'
  BY <1>2 DEF TxInv, Recorded
<1>5. TxTypeOK' /\ LocksApart' /\ RowsApart'
  BY <1>2 DEF TxInv, TxTypeOK, LocksApart, RowsApart
<1>6. CourseThere'
  BY <1>1, <1>2 DEF CourseThere, Active
<1>7. AllFit'
  BY <1>2 DEF TxInv, AllFit
<1>8. QED
  BY <1>3, <1>4, <1>5, <1>6, <1>7 DEF TxInv

\* What a commit writes.
LEMMA CommitFacts ==
  ASSUME TxInv, NEW c \in Connection, Commit(c)
  PROVE  /\ IInv /\ Recorded /\ txn[c] \in Txn /\ txn[c].pc = "commit" /\ Active(c)
         /\ ~courseDeleted /\ UNCHANGED courseDeleted
         /\ blocks' = Shown(txn[c], blocks)
         /\ tasks' = ShownTasks(txn[c], tasks) /\ groups' = ShownGroups(txn[c], groups)
         /\ tasks' \in TasksType /\ groups' \in GroupsType
         /\ checkpoints' = IF txn[c].checkpoint = Kept THEN checkpoints
                           ELSE Append(checkpoints, txn[c].checkpoint)
         /\ txn' = [txn EXCEPT ![c] = NoTxn]
         /\ \/ Creates(txn[c], blocks) \/ Edits(txn[c], blocks)
            \/ Discards(txn[c], blocks)
            \/ UpdatesDraft(txn[c], blocks) \/ UpdatesTask(txn[c], blocks, checkpoints)
            \/ PublishesAll(txn[c], blocks, tasks, groups, checkpoints)
            \/ Restores(txn[c], blocks, tasks, groups, checkpoints)
            \/ Rebalances(txn[c], blocks)
<1>1. txn[c].pc = "commit" /\ Active(c)
  BY DEF Commit, Active
<1>2. ~courseDeleted
  BY <1>1 DEF TxInv, CourseThere
<1>3. tasks' \in TasksType /\ groups' \in GroupsType
  BY TasksOf DEF Commit, TasksType, GroupsType
<1>4. \/ Creates(txn[c], blocks) \/ Edits(txn[c], blocks)
      \/ Discards(txn[c], blocks)
      \/ UpdatesDraft(txn[c], blocks) \/ UpdatesTask(txn[c], blocks, checkpoints)
      \/ PublishesAll(txn[c], blocks, tasks, groups, checkpoints)
      \/ Restores(txn[c], blocks, tasks, groups, checkpoints)
      \/ Rebalances(txn[c], blocks)
  <2>1. Fits(txn[c], blocks, tasks, groups, checkpoints)
    BY DEF TxInv, AllFit
  <2>2. PICK t : t = txn[c]
    OBVIOUS
  <2>3. QED
    BY <1>1, <2>1, <2>2, StageOf
<1>5. IInv /\ Recorded /\ txn[c] \in Txn
  BY StacksOf DEF TxInv
<1>6. /\ blocks' = Shown(txn[c], blocks)
      /\ tasks' = ShownTasks(txn[c], tasks) /\ groups' = ShownGroups(txn[c], groups)
  BY SeesShown DEF Commit
<1>7. /\ UNCHANGED courseDeleted
      /\ checkpoints' = IF txn[c].checkpoint = Kept THEN checkpoints
                        ELSE Append(checkpoints, txn[c].checkpoint)
      /\ txn' = [txn EXCEPT ![c] = NoTxn]
  BY DEF Commit
<1>8. QED
  BY <1>1, <1>2, <1>3, <1>4, <1>5, <1>6, <1>7

\* A rebalance commits as one.
LEMMA RebalanceCommits ==
  ASSUME TxInv, NEW c \in Connection, Commit(c), Rebalances(txn[c], blocks)
  PROVE  \E f \in [Position -> Position] : RebalanceBlockPositions(f)
<1>1. PICK f \in [Position -> Position] :
        /\ \A p, q \in Position :
            /\ \E b \in Block, v \in Version :
                 blocks[b][v] # Absent /\ blocks[b][v].position = p
            /\ \E b \in Block, v \in Version :
                 blocks[b][v] # Absent /\ blocks[b][v].position = q
            /\ p < q
            => f[p] < f[q]
        /\ Shown(txn[c], blocks) = [b \in Block |-> Remap(blocks[b], f)]
  BY DEF Rebalances
<1>2. \A p, q \in UsedPositions : p < q => f[p] < f[q]
  BY <1>1 DEF UsedPositions
<1>3. tasks' = tasks /\ groups' = groups /\ checkpoints' = checkpoints
  BY CommitFacts, TasksKeptShown DEF Rebalances
<1>4. RebalanceBlockPositions(f)
  BY <1>1, <1>2, <1>3, CommitFacts DEF RebalanceBlockPositions
<1>5. QED
  BY <1>4

\* A task update commits as one, in a draft that was there or published at once.
LEMMA UpdateCommits ==
  ASSUME TxInv, NEW c \in Connection, Commit(c),
         UpdatesDraft(txn[c], blocks) \/ UpdatesTask(txn[c], blocks, checkpoints),
         NEW u, u = txn[c].user, NEW b, b = txn[c].block, NEW seen, seen = txn[c].seen,
         NEW d, d = txn[c].draft
  PROVE  /\ u \in Teacher /\ b \in TaskBlock /\ seen \in Version /\ d \in Version
         /\ \E x \in Data : UpdateTask(u, b, seen, d, x)
<1>1. /\ txn[c].op = "update" /\ TasksKept(txn[c])
      /\ u \in Teacher /\ b \in TaskBlock /\ seen \in Version /\ d \in Version
      /\ CanDraft(blocks[b], u, seen, d)
  BY DEF UpdatesDraft, UpdatesTask, Editing
<1>2. /\ ~courseDeleted /\ blocks' = Shown(txn[c], blocks)
      /\ UNCHANGED <<tasks, groups, courseDeleted>>
  BY <1>1, CommitFacts, TasksKeptShown
<1>3. IsLiveTask(tasks[b]) /\ LiveInView(blocks'[b], u)
  BY <1>1 DEF Commit, ReadsBack
<1>4. CASE UpdatesDraft(txn[c], blocks)
  <2>1. PICK x \in Data :
          Shown(txn[c], blocks) = [blocks EXCEPT ![b] = TaskDraft(@, u, seen, d, x)]
    BY <1>4 DEF UpdatesDraft
  <2>2. d = seen /\ txn[c].checkpoint = Kept
    BY <1>4 DEF UpdatesDraft
  <2>3. blocks' = [blocks EXCEPT ![b] = TaskDraft(blocks[b], u, seen, d, x)]
    BY <1>2, <2>1
  <2>4. UNCHANGED checkpoints
    BY <2>2, CommitFacts
  <2>5. UpdateTask(u, b, seen, d, x)
    BY <1>1, <1>2, <1>3, <2>2, <2>3, <2>4 DEF UpdateTask, TaskDraft
  <2>6. QED
    BY <1>1, <2>5
<1>5. CASE UpdatesTask(txn[c], blocks, checkpoints)
  <2>1. txn[c].pc = "commit" /\ d # seen
    BY <1>5, CommitFacts DEF UpdatesTask
  <2>2. PICK x \in Data :
          LET s == TaskDraft(blocks[b], u, seen, d, x)
          IN  /\ ~Conflicting(s, d, TRUE) /\ PublishHasRoom(s, d)
              /\ Shown(txn[c], blocks) = [blocks EXCEPT ![b] = PublishDraft(s, d, TRUE)]
    BY <1>5, <2>1 DEF UpdatesTask
  <2>3. PICK s : s = TaskDraft(blocks[b], u, seen, d, x)
    OBVIOUS
  <2>4. /\ ~Conflicting(s, d, TRUE) /\ PublishHasRoom(s, d)
        /\ blocks' = [blocks EXCEPT ![b] = PublishDraft(s, d, TRUE)]
    BY <1>2, <2>2, <2>3
  <2>5. CreateCheckpoint
    <3>1. checkpoints' = IF txn[c].checkpoint = Kept THEN checkpoints
                         ELSE Append(checkpoints, txn[c].checkpoint)
      BY CommitFacts
    <3>2. Checkpointed(txn[c], blocks, checkpoints)
      BY <1>5 DEF UpdatesTask
    <3>3. QED
      BY <1>2, <2>1, <3>1, <3>2 DEF Checkpointed, CreateCheckpoint
  <2>6. UpdateTask(u, b, seen, d, x)
    <3>1. s = [Drafted(blocks[b], u, seen, d) EXCEPT ![d].data = x]
      BY <2>3 DEF TaskDraft
    <3>2. QED
      BY <1>1, <1>2, <1>3, <2>1, <2>4, <2>5, <3>1 DEF UpdateTask
  <2>7. QED
    BY <1>1, <2>6
<1>6. QED
  BY <1>4, <1>5

\* A publish commits as one.
LEMMA PublishCommits ==
  ASSUME TxInv, NEW c \in Connection, Commit(c),
         PublishesAll(txn[c], blocks, tasks, groups, checkpoints)
  PROVE  txn[c].user \in Teacher /\ PublishDrafts(txn[c].user)
<1>1. PICK u : u = txn[c].user
  OBVIOUS
<1>2. PICK drafted : drafted = {b \in Block : OwnDrafts(blocks[b], u) # {}}
  OBVIOUS
<1>3. txn[c].pc = "commit" /\ txn[c].todo = {} /\ u \in Teacher /\ drafted # {}
  BY <1>1, <1>2, CommitFacts DEF PublishesAll
<1>4. drafted \ txn[c].todo = drafted
  BY <1>3
<1>5. \A b \in drafted :
        /\ ~Conflicting(blocks[b], OwnDraft(blocks[b], u), DataMine(blocks[b], OwnDraft(blocks[b], u)))
        /\ PublishHasRoom(blocks[b], OwnDraft(blocks[b], u))
  BY <1>1, <1>2, <1>4 DEF PublishesAll
<1>6. blocks' = [b \in Block |->
        IF b \in drafted
        THEN PublishDraft(blocks[b], OwnDraft(blocks[b], u),
                          DataMine(blocks[b], OwnDraft(blocks[b], u)))
        ELSE blocks[b]]
  BY <1>1, <1>2, <1>4, CommitFacts DEF PublishesAll
<1>7. txn[c].unlinked = {b \in drafted : PublishesDeleted(blocks[b], OwnDraft(blocks[b], u))}
  BY <1>1, <1>2, <1>4 DEF PublishesAll
<1>8. DeleteUnlinkedTasks({b \in drafted : PublishesDeleted(blocks[b], OwnDraft(blocks[b], u))},
                          blocks', tasks, groups)
  <2>1. Unlinks(txn[c].unlinked, Shown(txn[c], blocks), tasks, groups,
                ShownTasks(txn[c], tasks), ShownGroups(txn[c], groups))
    BY <1>3 DEF PublishesAll
  <2>2. Unlinks(txn[c].unlinked, blocks', tasks, groups, tasks', groups')
    BY <2>1, CommitFacts
  <2>3. DeleteUnlinkedTasks(txn[c].unlinked, blocks', tasks, groups)
    BY <2>2 DEF Unlinks, DeleteUnlinkedTasks
  <2>4. QED
    BY <1>7, <2>3
<1>9. CreateCheckpoint
  <2>1. /\ blocks' = Shown(txn[c], blocks)
        /\ checkpoints' = IF txn[c].checkpoint = Kept THEN checkpoints
                          ELSE Append(checkpoints, txn[c].checkpoint)
    BY CommitFacts
  <2>2. Checkpointed(txn[c], blocks, checkpoints)
    BY DEF PublishesAll
  <2>3. QED
    BY <1>3, <2>1, <2>2 DEF Checkpointed, CreateCheckpoint
<1>10. PublishDrafts(u)
  BY <1>2, <1>3, <1>5, <1>6, <1>8, <1>9, CommitFacts DEF PublishDrafts, WithDraft
<1>11. QED
  BY <1>1, <1>3, <1>10

\* A restore commits as one.
LEMMA RestoreCommits ==
  ASSUME TxInv, NEW c \in Connection, Commit(c),
         Restores(txn[c], blocks, tasks, groups, checkpoints)
  PROVE  /\ txn[c].user \in Teacher
         /\ \E i \in 1..Len(checkpoints) : RestoreCheckpoint(txn[c].user, i)
<1>1. PICK u : u = txn[c].user
  OBVIOUS
<1>2. PICK i \in 1..Len(checkpoints) :
        RestoresTo(checkpoints[i], txn[c], blocks, tasks, groups, checkpoints)
  BY DEF Restores
<1>3. PICK target : target = checkpoints[i]
  OBVIOUS
<1>4. PICK restored : restored = {b \in Block : Restored(blocks[b], target[b])}
  OBVIOUS
<1>5. PICK removed : removed = {b \in Block : Removed(blocks[b], target[b])}
  OBVIOUS
<1>6. PICK back : back = Undeleted(restored)
  OBVIOUS
<1>7. PICK T1 : T1 = [b \in TaskBlock |->
                       IF b \in back THEN [tasks[b] EXCEPT !.live = TRUE] ELSE tasks[b]]
  OBVIOUS
<1>8. PICK G1 : G1 = [g \in Group |->
                       IF \E b \in back : tasks[b].group = g THEN "live" ELSE groups[g]]
  OBVIOUS
<1>9. back = {b \in restored \cap TaskBlock : tasks[b] # Absent /\ ~tasks[b].live}
  BY <1>6 DEF Undeleted
<1>10. txn[c].pc = "commit" /\ u \in Teacher /\ txn[c].unlinked = removed
  BY <1>1, <1>2, <1>3, <1>5, CommitFacts DEF RestoresTo
<1>11. \A b \in restored \cup removed : HasRoom(blocks[b])
  BY <1>2, <1>3, <1>4, <1>5 DEF RestoresTo
<1>12. blocks' = [b \in Block |->
         CASE b \in restored -> Republish(blocks[b], target[b], u, FALSE)
           [] b \in removed  -> Republish(blocks[b], HeadVersion(blocks[b]), u, TRUE)
           [] OTHER          -> blocks[b]]
  <2>1. blocks' = Shown(txn[c], blocks)
    BY CommitFacts
  <2>2. QED
    BY <1>1, <1>2, <1>3, <1>4, <1>5, <2>1 DEF RestoresTo
<1>13. Unlinks(removed, Shown(txn[c], blocks), T1, G1,
               ShownTasks(txn[c], tasks), ShownGroups(txn[c], groups))
  BY <1>2, <1>3, <1>4, <1>5, <1>7, <1>8, <1>9, <1>10 DEF RestoresTo
<1>14. DeleteUnlinkedTasks(removed, blocks', T1, G1)
  <2>1. Unlinks(removed, blocks', T1, G1, tasks', groups')
    BY <1>13, CommitFacts
  <2>2. QED
    BY <2>1 DEF Unlinks, DeleteUnlinkedTasks
<1>15. CreateCheckpoint
  <2>1. /\ blocks' = Shown(txn[c], blocks)
        /\ checkpoints' = IF txn[c].checkpoint = Kept THEN checkpoints
                          ELSE Append(checkpoints, txn[c].checkpoint)
    BY CommitFacts
  <2>2. Checkpointed(txn[c], blocks, checkpoints)
    BY <1>2 DEF RestoresTo
  <2>3. QED
    BY <1>10, <2>1, <2>2 DEF Checkpointed, CreateCheckpoint
<1>16. RestoreCheckpoint(u, i)
  <2>1. ~courseDeleted /\ UNCHANGED courseDeleted
    BY CommitFacts
  <2>2. QED
    BY <1>3, <1>4, <1>5, <1>6, <1>7, <1>8, <1>11, <1>12, <1>14, <1>15, <2>1
       DEF RestoreCheckpoint
<1>17. QED
  BY <1>1, <1>10, <1>16

\* What an operation that has the course to itself is when it commits.
LEMMA ExclusiveStages ==
  ASSUME TxInv, NEW c \in Connection, Commit(c), txn[c].op \in ExclusiveOp
  PROVE  \/ UpdatesDraft(txn[c], blocks) \/ UpdatesTask(txn[c], blocks, checkpoints)
         \/ PublishesAll(txn[c], blocks, tasks, groups, checkpoints)
         \/ Restores(txn[c], blocks, tasks, groups, checkpoints)
         \/ Rebalances(txn[c], blocks)
<1>1. PICK op : op = txn[c].op
  OBVIOUS
<1>2. op \notin {"create", "patch", "move", "delete", "discard"}
  BY <1>1 DEF ExclusiveOp
<1>3. ~Creates(txn[c], blocks) /\ ~Edits(txn[c], blocks) /\ ~Discards(txn[c], blocks)
  BY <1>1, <1>2 DEF Creates, Edits, Discards
<1>4. QED
  BY <1>3, CommitFacts

\* Whatever has the course to itself commits as one action of BlockVersions.
LEMMA ExclusiveCommits ==
  ASSUME TxInv, NEW c \in Connection, Commit(c), txn[c].op \in ExclusiveOp
  PROVE  ExclusiveCommit(c)
<1>1. PICK op : op = txn[c].op
  OBVIOUS
<1>3. \/ UpdatesDraft(txn[c], blocks) \/ UpdatesTask(txn[c], blocks, checkpoints)
      \/ PublishesAll(txn[c], blocks, tasks, groups, checkpoints)
      \/ Restores(txn[c], blocks, tasks, groups, checkpoints)
      \/ Rebalances(txn[c], blocks)
  BY ExclusiveStages
<1>4. CASE UpdatesDraft(txn[c], blocks) \/ UpdatesTask(txn[c], blocks, checkpoints)
  <2>1. op = "update"
    BY <1>1, <1>4 DEF UpdatesDraft, UpdatesTask
  <2>2. \E x \in Data : UpdateTask(txn[c].user, txn[c].block, txn[c].seen, txn[c].draft, x)
    BY <1>4, UpdateCommits
  <2>3. QED
    BY <1>1, <2>1, <2>2 DEF ExclusiveCommit
<1>5. CASE PublishesAll(txn[c], blocks, tasks, groups, checkpoints)
  <2>1. op = "publish"
    BY <1>1, <1>5 DEF PublishesAll
  <2>2. QED
    BY <1>1, <1>5, <2>1, PublishCommits DEF ExclusiveCommit
<1>6. CASE Restores(txn[c], blocks, tasks, groups, checkpoints)
  <2>1. op = "restore"
    BY <1>1, <1>6 DEF Restores, RestoresTo
  <2>2. \E i \in 1..Len(checkpoints) : RestoreCheckpoint(txn[c].user, i)
    BY <1>6, RestoreCommits
  <2>3. QED
    BY <1>1, <2>1, <2>2 DEF ExclusiveCommit
<1>7. CASE Rebalances(txn[c], blocks)
  <2>1. op = "rebalance"
    BY <1>1, <1>7 DEF Rebalances
  <2>2. \E f \in [Position -> Position] : RebalanceBlockPositions(f)
    BY <1>7, RebalanceCommits
  <2>3. QED
    BY <1>1, <2>1, <2>2 DEF ExclusiveCommit
<1>8. QED
  BY <1>3, <1>4, <1>5, <1>6, <1>7

\* So it is a step of BlockVersions.
LEMMA ExclusiveNext ==
  ASSUME TxInv, NEW c \in Connection, Commit(c), txn[c].op \in ExclusiveOp
  PROVE  Next
<1>1. PICK u : u = txn[c].user
  OBVIOUS
<1>2. \/ UpdatesDraft(txn[c], blocks) \/ UpdatesTask(txn[c], blocks, checkpoints)
      \/ PublishesAll(txn[c], blocks, tasks, groups, checkpoints)
      \/ Restores(txn[c], blocks, tasks, groups, checkpoints)
      \/ Rebalances(txn[c], blocks)
  BY ExclusiveStages
<1>3. CASE UpdatesDraft(txn[c], blocks) \/ UpdatesTask(txn[c], blocks, checkpoints)
  <2>1. PICK b : b = txn[c].block
    OBVIOUS
  <2>2. PICK seen : seen = txn[c].seen
    OBVIOUS
  <2>3. PICK d : d = txn[c].draft
    OBVIOUS
  <2>4. /\ u \in Teacher /\ b \in TaskBlock /\ seen \in Version /\ d \in Version
        /\ \E x \in Data : UpdateTask(u, b, seen, d, x)
    BY <1>1, <1>3, <2>1, <2>2, <2>3, UpdateCommits
  <2>5. QED
    BY <2>4 DEF Next
<1>4. CASE PublishesAll(txn[c], blocks, tasks, groups, checkpoints)
  <2>1. u \in Teacher /\ PublishDrafts(u)
    BY <1>1, <1>4, PublishCommits
  <2>2. QED
    BY <2>1 DEF Next
<1>5. CASE Restores(txn[c], blocks, tasks, groups, checkpoints)
  <2>1. u \in Teacher /\ \E i \in 1..Len(checkpoints) : RestoreCheckpoint(u, i)
    BY <1>1, <1>5, RestoreCommits
  <2>2. PICK i \in 1..Len(checkpoints) : RestoreCheckpoint(u, i)
    BY <2>1
  <2>3. Len(checkpoints) < MaxCheckpoints /\ Len(checkpoints) \in Nat /\ MaxCheckpoints \in Nat
    BY <2>2, CheckpointsSeq, ConstantsAssumption DEF RestoreCheckpoint, CreateCheckpoint, TxInv
  <2>4. i \in 1..MaxCheckpoints /\ i <= Len(checkpoints)
    BY <2>3
  <2>5. QED
    BY <2>1, <2>2, <2>4 DEF Next
<1>6. CASE Rebalances(txn[c], blocks)
  BY <1>6, RebalanceCommits DEF Next
<1>7. QED
  BY <1>2, <1>3, <1>4, <1>5, <1>6

\* Of the transactions that commit, the tables keep their invariant, and the
\* others go on as they were if what they read still fits.
LEMMA CommitInv ==
  ASSUME TxInv, LockInv', NEW c \in Connection, Commit(c), IInv', Recorded',
         \A o \in Others(c) : Fits(txn[o], blocks', tasks', groups', checkpoints')
  PROVE  TxInv'
<1>1. /\ txn' = [txn EXCEPT ![c] = NoTxn] /\ UNCHANGED courseDeleted /\ ~courseDeleted
  BY CommitFacts
<1>2. txn \in [Connection -> Txn]
  BY DEF TxInv, TxTypeOK
<1>3. /\ txn'[c] = NoTxn /\ \A o \in Others(c) : txn'[o] = txn[o]
      /\ \A o \in Connection : o = c \/ o \in Others(c)
  BY <1>1, <1>2 DEF Others
<1>4. NoTxn \in Txn /\ NoTxn.rows = NoRows /\ NoTxn.locked = {}
  BY NoTxnFacts DEF Unwritten
<1>5. TxTypeOK'
  BY <1>1, <1>2, <1>4 DEF TxTypeOK
<1>6. LocksApart'
  BY <1>3, <1>4 DEF LocksApart, TxInv
<1>7. RowsApart'
  <2> SUFFICES ASSUME NEW a \in Connection, NEW o \in Connection, a # o,
                      NEW b \in Block, NEW v \in Version
               PROVE  Kept \in {txn'[a].rows[b][v], txn'[o].rows[b][v]}
    BY DEF RowsApart
  <2>1. NoTxn.rows[b][v] = Kept
    BY <1>4 DEF NoRows
  <2>2. CASE a = c
    BY <1>3, <2>1, <2>2
  <2>3. CASE o = c
    BY <1>3, <2>1, <2>3
  <2>4. CASE a # c /\ o # c
    BY <1>3, <2>4 DEF TxInv, RowsApart
  <2>5. QED
    BY <2>2, <2>3, <2>4
<1>8. CourseThere'
  BY <1>1 DEF CourseThere
<1>9. AllFit'
  <2> SUFFICES ASSUME NEW o \in Connection
               PROVE  Fits(txn'[o], blocks', tasks', groups', checkpoints')
    BY DEF AllFit
  <2>1. CASE o = c
    BY <1>3, <2>1 DEF Fits
  <2>2. CASE o \in Others(c)
    BY <1>3, <2>2
  <2>3. QED
    BY <1>3, <2>1, <2>2
<1>10. QED
  BY <1>5, <1>6, <1>7, <1>8, <1>9 DEF TxInv

\* Nobody else is under way when it commits.
LEMMA ExclusiveCommitInv ==
  ASSUME TxInv, LockInv', NEW c \in Connection, Commit(c), txn[c].op \in ExclusiveOp
  PROVE  TxInv'
<1>1. IInv /\ Recorded /\ Active(c)
  BY CommitFacts
<1>2. Next
  BY ExclusiveNext
<1>3. IInv'
  BY <1>1, <1>2, NextIInv
<1>4. Recorded'
  BY <1>1, <1>2, <1>3, StepMaps, RecordedNext DEF MappedStep
<1>5. \A o \in Others(c) : Fits(txn[o], blocks', tasks', groups', checkpoints')
  <2> SUFFICES ASSUME NEW o \in Others(c)
               PROVE  Fits(txn[o], blocks', tasks', groups', checkpoints')
    OBVIOUS
  <2>1. Fits(txn[o], blocks, tasks, groups, checkpoints)
    BY DEF TxInv, AllFit, Others
  <2>2. txn[o].pc \in {"idle", "lock"}
    BY <1>1, AloneApart
  <2>3. txn[o] = NoTxn \/ Waits(txn[o])
    BY <2>1, <2>2, StageOf
  <2>4. QED
    BY <2>3 DEF Fits
<1>6. QED
  BY <1>3, <1>4, <1>5, CommitInv

-----------------------------------------------------------------------------
(* Commits of those that share the course                                  *)

\* An edit keeps the invariant of the tables.
LEMMA EditIInv ==
  ASSUME IInv, Recorded, EditStep, tasks' \in TasksType, groups' \in GroupsType,
         UNCHANGED courseDeleted
  PROVE  IInv' /\ Recorded'
<1>1. StacksSound' /\ CheckpointsRestorable' /\ LatestCheckpointIsPublished'
  BY QuietSteps, QuietPreserves
<1>2. UNCHANGED checkpoints /\ blocks' \in [Block -> Stack]
  BY DEF EditStep
<1>3. TypeOK'
  BY <1>2 DEF IInv, TypeOK, TasksType, GroupsType
<1>4. IInv'
  BY <1>1, <1>3 DEF IInv
<1>5. QED
  BY <1>4, RecordedNext

\* What a commit of an edit does to one stack: nothing, or it puts a new block on
\* an empty one, edits a draft under the advisory lock, or takes a draft away.
EditsStack(t, b, s, r) ==
  \/ r = s
  \/ /\ s = EmptyStack /\ t.rows[b][1] # Kept
     /\ \A v \in Version : r[v] # Absent => r[v].draft /\ ~r[v].deleted
  \/ b \in t.locked /\ s # EmptyStack
  \/ \E d \in Version : /\ s[d] # Absent /\ s[d].draft /\ t.rows[b][d] # Kept
                        /\ r = Without(s, d)

\* What a commit that shares the course does to it, and what that shows as.
SharedStep(t) ==
  /\ EditStep
  /\ \A b \in Block : EditsStack(t, b, blocks[b], blocks'[b])
  /\ \/ UNCHANGED blocks
     \/ DiscardFoundDrafts
     \/ \E u \in Teacher, b \in Block : AsUsersSeeIt!Edit(u, b) \/ AsUsersSeeIt!Drop(u, b)

\* A new block commits as an edit.
LEMMA CreateCommits ==
  ASSUME TxInv, NEW c \in Connection, Commit(c), Creates(txn[c], blocks)
  PROVE  SharedStep(txn[c])
<1>1. PICK u : u = txn[c].user
  OBVIOUS
<1>2. PICK b : b = txn[c].block
  OBVIOUS
<1>3. PICK x \in Data, p \in Position :
        txn[c].rows = Only(b, 1, [data |-> x, position |-> p, draft |-> TRUE, deleted |-> FALSE,
                                  createdBy |-> u, base |-> NoBase])
  BY <1>1, <1>2 DEF Creates
<1>4. PICK row : row = [data |-> x, position |-> p, draft |-> TRUE, deleted |-> FALSE,
                        createdBy |-> u, base |-> NoBase]
  OBVIOUS
<1>5. u \in Teacher /\ b \in Block /\ blocks[b] = EmptyStack /\ txn[c].checkpoint = Kept
  BY <1>1, <1>2 DEF Creates
<1>6. 1 \in Version /\ row \in VersionRow
  BY <1>4, <1>5, VersionFacts DEF VersionRow
<1>7. txn[c].rows = Only(b, 1, row) /\ row # Kept
  BY <1>3, <1>4, <1>6, KeptFacts
<1>8. blocks \in [Block -> Stack]
  BY StacksOf
<1>9. blocks' = [blocks EXCEPT ![b] = [blocks[b] EXCEPT ![1] = row]]
  <2>1. Over(row, blocks[b][1]) = row
    BY <1>7, KeptFacts
  <2>2. PICK t : t = txn[c]
    OBVIOUS
  <2>3. Shown(t, blocks) = [blocks EXCEPT ![b] = [blocks[b] EXCEPT ![1] = Over(row, blocks[b][1])]]
    <3>0. PICK n \in Version : n = 1
      BY <1>6
    <3>1. t.rows = Only(b, n, row)
      BY <1>7, <2>2, <3>0
    <3>2. PICK B \in [Block -> Stack] : B = blocks
      BY <1>8
    <3>3. Shown(t, B) = [B EXCEPT ![b] = [B[b] EXCEPT ![n] = Over(row, B[b][n])]]
      BY <1>5, <3>1, OnlyShown
    <3>4. QED
      BY <3>0, <3>2, <3>3
  <2>4. QED
    BY <2>1, <2>2, <2>3, CommitFacts
<1>10. NewBlock(u, b, x, p)
  <2>1. UNCHANGED checkpoints
    BY <1>5, CommitFacts
  <2>2. blocks' = [blocks EXCEPT ![b][1] =
          [data |-> x, position |-> p, draft |-> TRUE, deleted |-> FALSE,
           createdBy |-> u, base |-> NoBase]]
    BY <1>4, <1>9
  <2>3. QED
    BY <1>5, <2>1, <2>2 DEF NewBlock
<1>11. EditStep /\ AsUsersSeeIt!Edit(u, b)
  BY <1>5, <1>10, CommitFacts, CreateBlockStep, CreateBlockMaps
<1>12. \A a \in Block : EditsStack(txn[c], a, blocks[a], blocks'[a])
  <2> SUFFICES ASSUME NEW a \in Block PROVE EditsStack(txn[c], a, blocks[a], blocks'[a])
    OBVIOUS
  <2>1. CASE a # b
    BY <1>8, <1>9, <2>1 DEF EditsStack
  <2>2. CASE a = b
    <3>1. blocks'[a] = [EmptyStack EXCEPT ![1] = row]
      BY <1>5, <1>8, <1>9, <2>2
    <3>2. \A v \in Version : blocks'[a][v] # Absent => v = 1 /\ blocks'[a][v] = row
      BY <1>6, <3>1 DEF EmptyStack
    <3>3. row.draft /\ ~row.deleted
      BY <1>4
    <3>4. txn[c].rows[a][1] # Kept
      BY <1>5, <1>6, <1>7, <2>2, OnlyFacts
    <3>5. QED
      BY <1>5, <2>2, <3>2, <3>3, <3>4 DEF EditsStack
  <2>3. QED
    BY <2>1, <2>2
<1>13. QED
  BY <1>5, <1>11, <1>12 DEF SharedStep

\* A patch, move or delete commits as an edit, unless its draft is gone.
LEMMA EditCommits ==
  ASSUME TxInv, NEW c \in Connection, Commit(c), Edits(txn[c], blocks)
  PROVE  SharedStep(txn[c])
<1>1. PICK b : b = txn[c].block
  OBVIOUS
<1>2. PICK seen : seen = txn[c].seen
  OBVIOUS
<1>3. PICK d : d = txn[c].draft
  OBVIOUS
<1>4. PICK s : s = blocks[b]
  OBVIOUS
<1>5. PICK row \in VersionRow \cup {Absent, Kept} :
        EditedRow(s, seen, d, row) /\ txn[c].rows = Only(b, d, row)
  BY <1>1, <1>2, <1>3, <1>4 DEF Edits
<1>6. /\ b \in Block /\ seen \in Version /\ d \in Version /\ txn[c].checkpoint = Kept
      /\ txn[c].locked = {b}
  BY <1>1, <1>2, <1>3 DEF Edits, Editing
<1>7. /\ IInv /\ Recorded /\ blocks \in [Block -> Stack] /\ s \in Stack /\ SoundStack(s)
      /\ StacksSound /\ UNCHANGED checkpoints
  BY <1>4, <1>6, StacksOf, CommitFacts DEF IInv, StacksSound
<1>8. blocks' = [blocks EXCEPT ![b] = [s EXCEPT ![d] = Over(row, s[d])]]
  <2>1. PICK t : t = txn[c]
    OBVIOUS
  <2>2. Shown(t, blocks) = [blocks EXCEPT ![b] = [blocks[b] EXCEPT ![d] = Over(row, blocks[b][d])]]
    <3>1. t.rows = Only(b, d, row)
      BY <1>5, <2>1
    <3>2. PICK B \in [Block -> Stack] : B = blocks
      BY <1>7
    <3>3. Shown(t, B) = [B EXCEPT ![b] = [B[b] EXCEPT ![d] = Over(row, B[b][d])]]
      BY <1>6, <3>1, OnlyShown
    <3>4. QED
      BY <3>2, <3>3
  <2>3. QED
    BY <1>4, <2>1, <2>2, CommitFacts
<1>9. \A a \in Block : a # b => blocks'[a] = blocks[a]
  BY <1>7, <1>8
<1>10. CASE row = Kept
  <2>1. [s EXCEPT ![d] = Over(row, s[d])] = s
    BY <1>6, <1>7, <1>10, KeptFacts DEF Stack
  <2>2. UNCHANGED blocks
    BY <1>4, <1>6, <1>7, <1>8, <2>1
  <2>3. EditStep
    BY <1>7, <2>2, UnchangedStep
  <2>4. QED
    BY <2>2, <2>3 DEF SharedStep, EditsStack
<1>11. CASE row = Absent
  <2>1. s[d] # Absent /\ s[d].draft /\ s[d].base = NoBase
    BY <1>5, <1>11, KeptFacts, ConstantsAssumption DEF EditedRow
  <2>2. PICK u : u = s[d].createdBy
    OBVIOUS
  <2>3. d \in Present(s) \ Published(s) /\ d \in OwnDrafts(s, u) /\ u \in Teacher
    <3>1. d \in Present(s)
      BY <1>6, <2>1 DEF Present
    <3>2. s[d] \in VersionRow
      BY <1>7, <3>1, RowType
    <3>3. QED
      BY <2>1, <2>2, <3>1, <3>2 DEF Published, OwnDrafts, VersionRow
  <2>4. blocks' = [blocks EXCEPT ![b] = Without(s, d)]
    BY <1>8, <1>11, KeptFacts DEF Without
  <2>5. PICK t : t = Without(s, d)
    OBVIOUS
  <2>6. /\ SoundEdit(s, t) /\ Present(t) = Present(s) \ {d}
        /\ \A v \in Version : v # d => t[v] = s[v]
    BY <1>7, <2>3, <2>5, WithoutSound
  <2>7. SoundStep(s, t)
    BY <2>6 DEF SoundEdit
  <2>8. EditStep
    BY <1>4, <1>6, <1>7, <2>4, <2>5, <2>6, <2>7, OneStack DEF EditStep
  <2>9. Touches(s, t, u) /\ DraftsStay(s, t)
    <3>1. Touches(s, t, u)
      BY <2>1, <2>2, <2>6 DEF Touches
    <3>2. Published(t) = Published(s)
      BY <2>6 DEF SoundEdit
    <3>3. QED
      BY <3>1, <3>2 DEF DraftsStay
  <2>10. ActsFor(u)
    BY <1>4, <1>6, <1>7, <2>4, <2>5, <2>9, OneBlockActs
  <2>11. blocks'[b] = t
    BY <1>6, <1>7, <2>4, <2>5
  <2>12. AsUsersSeeIt!Drop(u, b)
    BY <1>4, <1>6, <1>7, <1>9, <2>1, <2>3, <2>5, <2>8, <2>10, <2>11, DraftDropped
  <2>13. \A a \in Block : EditsStack(txn[c], a, blocks[a], blocks'[a])
    <3>1. s # EmptyStack
      BY <1>6, <2>1 DEF EmptyStack
    <3>2. QED
      BY <1>4, <1>6, <1>9, <3>1 DEF EditsStack
  <2>14. QED
    BY <1>6, <2>3, <2>8, <2>12, <2>13 DEF SharedStep
<1>12. CASE row \in VersionRow
  <2>1. /\ row.draft /\ (row.deleted => row.base # NoBase)
        /\ CanEdit(s, row.createdBy, seen, d)
        /\ row.base = Drafted(s, row.createdBy, seen, d)[d].base
    BY <1>5, <1>12, KeptFacts, ConstantsAssumption DEF EditedRow
  <2>2. PICK u \in Teacher : u = row.createdBy
    BY <1>12 DEF VersionRow
  <2>3. PICK r : r = Drafted(s, u, seen, d)
    OBVIOUS
  <2>4. r[d].createdBy = u /\ row.base = r[d].base
    BY <1>4, <1>6, <1>7, <2>1, <2>2, <2>3, DraftedBy
  <2>5. PICK t : t = [r EXCEPT ![d] = row]
    OBVIOUS
  <2>6. blocks' = [blocks EXCEPT ![b] = t]
    <3>1. Over(row, s[d]) = row
      BY <1>12, KeptFacts
    <3>2. [s EXCEPT ![d] = row] = [r EXCEPT ![d] = row]
      <4>1. CASE d = seen
        BY <2>3, <4>1 DEF Drafted
      <4>2. CASE d # seen
        BY <1>6, <1>7, <2>3, <4>2 DEF Drafted, Stack
      <4>3. QED
        BY <4>1, <4>2
    <3>3. QED
      BY <1>8, <2>5, <3>1, <3>2
  <2>7. SoundEdit(s, t) /\ SoundStep(s, t)
    <3>1. row.draft = TRUE
      BY <1>12, <2>1 DEF VersionRow
    <3>2. QED
      BY <1>4, <1>6, <1>7, <1>12, <2>1, <2>2, <2>3, <2>4, <2>5, <3>1, RewriteStep
  <2>8. EditStep
    BY <1>4, <1>6, <1>7, <2>6, <2>7, OneStack DEF EditStep
  <2>9. Touches(s, t, u) /\ DraftsStay(s, t)
    <3>1. CanEdit(blocks[b], u, seen, d)
      BY <1>4, <2>1, <2>2
    <3>2. t = [Drafted(blocks[b], u, seen, d) EXCEPT ![d] = row]
      BY <1>4, <2>3, <2>5
    <3>3. QED
      BY <1>4, <1>6, <1>7, <2>1, <2>2, <3>1, <3>2, DraftTouches
  <2>10. ActsFor(u)
    BY <1>4, <1>6, <1>7, <2>6, <2>9, OneBlockActs
  <2>11. blocks'[b] = [r EXCEPT ![d] = row] /\ row # Absent
    BY <1>6, <1>7, <1>12, <2>5, <2>6, ConstantsAssumption
  <2>12. AsUsersSeeIt!Edit(u, b)
    <3>1. CanEdit(blocks[b], u, seen, d) /\ r = Drafted(blocks[b], u, seen, d)
      BY <1>4, <2>1, <2>2, <2>3
    <3>2. QED
      BY <1>6, <1>7, <1>9, <2>1, <2>2, <2>4, <2>8, <2>10, <2>11, <3>1, DraftEdited
  <2>13. \A a \in Block : EditsStack(txn[c], a, blocks[a], blocks'[a])
    <3>1. s # EmptyStack
      <4>1. \E v \in Version : s[v] # Absent
        BY <2>1 DEF CanEdit, OwnDrafts, Published, Present
      <4>2. QED
        BY <4>1 DEF EmptyStack
    <3>2. QED
      BY <1>4, <1>6, <1>9, <3>1 DEF EditsStack
  <2>14. QED
    BY <1>6, <2>2, <2>8, <2>12, <2>13 DEF SharedStep
<1>13. QED
  BY <1>5, <1>10, <1>11, <1>12

\* A discard commits as the deletion of the drafts it found.
LEMMA DiscardCommits ==
  ASSUME TxInv, NEW c \in Connection, Commit(c), Discards(txn[c], blocks)
  PROVE  SharedStep(txn[c])
<1>1. PICK u : u = txn[c].user
  OBVIOUS
<1>2. /\ u \in Teacher /\ txn[c].checkpoint = Kept
      /\ \A b \in Block, v \in Version : txn[c].rows[b][v] # Kept =>
           txn[c].rows[b][v] = Absent /\ v \in OwnDrafts(blocks[b], u)
  BY <1>1 DEF Discards
<1>3. /\ IInv /\ Recorded /\ blocks \in [Block -> Stack] /\ UNCHANGED checkpoints
      /\ UNCHANGED courseDeleted /\ blocks' = Shown(txn[c], blocks)
      /\ \A b \in Block : SoundStack(blocks[b])
  BY <1>2, StacksOf, CommitFacts
<1>4. \A b \in Block, v \in Version :
        blocks'[b][v] = IF txn[c].rows[b][v] # Kept THEN Absent ELSE blocks[b][v]
  BY <1>2, <1>3, KeptFacts DEF Shown
<1>5. blocks' \in [Block -> Stack]
  BY <1>3, StacksOf, ShownType
\* Of each block the draft there was stays or goes.
<1>6. ASSUME NEW b \in Block
      PROVE  \/ blocks'[b] = blocks[b]
             \/ \E d \in OwnDrafts(blocks[b], u) :
                  txn[c].rows[b][d] # Kept /\ blocks'[b] = Without(blocks[b], d)
  <2>1. CASE \A v \in Version : txn[c].rows[b][v] = Kept
    <3>1. \A v \in Version : blocks'[b][v] = blocks[b][v]
      BY <1>4, <2>1
    <3>2. blocks'[b] \in Stack /\ blocks[b] \in Stack
      BY <1>3, <1>5
    <3>3. QED
      BY <3>1, <3>2 DEF Stack
  <2>2. CASE \E v \in Version : txn[c].rows[b][v] # Kept
    <3>1. PICK d \in Version : txn[c].rows[b][d] # Kept
      BY <2>2
    <3>2. d \in OwnDrafts(blocks[b], u)
      BY <1>2, <3>1
    <3>3. \A v \in Version : txn[c].rows[b][v] # Kept => v = d
      <4>1. \A v \in OwnDrafts(blocks[b], u) : v = d
        BY <1>2, <1>3, <3>2 DEF SoundStack
      <4>2. QED
        BY <1>2, <4>1
    <3>4. \A v \in Version : blocks'[b][v] = IF v = d THEN Absent ELSE blocks[b][v]
      BY <1>4, <3>1, <3>3
    <3>5. blocks'[b] \in Stack /\ blocks[b] \in Stack
      BY <1>3, <1>5
    <3>6. blocks'[b] = Without(blocks[b], d)
      BY <3>1, <3>4, <3>5 DEF Stack, Without
    <3>7. QED
      BY <3>1, <3>2, <3>6
  <2>3. QED
    BY <2>1, <2>2
<1>7. ASSUME NEW b \in Block
      PROVE  /\ SoundEdit(blocks[b], blocks'[b])
             /\ EditsStack(txn[c], b, blocks[b], blocks'[b])
             /\ Touches(blocks[b], blocks'[b], u)
             /\ DraftContent(blocks'[b], u) \in {DraftContent(blocks[b], u), Absent}
  <2>1. CASE blocks'[b] = blocks[b]
    BY <1>3, <2>1, SoundEditRefl, SameActs DEF EditsStack
  <2>2. CASE blocks'[b] # blocks[b]
    <3>1. PICK d \in OwnDrafts(blocks[b], u) :
            txn[c].rows[b][d] # Kept /\ blocks'[b] = Without(blocks[b], d)
      BY <1>6, <2>2
    <3>2. /\ d \in Present(blocks[b]) \ Published(blocks[b]) /\ d \in Version
          /\ blocks[b][d].createdBy = u /\ blocks[b][d].draft /\ blocks[b][d] # Absent
      BY <3>1 DEF OwnDrafts, Published, Present
    <3>3. /\ SoundEdit(blocks[b], blocks'[b])
          /\ Present(blocks'[b]) = Present(blocks[b]) \ {d}
          /\ \A v \in Version : v # d => blocks'[b][v] = blocks[b][v]
      BY <1>3, <3>1, <3>2, WithoutSound
    <3>4. EditsStack(txn[c], b, blocks[b], blocks'[b])
      BY <3>1, <3>2 DEF EditsStack
    <3>5. Touches(blocks[b], blocks'[b], u)
      BY <3>2, <3>3 DEF Touches
    <3>6. OwnDrafts(blocks'[b], u) = {}
      <4>1. \A v \in OwnDrafts(blocks[b], u) : v = d
        BY <1>2, <1>3, <3>1 DEF SoundStack
      <4>2. \A v \in OwnDrafts(blocks'[b], u) : v \in OwnDrafts(blocks[b], u) /\ v # d
        BY <3>3 DEF OwnDrafts, Present
      <4>3. QED
        BY <4>1, <4>2
    <3>7. DraftContent(blocks'[b], u) = Absent
      BY <3>6 DEF DraftContent
    <3>8. QED
      BY <3>3, <3>4, <3>5, <3>7
  <2>3. QED
    BY <2>1, <2>2
<1>8. EditStep
  BY <1>3, <1>5, <1>7 DEF EditStep
<1>9. DiscardFoundDrafts
  <2> DEFINE shown == [b \in Block |-> DraftContent(blocks[b], u)]
             left  == [b \in Block |-> DraftContent(blocks'[b], u)]
  <2>1. \A b \in Block : left[b] \in {shown[b], Absent}
    BY <1>7
  <2>2. \A w \in Teacher \ {u}, b \in Block :
          DraftContent(blocks[b], w) = DraftContent(blocks'[b], w)
    BY <1>3, <1>7, OthersDraftContent
  <2>3. \A b \in Block : PublishedContent(blocks[b]) = PublishedContent(blocks'[b])
    BY <1>3, <1>7, EditKeepsPublished
  <2> HIDE DEF shown, left
  <2>4. QED
    BY <1>2, <1>3, <2>1, <2>2, <2>3 DEF DiscardFoundDrafts, shown, left
<1>10. QED
  BY <1>7, <1>8, <1>9 DEF SharedStep

\* Whatever shares the course commits as an edit of drafts.
LEMMA SharedCommits ==
  ASSUME TxInv, NEW c \in Connection, Commit(c), txn[c].op \notin ExclusiveOp
  PROVE  SharedStep(txn[c])
<1>1. PICK op : op = txn[c].op
  OBVIOUS
<1>2. op \notin {"update", "publish", "restore", "rebalance"}
  BY <1>1 DEF ExclusiveOp
<1>3. Creates(txn[c], blocks) \/ Edits(txn[c], blocks) \/ Discards(txn[c], blocks)
  <2>1. /\ ~UpdatesDraft(txn[c], blocks) /\ ~UpdatesTask(txn[c], blocks, checkpoints)
        /\ ~PublishesAll(txn[c], blocks, tasks, groups, checkpoints)
        /\ ~Rebalances(txn[c], blocks)
    BY <1>1, <1>2 DEF UpdatesDraft, UpdatesTask, PublishesAll, Rebalances
  <2>2. ~Restores(txn[c], blocks, tasks, groups, checkpoints)
    BY <1>1, <1>2 DEF Restores, RestoresTo
  <2>3. QED
    BY <2>1, <2>2, CommitFacts
<1>4. QED
  BY <1>3, CreateCommits, EditCommits, DiscardCommits

-----------------------------------------------------------------------------
(* What the others see after such a commit                                 *)

\* One of two writers of a row has not written it.
LEMMA WrittenOnce ==
  ASSUME TxInv, NEW c \in Connection, NEW o \in Others(c), NEW b \in Block, NEW v \in Version
  PROVE  txn[c].rows[b][v] = Kept \/ txn[o].rows[b][v] = Kept
BY DEF TxInv, RowsApart, Others

\* What nobody wrote does not change.
LEMMA CommitKeeps ==
  ASSUME TxInv, NEW c \in Connection, Commit(c), NEW b \in Block, NEW v \in Version,
         txn[c].rows[b][v] = Kept
  PROVE  blocks'[b][v] = blocks[b][v]
<1>1. blocks' = Shown(txn[c], blocks)
  BY CommitFacts
<1>2. QED
  BY <1>1, KeptFacts DEF Shown

\* A stack that is empty stays so, unless a new block is put on it.
LEMMA CreatesFits ==
  ASSUME TxInv, NEW c \in Connection, Commit(c), SharedStep(txn[c]),
         NEW o \in Others(c), Creates(txn[o], blocks)
  PROVE  Creates(txn[o], blocks')
<1>1. PICK b : b = txn[o].block
  OBVIOUS
<1>2. PICK u : u = txn[o].user
  OBVIOUS
<1>3. PICK x \in Data, p \in Position :
        txn[o].rows = Only(b, 1, [data |-> x, position |-> p, draft |-> TRUE, deleted |-> FALSE,
                                  createdBy |-> u, base |-> NoBase])
  BY <1>1, <1>2 DEF Creates
<1>4. PICK row : row = [data |-> x, position |-> p, draft |-> TRUE, deleted |-> FALSE,
                        createdBy |-> u, base |-> NoBase]
  OBVIOUS
<1>5. b \in Block /\ u \in Teacher /\ blocks[b] = EmptyStack /\ 1 \in Version
  BY <1>1, <1>2, VersionFacts DEF Creates
<1>6. row \in VersionRow
  BY <1>4, <1>5, VersionFacts DEF VersionRow
<1>7. txn[o].rows[b][1] # Kept
  BY <1>3, <1>4, <1>5, <1>6, KeptFacts, OnlyFacts
<1>8. txn[c].rows[b][1] = Kept
  BY <1>5, <1>7, WrittenOnce
<1>9. EditsStack(txn[c], b, blocks[b], blocks'[b])
  BY <1>5 DEF SharedStep
<1>10. \A d \in Version : blocks[b][d] = Absent
  BY <1>5 DEF EmptyStack
<1>11. blocks'[b] = EmptyStack
  BY <1>5, <1>8, <1>9, <1>10 DEF EditsStack
<1>12. QED
  BY <1>1, <1>11 DEF Creates

\* What another's commit leaves of a block that is edited under the advisory lock,
\* or would be but for it.
LEMMA EditedStack ==
  ASSUME TxInv, NEW c \in Connection, Commit(c), SharedStep(txn[c]),
         NEW o \in Others(c), NEW b \in Block, b \in txn[o].locked
  PROVE  /\ Published(blocks'[b]) = Published(blocks[b])
         /\ \A v \in Published(blocks[b]) : blocks'[b][v] = blocks[b][v]
         /\ \/ blocks'[b] = blocks[b]
            \/ /\ blocks[b] = EmptyStack
               /\ \A v \in Version : blocks'[b][v] # Absent =>
                    blocks'[b][v].draft /\ ~blocks'[b][v].deleted
            \/ \E d \in Version : /\ blocks[b][d] # Absent /\ blocks[b][d].draft
                                  /\ txn[c].rows[b][d] # Kept
                                  /\ blocks'[b] = Without(blocks[b], d)
<1>1. EditsStack(txn[c], b, blocks[b], blocks'[b]) /\ SoundEdit(blocks[b], blocks'[b])
  BY DEF SharedStep, EditStep
<1>2. b \notin txn[c].locked
  BY DEF TxInv, LocksApart, Others
<1>3. /\ Published(blocks'[b]) = Published(blocks[b])
      /\ \A v \in Published(blocks[b]) : blocks'[b][v] = blocks[b][v]
  BY <1>1 DEF SoundEdit, SoundStep, Keeps
<1>4. QED
  BY <1>1, <1>2, <1>3 DEF EditsStack

LEMMA WithoutFacts ==
  ASSUME NEW s \in Stack, NEW d \in Version, NEW u
  PROVE  /\ \A v \in Version : Without(s, d)[v] = IF v = d THEN Absent ELSE s[v]
         /\ Present(Without(s, d)) \subseteq Present(s)
         /\ OwnDrafts(Without(s, d), u) = OwnDrafts(s, u) \ {d}
<1>1. \A v \in Version : Without(s, d)[v] = IF v = d THEN Absent ELSE s[v]
  BY DEF Without, Stack
<1>2. QED
  BY <1>1 DEF Present, OwnDrafts

\* The draft that is still to be made can still be made.
LEMMA CopiesNextFits ==
  ASSUME TxInv, NEW c \in Connection, Commit(c), SharedStep(txn[c]),
         NEW o \in Others(c), CopiesNext(txn[o], blocks)
  PROVE  CopiesNext(txn[o], blocks')
<1>1. PICK b : b = txn[o].block
  OBVIOUS
<1>2. PICK u : u = txn[o].user
  OBVIOUS
<1>3. b \in Block /\ b \in txn[o].locked /\ blocks[b] \in Stack
  BY <1>1, StacksOf DEF CopiesNext, Editing
<1>4. Published(blocks[b]) # {} => OwnDrafts(blocks[b], u) = {}
  BY <1>1, <1>2 DEF CopiesNext
<1>5. /\ Published(blocks'[b]) = Published(blocks[b])
      /\ \/ blocks'[b] = blocks[b]
         \/ blocks[b] = EmptyStack
         \/ \E d \in Version : blocks'[b] = Without(blocks[b], d)
  BY <1>3, EditedStack
<1>6. Published(blocks'[b]) # {} => OwnDrafts(blocks'[b], u) = {}
  <2>1. blocks[b] = EmptyStack => Published(blocks[b]) = {}
    BY DEF EmptyStack, Published, Present
  <2>2. QED
    BY <1>3, <1>4, <1>5, <2>1, WithoutFacts
<1>7. QED
  BY <1>1, <1>2, <1>6 DEF CopiesNext

\* What a new draft needs is still so.
LEMMA CanEditKept ==
  ASSUME NEW s \in Stack, NEW u, NEW seen \in Version, NEW d \in Version,
         CanEdit(s, u, seen, d), d # seen, NEW g \in Version, s[g].draft
  PROVE  /\ CanEdit(Without(s, g), u, seen, d)
         /\ Drafted(Without(s, g), u, seen, d)[d] = Drafted(s, u, seen, d)[d]
<1>1. /\ OwnDrafts(s, u) = {} /\ seen \in Published(s) /\ ~s[seen].deleted
      /\ \A v \in Present(s) : v < d
  BY DEF CanEdit
<1>2. PICK r : r = Without(s, g)
  OBVIOUS
<1>3. /\ \A v \in Version : r[v] = IF v = g THEN Absent ELSE s[v]
      /\ Present(r) \subseteq Present(s) /\ OwnDrafts(r, u) = {}
  BY <1>1, <1>2, WithoutFacts
<1>4. seen # g /\ r[seen] = s[seen]
  BY <1>1, <1>3 DEF Published
<1>5. seen \in Published(r)
  BY <1>1, <1>4 DEF Published, Present
<1>6. CanEdit(r, u, seen, d)
  BY <1>1, <1>3, <1>4, <1>5 DEF CanEdit
<1>7. Drafted(r, u, seen, d)[d] = Drafted(s, u, seen, d)[d]
  <2>1. d \in DOMAIN r /\ d \in DOMAIN s
    BY <1>2 DEF Without, Stack
  <2>2. QED
    BY <1>4, <2>1 DEF Drafted
<1>8. QED
  BY <1>2, <1>6, <1>7

\* The draft that is still to be written is still there or was discarded.
LEMMA WritesNextFits ==
  ASSUME TxInv, NEW c \in Connection, Commit(c), SharedStep(txn[c]),
         NEW o \in Others(c), WritesNext(txn[o], blocks), txn[o].op # "update"
  PROVE  WritesNext(txn[o], blocks')
<1>1. PICK b : b = txn[o].block
  OBVIOUS
<1>2. PICK u : u = txn[o].user
  OBVIOUS
<1>3. PICK seen : seen = txn[o].seen
  OBVIOUS
<1>4. PICK d : d = txn[o].draft
  OBVIOUS
<1>5. PICK s : s = blocks[b]
  OBVIOUS
<1>6. PICK r : r = blocks'[b]
  OBVIOUS
<1>7. /\ b \in Block /\ b \in txn[o].locked /\ s \in Stack
      /\ seen \in Version /\ d \in Version
  BY <1>1, <1>3, <1>4, <1>5, StacksOf DEF WritesNext, Editing
<1>8. \/ r = s
      \/ /\ s = EmptyStack
         /\ \A v \in Version : r[v] # Absent => r[v].draft /\ ~r[v].deleted
      \/ \E g \in Version : /\ s[g] # Absent /\ s[g].draft /\ r = Without(s, g)
  BY <1>5, <1>6, <1>7, EditedStack
<1>9. CASE d = seen
  <2>1. txn[o].rows = NoRows /\ (s[d] # Absent => s[d].draft /\ ~s[d].deleted)
    BY <1>1, <1>3, <1>4, <1>5, <1>9 DEF WritesNext
  <2>2. r[d] # Absent => r[d].draft /\ ~r[d].deleted
    BY <1>7, <1>8, <2>1, WithoutFacts
  <2>3. QED
    BY <1>1, <1>3, <1>4, <1>6, <1>9, <2>1, <2>2 DEF WritesNext
<1>10. CASE d # seen
  <2>1. CanEdit(s, u, seen, d) /\ txn[o].rows = Only(b, d, Drafted(s, u, seen, d)[d])
    BY <1>1, <1>2, <1>3, <1>4, <1>5, <1>10 DEF WritesNext
  <2>2. s # EmptyStack
    <3>1. \E v \in Version : s[v] # Absent
      BY <2>1 DEF CanEdit, OwnDrafts, Published, Present
    <3>2. QED
      BY <3>1 DEF EmptyStack
  <2>3. CanEdit(r, u, seen, d) /\ Drafted(r, u, seen, d)[d] = Drafted(s, u, seen, d)[d]
    BY <1>7, <1>8, <1>10, <2>1, <2>2, CanEditKept
  <2>4. txn[o].rows = Only(b, d, Drafted(r, u, seen, d)[d])
    BY <2>1, <2>3
  <2>5. QED
    BY <1>1, <1>2, <1>3, <1>4, <1>6, <1>10, <2>3, <2>4 DEF WritesNext
<1>11. QED
  BY <1>9, <1>10

\* An edit written is still an edit.
LEMMA EditsFits ==
  ASSUME TxInv, NEW c \in Connection, Commit(c), SharedStep(txn[c]),
         NEW o \in Others(c), Edits(txn[o], blocks)
  PROVE  Edits(txn[o], blocks')
<1>1. PICK b : b = txn[o].block
  OBVIOUS
<1>2. PICK seen : seen = txn[o].seen
  OBVIOUS
<1>3. PICK d : d = txn[o].draft
  OBVIOUS
<1>4. PICK s : s = blocks[b]
  OBVIOUS
<1>5. PICK r : r = blocks'[b]
  OBVIOUS
<1>6. PICK row \in VersionRow \cup {Absent, Kept} :
        EditedRow(s, seen, d, row) /\ txn[o].rows = Only(b, d, row)
  BY <1>1, <1>2, <1>3, <1>4 DEF Edits
<1>7. /\ b \in Block /\ b \in txn[o].locked /\ s \in Stack
      /\ seen \in Version /\ d \in Version
  BY <1>1, <1>2, <1>3, <1>4, StacksOf DEF Edits, Editing
<1>8. row # Kept => txn[c].rows[b][d] = Kept /\ r[d] = s[d]
  <2>1. txn[o].rows[b][d] = row
    BY <1>6, <1>7, OnlyFacts
  <2>2. QED
    BY <1>4, <1>5, <1>7, <2>1, WrittenOnce, CommitKeeps
<1>9. EditedRow(r, seen, d, row)
  <2>1. CASE row = Kept
    BY <2>1 DEF EditedRow
  <2>2. CASE row = Absent
    <3>1. s[d] # Absent /\ s[d].draft /\ s[d].base = NoBase
      BY <1>6, <2>2, KeptFacts, ConstantsAssumption DEF EditedRow
    <3>2. QED
      BY <1>8, <2>2, <3>1, KeptFacts DEF EditedRow
  <2>3. CASE row \in VersionRow
    <3>1. /\ row.draft /\ (row.deleted => row.base # NoBase)
          /\ CanEdit(s, row.createdBy, seen, d)
          /\ row.base = Drafted(s, row.createdBy, seen, d)[d].base
      BY <1>6, <2>3, KeptFacts, ConstantsAssumption DEF EditedRow
    <3>2. PICK u : u = row.createdBy
      OBVIOUS
    <3>3. s # EmptyStack
      <4>1. \E v \in Version : s[v] # Absent
        BY <3>1 DEF CanEdit, OwnDrafts, Published, Present
      <4>2. QED
        BY <4>1 DEF EmptyStack
    <3>4. \/ r = s
          \/ \E g \in Version : /\ s[g] # Absent /\ s[g].draft /\ txn[c].rows[b][g] # Kept
                                /\ r = Without(s, g)
      BY <1>4, <1>5, <1>7, <3>3, EditedStack
    <3>5. CanEdit(r, u, seen, d) /\ Drafted(r, u, seen, d)[d].base = row.base
      <4>1. CASE r = s
        BY <3>1, <3>2, <4>1
      <4>2. ASSUME NEW g \in Version, s[g] # Absent, s[g].draft, txn[c].rows[b][g] # Kept,
                   r = Without(s, g)
            PROVE  CanEdit(r, u, seen, d) /\ Drafted(r, u, seen, d)[d].base = row.base
        <5>1. g # d /\ r[d] = s[d]
          BY <1>8, <2>3, <4>2, KeptFacts
        <5>2. CASE d # seen
          BY <1>7, <3>1, <3>2, <4>2, <5>2, CanEditKept
        <5>3. CASE d = seen
          <6>1. OwnDrafts(s, u) = {seen} /\ ~s[seen].deleted
            <7>1. ~(seen \in Published(s) /\ \A v \in Present(s) : v < d)
              BY <1>7, <5>3, VersionFacts DEF Published
            <7>2. QED
              BY <3>1, <3>2, <7>1 DEF CanEdit
          <6>2. OwnDrafts(r, u) = {seen} /\ ~r[seen].deleted
            BY <1>7, <4>2, <5>1, <5>3, <6>1, WithoutFacts
          <6>3. QED
            BY <3>1, <3>2, <5>1, <5>3, <6>2 DEF CanEdit, Drafted
        <5>4. QED
          BY <5>2, <5>3
      <4>3. QED
        BY <3>4, <4>1, <4>2
    <3>6. QED
      BY <2>3, <3>1, <3>2, <3>5 DEF EditedRow
  <2>4. QED
    BY <2>1, <2>2, <2>3
<1>10. QED
  BY <1>1, <1>2, <1>3, <1>5, <1>6, <1>9 DEF Edits

\* What a discard deletes are still drafts of its user.
LEMMA DiscardsFits ==
  ASSUME TxInv, NEW c \in Connection, Commit(c), NEW o \in Others(c),
         Discards(txn[o], blocks)
  PROVE  Discards(txn[o], blocks')
<1>1. PICK u : u = txn[o].user
  OBVIOUS
<1>2. ASSUME NEW b \in Block, NEW v \in Version, txn[o].rows[b][v] # Kept
      PROVE  txn[o].rows[b][v] = Absent /\ v \in OwnDrafts(blocks'[b], u)
  <2>1. txn[o].rows[b][v] = Absent /\ v \in OwnDrafts(blocks[b], u)
    BY <1>1, <1>2 DEF Discards
  <2>2. blocks'[b][v] = blocks[b][v]
    BY <1>2, WrittenOnce, CommitKeeps
  <2>3. QED
    BY <2>1, <2>2 DEF OwnDrafts, Present
<1>3. QED
  BY <1>1, <1>2 DEF Discards

\* A commit that shares the course leaves every other transaction what it needs.
LEMMA OthersFit ==
  ASSUME TxInv, NEW c \in Connection, Commit(c), txn[c].op \notin ExclusiveOp,
         NEW o \in Others(c)
  PROVE  Fits(txn[o], blocks', tasks', groups', checkpoints')
<1>1. SharedStep(txn[c]) /\ Active(c)
  BY SharedCommits, CommitFacts
<1>2. o \in Connection /\ o # c
  BY DEF Others
<1>3. PICK t : t = txn[o]
  OBVIOUS
<1>4. Fits(t, blocks, tasks, groups, checkpoints)
  BY <1>2, <1>3 DEF TxInv, AllFit
<1>5. CASE ~Active(o)
  <2>1. t.pc \in {"idle", "lock"}
    BY <1>3, <1>5 DEF Active
  <2>2. t = NoTxn \/ Waits(t)
    BY <1>4, <2>1, StageOf
  <2>3. QED
    BY <1>3, <2>2 DEF Fits
<1>6. CASE Active(o) /\ t.op \in ExclusiveOp
  <2>1. c \in Others(o)
    BY <1>2 DEF Others
  <2>2. txn[c].pc \in {"idle", "lock"}
    BY <1>2, <1>3, <1>6, <2>1, AloneApart
  <2>3. QED
    BY <1>1, <2>2 DEF Active
<1>7. CASE Active(o) /\ t.op \notin ExclusiveOp
  <2>1. PICK op : op = t.op
    OBVIOUS
  <2>2. op \notin {"update", "publish", "restore", "rebalance"}
    BY <1>7, <2>1 DEF ExclusiveOp
  <2>3. /\ ~UpdatesDraft(t, blocks) /\ ~UpdatesTask(t, blocks, checkpoints)
        /\ ~PublishesAll(t, blocks, tasks, groups, checkpoints)
        /\ ~Rebalances(t, blocks)
    BY <2>1, <2>2 DEF UpdatesDraft, UpdatesTask, PublishesAll, Rebalances
  <2>4. ~Restores(t, blocks, tasks, groups, checkpoints)
    BY <2>1, <2>2 DEF Restores, RestoresTo
  <2>5. \/ t = NoTxn \/ Waits(t) \/ Begins(t) \/ Creates(t, blocks) \/ CopiesNext(t, blocks)
        \/ WritesNext(t, blocks) \/ Edits(t, blocks) \/ Discards(t, blocks)
    BY <1>4, <2>3, <2>4 DEF Fits
  <2>6. CASE t = NoTxn \/ Waits(t) \/ Begins(t)
    BY <1>3, <2>6 DEF Fits
  <2>7. CASE Creates(t, blocks)
    BY <1>1, <1>3, <2>7, CreatesFits DEF Fits
  <2>8. CASE CopiesNext(t, blocks)
    BY <1>1, <1>3, <2>8, CopiesNextFits DEF Fits
  <2>9. CASE WritesNext(t, blocks)
    BY <1>1, <1>3, <2>1, <2>2, <2>9, WritesNextFits DEF Fits
  <2>10. CASE Edits(t, blocks)
    BY <1>1, <1>3, <2>10, EditsFits DEF Fits
  <2>11. CASE Discards(t, blocks)
    BY <1>3, <2>11, DiscardsFits DEF Fits
  <2>12. QED
    BY <2>5, <2>6, <2>7, <2>8, <2>9, <2>10, <2>11
<1>8. QED
  BY <1>3, <1>5, <1>6, <1>7

\* What shares the course leaves the invariant to all others.
LEMMA SharedCommitInv ==
  ASSUME TxInv, LockInv', NEW c \in Connection, Commit(c), txn[c].op \notin ExclusiveOp
  PROVE  TxInv'
<1>1. IInv /\ Recorded /\ EditStep
  BY SharedCommits, CommitFacts DEF SharedStep
<1>2. tasks' \in TasksType /\ groups' \in GroupsType /\ UNCHANGED courseDeleted
  BY CommitFacts
<1>3. IInv' /\ Recorded'
  BY <1>1, <1>2, EditIInv
<1>4. \A o \in Others(c) : Fits(txn[o], blocks', tasks', groups', checkpoints')
  BY OthersFit
<1>5. QED
  BY <1>3, <1>4, CommitInv

-----------------------------------------------------------------------------
(* The inductive invariant                                                 *)

LEMMA InitTxInv == TxInit => TxInv
<1> SUFFICES ASSUME TxInit  PROVE TxInv
  OBVIOUS
<1>1. Init /\ txn = [c \in Connection |-> NoTxn]
  BY DEF TxInit
<1>2. IInv
  BY <1>1, InitIInv
<1>3. Recorded
  BY <1>1 DEF Init, Recorded, EmptyStack, Published, Present
<1>4. NoTxn \in Txn /\ NoTxn.pc = "idle" /\ NoTxn.locked = {} /\ NoTxn.rows = NoRows
  BY NoTxnFacts DEF Unwritten
<1>5. \A c \in Connection : txn[c] = NoTxn
  BY <1>1
<1>6. TxTypeOK
  BY <1>1, <1>4 DEF TxTypeOK
<1>7. LockInv
  BY InitLockInv
<1>8. LocksApart
  BY <1>4, <1>5 DEF LocksApart
<1>9. RowsApart
  <2>1. \A c \in Connection, b \in Block, v \in Version : txn[c].rows[b][v] = Kept
    BY <1>4, <1>5 DEF NoRows
  <2>2. QED
    BY <2>1 DEF RowsApart
<1>10. CourseThere
  BY <1>4, <1>5 DEF CourseThere, Active
<1>11. AllFit
  BY <1>5 DEF AllFit, Fits
<1>12. QED
  BY <1>2, <1>3, <1>6, <1>7, <1>8, <1>9, <1>10, <1>11 DEF TxInv

LEMMA UnchangedTxInv ==
  ASSUME TxInv, UNCHANGED txVars
  PROVE  TxInv'
<1>1. UNCHANGED <<blocks, tasks, groups, checkpoints, courseDeleted, txn>>
  BY DEF txVars, vars
<1>2. IInv'
  BY NextIInv DEF txVars, TxInv
<1>3. Recorded' /\ TxTypeOK' /\ LocksApart' /\ RowsApart'
  BY <1>1 DEF TxInv, Recorded, TxTypeOK, LocksApart, RowsApart
<1>4. LockInv' /\ CourseThere' /\ AllFit'
  BY <1>1 DEF TxInv, LockInv, Shaped, Apart, CourseThere, Active, AllFit
<1>5. QED
  BY <1>2, <1>3, <1>4 DEF TxInv

\* The invariant is inductive.
LEMMA NextTxInv == TxInv /\ [TxNext]_txVars => TxInv'
<1> SUFFICES ASSUME TxInv, [TxNext]_txVars  PROVE TxInv'
  OBVIOUS
<1>1. LockInv'
  BY StepLockInv DEF TxInv
<1>2. CASE UNCHANGED txVars
  BY <1>2, UnchangedTxInv
<1>3. CASE DeleteCourse
  BY <1>1, <1>3, DeleteCourseInv
<1>4. ASSUME NEW c \in Connection,
             \E u \in Teacher :
               \/ \E op \in SharedOp \cup ExclusiveOp : LockCourse(c, u, op)
               \/ \E b \in TaskBlock : GetTaskBlock(c, u, b)
      PROVE  TxInv'
  BY <1>1, <1>4, LockCourseInv, GetTaskBlockInv
<1>5. ASSUME NEW c \in Connection, LockCourseForUpdate(c)
      PROVE  TxInv'
  BY <1>1, <1>5, LockCourseForUpdateInv
<1>6. ASSUME NEW c \in Connection, Holds(c)
      PROVE  TxInv'
  <2>1. ASSUME NEW i \in 1..MaxCheckpoints, i <= Len(checkpoints), RestoreBlocks(c, i)
        PROVE  TxInv'
    <3>1. Len(checkpoints) \in Nat
      BY CheckpointsSeq DEF TxInv
    <3>2. i \in 1..Len(checkpoints)
      BY <2>1, <3>1, ConstantsAssumption
    <3>3. QED
      BY <1>1, <2>1, <3>2, RestoreBlocksInv
  <2>2. CASE \/ \E b \in Block, x \in Data, p \in Position : InsertNewBlock(c, b, x, p)
             \/ \E g \in Group, name \in TaskName : InsertTask(c, g, name)
    BY <1>1, <2>2, InsertNewBlockInv, InsertTaskInv
  <2>3. CASE \/ \E b \in Block, seen \in Version : GetOwnDraft(c, b, seen)
             \/ \E n \in Version : InsertDraft(c, n)
             \/ WriteDraft(c)
    BY <1>1, <2>3, GetOwnDraftInv, InsertDraftInv, WriteDraftInv
  <2>4. CASE DeleteOwnDrafts(c) \/ GetOwnDrafts(c) \/ PublishNext(c)
    BY <1>1, <2>4, DeleteOwnDraftsInv, GetOwnDraftsInv, PublishNextInv
  <2>5. CASE \/ \E f \in [Position -> Position] : RemapPositions(c, f)
             \/ Unlink(c)
             \/ FillCheckpoint(c)
    BY <1>1, <2>5, RemapPositionsInv, UnlinkInv, FillCheckpointInv
  <2>6. QED
    BY <1>6, <2>1, <2>2, <2>3, <2>4, <2>5 DEF Holds
<1>7. ASSUME NEW c \in Connection, Commit(c)
      PROVE  TxInv'
  BY <1>1, <1>7, ExclusiveCommitInv, SharedCommitInv
<1>8. ASSUME NEW c \in Connection, Rollback(c)
      PROVE  TxInv'
  BY <1>1, <1>8, RollbackInv
<1>9. QED
  BY <1>2, <1>3, <1>4, <1>5, <1>6, <1>7, <1>8 DEF TxNext, Holds

\* Every transaction, at every statement, has written what an operation of the
\* course writes and reads what is still so, however the others go on.
THEOREM TransactionsFit == TxSpec => []TxInv
BY InitTxInv, NextTxInv, PTL DEF TxSpec

-----------------------------------------------------------------------------
(* Tasks, while edits overlap                                              *)

\* What a transaction that shares the course writes to tasks: the task of its
\* new block, or at the end the deletion of those whose block is dead.  This is
\* still so whatever others commit meanwhile.
TaskFits(t, B, T) ==
  \A b \in TaskBlock :
    /\ t.op \in SharedOp /\ t.pc # "commit" => t.taskRows[b] = Kept
    /\ t.op \in SharedOp /\ t.taskRows[b] # Kept =>
         \/ t.op = "create" /\ b = t.block
         \/ t.op # "create" /\ T[b] # Absent /\ ~Alive(Shown(t, B)[b])
    /\ t.op = "create" /\ b = t.block =>
         /\ T[b] = Absent
         /\ t.pc = "commit" => t.taskRows[b] # Kept /\ t.taskRows[b].live

TaskInv ==
  /\ TasksFollow
  /\ \A c \in Connection : TaskFits(txn[c], blocks, tasks)

LEMMA TaskBlocks == \A b \in TaskBlock : b \in Block /\ b # None
BY ConstantsAssumption, KeptAssumption

LEMMA OpsApart == SharedOp \cap ExclusiveOp = {}
BY DEF SharedOp, ExclusiveOp

LEMMA KeptTaskFits ==
  ASSUME NEW t, NEW B, NEW T, \A b \in TaskBlock : t.taskRows[b] = Kept,
         t.op = "create" => t.block = None
  PROVE  TaskFits(t, B, T)
BY TaskBlocks DEF TaskFits

LEMMA ExclusiveTaskFits ==
  ASSUME NEW t, NEW B, NEW T, t.op \in ExclusiveOp
  PROVE  TaskFits(t, B, T)
BY OpsApart DEF TaskFits, SharedOp

\* Whatever only begins has written no task.
LEMMA BegunTaskFits ==
  ASSUME NEW t, NEW B, NEW T, t = NoTxn \/ Waits(t) \/ Begins(t)
  PROVE  TaskFits(t, B, T)
<1>1. TasksKept(t) /\ (t.op = "create" => t.block = None)
  BY NoTxnFacts DEF Waits, Begins, Unwritten
<1>2. QED
  BY <1>1, KeptTaskFits DEF TasksKept

\* So has an edit before it is written.
LEMMA EditingTaskFits ==
  ASSUME NEW t, NEW B, NEW T, Editing(t), TasksKept(t)
  PROVE  TaskFits(t, B, T)
<1>1. t.op # "create"
  BY DEF Editing
<1>2. QED
  BY <1>1, KeptTaskFits DEF TasksKept

\* A statement keeps the tasks if its transaction does.
LEMMA GoesTaskInv ==
  ASSUME TxInv, TaskInv, UNCHANGED vars, NEW c \in Connection, NEW t,
         txn' = [txn EXCEPT ![c] = t], TaskFits(t, blocks, tasks)
  PROVE  TaskInv'
<1>1. UNCHANGED <<blocks, tasks>>
  BY DEF vars
<1>2. TasksFollow'
  BY <1>1 DEF TaskInv, TasksFollow
<1>3. txn'[c] = t /\ \A o \in Connection \ {c} : txn'[o] = txn[o]
  BY DEF TxInv, TxTypeOK
<1>4. \A o \in Connection : TaskFits(txn'[o], blocks, tasks)
  BY <1>3 DEF TaskInv
<1>5. QED
  BY <1>1, <1>2, <1>4 DEF TaskInv

-----------------------------------------------------------------------------
(* Dead stacks stay dead                                                   *)

\* Edits and discards write drafts only.
LEMMA DraftsOnly ==
  ASSUME NEW t \in Txn, NEW B \in [Block -> Stack], NEW b \in Block,
         Edits(t, B) \/ Discards(t, B), NEW v \in Version, t.rows[b][v] # Kept
  PROVE  /\ v \notin Published(B[b])
         /\ t.rows[b][v] # Absent => t.rows[b][v].draft
<1>1. CASE Discards(t, B)
  BY <1>1 DEF Discards, OwnDrafts, Published
<1>2. CASE Edits(t, B)
  <2>1. PICK row \in VersionRow \cup {Absent, Kept} :
          /\ EditedRow(B[t.block], t.seen, t.draft, row)
          /\ t.rows = Only(t.block, t.draft, row)
    BY <1>2 DEF Edits
  <2>2. b = t.block /\ v = t.draft /\ t.rows[b][v] = row /\ row # Kept
    BY <2>1, OnlyFacts
  <2>3. PICK s : s = B[b]
    OBVIOUS
  <2>4. EditedRow(s, t.seen, v, row)
    BY <2>1, <2>2, <2>3
  <2>5. CASE row = Absent
    BY <2>2, <2>3, <2>4, <2>5, ConstantsAssumption DEF EditedRow, Published
  <2>6. CASE row # Absent
    <3>1. row.draft /\ CanEdit(s, row.createdBy, t.seen, v)
      BY <2>2, <2>4, <2>6 DEF EditedRow
    <3>2. v \notin Published(s)
      BY <3>1, VersionFacts DEF CanEdit, OwnDrafts, Published
    <3>3. QED
      BY <2>2, <2>3, <3>1, <3>2
  <2>7. QED
    BY <2>5, <2>6
<1>3. QED
  BY <1>1, <1>2

\* Whether a stack they write is alive is a matter of its head, or of being there.
LEMMA AliveShown ==
  ASSUME NEW t \in Txn, NEW B \in [Block -> Stack], NEW b \in Block, SoundStack(B[b]),
         Edits(t, B) \/ Discards(t, B)
  PROVE  Alive(Shown(t, B)[b]) <=>
           IF Published(B[b]) = {} THEN Present(Shown(t, B)[b]) # {} ELSE HasLiveHead(B[b])
<1>1. PICK s : s = B[b]
  OBVIOUS
<1>2. PICK r : r = Shown(t, B)[b]
  OBVIOUS
<1>3. \A v \in Version : r[v] = IF t.rows[b][v] = Kept THEN s[v] ELSE t.rows[b][v]
  BY <1>1, <1>2 DEF Shown, Over
<1>4. \A v \in Version : t.rows[b][v] # Kept =>
        /\ v \notin Published(s)
        /\ t.rows[b][v] # Absent => t.rows[b][v].draft
  BY <1>1, DraftsOnly
<1>5. Published(r) = Published(s) /\ \A v \in Published(s) : r[v] = s[v]
  BY <1>3, <1>4 DEF Published, Present
<1>6. HeadVersion(r) = HeadVersion(s)
  BY <1>5 DEF HeadVersion, IsHead
<1>7. Published(s) # {} => HeadVersion(s) \in Published(s)
  BY <1>1, HeadIsHead DEF SoundStack, IsHead
<1>8. HasLiveHead(r) <=> HasLiveHead(s)
  BY <1>5, <1>6, <1>7 DEF HasLiveHead
<1>9. QED
  BY <1>1, <1>2, <1>5, <1>8 DEF Alive, HasLiveHead

\* deleteUnlinkedTasks goes by links, and an alive stack has one.
LEMMA UnlinkedDead ==
  ASSUME NEW t \in Txn, NEW B \in [Block -> Stack], NEW b \in Block, SoundStack(B[b]),
         Edits(t, B) \/ Discards(t, B), ~LinksTask(Shown(t, B)[b])
  PROVE  ~Alive(Shown(t, B)[b])
<1>1. PICK s : s = B[b]
  OBVIOUS
<1>2. PICK r : r = Shown(t, B)[b]
  OBVIOUS
<1>3. \A v \in Version : r[v] = IF t.rows[b][v] = Kept THEN s[v] ELSE t.rows[b][v]
  BY <1>1, <1>2 DEF Shown, Over
<1>4. SUFFICES ASSUME Published(r) = {}, NEW v \in Present(r)  PROVE FALSE
  BY <1>2 DEF Alive, LinksTask
<1>5. v \in Version /\ r[v] # Absent /\ r[v].draft
  BY <1>4 DEF Published, Present
<1>6. r[v].deleted
  BY <1>2, <1>4, <1>5 DEF LinksTask
<1>7. Published(s) = {}
  <2>1. \A w \in Published(s) : t.rows[b][w] = Kept
    BY <1>1, DraftsOnly DEF Published, Present
  <2>2. Published(s) \subseteq Published(r)
    BY <1>3, <2>1 DEF Published, Present
  <2>3. QED
    BY <1>4, <2>2
<1>8. \A d \in Present(s) : s[d].base = NoBase /\ ~s[d].deleted /\ s[d].draft
  <2>1. \A d \in Present(s) : Anchored(s, d) /\ s[d].draft
    BY <1>1, <1>7 DEF SoundStack, Published
  <2>2. QED
    BY <1>7, <2>1 DEF Anchored
<1>9. CASE t.rows[b][v] = Kept
  BY <1>3, <1>5, <1>6, <1>8, <1>9 DEF Present
<1>10. CASE t.rows[b][v] # Kept
  <2>1. r[v] = t.rows[b][v]
    BY <1>3, <1>5, <1>10
  <2>2. Edits(t, B)
    BY <1>5, <1>10, <2>1 DEF Discards
  <2>3. PICK row \in VersionRow \cup {Absent, Kept} :
          /\ EditedRow(B[t.block], t.seen, t.draft, row)
          /\ t.rows = Only(t.block, t.draft, row)
    BY <2>2 DEF Edits
  <2>4. b = t.block /\ v = t.draft /\ t.rows[b][v] = row /\ row # Kept
    BY <1>5, <1>10, <2>3, OnlyFacts
  <2>5. EditedRow(s, t.seen, v, row) /\ row # Absent
    BY <1>1, <1>5, <2>1, <2>3, <2>4
  <2>6. /\ row.deleted => row.base # NoBase
        /\ CanEdit(s, row.createdBy, t.seen, v)
        /\ row.base = Drafted(s, row.createdBy, t.seen, v)[v].base
    BY <2>4, <2>5 DEF EditedRow
  <2>7. OwnDrafts(s, row.createdBy) = {t.seen} /\ v = t.seen
    BY <1>7, <2>6 DEF CanEdit
  <2>8. row.base = s[v].base /\ v \in Present(s)
    BY <2>6, <2>7 DEF Drafted, OwnDrafts
  <2>9. QED
    BY <1>6, <1>8, <2>1, <2>4, <2>6, <2>8
<1>11. QED
  BY <1>9, <1>10

\* Only a new block, or a block with a published version, gets a new row.
LEMMA NewRows ==
  ASSUME TxInv, NEW c \in Connection, Commit(c), txn[c].op \notin ExclusiveOp,
         NEW b \in Block, NEW v \in Version,
         blocks[b][v] = Absent, blocks'[b][v] # Absent
  PROVE  \/ Creates(txn[c], blocks) /\ b = txn[c].block
         \/ txn[c].op # "create" /\ Published(blocks[b]) # {}
<1>1. PICK t : t = txn[c]
  OBVIOUS
<1>2. /\ blocks' = Shown(t, blocks) /\ t \in Txn
      /\ Creates(t, blocks) \/ Edits(t, blocks) \/ Discards(t, blocks)
  BY <1>1, CommitFacts DEF UpdatesDraft, UpdatesTask, PublishesAll, Restores, RestoresTo,
                           Rebalances, ExclusiveOp
<1>3. t.rows[b][v] # Kept /\ t.rows[b][v] # Absent
  BY <1>2 DEF Shown, Over
<1>4. CASE Creates(t, blocks)
  <2>1. PICK row : t.rows = Only(t.block, 1, row)
    BY <1>4 DEF Creates
  <2>2. b = t.block
    BY <1>3, <2>1, OnlyFacts
  <2>3. QED
    BY <1>1, <1>4, <2>2
<1>5. CASE Discards(t, blocks)
  BY <1>3, <1>5 DEF Discards
<1>6. CASE Edits(t, blocks)
  <2>1. PICK row \in VersionRow \cup {Absent, Kept} :
          /\ EditedRow(blocks[t.block], t.seen, t.draft, row)
          /\ t.rows = Only(t.block, t.draft, row)
    BY <1>6 DEF Edits
  <2>2. b = t.block /\ v = t.draft /\ t.rows[b][v] = row
    BY <1>3, <2>1, OnlyFacts
  <2>3. PICK s : s = blocks[b]
    OBVIOUS
  <2>4. CanEdit(s, row.createdBy, t.seen, v)
    BY <1>3, <2>1, <2>2, <2>3 DEF EditedRow
  <2>5. s[v] = Absent
    BY <2>3
  <2>6. Published(s) # {}
    BY <2>4, <2>5 DEF CanEdit, OwnDrafts, Present
  <2>7. t.op # "create"
    BY <1>6 DEF Edits
  <2>8. QED
    BY <1>1, <2>3, <2>6, <2>7
<1>7. QED
  BY <1>2, <1>4, <1>5, <1>6

-----------------------------------------------------------------------------
(* Statements and tasks                                                    *)

\* A transaction that begins, waits or rolls back.
LEMMA BegunTasks ==
  ASSUME TxInv, TxInv', TaskInv, NEW c \in Connection,
         \/ \E u \in Teacher :
              \/ \E op \in SharedOp \cup ExclusiveOp : LockCourse(c, u, op)
              \/ \E b \in TaskBlock : GetTaskBlock(c, u, b)
         \/ LockCourseForUpdate(c)
         \/ Rollback(c)
  PROVE  TaskInv'
<1>1. UNCHANGED vars /\ \E t : txn' = [txn EXCEPT ![c] = t]
  BY DEF LockCourse, GetTaskBlock, LockCourseForUpdate, Rollback, Goes
<1>2. PICK t : txn' = [txn EXCEPT ![c] = t]
  BY <1>1
<1>3. txn'[c] = t /\ txn[c] \in Txn /\ t \in Txn
  BY <1>2 DEF TxInv, TxTypeOK
<1>4. Fits(t, blocks', tasks', groups', checkpoints')
  BY <1>3 DEF TxInv, AllFit
<1>5. t.pc \in {"idle", "lock", "insert new", "ensure draft", "discard", "read drafts",
                "restore", "rebalance"}
  <2>1. ASSUME NEW u \in Teacher, NEW op \in SharedOp \cup ExclusiveOp, LockCourse(c, u, op)
        PROVE  t.pc \in {"insert new", "ensure draft", "discard", "read drafts",
                         "restore", "rebalance"}
    <3>1. PICK step : step = FirstStep[op]
      OBVIOUS
    <3>2. txn'[c].pc = step
      BY <2>1, <3>1, NoTxnFacts DEF LockCourse, Goes, Txn, TxInv, TxTypeOK
    <3>3. QED
      BY <1>3, <3>1, <3>2, FirstSteps
  <2>2. ASSUME NEW u \in Teacher, NEW b \in TaskBlock, GetTaskBlock(c, u, b)
        PROVE  t.pc = "lock"
    BY <1>3, <2>2, NoTxnFacts DEF GetTaskBlock, Goes, Txn, TxInv, TxTypeOK
  <2>3. CASE LockCourseForUpdate(c)
    <3>1. PICK step : step = FirstStep["update"]
      OBVIOUS
    <3>2. txn'[c].pc = step
      BY <1>3, <2>3, <3>1 DEF LockCourseForUpdate, Goes, Txn, TxInv, TxTypeOK
    <3>3. "update" \in SharedOp \cup ExclusiveOp
      BY DEF ExclusiveOp
    <3>4. QED
      BY <1>3, <3>1, <3>2, <3>3, FirstSteps
  <2>4. CASE Rollback(c)
    <3>1. txn'[c] = NoTxn
      BY <2>4 DEF Rollback, Goes, TxInv, TxTypeOK
    <3>2. QED
      BY <1>3, <3>1, NoTxnFacts
  <2>5. QED
    BY <2>1, <2>2, <2>3, <2>4
<1>6. t = NoTxn \/ Waits(t) \/ Begins(t)
  BY <1>4, <1>5, StageOf
<1>7. TaskFits(t, blocks, tasks)
  BY <1>6, BegunTaskFits
<1>8. QED
  BY <1>1, <1>2, <1>7, GoesTaskInv

\* A statement of an operation that has the course to itself.
LEMMA ExclusiveTasks ==
  ASSUME TxInv, TaskInv, NEW c \in Connection, Holds(c), txn[c].op \in ExclusiveOp
  PROVE  TaskInv'
<1>1. GoesOn(c)
  BY HoldsGoesOn DEF TxInv
<1>2. PICK t : t = txn'[c]
  OBVIOUS
<1>3. txn' = [txn EXCEPT ![c] = t] /\ UNCHANGED vars /\ t.op \in ExclusiveOp
  BY <1>1, <1>2 DEF GoesOn
<1>4. QED
  BY <1>3, ExclusiveTaskFits, GoesTaskInv

\* A draft that is found or copied, and not yet written.
LEMMA DraftTasks ==
  ASSUME TxInv, TxInv', TaskInv, NEW c \in Connection,
         \/ \E b \in Block, seen \in Version : GetOwnDraft(c, b, seen)
         \/ \E n \in Version : InsertDraft(c, n)
  PROVE  TaskInv'
<1>1. UNCHANGED vars /\ \E t : txn' = [txn EXCEPT ![c] = t]
  BY DEF GetOwnDraft, InsertDraft, Goes
<1>2. PICK t : txn' = [txn EXCEPT ![c] = t]
  BY <1>1
<1>3. txn'[c] = t /\ txn[c] \in Txn
  BY <1>2 DEF TxInv, TxTypeOK
<1>4. t.pc \in {"insert draft", "write"}
  <2>1. ASSUME NEW b \in Block, NEW seen \in Version, GetOwnDraft(c, b, seen)
        PROVE  t.pc \in {"insert draft", "write"}
    <3>1. PICK step : step = IF OwnDrafts(Sees(c)[b], txn[c].user) = {}
                             THEN "insert draft" ELSE "write"
      OBVIOUS
    <3>2. txn' = [txn EXCEPT ![c] = [txn[c] EXCEPT !.block = b, !.seen = seen, !.draft = seen,
                                                   !.locked = {b}, !.pc = step]]
      BY <2>1, <3>1 DEF GetOwnDraft, Goes
    <3>3. t.pc = step
      BY <1>3, <3>2 DEF Txn, TxInv, TxTypeOK
    <3>4. QED
      BY <3>1, <3>3
  <2>2. ASSUME NEW n \in Version, InsertDraft(c, n)
        PROVE  t.pc = "write"
    <3>1. \E rows : txn' = [txn EXCEPT ![c] =
                              [txn[c] EXCEPT !.rows = rows, !.draft = n, !.pc = "write"]]
      BY <2>2 DEF InsertDraft, Goes
    <3>2. QED
      BY <1>3, <3>1 DEF Txn, TxInv, TxTypeOK
  <2>3. QED
    BY <2>1, <2>2
<1>5. Fits(t, blocks', tasks', groups', checkpoints')
  BY <1>3 DEF TxInv, AllFit
<1>6. CopiesNext(t, blocks') \/ WritesNext(t, blocks')
  BY <1>4, <1>5, StageOf
<1>7. Editing(t) /\ TasksKept(t)
  BY <1>6 DEF CopiesNext, WritesNext, Unwritten
<1>8. QED
  BY <1>1, <1>2, <1>7, EditingTaskFits, GoesTaskInv

\* A new task block has no task yet.
LEMMA InsertNewBlockTasks ==
  ASSUME TxInv, TaskInv, NEW c \in Connection, NEW b \in Block, NEW x \in Data,
         NEW p \in Position, InsertNewBlock(c, b, x, p)
  PROVE  TaskInv'
<1>1. txn[c] \in Txn /\ Begins(txn[c]) /\ txn[c].pc = "insert new"
  BY StageOf DEF InsertNewBlock, TxInv, TxTypeOK, AllFit
<1>2. UNCHANGED vars /\ \E t : txn' = [txn EXCEPT ![c] = t]
  BY DEF InsertNewBlock, Goes
<1>3. PICK t : txn' = [txn EXCEPT ![c] = t]
  BY <1>2
<1>4. txn'[c] = t
  BY <1>3 DEF TxInv, TxTypeOK
<1>5. /\ t.block = b /\ t.taskRows = txn[c].taskRows /\ t.op = txn[c].op
      /\ t.pc = "commit" => b \notin TaskBlock
      /\ b \in TaskBlock => tasks[b] = Absent
  BY <1>1, <1>4 DEF InsertNewBlock, Goes, Txn, TxInv, TxTypeOK
<1>6. \A a \in TaskBlock : t.taskRows[a] = Kept
  BY <1>1, <1>5 DEF Begins, Unwritten, TasksKept
<1>7. TaskFits(t, blocks, tasks)
  BY <1>5, <1>6 DEF TaskFits
<1>8. QED
  BY <1>2, <1>3, <1>7, GoesTaskInv

\* Then it gets one, alive.
LEMMA InsertTaskTasks ==
  ASSUME TxInv, TaskInv, NEW c \in Connection, NEW g \in Group, NEW name \in TaskName,
         InsertTask(c, g, name)
  PROVE  TaskInv'
<1>1. PICK row : row = [group |-> g, name |-> name, live |-> TRUE]
  OBVIOUS
<1>2. PICK groupRow : groupRow = IF groups[g] = "none" THEN "live" ELSE Kept
  OBVIOUS
<1>3. PICK b : b = txn[c].block
  OBVIOUS
<1> DEFINE t == [txn[c] EXCEPT !.taskRows[b] = row, !.groupRows[g] = groupRow, !.pc = "commit"]
<1>4. txn' = [txn EXCEPT ![c] = t] /\ UNCHANGED vars /\ txn[c].pc = "create task"
  BY <1>1, <1>2, <1>3 DEF InsertTask, Goes
<1>5. txn[c] \in Txn /\ Creates(txn[c], blocks) /\ TaskFits(txn[c], blocks, tasks)
  BY <1>4, StageOf DEF TxInv, TxTypeOK, AllFit, TaskInv
<1>6. b \in TaskBlock /\ txn[c].op = "create" /\ "create" \in SharedOp
  BY <1>3, <1>4, <1>5 DEF Creates, SharedOp
<1>7. /\ t.op = "create" /\ t.block = b /\ t.pc = "commit"
      /\ t.taskRows = [txn[c].taskRows EXCEPT ![b] = row]
  BY <1>3, <1>5, <1>6 DEF Txn
<1>8. t.taskRows[b] = row /\ \A a \in TaskBlock : a # b => t.taskRows[a] = txn[c].taskRows[a]
  BY <1>5, <1>6, <1>7 DEF Txn
<1>9. row \in Task /\ row.live
  BY <1>1 DEF Task
<1>10. \A a \in TaskBlock : txn[c].taskRows[a] = Kept
  BY <1>4, <1>5, <1>6 DEF TaskFits
<1>11. tasks[b] = Absent
  BY <1>3, <1>5, <1>6 DEF TaskFits
<1> HIDE DEF t
<1>12. TaskFits(t, blocks, tasks)
  BY <1>6, <1>7, <1>8, <1>9, <1>10, <1>11, KeptFacts DEF TaskFits
<1>13. QED
  BY <1>4, <1>12, GoesTaskInv

\* The statements that write drafts write no task.
LEMMA WriteTasks ==
  ASSUME TxInv, TaskInv, NEW c \in Connection, WriteDraft(c) \/ DeleteOwnDrafts(c)
  PROVE  TaskInv'
<1>1. UNCHANGED vars /\ \E t : txn' = [txn EXCEPT ![c] = t]
  BY DEF WriteDraft, DeleteOwnDrafts, Goes
<1>2. PICK t : txn' = [txn EXCEPT ![c] = t]
  BY <1>1
<1>3. txn'[c] = t /\ txn[c] \in Txn
  BY <1>2 DEF TxInv, TxTypeOK
<1>4. t.taskRows = txn[c].taskRows /\ t.op = txn[c].op
  <2>1. CASE WriteDraft(c)
    <3>1. \E rows, todo, unlinked :
            Goes(c, [txn[c] EXCEPT !.rows = rows, !.todo = todo,
                                   !.unlinked = unlinked, !.pc = AfterWrite(c)])
      BY <2>1 DEF WriteDraft
    <3>2. QED
      BY <1>3, <3>1 DEF Goes, Txn, TxInv, TxTypeOK
  <2>2. CASE DeleteOwnDrafts(c)
    <3>1. \E rows, unlinked, step :
            txn' = [txn EXCEPT ![c] = [txn[c] EXCEPT !.rows = rows,
                                                     !.unlinked = unlinked, !.pc = step]]
      BY <2>2 DEF DeleteOwnDrafts, Goes
    <3>2. QED
      BY <1>3, <3>1 DEF Txn, TxInv, TxTypeOK
  <2>3. QED
    BY <2>1, <2>2
<1>5. WritesNext(txn[c], blocks) \/ (Begins(txn[c]) /\ txn[c].pc = "discard")
  BY StageOf DEF WriteDraft, DeleteOwnDrafts, TxInv, TxTypeOK, AllFit
<1>6. TasksKept(txn[c]) /\ txn[c].op # "create"
  BY <1>5, FirstSteps DEF WritesNext, Editing, Begins, Unwritten
<1>7. TaskFits(t, blocks, tasks)
  BY <1>4, <1>6, KeptTaskFits DEF TasksKept
<1>8. QED
  BY <1>1, <1>2, <1>7, GoesTaskInv

\* deleteUnlinkedTasks takes the tasks of what is dead.
LEMMA UnlinkTasks ==
  ASSUME TxInv, TaskInv, NEW c \in Connection, Unlink(c), txn[c].op \notin ExclusiveOp
  PROVE  TaskInv'
<1>1. PICK old : old = txn[c]
  OBVIOUS
<1>2. old \in Txn /\ old.pc = "unlink" /\ TaskFits(old, blocks, tasks)
  BY <1>1 DEF Unlink, TxInv, TxTypeOK, TaskInv
<1>3. Edits(old, blocks) \/ Discards(old, blocks)
  <2>1. Fits(old, blocks, tasks, groups, checkpoints)
    BY <1>1 DEF TxInv, AllFit
  <2>2. \/ Edits(old, blocks) \/ Discards(old, blocks)
        \/ PublishesAll(old, blocks, tasks, groups, checkpoints)
        \/ Restores(old, blocks, tasks, groups, checkpoints)
    BY <1>2, <2>1, StageOf
  <2>3. ~PublishesAll(old, blocks, tasks, groups, checkpoints)
    BY <1>1 DEF PublishesAll, ExclusiveOp
  <2>4. ~Restores(old, blocks, tasks, groups, checkpoints)
    BY <1>1 DEF Restores, RestoresTo, ExclusiveOp
  <2>5. QED
    BY <2>2, <2>3, <2>4
<1>4. UNCHANGED vars /\ \E t : txn' = [txn EXCEPT ![c] = t]
  BY DEF Unlink, Goes
<1>5. PICK t : txn' = [txn EXCEPT ![c] = t]
  BY <1>4
<1>6. txn'[c] = t
  BY <1>5 DEF TxInv, TxTypeOK
<1>7. old.op \in SharedOp /\ old.op # "create"
  BY <1>3 DEF Edits, Discards, SharedOp
<1>8. \A b \in TaskBlock : old.taskRows[b] = Kept
  BY <1>2, <1>7 DEF TaskFits
<1>9. SeesTasks(c) = tasks /\ Sees(c) = Shown(old, blocks)
  <2>1. tasks \in [TaskBlock -> Task \cup {Absent}]
    BY DEF TxInv, IInv, TypeOK
  <2>2. \A b \in TaskBlock : Over(txn[c].taskRows[b], tasks[b]) = tasks[b]
    BY <1>1, <1>8, KeptFacts
  <2>3. SeesTasks(c) = tasks
    BY <2>1, <2>2 DEF SeesTasks
  <2>4. QED
    BY <1>1, <2>3, SeesShown
<1>10. /\ t.rows = old.rows /\ t.op = old.op /\ t.block = old.block
       /\ \A b \in TaskBlock : t.taskRows[b] # Kept =>
            IsLiveTask(tasks[b]) /\ ~LinksTask(Sees(c)[b])
  BY <1>1, <1>2, <1>6, <1>8, <1>9 DEF Unlink, Goes, Txn, TxInv, TxTypeOK
<1>11. t.pc = "commit"
  BY <1>1, <1>2, <1>3, <1>6 DEF Unlink, Goes, Txn, TxInv, TxTypeOK, Edits, Discards
<1>12. ASSUME NEW b \in TaskBlock, t.taskRows[b] # Kept
       PROVE  tasks[b] # Absent /\ ~Alive(Shown(t, blocks)[b])
  <2>1. IsLiveTask(tasks[b]) /\ ~LinksTask(Shown(old, blocks)[b])
    BY <1>9, <1>10, <1>12
  <2>2. ~Alive(Shown(old, blocks)[b])
    BY <1>2, <1>3, <2>1, StacksOf, TaskBlocks, UnlinkedDead
  <2>3. Shown(t, blocks) = Shown(old, blocks)
    BY <1>10 DEF Shown
  <2>4. tasks[b] # Absent
    BY <2>1 DEF IsLiveTask
  <2>5. QED
    BY <2>2, <2>3, <2>4
<1>13. TaskFits(t, blocks, tasks)
  BY <1>7, <1>10, <1>11, <1>12 DEF TaskFits
<1>14. QED
  BY <1>4, <1>5, <1>13, GoesTaskInv

-----------------------------------------------------------------------------
(* Commits and tasks                                                       *)

\* What has the course to itself leaves the tasks to their blocks, as in
\* BlockVersions, and nobody else has written any.
LEMMA ExclusiveCommitTasks ==
  ASSUME TxInv, TxInv', TaskInv, NEW c \in Connection, Commit(c), txn[c].op \in ExclusiveOp
  PROVE  TaskInv'
<1>1. Next /\ IInv
  BY ExclusiveNext, CommitFacts
<1>2. TasksFollow'
  BY <1>1, StepFollows DEF FollowInv, TaskInv
<1>3. txn'[c] = NoTxn /\ \A o \in Others(c) : txn'[o] = txn[o]
  BY CommitFacts DEF Others, TxInv, TxTypeOK
<1>4. ASSUME NEW o \in Connection
      PROVE  txn'[o] = NoTxn \/ Waits(txn'[o])
  <2>1. CASE o = c
    BY <1>3, <2>1
  <2>2. CASE o # c
    <3>1. o \in Others(c) /\ Active(c)
      BY <2>2, CommitFacts DEF Others
    <3>2. txn[o].pc \in {"idle", "lock"}
      BY <3>1, AloneApart
    <3>3. Fits(txn[o], blocks, tasks, groups, checkpoints)
      BY DEF TxInv, AllFit
    <3>4. QED
      BY <1>3, <3>1, <3>2, <3>3, StageOf
  <2>3. QED
    BY <2>1, <2>2
<1>5. \A o \in Connection : TaskFits(txn'[o], blocks', tasks')
  BY <1>4, BegunTaskFits
<1>6. QED
  BY <1>2, <1>5 DEF TaskInv

\* What is written of tasks when a transaction that shares the course commits.
LEMMA CommittedTask ==
  ASSUME TxInv, TaskInv, NEW c \in Connection, Commit(c), txn[c].op \notin ExclusiveOp,
         NEW b \in TaskBlock
  PROVE  /\ txn[c].taskRows[b] = Kept => tasks'[b] = tasks[b]
         /\ txn[c].taskRows[b] # Kept =>
              /\ tasks'[b] = txn[c].taskRows[b] /\ tasks'[b] \in Task
              /\ \/ txn[c].op = "create" /\ b = txn[c].block
                 \/ tasks[b] # Absent /\ ~Alive(blocks'[b])
<1>1. PICK t : t = txn[c]
  OBVIOUS
<1>2. /\ tasks' = ShownTasks(t, tasks) /\ blocks' = Shown(t, blocks)
      /\ t.taskRows \in [TaskBlock -> Task \cup {Kept}] /\ TaskFits(t, blocks, tasks)
  BY <1>1, CommitFacts DEF Txn, TaskInv
<1>3. tasks'[b] = Over(t.taskRows[b], tasks[b])
  BY <1>2 DEF ShownTasks
<1>4. t.op \in SharedOp
  <2>1. t.op \in SharedOp \cup ExclusiveOp
    BY <1>1, CommitFacts DEF Creates, Edits, Discards, UpdatesDraft, UpdatesTask, PublishesAll,
                             Restores, RestoresTo, Rebalances, SharedOp, ExclusiveOp
  <2>2. QED
    BY <1>1, <2>1
<1>5. CASE t.taskRows[b] = Kept
  BY <1>1, <1>3, <1>5, KeptFacts
<1>6. CASE t.taskRows[b] # Kept
  <2>1. tasks'[b] = t.taskRows[b] /\ tasks'[b] \in Task
    BY <1>2, <1>3, <1>6, KeptFacts
  <2>2. \/ t.op = "create" /\ b = t.block
        \/ tasks[b] # Absent /\ ~Alive(blocks'[b])
    BY <1>2, <1>4, <1>6 DEF TaskFits
  <2>3. QED
    BY <1>1, <1>6, <2>1, <2>2
<1>7. QED
  BY <1>5, <1>6

\* What is deleted at the end of one transaction is dead, whatever the others
\* committed since it looked.
LEMMA SharedCommitFollows ==
  ASSUME TxInv, TaskInv, NEW c \in Connection, Commit(c), txn[c].op \notin ExclusiveOp
  PROVE  TasksFollow'
<1> SUFFICES ASSUME NEW b \in TaskBlock
             PROVE  /\ Present(blocks'[b]) # {} => tasks'[b] # Absent
                    /\ Alive(blocks'[b]) => IsLiveTask(tasks'[b])
  BY DEF TasksFollow
<1>1. b \in Block /\ IInv /\ EditStep
  BY TaskBlocks, SharedCommits, CommitFacts DEF SharedStep
<1>2. Absent \notin Task
  BY ConstantsAssumption
<1>3. TaskFits(txn[c], blocks, tasks) /\ TasksFollow /\ txn[c].pc = "commit"
  BY CommitFacts DEF TaskInv
<1>4. CASE txn[c].op = "create" /\ b = txn[c].block
  <2>1. txn[c].taskRows[b] # Kept /\ txn[c].taskRows[b].live
    BY <1>3, <1>4 DEF TaskFits
  <2>2. tasks'[b] = txn[c].taskRows[b] /\ tasks'[b] \in Task
    BY <2>1, CommittedTask
  <2>3. QED
    BY <1>2, <2>1, <2>2 DEF IsLiveTask
<1>5. CASE ~(txn[c].op = "create" /\ b = txn[c].block)
  <2>1. Present(blocks'[b]) # {} => Present(blocks[b]) # {}
    <3>1. SUFFICES ASSUME Present(blocks[b]) = {}, NEW v \in Present(blocks'[b])
                   PROVE  FALSE
      OBVIOUS
    <3>2. v \in Version /\ blocks[b][v] = Absent /\ blocks'[b][v] # Absent
      BY <3>1 DEF Present
    <3>3. (Creates(txn[c], blocks) /\ b = txn[c].block) \/ Published(blocks[b]) # {}
      BY <1>1, <3>2, NewRows
    <3>4. QED
      BY <1>5, <3>1, <3>3 DEF Creates, Published
  <2>2. ~Revives(blocks[b], blocks'[b])
    BY <1>1, <2>1, QuietStepRevives
  <2>3. /\ Present(blocks'[b]) # {} => tasks[b] # Absent
        /\ Alive(blocks'[b]) => IsLiveTask(tasks[b])
    BY <1>3, <2>2 DEF TasksFollow, Revives
  <2>4. CASE txn[c].taskRows[b] = Kept
    BY <2>3, <2>4, CommittedTask
  <2>5. CASE txn[c].taskRows[b] # Kept
    <3>1. tasks'[b] \in Task /\ ~Alive(blocks'[b])
      BY <1>5, <2>5, CommittedTask
    <3>2. QED
      BY <1>2, <3>1
  <2>6. QED
    BY <2>4, <2>5
<1>6. QED
  BY <1>4, <1>5

\* The block whose task one transaction deletes at its end is not brought back
\* by another that shares the course.
LEMMA StaysDead ==
  ASSUME TxInv, TaskInv, NEW c \in Connection, Commit(c), txn[c].op \notin ExclusiveOp,
         NEW o \in Others(c), NEW b \in TaskBlock, tasks[b] # Absent,
         Edits(txn[o], blocks) \/ Discards(txn[o], blocks),
         ~Alive(Shown(txn[o], blocks)[b])
  PROVE  ~Alive(Shown(txn[o], blocks')[b])
<1>1. PICK t : t = txn[o]
  OBVIOUS
<1>2. PICK B : B = blocks'
  OBVIOUS
<1>3. b \in Block /\ IInv /\ Recorded /\ EditStep /\ SharedStep(txn[c])
  BY TaskBlocks, SharedCommits, CommitFacts DEF SharedStep
<1>4. IInv'
  BY <1>3, CommitFacts, EditIInv
<1>5. B \in [Block -> Stack] /\ SoundStack(B[b])
  BY <1>2, <1>3, <1>4 DEF IInv, StacksSound, EditStep
<1>6. t \in Txn /\ o \in Connection
  BY <1>1, StacksOf DEF Others
<1>7. Edits(t, B) \/ Discards(t, B)
  BY <1>1, <1>2, <1>3, EditsFits, DiscardsFits
<1>8. SoundStack(blocks[b]) /\ Quiet(blocks[b], B[b])
  BY <1>2, <1>3, QuietSteps DEF QuietStep, IInv, StacksSound
<1>9. /\ Published(B[b]) = Published(blocks[b])
      /\ HasLiveHead(B[b]) <=> HasLiveHead(blocks[b])
  BY <1>8, QuietKeepsHead DEF Quiet, SamePublished
<1>10. /\ Alive(Shown(t, B)[b]) <=>
            IF Published(B[b]) = {} THEN Present(Shown(t, B)[b]) # {} ELSE HasLiveHead(B[b])
       /\ Alive(Shown(t, blocks)[b]) <=>
            IF Published(blocks[b]) = {} THEN Present(Shown(t, blocks)[b]) # {}
            ELSE HasLiveHead(blocks[b])
  BY <1>1, <1>3, <1>5, <1>6, <1>7, <1>8, AliveShown, StacksOf
<1>11. CASE Published(blocks[b]) # {}
  BY <1>1, <1>2, <1>9, <1>10, <1>11
<1>12. CASE Published(blocks[b]) = {}
  <2>1. Present(Shown(t, blocks)[b]) = {}
    BY <1>1, <1>10, <1>12
  <2>2. SUFFICES ASSUME NEW v \in Present(Shown(t, B)[b])
                 PROVE  FALSE
    BY <1>1, <1>2, <1>9, <1>10, <1>12
  <2>3. v \in Version /\ Shown(t, B)[b][v] # Absent
    BY <2>2 DEF Present
  <2>4. Shown(t, blocks)[b][v] = Absent
    BY <2>1, <2>3 DEF Present
  <2>5. blocks[b][v] = Absent /\ B[b][v] # Absent
    BY <1>3, <2>3, <2>4 DEF Shown, Over
  <2>6. Creates(txn[c], blocks) /\ b = txn[c].block
    BY <1>2, <1>3, <1>12, <2>3, <2>5, NewRows
  <2>7. tasks[b] = Absent
    BY <2>6 DEF Creates, TaskInv, TaskFits
  <2>8. QED
    BY <2>7
<1>13. QED
  BY <1>11, <1>12

\* What the others are to do with tasks is still so.
LEMMA SharedCommitTaskFits ==
  ASSUME TxInv, TaskInv, NEW c \in Connection, Commit(c), txn[c].op \notin ExclusiveOp,
         NEW o \in Others(c)
  PROVE  TaskFits(txn[o], blocks', tasks')
<1>1. PICK t : t = txn[o]
  OBVIOUS
<1>2. o \in Connection /\ t \in Txn /\ TaskFits(t, blocks, tasks)
  BY <1>1, StacksOf DEF Others, TaskInv
<1>3. ASSUME NEW b \in TaskBlock, t.op \in SharedOp, t.taskRows[b] # Kept, t.op # "create"
      PROVE  tasks'[b] # Absent /\ ~Alive(Shown(t, blocks')[b])
  <2>1. tasks[b] # Absent /\ ~Alive(Shown(t, blocks)[b]) /\ t.pc = "commit"
    BY <1>2, <1>3 DEF TaskFits
  <2>2. Edits(t, blocks) \/ Discards(t, blocks)
    <3>1. Fits(t, blocks, tasks, groups, checkpoints)
      BY <1>1, <1>2 DEF TxInv, AllFit
    <3>2. t.op \notin ExclusiveOp
      BY <1>3, OpsApart
    <3>3. QED
      BY <1>3, <2>1, <3>1, <3>2, StageOf
      DEF Creates, UpdatesDraft, UpdatesTask, PublishesAll, Restores, RestoresTo, Rebalances,
          ExclusiveOp
  <2>3. ~Alive(Shown(t, blocks')[b])
    BY <1>1, <2>1, <2>2, StaysDead
  <2>4. tasks'[b] # Absent
    <3>1. Absent \notin Task
      BY ConstantsAssumption
    <3>2. QED
      BY <2>1, <3>1, CommittedTask
  <2>5. QED
    BY <2>3, <2>4
<1>4. ASSUME NEW b \in TaskBlock, t.op = "create", b = t.block
      PROVE  tasks'[b] = Absent
  <2>1. tasks[b] = Absent
    BY <1>2, <1>4 DEF TaskFits
  <2>2. CASE txn[c].taskRows[b] = Kept
    BY <2>1, <2>2, CommittedTask
  <2>3. CASE txn[c].taskRows[b] # Kept
    <3>1. txn[c].op = "create" /\ b = txn[c].block
      BY <2>1, <2>3, CommittedTask
    <3>2. Creates(txn[c], blocks)
      BY <3>1, CommitFacts DEF Edits, Discards, UpdatesDraft, UpdatesTask, PublishesAll,
                               Restores, RestoresTo, Rebalances
    <3>3. Creates(t, blocks)
      <4>1. Fits(t, blocks, tasks, groups, checkpoints)
        BY <1>1, <1>2 DEF TxInv, AllFit
      <4>2. t.block # None
        BY <1>4, TaskBlocks
      <4>3. ~Begins(t) /\ ~Waits(t) /\ t # NoTxn
        BY <1>4, <4>2, NoTxnFacts DEF Begins, Waits
      <4>4. QED
        BY <1>4, <4>1, <4>3
        DEF Fits, CopiesNext, WritesNext, Editing, Edits, Discards, UpdatesDraft, UpdatesTask,
            PublishesAll, Restores, RestoresTo, Rebalances
    <3>4. \A s : Creates(s, blocks) /\ s.block = b => s.rows[b][1] # Kept
      <4>1. SUFFICES ASSUME NEW s, Creates(s, blocks), s.block = b
                     PROVE  s.rows[b][1] # Kept
        OBVIOUS
      <4>2. PICK u \in Teacher : u = s.user
        BY <4>1 DEF Creates
      <4>3. PICK x \in Data, p \in Position :
              s.rows = Only(b, 1, [data |-> x, position |-> p, draft |-> TRUE,
                                   deleted |-> FALSE, createdBy |-> u, base |-> NoBase])
        BY <4>1, <4>2 DEF Creates
      <4>4. PICK row : row = [data |-> x, position |-> p, draft |-> TRUE, deleted |-> FALSE,
                              createdBy |-> u, base |-> NoBase]
        OBVIOUS
      <4>5. row \in VersionRow
        BY <4>4 DEF VersionRow
      <4>6. s.rows[b][1] = row
        BY <4>3, <4>4, TaskBlocks, VersionFacts, OnlyFacts
      <4>7. QED
        BY <4>5, <4>6, KeptFacts
    <3>5. txn[c].rows[b][1] # Kept /\ txn[o].rows[b][1] # Kept
      BY <1>1, <1>4, <3>1, <3>2, <3>3, <3>4
    <3>6. QED
      BY <3>5, TaskBlocks, VersionFacts, WrittenOnce
  <2>4. QED
    BY <2>2, <2>3
<1>5. QED
  BY <1>1, <1>2, <1>3, <1>4 DEF TaskFits

LEMMA SharedCommitTasks ==
  ASSUME TxInv, TaskInv, NEW c \in Connection, Commit(c), txn[c].op \notin ExclusiveOp
  PROVE  TaskInv'
<1>1. txn'[c] = NoTxn /\ \A o \in Others(c) : txn'[o] = txn[o]
  BY CommitFacts DEF Others, TxInv, TxTypeOK
<1>2. TaskFits(NoTxn, blocks', tasks')
  BY BegunTaskFits
<1>3. \A o \in Connection : TaskFits(txn'[o], blocks', tasks')
  BY <1>1, <1>2, SharedCommitTaskFits DEF Others
<1>4. QED
  BY <1>3, SharedCommitFollows DEF TaskInv

-----------------------------------------------------------------------------
(* Tasks stay with their blocks                                            *)

LEMMA InitTaskInv == TxInit => TaskInv
<1> SUFFICES ASSUME TxInit  PROVE TaskInv
  OBVIOUS
<1>1. Init /\ \A c \in Connection : txn[c] = NoTxn
  BY DEF TxInit
<1>2. TasksFollow
  BY <1>1, TaskBlocks, ConstantsAssumption
  DEF Init, TasksFollow, EmptyStack, Present, Published, Alive, HasLiveHead
<1>3. \A c \in Connection : TaskFits(txn[c], blocks, tasks)
  BY <1>1, BegunTaskFits
<1>4. QED
  BY <1>2, <1>3 DEF TaskInv

LEMMA NextTaskInv == TxInv /\ TxInv' /\ TaskInv /\ [TxNext]_txVars => TaskInv'
<1> SUFFICES ASSUME TxInv, TxInv', TaskInv, [TxNext]_txVars  PROVE TaskInv'
  OBVIOUS
<1>1. CASE UNCHANGED txVars \/ DeleteCourse
  <2>1. UNCHANGED <<blocks, tasks, txn>>
    BY <1>1 DEF txVars, vars, DeleteCourse, DeleteCourseByID
  <2>2. QED
    BY <2>1 DEF TaskInv, TasksFollow
<1>2. ASSUME NEW c \in Connection,
             \/ \E u \in Teacher :
                  \/ \E op \in SharedOp \cup ExclusiveOp : LockCourse(c, u, op)
                  \/ \E b \in TaskBlock : GetTaskBlock(c, u, b)
             \/ LockCourseForUpdate(c)
             \/ Rollback(c)
      PROVE  TaskInv'
  BY <1>2, BegunTasks
<1>3. ASSUME NEW c \in Connection, Commit(c)
      PROVE  TaskInv'
  BY <1>3, ExclusiveCommitTasks, SharedCommitTasks
<1>4. ASSUME NEW c \in Connection, Holds(c), txn[c].op \in ExclusiveOp
      PROVE  TaskInv'
  BY <1>4, ExclusiveTasks
<1>5. ASSUME NEW c \in Connection, Holds(c), txn[c].op \notin ExclusiveOp
      PROVE  TaskInv'
  <2>1. Fits(txn[c], blocks, tasks, groups, checkpoints)
    BY DEF TxInv, AllFit
  <2>2. CASE \/ \E b \in Block, x \in Data, p \in Position : InsertNewBlock(c, b, x, p)
             \/ \E g \in Group, name \in TaskName : InsertTask(c, g, name)
    BY <2>2, InsertNewBlockTasks, InsertTaskTasks
  <2>3. CASE \/ \E b \in Block, seen \in Version : GetOwnDraft(c, b, seen)
             \/ \E n \in Version : InsertDraft(c, n)
    BY <2>3, DraftTasks
  <2>4. CASE WriteDraft(c) \/ DeleteOwnDrafts(c)
    BY <2>4, WriteTasks
  <2>5. CASE Unlink(c)
    BY <1>5, <2>5, UnlinkTasks
  <2>6. CASE \/ GetOwnDrafts(c)
             \/ \E i \in 1..MaxCheckpoints : i <= Len(checkpoints) /\ RestoreBlocks(c, i)
             \/ \E f \in [Position -> Position] : RemapPositions(c, f)
    <3>1. txn[c].pc \in {"read drafts", "restore", "rebalance"}
      BY <2>6 DEF GetOwnDrafts, RestoreBlocks, RemapPositions
    <3>2. Begins(txn[c])
      BY <2>1, <3>1, StageOf
    <3>3. txn[c].op \in {"publish", "restore", "rebalance"}
      BY <3>1, <3>2, FirstSteps DEF Begins
    <3>4. QED
      BY <1>5, <3>3 DEF ExclusiveOp
  <2>7. CASE PublishNext(c) \/ FillCheckpoint(c)
    <3>1. txn[c].pc \in {"publish", "checkpoint"}
      BY <2>7 DEF PublishNext, FillCheckpoint
    <3>2. \/ UpdatesTask(txn[c], blocks, checkpoints)
          \/ PublishesAll(txn[c], blocks, tasks, groups, checkpoints)
          \/ Restores(txn[c], blocks, tasks, groups, checkpoints)
      BY <2>1, <3>1, StageOf
    <3>3. QED
      BY <1>5, <3>2 DEF UpdatesTask, PublishesAll, Restores, RestoresTo, ExclusiveOp
  <2>8. QED
    BY <1>5, <2>2, <2>3, <2>4, <2>5, <2>6, <2>7 DEF Holds
<1>6. QED
  BY <1>1, <1>2, <1>3, <1>4, <1>5 DEF TxNext, Holds

\* However transactions overlap, a stack has a task, and a live one unless it
\* is dead; what one is about to delete is dead when it commits.
THEOREM TasksStay == TxSpec => []TaskInv
BY InitTaskInv, NextTaskInv, TransactionsFit, PTL DEF TxSpec

\* A task block students see has its task, however edits, discards, publishes
\* and restores overlap (deleteUnlinkedTasks).
THEOREM PublishedTasksStay == TxSpec => []PublishedHasTask
<1>1. TaskInv => PublishedHasTask
  BY DEF TaskInv, TasksFollow, Alive, PublishedHasTask
<1>2. QED
  BY <1>1, TasksStay, PTL

\* However their requests overlap, a teacher never has two drafts of a block
\* (ensureDraft, lockBlockSQL).
THEOREM OneDraft == TxSpec => []OneDraftPerAuthor
<1>1. TxInv => OneDraftPerAuthor
  BY DEF TxInv, IInv, StacksSound, SoundStack, OneDraftPerAuthor
<1>2. QED
  BY <1>1, TransactionsFit, PTL

\* The latest checkpoint names just what is published, although drafts are
\* edited while it is recorded (createCheckpoint, lockCourseForUpdate).
THEOREM LatestCheckpointTrue == TxSpec => []LatestCheckpointIsPublished
<1>1. TxInv => LatestCheckpointIsPublished
  BY DEF TxInv, IInv
<1>2. QED
  BY <1>1, TransactionsFit, PTL

\* A publish, restore, rebalance or task update of many statements is one
\* action of BlockVersions when it commits (lockCourseForUpdate).
THEOREM AtomicWhenExclusive == TxSpec => ExclusiveAtomic
<1> DEFINE Atomic ==
      \A c \in Connection : txn[c].op \in ExclusiveOp /\ Commit(c) => ExclusiveCommit(c)
<1>1. TxInv /\ [TxNext]_txVars => [Atomic]_txVars
  BY ExclusiveCommits
<1>2. QED
  BY <1>1, TransactionsFit, PTL DEF TxSpec, ExclusiveAtomic

\* A publish, restore, rebalance or task update leaves a task group there just as
\* long as it has a live task, over all its statements and whatever runs beside
\* it (deleteUnlinkedTasks, undeleteTasksSQL).
THEOREM ExclusiveKeepsFollow == TxSpec => ExclusiveKeepsGroups
<1> DEFINE KeepsGroups ==
      \A c \in Connection :
        txn[c].op \in ExclusiveOp /\ Commit(c) /\ GroupsFollowTasks => GroupsFollowTasks'
<1>1. TxInv /\ TaskInv /\ [TxNext]_txVars => [KeepsGroups]_txVars
  <2>1. SUFFICES ASSUME TxInv, TaskInv, [TxNext]_txVars, NEW c \in Connection,
                        txn[c].op \in ExclusiveOp, Commit(c), GroupsFollowTasks
                 PROVE  GroupsFollowTasks'
    OBVIOUS
  <2>2. Next /\ IInv
    BY <2>1, ExclusiveNext, CommitFacts
  <2>3. FollowInv
    BY <2>1, <2>2 DEF FollowInv, TaskInv
  <2>4. QED
    BY <2>1, <2>2, <2>3, StepFollows
<1>2. QED
  BY <1>1, TransactionsFit, TasksStay, PTL DEF TxSpec, ExclusiveKeepsGroups

\* Only a commit, or the end of the course, changes what is committed.
LEMMA OnlyCommitsChange ==
  ASSUME TxInv, [TxNext]_txVars
  PROVE  UNCHANGED vars \/ DeleteCourse \/ \E c \in Connection : Commit(c)
<1>1. CASE UNCHANGED txVars
  BY <1>1 DEF txVars
<1>2. ASSUME NEW c \in Connection,
             \/ \E u \in Teacher :
                  \/ \E op \in SharedOp \cup ExclusiveOp : LockCourse(c, u, op)
                  \/ \E b \in TaskBlock : GetTaskBlock(c, u, b)
             \/ LockCourseForUpdate(c)
             \/ Rollback(c)
      PROVE  UNCHANGED vars
  BY <1>2 DEF LockCourse, GetTaskBlock, LockCourseForUpdate, Rollback, Goes
<1>3. ASSUME NEW c \in Connection, Holds(c)
      PROVE  UNCHANGED vars
  BY <1>3, HoldsGoesOn DEF GoesOn, TxInv
<1>4. QED
  BY <1>1, <1>2, <1>3 DEF TxNext, Holds

\* A commit shows as one step of Course.
LEMMA CommitMaps ==
  ASSUME TxInv, NEW c \in Connection, Commit(c)
  PROVE  \/ UNCHANGED <<blocks, checkpoints, courseDeleted>>
         \/ DiscardFoundDrafts
         \/ AsUsersSeeIt!Next
<1>1. IInv /\ Recorded /\ ~courseDeleted /\ UNCHANGED courseDeleted
  BY CommitFacts
<1>2. CASE txn[c].op \in ExclusiveOp
  <2>1. Next
    BY <1>2, ExclusiveNext
  <2>2. MappedStep
    BY <1>1, <2>1, StepMaps
  <2>3. QED
    BY <2>2 DEF MappedStep, vars
<1>3. CASE txn[c].op \notin ExclusiveOp
  <2>1. SharedStep(txn[c])
    BY <1>3, SharedCommits
  <2>2. UNCHANGED checkpoints
    BY <2>1 DEF SharedStep, EditStep
  <2>3. CASE \E u \in Teacher, b \in Block : AsUsersSeeIt!Edit(u, b) \/ AsUsersSeeIt!Drop(u, b)
    BY <1>1, <2>3 DEF AsUsersSeeIt!Next
  <2>4. QED
    BY <1>1, <2>1, <2>2, <2>3 DEF SharedStep
<1>4. QED
  BY <1>2, <1>3

\* Transactions that run side by side, and roll back anywhere, show as the
\* course of Course: each commit is one step of it (lockCourse,
\* lockCourseForUpdate, lockBlockSQL).
THEOREM CommitsMap == TxSpec => CommitsImplementCourse
<1> DEFINE Maps ==
      \/ UNCHANGED <<blocks, checkpoints, courseDeleted>>
      \/ DiscardFoundDrafts
      \/ AsUsersSeeIt!Next
<1>1. TxInv /\ [TxNext]_txVars => [Maps]_vars
  <2> SUFFICES ASSUME TxInv, [TxNext]_txVars, ~ UNCHANGED vars
               PROVE  Maps
    OBVIOUS
  <2>1. ASSUME NEW c \in Connection, Commit(c)
        PROVE  Maps
    BY <2>1, CommitMaps
  <2>2. CASE DeleteCourse
    <3>1. Next
      BY <2>2 DEF DeleteCourse, Next
    <3>2. MappedStep
      BY <3>1, StepMaps DEF TxInv
    <3>3. QED
      BY <3>2 DEF MappedStep
  <2> HIDE DEF Maps
  <2>3. QED
    BY <2>1, <2>2, OnlyCommitsChange
<1>2. QED
  BY <1>1, TransactionsFit, PTL DEF TxSpec, CommitsImplementCourse

===============================================================================
