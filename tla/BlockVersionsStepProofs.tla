---------------------- MODULE BlockVersionsStepProofs ----------------------
(***************************************************************************)
(* What a step does (BlockVersions): to the head of a published block, to  *)
(* drafts, and to the task of a task block.                                *)
(*                                                                         *)
(* Heads.  Publishing a draft drops it or makes it the head (BecameHead),  *)
(* so a step that is no restore does nothing to a block's published        *)
(* versions, or publishes one draft of it (BlockStep).                     *)
(*                                                                         *)
(* Drafts.  A step works for one teacher: the versions it changes are new  *)
(* or drafts of that teacher, and what it publishes is that teacher's      *)
(* (ActsFor).                                                              *)
(*                                                                         *)
(* Tasks.  A block may be edited from a stale tab although its deletion    *)
(* was published and its task is gone, so a live draft does not mean a     *)
(* live task.  What does is a live head, or a block that was never         *)
(* published (Alive): nothing but creating the block, restoring it or      *)
(* updating its live task makes a stack alive again (Revives), and no task *)
(* of an alive stack is deleted (AliveLinks).  Used by                     *)
(* CourseTransactionsProofs.                                               *)
(***************************************************************************)
EXTENDS BlockVersionsProofs

-----------------------------------------------------------------------------
(* Publishing a draft                                                      *)

HeadRow(s) == s[HeadVersion(s)]

\* The draft d of r became the head of t: with its own data, over the base it was
\* started from or nothing, or merged with a newer head.
BecameHead(r, t, d, mine) ==
  /\ SoundStack(t) /\ Published(t) # {}
  /\ HeadRow(t).deleted = r[d].deleted
  /\ HeadRow(t).createdBy = r[d].createdBy
  /\ \/ Published(r) = {}
     \/ /\ r[d].base = HeadVersion(r) /\ ~HeadRow(r).deleted
        /\ HeadRow(t).data = r[d].data
     \/ /\ Outdated(r, d) /\ ~HeadRow(r).deleted
        /\ HeadRow(t).data = IF mine /\ ~r[d].deleted THEN r[d].data ELSE HeadRow(r).data

LEMMA HeadNow ==
  ASSUME NEW t, NEW n \in Version, IsHead(t, n)
  PROVE  HeadVersion(t) = n /\ Published(t) # {}
<1>1. HeadExists(t) /\ Published(t) # {}
  BY DEF HeadExists, IsHead
<1>2. HeadVersion(t) \in Version /\ IsHead(t, HeadVersion(t))
  BY <1>1, HeadIsHead
<1> QED
  BY <1>1, <1>2, HeadUnique

\* A published draft is dropped, or becomes the head.
LEMMA DraftPublished ==
  ASSUME NEW s, SoundStack(s), NEW d \in Present(s) \ Published(s),
         NEW mine \in BOOLEAN, PublishHasRoom(s, d)
  PROVE  \/ Quiet(s, PublishDraft(s, d, mine))
         \/ BecameHead(s, PublishDraft(s, d, mine), d, mine)
<1> DEFINE t == PublishDraft(s, d, mine)
           rest == Without(s, d)
           base == s[d].base
<1>1. /\ s \in Stack /\ d \in Version /\ s[d] \in VersionRow
      /\ SoundStack(t)
  BY RowType, PublishDraftSound DEF SoundStack, SoundStep
<1>2. Quiet(s, rest)
  BY WithoutSound DEF Quiet, SoundEdit, SoundStep, Keeps, SamePublished
<1>3. Anchored(s, d)
  BY DEF SoundStack
<1>4. NoBase \notin Published(s)
  BY VersionFacts DEF Published, Present
<1>5. CASE base = NoBase /\ s[d].deleted
  <2>1. t = rest
    BY <1>5 DEF PublishDraft, Outdated
  <2> QED
    BY <1>2, <2>1
<1>6. CASE Outdated(s, d) /\ HeadRow(s).deleted
  <2>1. t = rest
    BY <1>6 DEF PublishDraft, Outdated, HeadRow
  <2> QED
    BY <1>2, <2>1
<1>7. CASE Outdated(s, d) /\ ~HeadRow(s).deleted
  <2> DEFINE n   == NextVersion(rest)
             row == Merge(s[base], HeadRow(s), s[d], mine)
  <2>1. n \in Version /\ IsNext(rest, n)
    BY <1>7, NextIsNext DEF PublishHasRoom
  <2>2. base \in Published(s) /\ base # NoBase /\ HeadVersion(s) \in Published(s)
    BY <1>3, <1>7, HeadIsHead DEF Anchored, Outdated, SoundStack, IsHead
  <2>3. HeadRow(s) \in VersionRow /\ s[base] \in VersionRow /\ ~HeadRow(s).draft
    BY <1>1, <2>2, RowType DEF Published, HeadRow
  <2>4. /\ row \in VersionRow /\ row.draft = FALSE
        /\ row.deleted = s[d].deleted /\ row.createdBy = s[d].createdBy
        /\ row.data = IF mine /\ ~s[d].deleted THEN s[d].data ELSE HeadRow(s).data
    BY <1>1, <2>3 DEF Merge, VersionRow
  <2>5. t = [rest EXCEPT ![n] = row]
    BY <1>7, <2>2 DEF PublishDraft, HeadRow
  <2>6. /\ SoundStack(rest) /\ Published(rest) # {}
        /\ \A w \in Published(rest) : w < n
    BY <1>2, <2>1, <2>2 DEF Quiet, IsNext, Published
  <2>7. IsHead(t, n) /\ t[n] = row
    <3> HIDE DEF n, row, rest, t
    <3> QED
      BY <2>1, <2>4, <2>5, <2>6, PublishOnTop
  <2>8. HeadRow(t) = row /\ Published(t) # {}
    BY <2>1, <2>7, HeadNow DEF HeadRow
  <2> HIDE DEF row, t
  <2> QED
    BY <1>1, <1>7, <2>4, <2>8 DEF BecameHead, t
<1>8. CASE ~(base = NoBase /\ s[d].deleted) /\ ~Outdated(s, d)
  <2>1. t = InPlace(s, d)
    BY <1>8 DEF PublishDraft
  <2>2. IsHead(t, d) /\ t[d] = [s[d] EXCEPT !.draft = FALSE, !.base = NoBase]
    BY <1>1, <1>8, <2>1, InPlaceSound DEF InPlace, Stack
  <2>3. HeadRow(t) = t[d] /\ Published(t) # {}
    BY <1>1, <2>2, HeadNow DEF HeadRow
  <2>4. /\ HeadRow(t).deleted = s[d].deleted /\ HeadRow(t).createdBy = s[d].createdBy
        /\ HeadRow(t).data = s[d].data
    BY <1>1, <2>2, <2>3 DEF VersionRow
  <2>5. CASE base = NoBase
    <3>1. Published(s) = {}
      BY <1>3, <1>4, <2>5 DEF Anchored, Published
    <3> QED
      BY <1>1, <2>3, <2>4, <3>1 DEF BecameHead
  <2>6. CASE base # NoBase
    BY <1>1, <1>3, <1>8, <2>3, <2>4, <2>6 DEF BecameHead, Outdated, Anchored, HeadRow
  <2> QED
    BY <2>5, <2>6
<1> QED
  BY <1>5, <1>6, <1>7, <1>8 DEF HeadRow

\* The stack that a task update leaves, or publishes from.
TaskDraft(s, u, seen, d, x) == [Drafted(s, u, seen, d) EXCEPT ![d].data = x]

LEMMA DraftedData ==
  ASSUME IInv, NEW u \in Teacher, NEW b \in Block, NEW seen \in Version,
         NEW d \in Version, NEW x \in Data, CanDraft(blocks[b], u, seen, d),
         NEW r, r = TaskDraft(blocks[b], u, seen, d, x)
  PROVE  /\ SoundEdit(blocks[b], r)
         /\ d \in Present(r) \ Published(r)
         /\ r[d].data = x /\ ~r[d].deleted
         /\ d # seen => /\ seen \in Published(blocks[b])
                        /\ r[d].base = seen /\ r[d].createdBy = u
<1> DEFINE t   == Drafted(blocks[b], u, seen, d)
           row == [t[d] EXCEPT !.data = x]
<1>1. /\ t[d] \in VersionRow /\ t[d].draft = TRUE /\ t[d].deleted = FALSE
      /\ SoundStack(t) /\ d \in Present(t) \ Published(t)
  <2>1. t = Drafted(blocks[b], u, seen, d)
    OBVIOUS
  <2> HIDE DEF t
  <2> QED
    BY <2>1, DraftEdits, EditedDraft
<1>2. /\ row \in VersionRow /\ row.draft = TRUE /\ row.deleted = FALSE
      /\ row.createdBy = t[d].createdBy /\ row.base = t[d].base /\ row.data = x
  BY <1>1 DEF VersionRow
<1>3. r = [t EXCEPT ![d] = row]
  BY DEF TaskDraft
<1>4. SoundEdit(blocks[b], r)
  <2>1. SoundEdit(blocks[b], [t EXCEPT ![d] = row])
    BY <1>2, DraftEdits, RewriteStep
  <2> QED
    BY <1>3, <2>1
<1>5. r[d] = row /\ d \in Present(r) \ Published(r)
  <2>1. r[d] = row
    BY <1>1, <1>3 DEF SoundStack, Stack
  <2> QED
    BY <1>2, <2>1, ConstantsAssumption DEF Present, Published
<1>6. ASSUME d # seen
      PROVE  seen \in Published(blocks[b]) /\ t[d].base = seen /\ t[d].createdBy = u
  <2>1. seen \in Published(blocks[b])
    BY <1>6 DEF CanDraft
  <2>2. blocks[b] \in Stack /\ blocks[b][seen] \in VersionRow
    BY <2>1, RowType DEF IInv, StacksSound, SoundStack, Published
  <2>3. t[d] = [blocks[b][seen] EXCEPT !.draft = TRUE, !.createdBy = u, !.base = seen]
    BY <1>6, <2>2 DEF Drafted, Stack
  <2> QED
    BY <2>1, <2>2, <2>3 DEF VersionRow
<1> HIDE DEF t, row
<1> QED
  BY <1>2, <1>4, <1>5, <1>6

\* What a step that is no restore does to a block.
DraftPublishedStep(u, b, d) ==
  LET s    == blocks[b]
      mine == DataMine(s, d)
  IN  /\ d \in OwnDrafts(s, u)
      /\ ~Conflicting(s, d, mine) /\ PublishHasRoom(s, d)
      /\ blocks'[b] = PublishDraft(s, d, mine)

TaskPublishedStep(u, b, seen, d, x) ==
  LET r == TaskDraft(blocks[b], u, seen, d, x)
  IN  /\ d # seen /\ b \in TaskBlock /\ UpdateTask(u, b, seen, d, x)
      /\ blocks'[b] = PublishDraft(r, d, TRUE)

BlockStep(b) ==
  \/ Quiet(blocks[b], blocks'[b])
  \/ \E u \in Teacher, d \in Version : DraftPublishedStep(u, b, d)
  \/ \E u \in Teacher, seen, d \in Version, x \in Data :
       TaskPublishedStep(u, b, seen, d, x)

LEMMA StepOfBlock ==
  ASSUME IInv, [Next]_vars, ~IsRestore, NEW b \in Block
  PROVE  BlockStep(b)
<1>1. ASSUME EditStep \/ RenumberStep PROVE BlockStep(b)
  BY <1>1, QuietSteps DEF QuietStep, BlockStep
<1>2. StacksSound /\ SoundStack(blocks[b])
  BY DEF IInv, StacksSound
<1>3. ASSUME blocks'[b] = blocks[b] PROVE BlockStep(b)
  BY <1>2, <1>3 DEF BlockStep, Quiet, SamePublished
<1>4. ASSUME NEW u \in Teacher, PublishDrafts(u)
      PROVE  BlockStep(b)
  <2> DEFINE d == OwnDraft(blocks[b], u)
  <2>1. CASE b \in WithDraft(u)
    <3>1. d \in OwnDrafts(blocks[b], u) /\ d \in Version
      BY <2>1 DEF WithDraft, OwnDraft, OwnDrafts, Present
    <3>2. DraftPublishedStep(u, b, d)
      BY <1>4, <2>1, <3>1 DEF PublishDrafts, DraftPublishedStep
    <3> QED
      BY <3>1, <3>2 DEF BlockStep
  <2>2. CASE b \notin WithDraft(u)
    <3>1. blocks'[b] = blocks[b]
      BY <1>4, <2>2 DEF PublishDrafts
    <3> QED
      BY <1>3, <3>1
  <2> QED
    BY <2>1, <2>2
<1>5. ASSUME NEW u \in Teacher, NEW c \in TaskBlock, NEW seen \in Version,
             NEW d \in Version, NEW x \in Data, UpdateTask(u, c, seen, d, x)
      PROVE  BlockStep(b)
  <2> DEFINE r == TaskDraft(blocks[c], u, seen, d, x)
  <2>1. c \in Block /\ CanDraft(blocks[c], u, seen, d)
    BY <1>5, ConstantsAssumption DEF UpdateTask
  <2>2. CASE c # b
    <3>1. blocks'[b] = blocks[b]
      BY <1>2, <1>5, <2>2 DEF UpdateTask, StacksSound
    <3> QED
      BY <1>3, <3>1
  <2>3. CASE c = b /\ d = seen
    <3>1. SoundEdit(blocks[c], r)
      BY <1>5, <2>1, DraftedData
    <3>2. blocks'[b] = r
      BY <1>2, <1>5, <2>1, <2>3 DEF UpdateTask, StacksSound, TaskDraft
    <3> QED
      BY <2>3, <3>1, <3>2
      DEF BlockStep, Quiet, SoundEdit, SoundStep, Keeps, SamePublished
  <2>4. CASE c = b /\ d # seen
    <3>1. blocks'[b] = PublishDraft(r, d, TRUE)
      BY <1>2, <1>5, <2>1, <2>4 DEF UpdateTask, StacksSound, TaskDraft
    <3>2. TaskPublishedStep(u, b, seen, d, x)
      BY <1>5, <2>4, <3>1 DEF TaskPublishedStep
    <3> QED
      BY <3>2 DEF BlockStep
  <2> QED
    BY <2>2, <2>3, <2>4
<1>6. CASE UNCHANGED vars
  BY <1>3, <1>6 DEF vars
<1>7. ASSUME NEW u \in Teacher, NEW c \in Block, NEW x \in Data,
             NEW p \in Position, CreateBlock(u, c, x, p)
      PROVE  BlockStep(b)
  BY <1>1, <1>7, CreateIsNew, CreateBlockStep
<1>8. ASSUME NEW u \in Teacher, NEW c \in Block, NEW seen \in Version, NEW d \in Version,
             \/ \E x \in Data : PatchBlock(u, c, seen, d, x)
             \/ \E p \in Position : MoveBlock(u, c, seen, d, p)
             \/ DeleteBlockByID(u, c, seen, d)
      PROVE  BlockStep(b)
  BY <1>1, <1>8, PatchBlockStep, MoveBlockStep, DeleteBlockStep
<1>9. ASSUME NEW u \in Teacher, DiscardDrafts(u)
      PROVE  BlockStep(b)
  BY <1>1, <1>9, DiscardDraftsStep
<1>10. ASSUME NEW f \in [Position -> Position], RebalanceBlockPositions(f)
       PROVE  BlockStep(b)
  BY <1>1, <1>10, RebalanceStep
<1>11. CASE DeleteCourseByID
  BY <1>3, <1>11 DEF DeleteCourseByID
<1>12. ASSUME NEW u \in Teacher, NEW i \in 1..MaxCheckpoints,
              i <= Len(checkpoints), RestoreCheckpoint(u, i)
       PROVE  FALSE
  <2>1. i \in 1..Len(checkpoints)
    BY <1>12, ConstantsAssumption DEF IInv, TypeOK
  <2> QED
    BY <1>12, <2>1 DEF IsRestore
<1> QED
  BY <1>4, <1>5, <1>6, <1>7, <1>8, <1>9, <1>10, <1>11, <1>12 DEF Next

\* The draft that a task update publishes, over the block as it was.
LEMMA TaskPublished ==
  ASSUME IInv, NEW u \in Teacher, NEW b \in Block, NEW seen \in Version,
         NEW d \in Version, NEW x \in Data, TaskPublishedStep(u, b, seen, d, x),
         NEW r, r = TaskDraft(blocks[b], u, seen, d, x)
  PROVE  /\ Quiet(blocks[b], r) /\ HeadRow(r) = HeadRow(blocks[b])
         /\ SoundStack(r) /\ d \in Present(r) \ Published(r)
         /\ r[d].data = x /\ ~r[d].deleted /\ r[d].createdBy = u
         /\ r[d].base = seen /\ seen \in Published(blocks[b])
         /\ r[seen] = blocks[b][seen]
<1>1. CanDraft(blocks[b], u, seen, d) /\ d # seen
  BY DEF TaskPublishedStep, UpdateTask
<1>2. /\ SoundEdit(blocks[b], r)
      /\ d \in Present(r) \ Published(r)
      /\ r[d].data = x /\ ~r[d].deleted
      /\ seen \in Published(blocks[b])
      /\ r[d].base = seen /\ r[d].createdBy = u
  BY <1>1, DraftedData
<1>3. /\ SoundStack(r) /\ Quiet(blocks[b], r)
      /\ \A v \in Published(blocks[b]) : r[v] = blocks[b][v]
      /\ SoundStack(blocks[b])
  BY <1>2 DEF SoundEdit, SoundStep, Quiet, Keeps, SamePublished, IInv, StacksSound
<1>4. HeadRow(r) = HeadRow(blocks[b])
  <2>1. HeadVersion(r) = HeadVersion(blocks[b])
    BY <1>3, QuietKeepsHead DEF HeadVersion
  <2>2. HeadVersion(blocks[b]) \in Published(blocks[b])
    BY <1>2, <1>3, HeadIsHead DEF SoundStack, IsHead
  <2> QED
    BY <1>3, <2>1, <2>2 DEF HeadRow
<1> QED
  BY <1>2, <1>3, <1>4

\* Publishing a draft of r and what it leaves.
LEMMA PublishedHead ==
  ASSUME NEW r, SoundStack(r), NEW d \in Present(r) \ Published(r),
         NEW mine \in BOOLEAN, PublishHasRoom(r, d), ~Conflicting(r, d, mine),
         Published(r) # {}, NEW t, t = PublishDraft(r, d, mine)
  PROVE  /\ HasLiveHead(t) => HasLiveHead(r)
         /\ HasLiveHead(r) /\ ~HasLiveHead(t) =>
              /\ r[d].deleted /\ HeadRow(t).createdBy = r[d].createdBy
              /\ r[r[d].base].data = HeadRow(r).data
         /\ HasLiveHead(r) /\ HeadRow(t).data # HeadRow(r).data =>
              /\ r[d].base # NoBase /\ r[r[d].base].data = HeadRow(r).data
              /\ HeadRow(t).createdBy = r[d].createdBy /\ HeadRow(t).data = r[d].data
<1>1. CASE Quiet(r, t)
  <2>1. HasLiveHead(t) <=> HasLiveHead(r)
    BY <1>1, QuietKeepsHead
  <2>2. HeadRow(t).data = HeadRow(r).data
    <3>1. HeadVersion(t) = HeadVersion(r)
      BY <1>1, QuietKeepsHead DEF HeadVersion
    <3>2. HeadVersion(r) \in Published(r)
      BY HeadIsHead DEF SoundStack, IsHead
    <3> QED
      BY <1>1, <3>1, <3>2 DEF Quiet, SamePublished, HeadRow
  <2> QED
    BY <2>1, <2>2
<1>2. CASE BecameHead(r, t, d, mine)
  <2>1. r[d].base \in Published(r) /\ r[d].base # NoBase
    <3>1. Present(r) # {d}
      BY DEF Published
    <3> QED
      BY <3>1, VersionFacts DEF SoundStack, Anchored, Published, Present
  <2>2. HasLiveHead(r)
    BY <1>2 DEF BecameHead, HasLiveHead, HeadRow
  <2>3. ~HasLiveHead(t) => r[d].deleted
    BY <1>2 DEF BecameHead, HasLiveHead, HeadRow
  <2>4. CASE r[d].base = HeadVersion(r) /\ HeadRow(t).data = r[d].data
    BY <1>2, <2>1, <2>2, <2>3, <2>4 DEF BecameHead, HeadRow
  <2>5. CASE /\ Outdated(r, d) /\ ~HeadRow(r).deleted
             /\ HeadRow(t).data = IF mine /\ ~r[d].deleted THEN r[d].data ELSE HeadRow(r).data
    <3>1. r[d].deleted => HeadRow(r).data = r[r[d].base].data
      BY <2>5 DEF Conflicting, HeadRow
    <3>2. mine /\ ~r[d].deleted => HeadRow(r).data = r[r[d].base].data
      BY <2>5 DEF Conflicting, HeadRow
    <3> QED
      BY <1>2, <2>1, <2>2, <2>3, <2>5, <3>1, <3>2 DEF BecameHead
  <2> QED
    BY <1>2, <2>4, <2>5 DEF BecameHead
<1> QED
  BY <1>1, <1>2, DraftPublished

LEMMA QuietHeads ==
  ASSUME NEW s, SoundStack(s), NEW t, Quiet(s, t), Published(s) # {}
  PROVE  (HasLiveHead(t) <=> HasLiveHead(s)) /\ HeadRow(t).data = HeadRow(s).data
<1>1. (HasLiveHead(t) <=> HasLiveHead(s)) /\ HeadVersion(t) = HeadVersion(s)
  BY QuietKeepsHead DEF HeadVersion
<1>2. HeadVersion(s) \in Published(s)
  BY HeadIsHead DEF SoundStack, IsHead
<1> QED
  BY <1>1, <1>2 DEF Quiet, SamePublished, HeadRow

\* What a step that is no restore does to the head of a published block.
LEMMA HeadStep ==
  ASSUME IInv, NEW b \in Block, BlockStep(b), NEW s, s = blocks[b],
         NEW t, t = blocks'[b], Published(s) # {}
  PROVE  /\ HasLiveHead(t) => HasLiveHead(s)
         /\ HasLiveHead(s) /\ ~HasLiveHead(t) =>
              \E d \in OwnDrafts(s, HeadRow(t).createdBy) :
                s[d].deleted /\ s[s[d].base].data = HeadRow(s).data
         /\ HasLiveHead(s) /\ HeadRow(t).data # HeadRow(s).data =>
              \/ \E d \in OwnDrafts(s, HeadRow(t).createdBy) :
                   s[d].base # NoBase /\ s[s[d].base].data = HeadRow(s).data
              \/ \E seen, d \in Version :
                   /\ seen \in Published(s) /\ s[seen].data = HeadRow(s).data
                   /\ b \in TaskBlock
                   /\ UpdateTask(HeadRow(t).createdBy, b, seen, d, HeadRow(t).data)
<1>1. SoundStack(s)
  BY DEF IInv, StacksSound
<1>2. CASE Quiet(s, t)
  BY <1>1, <1>2, QuietHeads
<1>3. ASSUME NEW u \in Teacher, NEW d \in Version, DraftPublishedStep(u, b, d)
      PROVE  /\ HasLiveHead(t) => HasLiveHead(s)
             /\ HasLiveHead(s) /\ ~HasLiveHead(t) =>
                  /\ d \in OwnDrafts(s, HeadRow(t).createdBy) /\ s[d].deleted
                  /\ s[s[d].base].data = HeadRow(s).data
             /\ HasLiveHead(s) /\ HeadRow(t).data # HeadRow(s).data =>
                  /\ d \in OwnDrafts(s, HeadRow(t).createdBy)
                  /\ s[d].base # NoBase /\ s[s[d].base].data = HeadRow(s).data
  <2> DEFINE mine == DataMine(s, d)
  <2>1. /\ d \in OwnDrafts(s, u) /\ ~Conflicting(s, d, mine) /\ PublishHasRoom(s, d)
        /\ t = PublishDraft(s, d, mine)
    BY <1>3 DEF DraftPublishedStep
  <2>2. mine \in BOOLEAN
    BY DEF DataMine
  <2>3. d \in Present(s) \ Published(s) /\ d \in OwnDrafts(s, s[d].createdBy)
    BY <2>1 DEF OwnDrafts, Published
  <2> HIDE DEF mine
  <2> QED
    BY <1>1, <2>1, <2>2, <2>3, PublishedHead
<1>4. ASSUME NEW u \in Teacher, NEW seen \in Version, NEW d \in Version,
             NEW x \in Data, TaskPublishedStep(u, b, seen, d, x)
      PROVE  /\ HasLiveHead(t) => HasLiveHead(s)
             /\ HasLiveHead(s) => HasLiveHead(t)
             /\ HasLiveHead(s) /\ HeadRow(t).data # HeadRow(s).data =>
                  /\ seen \in Published(s) /\ s[seen].data = HeadRow(s).data
                  /\ b \in TaskBlock
                  /\ UpdateTask(HeadRow(t).createdBy, b, seen, d, HeadRow(t).data)
  <2>0. PICK r : r = TaskDraft(s, u, seen, d, x)
    OBVIOUS
  <2>1. /\ Quiet(s, r) /\ HeadRow(r) = HeadRow(s)
        /\ SoundStack(r) /\ d \in Present(r) \ Published(r)
        /\ r[d].data = x /\ ~r[d].deleted /\ r[d].createdBy = u
        /\ r[d].base = seen /\ seen \in Published(s)
        /\ r[seen] = s[seen]
    BY <1>4, <2>0, TaskPublished
  <2>2. (HasLiveHead(r) <=> HasLiveHead(s)) /\ Published(r) # {}
    BY <1>1, <2>1, QuietHeads DEF Quiet
  <2>3. b \in TaskBlock /\ UpdateTask(u, b, seen, d, x)
    BY <1>4 DEF TaskPublishedStep
  <2>4. /\ HasLiveHead(t) => HasLiveHead(r)
        /\ HasLiveHead(r) => HasLiveHead(t)
        /\ HasLiveHead(r) /\ HeadRow(t).data # HeadRow(r).data =>
             /\ r[seen].data = HeadRow(r).data
             /\ HeadRow(t).createdBy = u /\ HeadRow(t).data = x
    <3>1. PICK mine \in BOOLEAN : mine = TRUE
      OBVIOUS
    <3>2. /\ ~Conflicting(r, d, mine) /\ PublishHasRoom(r, d)
          /\ t = PublishDraft(r, d, mine)
      BY <1>4, <2>0, <3>1 DEF TaskPublishedStep, UpdateTask, TaskDraft
    <3> QED
      BY <2>1, <2>2, <3>2, PublishedHead
  <2> QED
    BY <2>1, <2>2, <2>3, <2>4
<1> QED
  BY <1>2, <1>3, <1>4 DEF BlockStep

\* A block whose deletion was published comes back only by a restore
\* (publishDraft drops a draft of a deleted block).
THEOREM DeletedStayDeleted == Spec => DeletedUntilRestored
<1> DEFINE Stays ==
      (\E b \in Block : /\ Published(blocks[b]) # {} /\ ~HasLiveHead(blocks[b])
                        /\ HasLiveHead(blocks'[b])) => IsRestore
<1>1. IInv /\ [Next]_vars => Stays
  BY StepOfBlock, HeadStep
<1>2. Spec => [][Stays]_vars
  BY <1>1, Invariance, PTL DEF Spec
<1> QED
  BY <1>2, PTL DEF DeletedUntilRestored

\* Nobody deletes what somebody else changed meanwhile (publishDraft, the
\* conflict of a deletion).
THEOREM DeletesKnowWhat == Spec => NoBlindDelete
<1> DEFINE Known ==
      \A b \in Block :
        LET s == blocks[b]
            t == blocks'[b]
        IN  HasLiveHead(s) /\ ~HasLiveHead(t) =>
              \/ \E d \in OwnDrafts(s, t[HeadVersion(t)].createdBy) :
                   /\ s[d].deleted
                   /\ s[s[d].base].data = s[HeadVersion(s)].data
              \/ IsRestore
<1>1. ASSUME IInv, [Next]_vars PROVE Known
  BY <1>1, StepOfBlock, HeadStep DEF HasLiveHead, HeadRow
<1>2. Spec => [][Known]_vars
  BY <1>1, Invariance, PTL DEF Spec
<1> QED
  BY <1>2, PTL DEF NoBlindDelete

\* Nobody overwrites data they have not seen (publishDraft, the conflict of two
\* edits).
THEOREM NoUpdateLost == Spec => NoLostUpdate
<1> DEFINE Kept ==
      \A b \in Block :
        LET s == blocks[b]
            t == blocks'[b]
            h == s[HeadVersion(s)].data
            k == t[HeadVersion(t)]
        IN  HasLiveHead(s) /\ HasLiveHead(t) /\ k.data # h =>
              \/ \E d \in OwnDrafts(s, k.createdBy) :
                   s[d].base # NoBase /\ s[s[d].base].data = h
              \/ \E seen, d \in Version :
                   /\ seen \in Published(s) /\ s[seen].data = h
                   /\ b \in TaskBlock /\ UpdateTask(k.createdBy, b, seen, d, k.data)
              \/ IsRestore
<1>1. ASSUME IInv, [Next]_vars PROVE Kept
  BY <1>1, StepOfBlock, HeadStep DEF HasLiveHead, HeadRow
<1>2. Spec => [][Kept]_vars
  BY <1>1, Invariance, PTL DEF Spec
<1> QED
  BY <1>2, PTL DEF NoLostUpdate

-----------------------------------------------------------------------------
(* Restoring and rebalancing                                               *)

\* What Republish publishes is the head.
LEMMA RepublishHead ==
  ASSUME NEW s, SoundStack(s), HasRoom(s), NEW v \in Published(s),
         NEW u \in Teacher, NEW deleted \in BOOLEAN,
         NEW t, t = Republish(s, v, u, deleted)
  PROVE  /\ Published(t) # {}
         /\ HeadRow(t).deleted = deleted
         /\ HeadRow(t).data = s[v].data /\ HeadRow(t).position = s[v].position
         /\ HeadVersion(t) \in Version \ Present(s) /\ IsHead(t, HeadVersion(t))
         /\ \A w \in Version : w # HeadVersion(t) => t[w] = s[w]
<1>1. PICK n : n = NextVersion(s)
  OBVIOUS
<1>2. /\ n \in Version /\ Published(s) # {}
      /\ \A w \in Published(s) : w < n
  BY <1>1, NextIsNext DEF IsNext, Published
<1>3. s[v] \in VersionRow
  BY RowType DEF SoundStack, Published
<1>4. PICK row : row = [s[v] EXCEPT !.draft = FALSE, !.deleted = deleted,
                                    !.createdBy = u, !.base = NoBase]
  OBVIOUS
<1>5. row \in VersionRow /\ row.draft = FALSE
  BY <1>3, <1>4 DEF VersionRow
<1>6. IsHead(t, n) /\ t[n] = row
  <2>1. t = [s EXCEPT ![n] = row]
    BY <1>1, <1>4 DEF Republish
  <2> QED
    BY <1>2, <1>5, <2>1, PublishOnTop
<1>7. row.deleted = deleted /\ row.data = s[v].data /\ row.position = s[v].position
  BY <1>3, <1>4 DEF VersionRow
<1>8. HeadVersion(t) = n /\ Published(t) # {}
  BY <1>2, <1>6, HeadNow
<1>9. n \notin Present(s) /\ \A w \in Version : w # n => t[w] = s[w]
  <2>1. IsNext(s, n)
    BY <1>1, NextIsNext
  <2>2. t = [s EXCEPT ![n] = row] /\ s \in Stack
    BY <1>1, <1>4 DEF Republish, SoundStack
  <2> QED
    BY <1>2, <2>1, <2>2, VersionFacts DEF IsNext, Stack
<1> QED
  BY <1>2, <1>6, <1>7, <1>8, <1>9 DEF HeadRow

\* Restored blocks are republished as the checkpoint has them, removed ones as
\* deleted, and the others are already as the checkpoint has them.
LEMMA RestoredBlock ==
  ASSUME IInv, NEW u \in Teacher, NEW i \in 1..Len(checkpoints),
         RestoreCheckpoint(u, i), NEW b \in Block, NEW s, s = blocks[b],
         NEW t, t = blocks'[b], NEW v, v = checkpoints[i][b]
  PROVE  /\ HasLiveHead(t) <=> v # 0
         /\ v # 0 => HeadRow(t).data = s[v].data /\ HeadRow(t).position = s[v].position
<1>1. SoundStack(s) /\ (v # 0 => v \in Published(s) /\ ~s[v].deleted)
  BY DEF IInv, StacksSound, CheckpointsRestorable
<1>2. /\ Restored(s, v) => HasRoom(s) /\ t = Republish(s, v, u, FALSE)
      /\ Removed(s, v) => HasRoom(s) /\ t = Republish(s, HeadVersion(s), u, TRUE)
      /\ ~Restored(s, v) /\ ~Removed(s, v) => t = s
  BY DEF RestoreCheckpoint, Restored, Removed
<1>4. CASE Restored(s, v)
  <2>1. PICK deleted \in BOOLEAN : deleted = FALSE
    OBVIOUS
  <2>2. v \in Published(s) /\ HasRoom(s) /\ t = Republish(s, v, u, deleted)
    BY <1>1, <1>2, <1>4, <2>1 DEF Restored
  <2>3. /\ Published(t) # {} /\ ~HeadRow(t).deleted
        /\ HeadRow(t).data = s[v].data /\ HeadRow(t).position = s[v].position
    BY <1>1, <2>1, <2>2, RepublishHead
  <2> QED
    BY <1>4, <2>3 DEF HasLiveHead, HeadRow, Restored
<1>5. CASE Removed(s, v)
  <2>1. HeadVersion(s) \in Published(s)
    BY <1>1, <1>5, LiveHeadFacts DEF Removed
  <2>2. PICK deleted \in BOOLEAN : deleted = TRUE
    OBVIOUS
  <2>3. HasRoom(s) /\ t = Republish(s, HeadVersion(s), u, deleted)
    BY <1>2, <1>5, <2>2
  <2>4. HeadRow(t).deleted = deleted
    BY <1>1, <2>1, <2>3, RepublishHead
  <2> QED
    BY <1>5, <2>2, <2>4 DEF HasLiveHead, HeadRow, Removed
<1>6. CASE ~Restored(s, v) /\ ~Removed(s, v)
  BY <1>2, <1>6 DEF Restored, Removed, HeadRow
<1> QED
  BY <1>4, <1>5, <1>6

\* After a restore the published course is the checkpoint's (RestoreCheckpoint).
THEOREM RestoresAll == Spec => RestoreYieldsCheckpoint
<1> DEFINE Yields ==
      \A i \in 1..Len(checkpoints) :
        /\ checkpoints' # checkpoints
        /\ \E u \in Teacher : RestoreCheckpoint(u, i)
        => \A b \in Block :
             LET v == checkpoints[i][b]
                 t == blocks'[b]
             IN  /\ HasLiveHead(t) <=> v # 0
                 /\ v # 0 =>
                      /\ t[HeadVersion(t)].data = blocks[b][v].data
                      /\ t[HeadVersion(t)].position = blocks[b][v].position
<1>1. ASSUME IInv PROVE Yields
  BY <1>1, RestoredBlock DEF HeadRow
<1>2. Spec => [][Yields]_vars
  BY <1>1, Invariance, PTL DEF Spec
<1> QED
  BY <1>2, PTL DEF RestoreYieldsCheckpoint

\* Equal positions stay equal, and others apart.
LEMMA SamePosition ==
  ASSUME IInv, NEW f \in [Position -> Position], RebalanceBlockPositions(f),
         NEW b \in Block, NEW v \in Present(blocks[b]), NEW w \in Present(blocks[b])
  PROVE  blocks'[b][v].position = blocks'[b][w].position <=>
         blocks[b][v].position = blocks[b][w].position
<1>1. /\ blocks[b][v].position < blocks[b][w].position <=>
         blocks'[b][v].position < blocks'[b][w].position
      /\ blocks[b][w].position < blocks[b][v].position <=>
         blocks'[b][w].position < blocks'[b][v].position
  BY OrderKept
<1>2. \A x \in Present(blocks[b]) :
        /\ blocks[b][x].position \in Position
        /\ blocks'[b][x].position = f[blocks[b][x].position]
  <2> TAKE x \in Present(blocks[b])
  <2>1. x \in Version /\ blocks[b][x] \in VersionRow /\ blocks[b][x] # Absent
    BY RowType DEF IInv, StacksSound, SoundStack, Present
  <2>2. blocks'[b][x] = [blocks[b][x] EXCEPT !.position = f[blocks[b][x].position]]
    BY <2>1 DEF RebalanceBlockPositions, Remap
  <2> QED
    BY <2>1, <2>2 DEF VersionRow
<1>3. PICK p \in Position, q \in Position :
        p = blocks[b][v].position /\ q = blocks[b][w].position
  BY <1>2
<1>4. p \in Nat /\ q \in Nat /\ f[p] \in Nat /\ f[q] \in Nat
  BY <1>3 DEF Position
<1>5. (p < q <=> f[p] < f[q]) /\ (q < p <=> f[q] < f[p])
  BY <1>1, <1>2, <1>3
<1>6. f[p] = f[q] <=> p = q
  BY <1>4, <1>5
<1> QED
  BY <1>2, <1>3, <1>6

\* A rebalance makes no draft a conflict and resolves none
\* (RebalanceBlockPositions keeps which positions are equal).
THEOREM RebalanceDecidesNothing == Spec => RebalanceKeepsConflicts
<1> DEFINE Same ==
      Renumbered =>
        \A b \in Block : \A d \in Present(blocks[b]) : blocks[b][d].draft =>
          \A mine \in BOOLEAN : Conflicting(blocks'[b], d, mine) <=>
                                Conflicting(blocks[b], d, mine)
<1>1. ASSUME IInv PROVE Same
  <2> SUFFICES ASSUME NEW f \in [Position -> Position], RebalanceBlockPositions(f),
                      NEW b \in Block, NEW d \in Present(blocks[b]), blocks[b][d].draft,
                      NEW mine \in BOOLEAN
               PROVE  Conflicting(blocks'[b], d, mine) <=> Conflicting(blocks[b], d, mine)
    BY DEF Renumbered
  <2>0. PICK s : s = blocks[b]
    OBVIOUS
  <2>1. PICK t : t = blocks'[b]
    OBVIOUS
  <2>2. SoundStack(s) /\ Quiet(s, t) /\ t = Remap(s, f)
    BY <1>1, <2>0, <2>1, RemapSound
       DEF IInv, StacksSound, RebalanceBlockPositions
  <2>3. \A v \in Present(s) : /\ t[v].data = s[v].data /\ t[v].deleted = s[v].deleted
                              /\ t[v].base = s[v].base
    <3> TAKE v \in Present(s)
    <3>1. s[v] \in VersionRow /\ t[v] = [s[v] EXCEPT !.position = f[s[v].position]]
      BY <2>2, RowType DEF Remap, SoundStack, Present
    <3> QED
      BY <3>1 DEF VersionRow
  <2>4. HeadVersion(t) = HeadVersion(s)
    BY <2>2, QuietKeepsHead DEF HeadVersion
  <2>5. CASE ~Outdated(s, d)
    BY <2>0, <2>1, <2>3, <2>4, <2>5 DEF Conflicting, Outdated
  <2>6. CASE Outdated(s, d)
    <3>1. d \in Present(s) \ Published(s)
      BY <2>0 DEF Published
    <3>2. s[d].base \in Published(s)
      BY <2>2, <2>6, <3>1 DEF SoundStack, Anchored, Outdated
    <3>3. HeadVersion(s) \in Published(s)
      BY <2>2, <3>2, HeadIsHead DEF SoundStack, IsHead
    <3>4. PICK v \in Present(s), w \in Present(s) : v = s[d].base /\ w = HeadVersion(s)
      BY <3>2, <3>3 DEF Published
    <3>5. /\ t[d].position = t[v].position <=> s[d].position = s[v].position
          /\ t[w].position = t[v].position <=> s[w].position = s[v].position
      BY <1>1, <2>0, <2>1, <3>1, SamePosition
    <3> QED
      BY <2>0, <2>1, <2>3, <2>4, <3>1, <3>4, <3>5 DEF Conflicting, Outdated
  <2> QED
    BY <2>5, <2>6
<1>2. Spec => [][Same]_vars
  BY <1>1, Invariance, PTL DEF Spec
<1> QED
  BY <1>2, PTL DEF RebalanceKeepsConflicts

-----------------------------------------------------------------------------
(* Whose versions a step changes                                           *)

\* From s to t, only versions change that are new or a's draft, and they are a's
\* then.
Touches(s, t, a) ==
  \A v \in Version :
    \/ t[v] = s[v]
    \/ /\ v \in Present(s) => s[v].draft /\ s[v].createdBy = a
       /\ v \in Present(t) => t[v].createdBy = a

\* A draft of s does not become a published version of t.
DraftsStay(s, t) == \A v \in Present(s) \ Published(s) : v \notin Published(t)

LEMMA TouchesTwice ==
  ASSUME NEW s, NEW r, NEW t, NEW a, Touches(s, r, a), Touches(r, t, a)
  PROVE  Touches(s, t, a)
BY DEF Touches, Present, Published

\* Each version that publishing a draft changes: the draft goes, or it or a
\* new one is published for its author.
LEMMA PublishDraftChanges ==
  ASSUME NEW s, SoundStack(s), NEW d \in Present(s) \ Published(s),
         NEW mine \in BOOLEAN, PublishHasRoom(s, d),
         NEW t, t = PublishDraft(s, d, mine), NEW v \in Version
  PROVE  \/ v # d /\ t[v] = s[v]
         \/ v = d /\ v \notin Present(t)
         \/ /\ v = d \/ v \notin Present(s)
            /\ v \in Published(t) /\ t[v].createdBy = s[d].createdBy
<1>1. s \in Stack /\ d \in Version /\ s[d] \in VersionRow
  BY RowType DEF SoundStack
<1>2. PICK rest : rest = Without(s, d)
  OBVIOUS
<1>3. /\ rest[d] = Absent /\ \A w \in Version : w # d => rest[w] = s[w]
      /\ rest \in Stack
  BY <1>1, <1>2 DEF Without, Stack
<1>4. CASE t = rest
  BY <1>3, <1>4 DEF Present
<1>5. CASE Outdated(s, d) /\ ~HeadRow(s).deleted
  <2>1. PICK n : n = NextVersion(rest)
    OBVIOUS
  <2>2. n \in Version /\ IsNext(rest, n)
    BY <1>2, <1>5, <2>1, NextIsNext DEF PublishHasRoom
  <2>3. s[d].base \in Published(s) /\ HeadVersion(s) \in Published(s)
    BY HeadIsHead, <1>5 DEF Anchored, Outdated, SoundStack, IsHead
  <2>4. HeadRow(s) \in VersionRow /\ ~HeadRow(s).draft
    BY <1>1, <2>3, RowType DEF Published, HeadRow
  <2>5. PICK row : row = Merge(s[s[d].base], HeadRow(s), s[d], mine)
    OBVIOUS
  <2>6. row \in VersionRow /\ ~row.draft /\ row.createdBy = s[d].createdBy
    <3>1. s[s[d].base] \in VersionRow
      BY <1>1, <2>3, RowType DEF Published
    <3> QED
      BY <1>1, <2>4, <2>5, <3>1 DEF Merge, VersionRow
  <2>7. t = [rest EXCEPT ![n] = row]
    BY <1>2, <1>5, <2>1, <2>3, <2>5, VersionFacts
    DEF PublishDraft, HeadRow, Outdated
  <2>8. t[n] = row /\ \A w \in Version : w # n => t[w] = rest[w]
    BY <1>3, <2>2, <2>7 DEF Stack
  <2>9. n \notin Present(rest)
    BY <2>2, VersionFacts DEF IsNext
  <2>10. CASE v = n
    <3>1. v \in Published(t) /\ t[v].createdBy = s[d].createdBy
      BY <2>2, <2>6, <2>8, <2>10, ConstantsAssumption DEF Published, Present
    <3>2. v = d \/ v \notin Present(s)
      BY <1>3, <2>9, <2>10 DEF Present
    <3> QED
      BY <3>1, <3>2
  <2>11. CASE v # n
    BY <1>3, <2>8, <2>11 DEF Present
  <2> QED
    BY <2>10, <2>11
<1>6. CASE t = InPlace(s, d)
  <2>1. /\ t[d] = [s[d] EXCEPT !.draft = FALSE, !.base = NoBase]
        /\ \A w \in Version : w # d => t[w] = s[w]
    BY <1>1, <1>6 DEF InPlace, Stack
  <2>2. t[d] \in VersionRow /\ ~t[d].draft /\ t[d].createdBy = s[d].createdBy
    BY <1>1, <2>1 DEF VersionRow
  <2>3. d \in Published(t)
    BY <1>1, <2>2, ConstantsAssumption DEF Published, Present
  <2> QED
    BY <2>1, <2>2, <2>3
<1> QED
  BY <1>2, <1>4, <1>5, <1>6 DEF PublishDraft, HeadRow

LEMMA PublishDraftTouches ==
  ASSUME NEW s, SoundStack(s), NEW d \in Present(s) \ Published(s),
         NEW mine \in BOOLEAN, PublishHasRoom(s, d),
         NEW t, t = PublishDraft(s, d, mine)
  PROVE  Touches(s, t, s[d].createdBy)
<1>1. s[d].draft
  BY DEF Published
<1> QED
  BY <1>1, PublishDraftChanges DEF Touches, Published

\* A new version above a stack.
LEMMA NewVersionTouches ==
  ASSUME NEW s \in Stack, NEW n \in Version, n \notin Present(s), NEW row,
         NEW a, row.createdBy = a, NEW t, t = [s EXCEPT ![n] = row]
  PROVE  Touches(s, t, a) /\ DraftsStay(s, t)
BY DEF Touches, DraftsStay, Stack, Present, Published

\* Drafting and rewriting the draft.
LEMMA DraftTouches ==
  ASSUME IInv, NEW u \in Teacher, NEW b \in Block, NEW seen \in Version,
         NEW d \in Version, CanEdit(blocks[b], u, seen, d), NEW row,
         row = Absent \/ (row.draft /\ row.createdBy = u),
         NEW t, t = [Drafted(blocks[b], u, seen, d) EXCEPT ![d] = row]
  PROVE  Touches(blocks[b], t, u) /\ DraftsStay(blocks[b], t)
<1>1. PICK s : s = blocks[b]
  OBVIOUS
<1>2. s \in Stack
  BY <1>1 DEF IInv, StacksSound, SoundStack
<1>3. t[d] = row /\ \A v \in Version : v # d => t[v] = s[v]
  BY <1>1, <1>2 DEF Drafted, Stack
<1>4. d \in Present(s) => s[d].draft /\ s[d].createdBy = u
  BY <1>1, VersionFacts DEF CanEdit, OwnDrafts, Present
<1>5. d \notin Published(t)
  BY <1>3 DEF Published, Present
<1> QED
  BY <1>1, <1>3, <1>4, <1>5 DEF Touches, DraftsStay, Published, Present

\* A step works for a: whatever it changes is a's, and only PublishDrafts makes
\* a draft a published version.
ActsFor(a) ==
  \A b \in Block :
    /\ Touches(blocks[b], blocks'[b], a)
    /\ PublishDrafts(a) \/ DraftsStay(blocks[b], blocks'[b])

LEMMA SameActs ==
  ASSUME NEW s, NEW a
  PROVE  Touches(s, s, a) /\ DraftsStay(s, s)
BY DEF Touches, DraftsStay

LEMMA OneBlockActs ==
  ASSUME IInv, NEW a, NEW b \in Block, NEW t, Touches(blocks[b], t, a),
         DraftsStay(blocks[b], t), blocks' = [blocks EXCEPT ![b] = t]
  PROVE  ActsFor(a)
<1>1. blocks \in [Block -> Stack]
  BY DEF IInv, TypeOK
<1>2. blocks'[b] = t /\ \A c \in Block : c # b => blocks'[c] = blocks[c]
  BY <1>1
<1> QED
  BY <1>2, SameActs DEF ActsFor

LEMMA CreateBlockActs ==
  ASSUME IInv, NEW u \in Teacher, NEW b \in Block, NEW x \in Data,
         NEW p \in Position, NewBlock(u, b, x, p)
  PROVE  ActsFor(u)
<1> DEFINE row == [data |-> x, position |-> p, draft |-> TRUE, deleted |-> FALSE,
                   createdBy |-> u, base |-> NoBase]
<1>1. blocks[b] \in Stack /\ blocks[b] = EmptyStack
      /\ blocks' = [blocks EXCEPT ![b] = [blocks[b] EXCEPT ![1] = row]]
  BY DEF IInv, StacksSound, SoundStack, NewBlock
<1>2. 1 \in Version /\ 1 \notin Present(blocks[b]) /\ row.createdBy = u
  BY <1>1, VersionFacts DEF Present, EmptyStack
<1> HIDE DEF row
<1>3. PICK t : t = [blocks[b] EXCEPT ![1] = row]
  OBVIOUS
<1>4. Touches(blocks[b], t, u) /\ DraftsStay(blocks[b], t)
  BY <1>1, <1>2, <1>3, NewVersionTouches
<1> QED
  BY <1>1, <1>3, <1>4, OneBlockActs

LEMMA DraftedBy ==
  ASSUME IInv, NEW u \in Teacher, NEW b \in Block, NEW seen \in Version,
         NEW d \in Version, CanEdit(blocks[b], u, seen, d),
         NEW r, r = Drafted(blocks[b], u, seen, d)
  PROVE  r[d].createdBy = u
<1>1. d \in OwnDrafts(Drafted(blocks[b], u, seen, d), u)
  BY DraftedSound DEF IInv, StacksSound
<1> QED
  BY <1>1 DEF OwnDrafts

\* The edits: what they leave of the draft they work on.
LEMMA EditActs ==
  ASSUME IInv, NEW u \in Teacher, NEW b \in Block, NEW seen \in Version,
         NEW d \in Version, NEW x \in Data, NEW p \in Position,
         PatchBlock(u, b, seen, d, x) \/ MoveBlock(u, b, seen, d, p)
           \/ DeleteBlockByID(u, b, seen, d)
  PROVE  ActsFor(u)
<1>1. CanEdit(blocks[b], u, seen, d)
  BY DraftEdits DEF PatchBlock, MoveBlock, DeleteBlockByID
<1>2. PICK r : r = Drafted(blocks[b], u, seen, d)
  OBVIOUS
<1>3. r[d] \in VersionRow /\ r[d].draft = TRUE /\ r[d].createdBy = u
  <2>1. r[d] \in VersionRow /\ r[d].draft = TRUE
    BY <1>1, <1>2, EditedDraft
  <2>2. r[d].createdBy = u
    BY <1>1, <1>2, DraftedBy
  <2> QED
    BY <2>1, <2>2
<1>4. \E row : /\ row = Absent \/ (row.draft /\ row.createdBy = u)
               /\ blocks' = [blocks EXCEPT ![b] = [r EXCEPT ![d] = row]]
  <2>1. CASE PatchBlock(u, b, seen, d, x)
    <3> DEFINE row == [r[d] EXCEPT !.data = x]
    <3>1. row.draft /\ row.createdBy = u
      BY <1>3 DEF VersionRow
    <3>2. blocks' = [blocks EXCEPT ![b] = [r EXCEPT ![d] = row]]
      BY <1>2, <2>1 DEF PatchBlock
    <3> QED
      BY <3>1, <3>2
  <2>2. CASE MoveBlock(u, b, seen, d, p)
    <3> DEFINE row == [r[d] EXCEPT !.position = p]
    <3>1. row.draft /\ row.createdBy = u
      BY <1>3 DEF VersionRow
    <3>2. blocks' = [blocks EXCEPT ![b] = [r EXCEPT ![d] = row]]
      BY <1>2, <2>2 DEF MoveBlock
    <3> QED
      BY <3>1, <3>2
  <2>3. CASE DeleteBlockByID(u, b, seen, d) /\ r[d].base = NoBase
    <3>1. blocks' = [blocks EXCEPT ![b] = [r EXCEPT ![d] = Absent]]
      BY <1>2, <2>3 DEF DeleteBlockByID, Without
    <3> QED
      BY <3>1
  <2>4. CASE DeleteBlockByID(u, b, seen, d) /\ r[d].base # NoBase
    <3> DEFINE row == [r[d] EXCEPT !.deleted = TRUE]
    <3>1. row.draft /\ row.createdBy = u
      BY <1>3 DEF VersionRow
    <3>2. blocks' = [blocks EXCEPT ![b] = [r EXCEPT ![d] = row]]
      BY <1>2, <2>4 DEF DeleteBlockByID
    <3> QED
      BY <3>1, <3>2
  <2> QED
    BY <2>1, <2>2, <2>3, <2>4
<1>5. PICK row : /\ row = Absent \/ (row.draft /\ row.createdBy = u)
                 /\ blocks' = [blocks EXCEPT ![b] = [r EXCEPT ![d] = row]]
  BY <1>4
<1>6. PICK t : t = [r EXCEPT ![d] = row]
  OBVIOUS
<1>7. Touches(blocks[b], t, u) /\ DraftsStay(blocks[b], t)
  BY <1>1, <1>2, <1>5, <1>6, DraftTouches
<1> QED
  BY <1>5, <1>6, <1>7, OneBlockActs

LEMMA UpdateTaskActs ==
  ASSUME IInv, NEW u \in Teacher, NEW b \in TaskBlock, NEW seen \in Version,
         NEW d \in Version, NEW x \in Data, UpdateTask(u, b, seen, d, x)
  PROVE  ActsFor(u)
<1>0. b \in Block /\ CanDraft(blocks[b], u, seen, d)
  BY ConstantsAssumption DEF UpdateTask
<1>1. PICK s : s = blocks[b]
  OBVIOUS
<1>2. PICK r : r = TaskDraft(s, u, seen, d, x)
  OBVIOUS
<1>3. PICK q : q = Drafted(s, u, seen, d)
  OBVIOUS
<1>4. q[d] \in VersionRow /\ q[d].draft = TRUE /\ q[d].createdBy = u
  <2>1. q[d] \in VersionRow /\ q[d].draft = TRUE
    BY <1>0, <1>1, <1>3, DraftEdits, EditedDraft
  <2>2. q[d].createdBy = u
    BY <1>0, <1>1, <1>3, DraftEdits, DraftedBy
  <2> QED
    BY <2>1, <2>2
<1>5. PICK row : row = [q[d] EXCEPT !.data = x]
  OBVIOUS
<1>6. row.draft /\ row.createdBy = u /\ r = [q EXCEPT ![d] = row]
  BY <1>2, <1>3, <1>4, <1>5 DEF VersionRow, TaskDraft
<1>7. Touches(s, r, u) /\ DraftsStay(s, r)
  BY <1>0, <1>1, <1>3, <1>6, DraftEdits, DraftTouches
<1>8. CASE d = seen
  <2>1. blocks' = [blocks EXCEPT ![b] = r]
    BY <1>1, <1>2, <1>8 DEF UpdateTask, TaskDraft
  <2> QED
    BY <1>0, <1>1, <1>7, <2>1, OneBlockActs
<1>9. CASE d # seen
  <2>1. PICK mine \in BOOLEAN : mine = TRUE
    OBVIOUS
  <2>2. PICK t : t = PublishDraft(r, d, mine)
    OBVIOUS
  <2>3. PublishHasRoom(r, d) /\ blocks' = [blocks EXCEPT ![b] = t]
    BY <1>1, <1>2, <1>9, <2>1, <2>2 DEF UpdateTask, TaskDraft
  <2>4. /\ SoundStack(r) /\ d \in Present(r) \ Published(r)
        /\ r[d].createdBy = u
    <3>1. SoundEdit(s, r) /\ d \in Present(r) \ Published(r) /\ r[d].createdBy = u
      BY <1>0, <1>1, <1>2, <1>9, DraftedData
    <3> QED
      BY <3>1 DEF SoundEdit, SoundStep
  <2>5. Touches(s, t, u)
    BY <1>7, <2>2, <2>3, <2>4, PublishDraftTouches, TouchesTwice
  <2>6. DraftsStay(s, t)
    <3>1. d \notin Present(s)
      BY <1>0, <1>1, <1>9, VersionFacts DEF CanDraft, IsNext
    <3>2. s \in Stack
      BY <1>0, <1>1 DEF IInv, StacksSound, SoundStack
    <3>3. \A v \in Version : v # d => r[v] = s[v]
      BY <1>3, <1>6, <3>2 DEF Drafted, Stack
    <3>4. \A v \in Version : v \in Present(s) => t[v] = s[v]
      BY <2>2, <2>3, <2>4, <3>1, <3>3, PublishDraftChanges DEF Present
    <3> QED
      BY <3>4 DEF DraftsStay, Published, Present
  <2> QED
    BY <1>0, <1>1, <2>3, <2>5, <2>6, OneBlockActs
<1> QED
  BY <1>8, <1>9

LEMMA PublishDraftsActs ==
  ASSUME IInv, NEW u \in Teacher, PublishDrafts(u)
  PROVE  ActsFor(u)
<1> SUFFICES ASSUME NEW b \in Block
             PROVE  Touches(blocks[b], blocks'[b], u)
  BY DEF ActsFor
<1>1. CASE b \notin WithDraft(u)
  BY <1>1, SameActs DEF PublishDrafts
<1>2. CASE b \in WithDraft(u)
  <2>1. PICK s : s = blocks[b]
    OBVIOUS
  <2>2. PICK d : d = OwnDraft(s, u)
    OBVIOUS
  <2>3. d \in Present(s) \ Published(s) /\ s[d].createdBy = u
    BY <1>2, <2>1, <2>2 DEF WithDraft, OwnDraft, OwnDrafts, Published
  <2>4. PICK mine \in BOOLEAN : mine = DataMine(s, d)
    BY DEF DataMine
  <2>5. PublishHasRoom(s, d) /\ blocks'[b] = PublishDraft(s, d, mine)
    BY <1>2, <2>1, <2>2, <2>4 DEF PublishDrafts
  <2>6. SoundStack(s)
    BY <2>1 DEF IInv, StacksSound
  <2> QED
    BY <2>1, <2>3, <2>5, <2>6, PublishDraftTouches
<1> QED
  BY <1>1, <1>2

LEMMA DiscardDraftsActs ==
  ASSUME NEW u \in Teacher, DiscardDrafts(u)
  PROVE  ActsFor(u)
BY DEF DiscardDrafts, ActsFor, Touches, DraftsStay, OwnDrafts, Present, Published

LEMMA RepublishTouches ==
  ASSUME NEW s, SoundStack(s), HasRoom(s), NEW v \in Published(s),
         NEW u \in Teacher, NEW deleted \in BOOLEAN,
         NEW t, t = Republish(s, v, u, deleted)
  PROVE  Touches(s, t, u) /\ DraftsStay(s, t)
<1>1. PICK n : n = NextVersion(s)
  OBVIOUS
<1>2. n \in Version /\ n \notin Present(s) /\ s \in Stack
  <2>1. n \in Version /\ IsNext(s, n)
    BY <1>1, NextIsNext
  <2> QED
    BY <2>1, VersionFacts DEF IsNext, SoundStack
<1>3. s[v] \in VersionRow
  BY RowType DEF SoundStack, Published
<1>4. PICK row : row = [s[v] EXCEPT !.draft = FALSE, !.deleted = deleted,
                                    !.createdBy = u, !.base = NoBase]
  OBVIOUS
<1>5. row.createdBy = u
  BY <1>3, <1>4 DEF VersionRow
<1>6. t = [s EXCEPT ![n] = row]
  BY <1>1, <1>4 DEF Republish
<1> QED
  BY <1>2, <1>5, <1>6, NewVersionTouches

LEMMA RestoreActs ==
  ASSUME IInv, NEW u \in Teacher, NEW i \in 1..Len(checkpoints),
         RestoreCheckpoint(u, i)
  PROVE  ActsFor(u)
<1> SUFFICES ASSUME NEW b \in Block
             PROVE  /\ Touches(blocks[b], blocks'[b], u)
                    /\ DraftsStay(blocks[b], blocks'[b])
  BY DEF ActsFor
<1>1. PICK s : s = blocks[b]
  OBVIOUS
<1>2. PICK t : t = blocks'[b]
  OBVIOUS
<1>3. PICK v : v = checkpoints[i][b]
  OBVIOUS
<1>4. SoundStack(s) /\ (v # 0 => v \in Published(s))
  BY <1>1, <1>3 DEF IInv, StacksSound, CheckpointsRestorable
<1>5. /\ Restored(s, v) => HasRoom(s) /\ t = Republish(s, v, u, FALSE)
      /\ Removed(s, v) => HasRoom(s) /\ t = Republish(s, HeadVersion(s), u, TRUE)
      /\ ~Restored(s, v) /\ ~Removed(s, v) => t = s
  BY <1>1, <1>2, <1>3 DEF RestoreCheckpoint, Restored, Removed
<1>6. CASE Restored(s, v)
  <2>1. PICK deleted \in BOOLEAN : deleted = FALSE
    OBVIOUS
  <2>2. v \in Published(s) /\ HasRoom(s) /\ t = Republish(s, v, u, deleted)
    BY <1>4, <1>5, <1>6, <2>1 DEF Restored
  <2> QED
    BY <1>1, <1>2, <1>4, <2>2, RepublishTouches
<1>7. CASE Removed(s, v)
  <2>1. PICK deleted \in BOOLEAN : deleted = TRUE
    OBVIOUS
  <2>2. HeadVersion(s) \in Published(s)
    BY <1>4, <1>7, LiveHeadFacts DEF Removed
  <2>3. HasRoom(s) /\ t = Republish(s, HeadVersion(s), u, deleted)
    BY <1>5, <1>7, <2>1
  <2> QED
    BY <1>1, <1>2, <1>4, <2>2, <2>3, RepublishTouches
<1>8. CASE ~Restored(s, v) /\ ~Removed(s, v)
  BY <1>1, <1>2, <1>5, <1>8, SameActs
<1> QED
  BY <1>6, <1>7, <1>8

\* Every step works for one teacher, or renumbers, or changes no block.
LEMMA StepActs ==
  ASSUME IInv, [Next]_vars
  PROVE  \/ \E a \in Teacher : ActsFor(a)
         \/ \E f \in [Position -> Position] : RebalanceBlockPositions(f)
         \/ UNCHANGED blocks
<1>1. CASE UNCHANGED vars
  BY <1>1 DEF vars
<1>2. ASSUME NEW u \in Teacher, NEW b \in Block, NEW x \in Data,
             NEW p \in Position, CreateBlock(u, b, x, p)
      PROVE  ActsFor(u)
  BY <1>2, CreateIsNew, CreateBlockActs
<1>3. ASSUME NEW u \in Teacher, NEW b \in Block, NEW seen \in Version,
             NEW d \in Version,
             \/ \E x \in Data : PatchBlock(u, b, seen, d, x)
             \/ \E p \in Position : MoveBlock(u, b, seen, d, p)
             \/ DeleteBlockByID(u, b, seen, d)
      PROVE  ActsFor(u)
  <2>1. seen \in Present(blocks[b]) /\ blocks[b] \in Stack
    BY <1>3 DEF PatchBlock, MoveBlock, DeleteBlockByID, CanDraft, Published,
                OwnDrafts, IInv, StacksSound, SoundStack
  <2>2. blocks[b][seen].data \in Data /\ blocks[b][seen].position \in Position
    BY <2>1, RowType DEF VersionRow
  <2> QED
    BY <1>3, <2>2, EditActs
<1>4. ASSUME NEW u \in Teacher, NEW b \in TaskBlock, NEW seen \in Version,
             NEW d \in Version, NEW x \in Data, UpdateTask(u, b, seen, d, x)
      PROVE  ActsFor(u)
  BY <1>4, UpdateTaskActs
<1>5. ASSUME NEW u \in Teacher, PublishDrafts(u) \/ DiscardDrafts(u)
      PROVE  ActsFor(u)
  BY <1>5, PublishDraftsActs, DiscardDraftsActs
<1>6. ASSUME NEW u \in Teacher, NEW i \in 1..MaxCheckpoints,
             i <= Len(checkpoints), RestoreCheckpoint(u, i)
      PROVE  ActsFor(u)
  <2>1. i \in 1..Len(checkpoints)
    BY <1>6, ConstantsAssumption DEF IInv, TypeOK
  <2> QED
    BY <1>6, <2>1, RestoreActs
<1>7. CASE DeleteCourseByID
  BY <1>7 DEF DeleteCourseByID
<1> QED
  BY <1>1, <1>2, <1>3, <1>4, <1>5, <1>6, <1>7 DEF Next

\* Publishing leaves no draft of its author.
LEMMA PublishTakesAll ==
  ASSUME IInv, NEW u \in Teacher, PublishDrafts(u), NEW b \in Block
  PROVE  OwnDrafts(blocks'[b], u) = {}
<1>1. PICK s : s = blocks[b]
  OBVIOUS
<1>2. PICK t : t = blocks'[b]
  OBVIOUS
<1>3. CASE b \notin WithDraft(u)
  BY <1>3 DEF PublishDrafts, WithDraft
<1>4. CASE b \in WithDraft(u)
  <2>1. PICK d : d = OwnDraft(s, u)
    OBVIOUS
  <2>2. d \in OwnDrafts(s, u) /\ d \in Present(s) \ Published(s)
    BY <1>1, <1>4, <2>1 DEF WithDraft, OwnDraft, OwnDrafts, Published
  <2>3. PICK mine \in BOOLEAN : mine = DataMine(s, d)
    BY DEF DataMine
  <2>4. PublishHasRoom(s, d) /\ t = PublishDraft(s, d, mine)
    BY <1>1, <1>2, <1>4, <2>1, <2>3 DEF PublishDrafts
  <2>5. SoundStack(s)
    BY <1>1 DEF IInv, StacksSound
  <2>6. \A v \in Version : \/ v # d /\ t[v] = s[v]
                           \/ v = d /\ v \notin Present(t)
                           \/ v \in Published(t)
    BY <2>2, <2>4, <2>5, PublishDraftChanges
  <2>7. \A v \in OwnDrafts(s, u) : v = d
    BY <2>2, <2>5 DEF SoundStack
  <2> QED
    BY <1>2, <2>6, <2>7 DEF OwnDrafts, Published, Present
<1> QED
  BY <1>3, <1>4

\* Nothing of another teacher changes in a step that works for a.
LEMMA OthersKept ==
  ASSUME IInv, NEW a \in Teacher, ActsFor(a), NEW b \in Block,
         NEW u \in Teacher, u # a
  PROVE  /\ ~DraftsTouched(blocks[b], blocks'[b], u)
         /\ ~PublishesFor(blocks[b], blocks'[b], u)
<1>1. PICK s : s = blocks[b]
  OBVIOUS
<1>2. PICK t : t = blocks'[b]
  OBVIOUS
<1>3. Touches(s, t, a) /\ SoundStack(s)
  BY <1>1, <1>2 DEF ActsFor, IInv, StacksSound
<1>4. ASSUME NEW d \in OwnDrafts(s, u)
      PROVE  SameDraft(s, t, d)
  <2>1. t[d] = s[d] /\ d \in Present(s) \ Published(s)
    BY <1>3, <1>4 DEF Touches, OwnDrafts, Published, Present
  <2>2. s[d] \in VersionRow /\ s[d] # Absent
    BY <1>3, <2>1, RowType DEF SoundStack, Present
  <2>3. [t[d] EXCEPT !.position = s[d].position] = s[d]
    BY <2>1, <2>2 DEF VersionRow
  <2>4. s[d].base # NoBase => t[s[d].base] = s[s[d].base]
    <3>1. s[d].base # NoBase => s[d].base \in Published(s)
      BY <1>3, <2>1 DEF SoundStack, Anchored
    <3> QED
      BY <1>3, <3>1 DEF Touches, Published, Present
  <2> QED
    BY <2>1, <2>2, <2>3, <2>4 DEF SameDraft
<1>5. ~PublishesFor(s, t, u)
  BY <1>3 DEF PublishesFor, Touches, Published, Present
<1> QED
  BY <1>1, <1>2, <1>4, <1>5 DEF DraftsTouched

\* A rebalance moves drafts and what they were started from alike.
LEMMA RebalanceTouchesNone ==
  ASSUME IInv, NEW f \in [Position -> Position], RebalanceBlockPositions(f),
         NEW b \in Block, NEW u \in Teacher
  PROVE  ~DraftsTouched(blocks[b], blocks'[b], u)
<1> SUFFICES ASSUME NEW d \in OwnDrafts(blocks[b], u)
             PROVE  SameDraft(blocks[b], blocks'[b], d)
  BY DEF DraftsTouched
<1>1. PICK s : s = blocks[b]
  OBVIOUS
<1>2. PICK t : t = blocks'[b]
  OBVIOUS
<1>3. SoundStack(s) /\ t = Remap(s, f)
  BY <1>1, <1>2 DEF IInv, StacksSound, RebalanceBlockPositions
<1>4. d \in Present(s) \ Published(s) /\ d \in Version /\ s[d] # Absent
  BY <1>1 DEF OwnDrafts, Published, Present
<1>5. s[d] \in VersionRow
  BY <1>3, <1>4, RowType DEF SoundStack
<1>6. t[d] = [s[d] EXCEPT !.position = f[s[d].position]]
  BY <1>3, <1>4 DEF Remap
<1>7. [t[d] EXCEPT !.position = s[d].position] = s[d]
  BY <1>5, <1>6 DEF VersionRow
<1>8. t[d] # Absent
  <2>1. f[s[d].position] \in Position
    BY <1>5 DEF VersionRow
  <2>2. t[d] \in VersionRow
    BY <1>5, <1>6, <2>1 DEF VersionRow
  <2> QED
    BY <2>2, ConstantsAssumption
<1>9. s[d].base # NoBase =>
        (t[d].position = t[s[d].base].position <=> s[d].position = s[s[d].base].position)
  <2> SUFFICES ASSUME s[d].base # NoBase
               PROVE  t[d].position = t[s[d].base].position <=>
                      s[d].position = s[s[d].base].position
    OBVIOUS
  <2>1. PICK v : v = s[d].base
    OBVIOUS
  <2>2. v \in Present(s)
    BY <1>3, <1>4, <2>1 DEF SoundStack, Anchored, Published
  <2> QED
    BY <1>1, <1>2, <1>4, <2>1, <2>2, SamePosition
<1> QED
  BY <1>1, <1>2, <1>7, <1>8, <1>9 DEF SameDraft

\* Drafts are private: a transaction edits, publishes, discards and moves only
\* drafts of the teacher it runs for (getOwnDraftSQL, deleteOwnDraftsSQL).
THEOREM DraftsPrivate == Spec => OthersDraftsKept
<1> DEFINE Private ==
      \A b, c \in Block, u, w \in Teacher : u # w =>
        ~(/\ DraftsTouched(blocks[b], blocks'[b], w)
          /\ \/ DraftsTouched(blocks[c], blocks'[c], u)
             \/ PublishesFor(blocks[c], blocks'[c], u))
<1>1. ASSUME IInv, [Next]_vars PROVE Private
  <2> SUFFICES ASSUME NEW b \in Block, NEW c \in Block,
                      NEW u \in Teacher, NEW w \in Teacher, u # w,
                      DraftsTouched(blocks[b], blocks'[b], w)
               PROVE  /\ ~DraftsTouched(blocks[c], blocks'[c], u)
                      /\ ~PublishesFor(blocks[c], blocks'[c], u)
    OBVIOUS
  <2>1. ASSUME NEW a \in Teacher, ActsFor(a)
        PROVE  /\ ~DraftsTouched(blocks[c], blocks'[c], u)
               /\ ~PublishesFor(blocks[c], blocks'[c], u)
    <3>1. w = a
      BY <1>1, <2>1, OthersKept
    <3> QED
      BY <1>1, <2>1, <3>1, OthersKept
  <2>2. CASE \E f \in [Position -> Position] : RebalanceBlockPositions(f)
    BY <1>1, <2>2, RebalanceTouchesNone
  <2>3. CASE UNCHANGED blocks
    <3>1. PICK a \in Teacher : a # w
      OBVIOUS
    <3>2. ActsFor(a)
      BY <2>3, SameActs DEF ActsFor
    <3> QED
      BY <1>1, <3>1, <3>2, OthersKept
  <2> QED
    BY <1>1, <2>1, <2>2, <2>3, StepActs
<1>2. Spec => [][Private]_vars
  BY <1>1, Invariance, PTL DEF Spec
<1> QED
  BY <1>2, PTL DEF OthersDraftsKept

\* A publish takes every draft of its author or none (PublishDrafts rolls back
\* as one).
THEOREM PublishesAllOrNothing == Spec => PublishAllOrNothing
<1> DEFINE All ==
      \A b, c \in Block, u \in Teacher :
        OwnDrafts(blocks[b], u) \cap Published(blocks'[b]) # {} =>
          OwnDrafts(blocks'[c], u) = {}
<1>1. ASSUME IInv, [Next]_vars PROVE All
  <2> SUFFICES ASSUME NEW b \in Block, NEW c \in Block, NEW u \in Teacher,
                      NEW v \in OwnDrafts(blocks[b], u), v \in Published(blocks'[b])
               PROVE  OwnDrafts(blocks'[c], u) = {}
    OBVIOUS
  <2>1. /\ v \in Version /\ v \in Present(blocks[b]) \ Published(blocks[b])
        /\ blocks[b][v].createdBy = u
    BY DEF OwnDrafts, Published, Present
  <2>2. ASSUME NEW a \in Teacher, ActsFor(a)
        PROVE  OwnDrafts(blocks'[c], u) = {}
    <3>1. PublishDrafts(a)
      BY <2>1, <2>2 DEF ActsFor, DraftsStay
    <3>2. blocks'[b][v] # blocks[b][v]
      BY <2>1 DEF Published, Present
    <3>3. a = u
      BY <2>1, <2>2, <3>2 DEF ActsFor, Touches
    <3> QED
      BY <1>1, <3>1, <3>3, PublishTakesAll
  <2>3. CASE \E f \in [Position -> Position] : RebalanceBlockPositions(f)
    <3>1. Published(blocks'[b]) = Published(blocks[b])
      BY <1>1, <2>3, RebalanceStep DEF RenumberStep, Quiet
    <3> QED
      BY <2>1, <3>1
  <2>4. CASE UNCHANGED blocks
    BY <2>1, <2>4
  <2> QED
    BY <1>1, <2>2, <2>3, <2>4, StepActs
<1>2. Spec => [][All]_vars
  BY <1>1, Invariance, PTL DEF Spec
<1> QED
  BY <1>2, PTL DEF PublishAllOrNothing

-----------------------------------------------------------------------------
(* Tasks and groups                                                        *)

Alive(s) == HasLiveHead(s) \/ (Published(s) = {} /\ Present(s) # {})

TasksFollow ==
  \A b \in TaskBlock :
    /\ Present(blocks[b]) # {} => tasks[b] # Absent
    /\ Alive(blocks[b]) => IsLiveTask(tasks[b])

\* GroupsFollowTasks, of any tasks and groups.
GroupsFollow(T, G) ==
  \A g \in Group : G[g] = "live" <=>
    \E b \in TaskBlock : IsLiveTask(T[b]) /\ T[b].group = g

\* A stack does not appear, and a dead one stays dead.
Revives(s, t) ==
  \/ Present(s) = {} /\ Present(t) # {}
  \/ Alive(t) /\ ~Alive(s)

-----------------------------------------------------------------------------
(* Stacks and their tasks                                                  *)

LEMMA AliveLinks ==
  ASSUME NEW s, SoundStack(s), Alive(s)
  PROVE  LinksTask(s)
<1>1. CASE HasLiveHead(s)
  BY <1>1 DEF LinksTask
<1>2. CASE Published(s) = {} /\ Present(s) # {}
  <2>1. PICK d \in Present(s) : d \in Present(s) \ Published(s)
    BY <1>2
  <2>2. s[d].draft /\ ~s[d].deleted
    BY <1>2, <2>1 DEF SoundStack, Anchored, Published
  <2> QED
    BY <2>1, <2>2 DEF LinksTask
<1> QED
  BY <1>1, <1>2 DEF Alive

\* What publishes nothing revives nothing.
LEMMA QuietRevives ==
  ASSUME NEW s, SoundStack(s), NEW t, Quiet(s, t),
         Present(t) # {} => Present(s) # {}
  PROVE  ~Revives(s, t)
<1>1. HasLiveHead(t) => HasLiveHead(s)
  BY QuietKeepsHead
<1>2. Published(t) = Published(s)
  BY DEF Quiet
<1> QED
  BY <1>1, <1>2 DEF Revives, Alive

\* Publishing a draft of a deleted block drops the draft.
LEMMA PublishRevives ==
  ASSUME NEW s, SoundStack(s), NEW d \in Present(s) \ Published(s),
         NEW mine \in BOOLEAN, PublishHasRoom(s, d)
  PROVE  ~Revives(s, PublishDraft(s, d, mine))
<1> DEFINE t == PublishDraft(s, d, mine)
           rest == Without(s, d)
<1>1. SoundStep(s, t)
  BY PublishDraftSound
<1>2. Present(s) # {}
  OBVIOUS
<1>3. CASE Published(s) = {}
  BY <1>2, <1>3 DEF Revives, Alive
<1>4. CASE HasLiveHead(s)
  BY <1>2, <1>4 DEF Revives, Alive
<1>5. CASE Published(s) # {} /\ ~HasLiveHead(s)
  <2>1. IsHead(s, HeadVersion(s)) /\ s[HeadVersion(s)].deleted
    BY <1>5, HeadIsHead DEF SoundStack, HasLiveHead
  <2>2. s[d].base \in Published(s) /\ ~s[s[d].base].deleted
    BY <1>5 DEF SoundStack, Anchored, Published
  <2>3. s[d].base # NoBase
    BY <2>2, VersionFacts DEF Published, Present
  <2>4. Outdated(s, d)
    BY <2>1, <2>2, <2>3 DEF Outdated
  <2>5. t = rest
    BY <2>1, <2>3, <2>4 DEF PublishDraft
  <2>6. SoundEdit(s, rest)
    BY WithoutSound
  <2>7. Quiet(s, t)
    BY <2>5, <2>6 DEF Quiet, SoundEdit, SoundStep, Keeps, SamePublished
  <2> QED
    BY <1>2, <2>7, QuietRevives
<1> QED
  BY <1>3, <1>4, <1>5

-----------------------------------------------------------------------------
(* Tasks and groups                                                        *)

\* deleteUnlinkedTasks keeps the tasks of alive stacks, and a group exactly
\* as long as it has a live task.
LEMMA UnlinkedFollow ==
  ASSUME NEW B, NEW T \in TasksType, NEW G \in GroupsType,
         DeleteUnlinkedTasks(B, blocks', T, G),
         StacksSound',
         \A b \in TaskBlock :
           /\ Present(blocks'[b]) # {} => T[b] # Absent
           /\ Alive(blocks'[b]) => IsLiveTask(T[b])
  PROVE  TasksFollow' /\ (GroupsFollow(T, G) => GroupsFollowTasks')
<1> DEFINE gone == {b \in B \cap TaskBlock : IsLiveTask(T[b]) /\ ~LinksTask(blocks'[b])}
           keeps(g) == \E b \in TaskBlock \ gone : IsLiveTask(T[b]) /\ T[b].group = g
           next(b) == IF b \in gone THEN [T[b] EXCEPT !.live = FALSE] ELSE T[b]
<1>1. /\ \A b \in TaskBlock : tasks'[b] = next(b)
      /\ \A g \in Group : groups'[g] =
           IF (\E b \in gone : T[b].group = g) /\ ~keeps(g) THEN "deleted" ELSE G[g]
  BY DEF DeleteUnlinkedTasks, Emptied
<1>2. ASSUME NEW b \in TaskBlock
      PROVE  /\ b \in gone => T[b] \in Task /\ tasks'[b] \in Task /\ ~tasks'[b].live
             /\ b \notin gone => tasks'[b] = T[b]
  <2>1. b \in gone => T[b] \in Task
    BY DEF TasksType, IsLiveTask
  <2>2. tasks'[b] = next(b)
    BY <1>1
  <2>3. T[b] \in Task =>
          /\ [T[b] EXCEPT !.live = FALSE] \in Task
          /\ ~[T[b] EXCEPT !.live = FALSE].live
    BY DEF Task
  <2> QED
    BY <2>1, <2>2, <2>3
<1>3. ASSUME NEW b \in TaskBlock
      PROVE  IsLiveTask(tasks'[b]) <=> b \notin gone /\ IsLiveTask(T[b])
  BY <1>2 DEF IsLiveTask
<1>4. ASSUME NEW b \in TaskBlock, b \in gone
      PROVE  ~Alive(blocks'[b])
  <2>1. b \in Block
    BY ConstantsAssumption
  <2>2. SoundStack(blocks'[b])
    BY <2>1 DEF StacksSound
  <2>3. ~LinksTask(blocks'[b])
    BY <1>4
  <2> QED
    BY <2>2, <2>3, AliveLinks
<1>5. \A b \in gone : b \in TaskBlock /\ IsLiveTask(T[b])
  OBVIOUS
<1> HIDE DEF gone, next
<1>6. TasksFollow'
  <2> SUFFICES ASSUME NEW b \in TaskBlock
               PROVE  /\ Present(blocks'[b]) # {} => tasks'[b] # Absent
                      /\ Alive(blocks'[b]) => IsLiveTask(tasks'[b])
    BY DEF TasksFollow
  <2>1. CASE b \in gone
    BY <2>1, <1>2, <1>4, ConstantsAssumption
  <2>2. CASE b \notin gone
    BY <2>2, <1>2
  <2> QED
    BY <2>1, <2>2
<1>7. ASSUME GroupsFollow(T, G), NEW g \in Group
      PROVE  groups'[g] = "live" <=>
               \E b \in TaskBlock : IsLiveTask(tasks'[b]) /\ tasks'[b].group = g
  <2>1. (\E b \in TaskBlock : IsLiveTask(tasks'[b]) /\ tasks'[b].group = g) <=> keeps(g)
    BY <1>2, <1>3
  <2>2. G[g] = "live" <=> \E b \in TaskBlock : IsLiveTask(T[b]) /\ T[b].group = g
    BY <1>7 DEF GroupsFollow
  <2>3. G[g] = "live" <=> keeps(g) \/ \E b \in gone : T[b].group = g
    BY <2>2, <1>5
  <2> QED
    BY <2>1, <2>3, <1>1
<1> QED
  BY <1>6, <1>7 DEF GroupsFollowTasks

\* A step that revives nothing and deletes unlinked tasks, if any.
LEMMA QuietTasks ==
  ASSUME TypeOK, TasksFollow, StacksSound',
         \A b \in TaskBlock : ~Revives(blocks[b], blocks'[b]),
         \/ UNCHANGED <<tasks, groups>>
         \/ \E B : DeleteUnlinkedTasks(B, blocks', tasks, groups)
  PROVE  TasksFollow' /\ (GroupsFollowTasks => GroupsFollowTasks')
<1>1. \A b \in TaskBlock :
        /\ Present(blocks'[b]) # {} => tasks[b] # Absent
        /\ Alive(blocks'[b]) => IsLiveTask(tasks[b])
  BY DEF Revives, TasksFollow
<1>2. CASE UNCHANGED <<tasks, groups>>
  <2>1. TasksFollow'
    BY <1>1, <1>2 DEF TasksFollow
  <2>2. GroupsFollowTasks => GroupsFollowTasks'
    BY <1>2 DEF GroupsFollowTasks
  <2> QED
    BY <2>1, <2>2
<1>3. CASE \E B : DeleteUnlinkedTasks(B, blocks', tasks, groups)
  <2>1. /\ tasks \in TasksType /\ groups \in GroupsType
        /\ GroupsFollowTasks => GroupsFollow(tasks, groups)
    BY DEF TypeOK, TasksType, GroupsType, GroupsFollowTasks, GroupsFollow
  <2> QED
    BY <1>1, <1>3, <2>1, UnlinkedFollow
<1> QED
  BY <1>2, <1>3

\* The other stacks of a step on one.
LEMMA OthersRevive ==
  ASSUME StacksSound, NEW b \in Block, NEW t, blocks' = [blocks EXCEPT ![b] = t]
  PROVE  /\ blocks'[b] = t
         /\ \A c \in Block \ {b} : blocks'[c] = blocks[c] /\ ~Revives(blocks[c], blocks'[c])
<1>1. blocks'[b] = t /\ \A c \in Block \ {b} : blocks'[c] = blocks[c]
  BY DEF StacksSound
<1> QED
  BY <1>1 DEF Revives

-----------------------------------------------------------------------------
(* Actions                                                                 *)

FollowInv == IInv /\ TasksFollow

LEMMA CreateBlockFollows ==
  ASSUME FollowInv, StacksSound', NEW u \in Teacher, NEW b \in Block, NEW x \in Data,
         NEW p \in Position, CreateBlock(u, b, x, p)
  PROVE  TasksFollow' /\ (GroupsFollowTasks => GroupsFollowTasks')
<1>1. /\ TypeOK /\ StacksSound /\ TasksFollow
      /\ \A c \in Block \ {b} : blocks'[c] = blocks[c] /\ ~Revives(blocks[c], blocks'[c])
  BY OthersRevive DEF FollowInv, IInv, CreateBlock
<1>2. CASE b \notin TaskBlock
  <2>1. \A c \in TaskBlock : ~Revives(blocks[c], blocks'[c])
    BY <1>1, <1>2, ConstantsAssumption
  <2> QED
    BY <1>1, <1>2, <2>1, QuietTasks DEF CreateBlock
<1>3. CASE b \in TaskBlock
  <2>1. PICK g \in Group, name \in TaskName :
          /\ groups[g] \in {"none", "live"}
          /\ tasks[b] = Absent
          /\ tasks' = [tasks EXCEPT ![b] = [group |-> g, name |-> name, live |-> TRUE]]
          /\ groups' = [groups EXCEPT ![g] = "live"]
    BY <1>3 DEF CreateBlock, CreateTask
  <2> DEFINE new == [group |-> g, name |-> name, live |-> TRUE]
  <2>2. new \in Task /\ new.group = g /\ new.live
    BY DEF Task
  <2>3. /\ tasks'[b] = new
        /\ \A c \in TaskBlock \ {b} : tasks'[c] = tasks[c]
        /\ groups'[g] = "live"
        /\ \A h \in Group \ {g} : groups'[h] = groups[h]
    BY <1>1, <1>3, <2>1 DEF TypeOK
  <2> HIDE DEF new
  <2>4. IsLiveTask(tasks'[b]) /\ tasks'[b].group = g /\ ~IsLiveTask(tasks[b])
    BY <2>1, <2>2, <2>3, ConstantsAssumption DEF IsLiveTask
  <2>5. TasksFollow'
    BY <1>1, <2>3, <2>4, ConstantsAssumption DEF TasksFollow, IsLiveTask
  <2>6. GroupsFollowTasks => GroupsFollowTasks'
    <3> SUFFICES ASSUME GroupsFollowTasks, NEW h \in Group
                 PROVE  groups'[h] = "live" <=>
                          \E c \in TaskBlock : IsLiveTask(tasks'[c]) /\ tasks'[c].group = h
      BY DEF GroupsFollowTasks
    <3>1. CASE h = g
      BY <1>3, <3>1, <2>3, <2>4
    <3>2. CASE h # g
      BY <1>1, <3>2, <2>3, <2>4 DEF GroupsFollowTasks
    <3> QED
      BY <3>1, <3>2
  <2> QED
    BY <2>5, <2>6
<1> QED
  BY <1>2, <1>3

LEMMA QuietStepRevives ==
  ASSUME IInv, EditStep \/ RenumberStep, NEW b \in Block,
         Present(blocks'[b]) # {} => Present(blocks[b]) # {}
  PROVE  ~Revives(blocks[b], blocks'[b])
<1>1. SoundStack(blocks[b]) /\ Quiet(blocks[b], blocks'[b])
  BY QuietSteps DEF QuietStep, IInv, StacksSound
<1> QED
  BY <1>1, QuietRevives

\* Only what is there can be drafted.
LEMMA CanDraftPresent ==
  ASSUME NEW s, NEW u, NEW seen, NEW d, CanDraft(s, u, seen, d)
  PROVE  Present(s) # {}
BY DEF CanDraft, OwnDrafts, Published

LEMMA EditFollows ==
  ASSUME FollowInv, StacksSound', NEW u \in Teacher, NEW b \in Block,
         NEW seen \in Version, NEW d \in Version,
         \/ \E x \in Data : PatchBlock(u, b, seen, d, x)
         \/ \E p \in Position : MoveBlock(u, b, seen, d, p)
         \/ DeleteBlockByID(u, b, seen, d)
  PROVE  TasksFollow' /\ (GroupsFollowTasks => GroupsFollowTasks')
<1>1. IInv /\ TypeOK /\ StacksSound /\ TasksFollow
  BY DEF FollowInv, IInv
<1>2. EditStep
  BY <1>1, PatchBlockStep, MoveBlockStep, DeleteBlockStep
<1>3. /\ CanDraft(blocks[b], u, seen, d)
      /\ \E t : blocks' = [blocks EXCEPT ![b] = t]
      /\ \/ UNCHANGED <<tasks, groups>>
         \/ \E B : DeleteUnlinkedTasks(B, blocks', tasks, groups)
  BY DEF PatchBlock, MoveBlock, DeleteBlockByID
<1>4. Present(blocks[b]) # {}
  BY <1>3, CanDraftPresent
<1>5. ~Revives(blocks[b], blocks'[b])
  BY <1>1, <1>2, <1>4, QuietStepRevives
<1>6. \A c \in Block \ {b} : ~Revives(blocks[c], blocks'[c])
  BY <1>1, <1>3, OthersRevive
<1>7. \A c \in TaskBlock : ~Revives(blocks[c], blocks'[c])
  BY <1>5, <1>6, ConstantsAssumption
<1> QED
  BY <1>1, <1>3, <1>7, QuietTasks

LEMMA DiscardFollows ==
  ASSUME FollowInv, StacksSound', NEW u \in Teacher, DiscardDrafts(u)
  PROVE  TasksFollow' /\ (GroupsFollowTasks => GroupsFollowTasks')
<1>1. IInv /\ TypeOK /\ StacksSound /\ TasksFollow
  BY DEF FollowInv, IInv
<1>2. EditStep
  BY <1>1, DiscardDraftsStep
<1>3. \A b \in Block : Present(blocks'[b]) \subseteq Present(blocks[b])
  BY DEF DiscardDrafts, Present
<1>4. \A b \in TaskBlock : ~Revives(blocks[b], blocks'[b])
  BY <1>1, <1>2, <1>3, QuietStepRevives, ConstantsAssumption
<1> QED
  BY <1>1, <1>4, QuietTasks DEF DiscardDrafts

LEMMA RebalanceFollows ==
  ASSUME FollowInv, StacksSound', NEW f \in [Position -> Position],
         RebalanceBlockPositions(f)
  PROVE  TasksFollow' /\ (GroupsFollowTasks => GroupsFollowTasks')
<1>1. IInv /\ TypeOK /\ StacksSound /\ TasksFollow
  BY DEF FollowInv, IInv
<1>2. RenumberStep
  BY <1>1, RebalanceStep
<1>3. \A b \in Block : Present(blocks'[b]) \subseteq Present(blocks[b])
  BY DEF RebalanceBlockPositions, Remap, Present
<1>4. \A b \in TaskBlock : ~Revives(blocks[b], blocks'[b])
  BY <1>1, <1>2, <1>3, QuietStepRevives, ConstantsAssumption
<1> QED
  BY <1>1, <1>4, QuietTasks DEF RebalanceBlockPositions

LEMMA PublishFollows ==
  ASSUME FollowInv, StacksSound', NEW u \in Teacher, PublishDrafts(u)
  PROVE  TasksFollow' /\ (GroupsFollowTasks => GroupsFollowTasks')
<1> DEFINE draft(b)  == OwnDraft(blocks[b], u)
           mine(b)   == DataMine(blocks[b], draft(b))
           next(b)   == IF b \in WithDraft(u)
                        THEN PublishDraft(blocks[b], draft(b), mine(b))
                        ELSE blocks[b]
<1>1. IInv /\ TypeOK /\ StacksSound /\ TasksFollow
  BY DEF FollowInv, IInv
<1>2. /\ \A b \in WithDraft(u) : PublishHasRoom(blocks[b], draft(b))
      /\ \A b \in Block : blocks'[b] = next(b)
      /\ \E B : DeleteUnlinkedTasks(B, blocks', tasks, groups)
  BY DEF PublishDrafts
<1>3. ASSUME NEW b \in Block
      PROVE  ~Revives(blocks[b], blocks'[b])
  <2>1. CASE b \in WithDraft(u)
    <3>1. draft(b) \in OwnDrafts(blocks[b], u)
      BY <2>1 DEF WithDraft, OwnDraft
    <3>2. draft(b) \in Present(blocks[b]) \ Published(blocks[b])
      BY <3>1 DEF OwnDrafts, Published
    <3>3. mine(b) \in BOOLEAN /\ PublishHasRoom(blocks[b], draft(b))
      BY <1>2, <2>1 DEF DataMine
    <3>4. SoundStack(blocks[b])
      BY <1>1 DEF StacksSound
    <3>5. blocks'[b] = PublishDraft(blocks[b], draft(b), mine(b))
      BY <1>2, <2>1
    <3> HIDE DEF draft, mine, next
    <3> QED
      BY <3>2, <3>3, <3>4, <3>5, PublishRevives
  <2>2. CASE b \notin WithDraft(u)
    BY <1>2, <2>2 DEF Revives
  <2> QED
    BY <2>1, <2>2
<1>4. \A b \in TaskBlock : ~Revives(blocks[b], blocks'[b])
  BY <1>3, ConstantsAssumption
<1> QED
  BY <1>1, <1>2, <1>4, QuietTasks

\* A task update may revive the block of a live task, in the author's draft.
LEMMA UpdateTaskFollows ==
  ASSUME FollowInv, NEW u \in Teacher, NEW b \in TaskBlock,
         NEW seen \in Version, NEW d \in Version, NEW x \in Data,
         UpdateTask(u, b, seen, d, x)
  PROVE  TasksFollow' /\ (GroupsFollowTasks => GroupsFollowTasks')
<1>1. /\ StacksSound /\ TasksFollow
      /\ b \in Block /\ TaskBlock \subseteq Block
  BY ConstantsAssumption DEF FollowInv, IInv
<1>2. /\ IsLiveTask(tasks[b]) /\ UNCHANGED <<tasks, groups>>
      /\ \E t : blocks' = [blocks EXCEPT ![b] = t]
  BY DEF UpdateTask
<1>3. \A c \in TaskBlock \ {b} : ~Revives(blocks[c], blocks'[c])
  BY <1>1, <1>2, OthersRevive
<1>4. TasksFollow'
  <2> SUFFICES ASSUME NEW c \in TaskBlock
               PROVE  /\ Present(blocks'[c]) # {} => tasks'[c] # Absent
                      /\ Alive(blocks'[c]) => IsLiveTask(tasks'[c])
    BY DEF TasksFollow
  <2>1. CASE c = b
    BY <1>2, <2>1 DEF IsLiveTask
  <2>2. CASE c # b
    BY <1>1, <1>2, <1>3, <2>2 DEF TasksFollow, Revives
  <2> QED
    BY <2>1, <2>2
<1>5. GroupsFollowTasks => GroupsFollowTasks'
  BY <1>2 DEF GroupsFollowTasks
<1> QED
  BY <1>4, <1>5

\* The restored blocks get their tasks back before those of the removed ones
\* are deleted.
LEMMA RestoreFollows ==
  ASSUME FollowInv, StacksSound', NEW u \in Teacher, NEW i \in 1..Len(checkpoints),
         RestoreCheckpoint(u, i)
  PROVE  TasksFollow' /\ (GroupsFollowTasks => GroupsFollowTasks')
<1> DEFINE restored == {b \in Block : Restored(blocks[b], checkpoints[i][b])}
           removed  == {b \in Block : Removed(blocks[b], checkpoints[i][b])}
           back == Undeleted(restored)
           T == [b \in TaskBlock |->
                  IF b \in back THEN [tasks[b] EXCEPT !.live = TRUE] ELSE tasks[b]]
           G == [g \in Group |->
                  IF \E b \in back : tasks[b].group = g THEN "live" ELSE groups[g]]
<1>1. /\ DeleteUnlinkedTasks(removed, blocks', T, G)
      /\ \A b \in Block \ (restored \cup removed) : blocks'[b] = blocks[b]
  BY DEF RestoreCheckpoint
<1>2. /\ TypeOK /\ StacksSound /\ TasksFollow
      /\ tasks \in TasksType /\ groups \in GroupsType
  BY DEF FollowInv, IInv, TypeOK, TasksType, GroupsType
<1>3. /\ back \subseteq restored \cap TaskBlock
      /\ \A b \in TaskBlock : b \in back <=>
           b \in restored /\ tasks[b] # Absent /\ ~tasks[b].live
  BY DEF Undeleted
<1>4. \A b \in TaskBlock : b \in restored => Present(blocks[b]) # {}
  BY DEF Restored, FollowInv, IInv, CheckpointsRestorable, Published
<1>5. \A b \in TaskBlock : b \in removed => HasLiveHead(blocks[b])
  BY DEF Removed
<1> HIDE DEF restored, removed, back
<1>6. ASSUME NEW b \in TaskBlock
      PROVE  /\ b \in back =>
                  T[b] \in Task /\ T[b].live /\ T[b].group = tasks[b].group
             /\ b \notin back => T[b] = tasks[b]
  <2>1. b \in back => tasks[b] \in Task
    BY <1>2, <1>3 DEF TasksType
  <2>2. tasks[b] \in Task =>
          /\ [tasks[b] EXCEPT !.live = TRUE] \in Task
          /\ [tasks[b] EXCEPT !.live = TRUE].live
          /\ [tasks[b] EXCEPT !.live = TRUE].group = tasks[b].group
    BY DEF Task
  <2> QED
    BY <2>1, <2>2
<1>7. G \in GroupsType
  BY <1>2 DEF GroupsType
<1>8. \A g \in Group :
        G[g] = "live" <=> groups[g] = "live" \/ \E b \in back : tasks[b].group = g
  OBVIOUS
<1>9. T \in TasksType
  BY <1>2, <1>6 DEF TasksType
<1> HIDE DEF T, G
<1>10. \A b \in TaskBlock :
         IsLiveTask(T[b]) <=> b \in back \/ IsLiveTask(tasks[b])
  BY <1>6, ConstantsAssumption DEF IsLiveTask
<1>11. GroupsFollowTasks => GroupsFollow(T, G)
  <2> SUFFICES ASSUME GroupsFollowTasks, NEW g \in Group
               PROVE  G[g] = "live" <=>
                        \E b \in TaskBlock : IsLiveTask(T[b]) /\ T[b].group = g
    BY DEF GroupsFollow
  <2>1. groups[g] = "live" <=>
          \E b \in TaskBlock : IsLiveTask(tasks[b]) /\ tasks[b].group = g
    BY DEF GroupsFollowTasks
  <2>2. \A b \in TaskBlock : T[b].group = tasks[b].group
    BY <1>6
  <2> QED
    BY <1>3, <1>8, <1>10, <2>1, <2>2
<1>12. ASSUME NEW b \in TaskBlock
       PROVE  /\ Present(blocks'[b]) # {} => T[b] # Absent
              /\ Alive(blocks'[b]) => IsLiveTask(T[b])
  <2>1. CASE b \in restored
    <3>1. tasks[b] # Absent
      BY <1>2, <1>4, <2>1 DEF TasksFollow
    <3>2. IsLiveTask(T[b])
      BY <1>3, <1>10, <2>1, <3>1 DEF IsLiveTask
    <3> QED
      BY <3>2 DEF IsLiveTask
  <2>2. CASE b \in removed
    <3>1. IsLiveTask(tasks[b])
      BY <1>2, <1>5, <2>2 DEF TasksFollow, Alive
    <3>2. IsLiveTask(T[b])
      BY <1>10, <3>1
    <3> QED
      BY <3>2 DEF IsLiveTask
  <2>3. CASE b \notin restored \cup removed
    <3>1. blocks'[b] = blocks[b] /\ T[b] = tasks[b]
      BY <1>1, <1>3, <1>6, <2>3, ConstantsAssumption
    <3> QED
      BY <1>2, <3>1 DEF TasksFollow
  <2> QED
    BY <2>1, <2>2, <2>3
<1> QED
  BY <1>1, <1>7, <1>9, <1>11, <1>12, UnlinkedFollow

-----------------------------------------------------------------------------
(* The invariant                                                           *)

\* A step is one transaction here.  Those that need the course to themselves are
\* (CourseTransactionsProofs, ExclusiveKeepsFollow); of those that share it only
\* the tasks of published blocks are safe (PublishedTasksStay).
LEMMA StepFollows ==
  ASSUME FollowInv, [Next]_vars
  PROVE  TasksFollow' /\ (GroupsFollowTasks => GroupsFollowTasks')
<1>1. IInv /\ StacksSound'
  BY NextIInv DEF FollowInv, IInv
<1>2. ASSUME NEW u \in Teacher, NEW b \in Block, NEW x \in Data,
             NEW p \in Position, CreateBlock(u, b, x, p)
      PROVE  TasksFollow' /\ (GroupsFollowTasks => GroupsFollowTasks')
  BY <1>1, <1>2, CreateBlockFollows
<1>3. ASSUME NEW u \in Teacher, NEW b \in Block, NEW seen \in Version, NEW d \in Version,
             \/ \E x \in Data : PatchBlock(u, b, seen, d, x)
             \/ \E p \in Position : MoveBlock(u, b, seen, d, p)
             \/ DeleteBlockByID(u, b, seen, d)
      PROVE  TasksFollow' /\ (GroupsFollowTasks => GroupsFollowTasks')
  BY <1>1, <1>3, EditFollows
<1>4. ASSUME NEW u \in Teacher, NEW b \in TaskBlock, NEW seen \in Version,
             NEW d \in Version, NEW x \in Data, UpdateTask(u, b, seen, d, x)
      PROVE  TasksFollow' /\ (GroupsFollowTasks => GroupsFollowTasks')
  BY <1>4, UpdateTaskFollows
<1>5. ASSUME NEW u \in Teacher, PublishDrafts(u) \/ DiscardDrafts(u)
      PROVE  TasksFollow' /\ (GroupsFollowTasks => GroupsFollowTasks')
  BY <1>1, <1>5, PublishFollows, DiscardFollows
<1>6. ASSUME NEW u \in Teacher, NEW i \in 1..MaxCheckpoints,
             i <= Len(checkpoints), RestoreCheckpoint(u, i)
      PROVE  TasksFollow' /\ (GroupsFollowTasks => GroupsFollowTasks')
  <2>1. i \in 1..Len(checkpoints)
    BY <1>1, <1>6, ConstantsAssumption DEF IInv, TypeOK
  <2> QED
    BY <1>1, <1>6, <2>1, RestoreFollows
<1>7. ASSUME NEW f \in [Position -> Position], RebalanceBlockPositions(f)
      PROVE  TasksFollow' /\ (GroupsFollowTasks => GroupsFollowTasks')
  BY <1>1, <1>7, RebalanceFollows
<1>8. CASE DeleteCourseByID \/ UNCHANGED vars
  <2>1. UNCHANGED <<blocks, tasks, groups>>
    BY <1>8 DEF DeleteCourseByID, vars
  <2> QED
    BY <2>1 DEF FollowInv, TasksFollow, GroupsFollowTasks
<1> QED
  BY <1>2, <1>3, <1>4, <1>5, <1>6, <1>7, <1>8 DEF Next

=============================================================================
