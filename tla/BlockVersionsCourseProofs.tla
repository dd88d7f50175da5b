--------------------- MODULE BlockVersionsCourseProofs ---------------------
(***************************************************************************)
(* BlockVersions implements Course: what its users see of versions, drafts *)
(* and checkpoints changes only as Course says.                            *)
(*                                                                         *)
(* What shows is three views: of the heads (PublishedContents), of drafts  *)
(* and their bases (DraftContents), and of what the checkpoints name       *)
(* (CheckpointContents).  One lemma for each action says which step of     *)
(* Course it is (StepMaps).  The store merges by version, Course by        *)
(* content: MergedByContent says that the outcome is one.                  *)
(*                                                                         *)
(* A draft may be started from any published version that is not deleted,  *)
(* in Course from any content that was ever published.  That these are the *)
(* same rests on Recorded: every live published version was the head of a  *)
(* course that a checkpoint recorded.                                      *)
(***************************************************************************)
EXTENDS BlockVersionsStepProofs, BlockVersionsCourse, SequenceTheorems

-----------------------------------------------------------------------------
(* What shows of a stack                                                   *)

\* The content of a version: nothing if it is deleted.
LEMMA ContentOf ==
  ASSUME NEW s \in Stack, NEW v \in Present(s)
  PROVE  /\ s[v].deleted => Content(s, v) = Absent
         /\ ~s[v].deleted =>
              /\ Content(s, v) \in CourseContent /\ Content(s, v) # Absent
              /\ Content(s, v).data = s[v].data
              /\ Content(s, v).position = s[v].position
<1>1. s[v] \in VersionRow /\ s[v] # Absent
  BY RowType DEF Present
<1>2. s[v].data \in Data /\ s[v].position \in Position
  BY <1>1 DEF VersionRow
<1>3. ~s[v].deleted => Content(s, v) = [data |-> s[v].data, position |-> s[v].position]
  BY <1>1 DEF Content
<1>4. [data |-> s[v].data, position |-> s[v].position] \in CourseContent
  BY <1>2 DEF CourseContent
<1> QED
  BY <1>1, <1>3, <1>4, AbsentAssumption DEF Content

\* Contents with the same data and position are one.
LEMMA ContentEqual ==
  ASSUME NEW c \in CourseContent, NEW e \in CourseContent,
         c.data = e.data, c.position = e.position
  PROVE  c = e
BY DEF CourseContent

\* A block shows the data and position of its live head, or nothing.
LEMMA PublishedContentOf ==
  ASSUME NEW s, SoundStack(s)
  PROVE  /\ HasLiveHead(s) =>
              /\ PublishedContent(s) \in CourseContent /\ PublishedContent(s) # Absent
              /\ PublishedContent(s).data = HeadRow(s).data
              /\ PublishedContent(s).position = HeadRow(s).position
              /\ PublishedContent(s) = Content(s, HeadVersion(s))
         /\ ~HasLiveHead(s) => PublishedContent(s) = Absent
<1>1. ASSUME HasLiveHead(s)
      PROVE  HeadVersion(s) \in Present(s) /\ ~s[HeadVersion(s)].deleted
  BY <1>1, LiveHeadFacts DEF Published
<1>2. s \in Stack
  BY DEF SoundStack
<1> QED
  BY <1>1, <1>2, ContentOf DEF PublishedContent, HeadRow

\* What the teacher's draft shows: where it started and what it is now.
LEMMA DraftContentOf ==
  ASSUME NEW s, SoundStack(s), NEW u \in Teacher, NEW d \in OwnDrafts(s, u),
         NEW base, base = (IF s[d].base = NoBase THEN Absent ELSE Content(s, s[d].base))
  PROVE  /\ OwnDraft(s, u) = d
         /\ DraftContent(s, u) = [base |-> base, mine |-> Content(s, d)]
         /\ DraftContent(s, u) # Absent
         /\ base \in CourseContent \cup {Absent}
         /\ Content(s, d) \in CourseContent \cup {Absent}
         /\ s[d].base # NoBase => base # Absent
<1>1. OwnDraft(s, u) = d
  BY DEF OwnDraft, SoundStack
<1>2. DraftContent(s, u) = [base |-> base, mine |-> Content(s, d)]
  BY <1>1 DEF DraftContent
<1>3. s \in Stack /\ d \in Present(s) \ Published(s)
  BY DEF SoundStack, OwnDrafts, Published
<1>4. Content(s, d) \in CourseContent \cup {Absent}
  BY <1>3, ContentOf
<1>5. base \in CourseContent \cup {Absent} /\ (s[d].base # NoBase => base # Absent)
  <2>1. CASE s[d].base = NoBase
    BY <2>1
  <2>2. CASE s[d].base # NoBase
    <3>1. PICK v : v = s[d].base
      OBVIOUS
    <3>2. v \in Present(s) /\ ~s[v].deleted
      BY <1>3, <2>2, <3>1 DEF SoundStack, Anchored, Published
    <3> QED
      BY <1>3, <2>2, <3>1, <3>2, ContentOf
  <2> QED
    BY <2>1, <2>2
<1>6. [base |-> base, mine |-> Content(s, d)] \in
        [base : CourseContent \cup {Absent}, mine : CourseContent \cup {Absent}]
  BY <1>4, <1>5
<1> QED
  BY <1>1, <1>2, <1>4, <1>5, <1>6, AbsentAssumption

\* What stays the same when a stack changes.
LEMMA DraftContentKept ==
  ASSUME NEW s, SoundStack(s), NEW t, Keeps(s, t), NEW u \in Teacher,
         OwnDrafts(t, u) = OwnDrafts(s, u),
         \A d \in OwnDrafts(s, u) : t[d] = s[d]
  PROVE  DraftContent(t, u) = DraftContent(s, u)
<1>1. CASE OwnDrafts(s, u) = {}
  BY <1>1 DEF DraftContent
<1>2. CASE OwnDrafts(s, u) # {}
  <2>1. PICK d : d = OwnDraft(s, u)
    OBVIOUS
  <2>2. d \in OwnDrafts(s, u) /\ OwnDraft(t, u) = d
    BY <1>2, <2>1 DEF OwnDraft
  <2>3. t[d] = s[d] /\ Content(t, d) = Content(s, d)
    BY <2>2 DEF Content
  <2>4. s[d].base # NoBase => s[d].base \in Published(s)
    BY <2>2 DEF SoundStack, Anchored, OwnDrafts, Published
  <2>5. s[d].base # NoBase => Content(t, s[d].base) = Content(s, s[d].base)
    BY <2>4 DEF Keeps, Content
  <2> QED
    BY <1>2, <2>1, <2>2, <2>3, <2>5 DEF DraftContent
<1> QED
  BY <1>1, <1>2

\* A step that works for one teacher keeps published versions.
LEMMA TouchesKeeps ==
  ASSUME NEW s, NEW t, NEW a, Touches(s, t, a)
  PROVE  Keeps(s, t)
BY DEF Touches, Keeps, Published, Present

\* A step that works for one teacher does not show in the drafts of another.
LEMMA OthersDraftContent ==
  ASSUME NEW s, SoundStack(s), NEW t, NEW a, Touches(s, t, a),
         NEW u \in Teacher, u # a
  PROVE  DraftContent(t, u) = DraftContent(s, u)
<1>1. /\ OwnDrafts(t, u) = OwnDrafts(s, u)
      /\ \A d \in OwnDrafts(s, u) : t[d] = s[d]
  BY DEF Touches, OwnDrafts, Present
<1> QED
  BY <1>1, TouchesKeeps, DraftContentKept

\* An edit does not show in the published course.
LEMMA EditKeepsPublished ==
  ASSUME NEW s, SoundStack(s), NEW t, SoundEdit(s, t)
  PROVE  PublishedContent(t) = PublishedContent(s)
<1>1. Quiet(s, t) /\ Keeps(s, t)
  BY DEF SoundEdit, SoundStep, Quiet, Keeps, SamePublished
<1>2. (HasLiveHead(t) <=> HasLiveHead(s)) /\ HeadVersion(t) = HeadVersion(s)
  BY <1>1, QuietKeepsHead DEF HeadVersion
<1>3. HasLiveHead(s) => Content(t, HeadVersion(s)) = Content(s, HeadVersion(s))
  BY <1>1, LiveHeadFacts DEF Keeps, Content
<1> QED
  BY <1>2, <1>3 DEF PublishedContent

-----------------------------------------------------------------------------
(* The checkpoints                                                         *)

\* Whatever was ever published and live is in a checkpoint.
Recorded ==
  \A b \in Block : \A v \in Published(blocks[b]) : ~blocks[b][v].deleted =>
    \E i \in 1..Len(checkpoints) : checkpoints[i][b] = v

\* A checkpoint shows the same after versions were added.
LEMMA CheckpointContentKept ==
  ASSUME IInv, \A b \in Block : Keeps(blocks[b], blocks'[b]),
         NEW i \in 1..Len(checkpoints), checkpoints'[i] = checkpoints[i]
  PROVE  CheckpointContent(i)' = CheckpointContent(i)
<1>1. ASSUME NEW b \in Block, NEW v, v = checkpoints[i][b], v # 0
      PROVE  Content(blocks'[b], v) = Content(blocks[b], v)
  BY <1>1 DEF IInv, CheckpointsRestorable, Keeps, Content
<1> QED
  BY <1>1 DEF CheckpointContent

\* The checkpoints are a sequence.
LEMMA CheckpointsSeq ==
  ASSUME IInv
  PROVE  DOMAIN checkpoints = 1..Len(checkpoints) /\ Len(checkpoints) \in Nat
BY DEF IInv, TypeOK

\* The history shows the same while no checkpoint is added.
LEMMA HistoryKept ==
  ASSUME IInv, \A b \in Block : Keeps(blocks[b], blocks'[b]), UNCHANGED checkpoints
  PROVE  CheckpointContents' = CheckpointContents
<1>1. \A i \in DOMAIN checkpoints : CheckpointContent(i)' = CheckpointContent(i)
  BY CheckpointContentKept, CheckpointsSeq
<1> QED
  BY <1>1 DEF CheckpointContents

\* The new checkpoint shows the course as it is published then.
LEMMA HistoryAppended ==
  ASSUME IInv, StacksSound', \A b \in Block : Keeps(blocks[b], blocks'[b]),
         CreateCheckpoint
  PROVE  CheckpointContents' = Append(CheckpointContents, PublishedContents')
<1>1. PICK n \in Nat : n = Len(checkpoints)
  BY CheckpointsSeq
<1>2. /\ checkpoints' \in Seq([Block -> Version \cup {0}])
      /\ Len(checkpoints') = n + 1
      /\ checkpoints'[n + 1] = LiveHeads(blocks')
      /\ \A i \in 1..n : checkpoints'[i] = checkpoints[i]
  <2>1. /\ checkpoints' \in Seq([Block -> Version \cup {0}])
        /\ Len(checkpoints') = Len(checkpoints) + 1
        /\ checkpoints'[Len(checkpoints')] = LiveHeads(blocks')
        /\ \A i \in 1..Len(checkpoints) : checkpoints'[i] = checkpoints[i]
    BY NewCheckpoint
  <2> QED
    BY <1>1, <2>1
<1>3. DOMAIN checkpoints' = 1..(n + 1) /\ DOMAIN checkpoints = 1..n
  BY <1>1, <1>2, CheckpointsSeq
<1>4. \A i \in 1..n : CheckpointContent(i)' = CheckpointContent(i)
  BY <1>1, <1>2, CheckpointContentKept
<1>5. CheckpointContent(n + 1)' = PublishedContents'
  <2>1. ASSUME NEW b \in Block
        PROVE  (IF LiveHeads(blocks')[b] = 0 THEN Absent
                ELSE Content(blocks'[b], LiveHeads(blocks')[b]))
               = PublishedContent(blocks'[b])
    <3>1. HasLiveHead(blocks'[b]) => HeadVersion(blocks'[b]) # 0
      BY LiveHeadFacts, VersionFacts DEF StacksSound
    <3> QED
      BY <3>1 DEF LiveHeads, PublishedContent
  <2> QED
    BY <1>2, <2>1 DEF CheckpointContent, PublishedContents
<1>6. PICK S : S = {CheckpointContents[i] : i \in 1..n} \cup {PublishedContents'}
  OBVIOUS
<1>7. PICK h \in Seq(S) : h = CheckpointContents /\ Len(h) = n
  <2>1. CheckpointContents \in [1..n -> S]
    BY <1>3, <1>6 DEF CheckpointContents
  <2> QED
    BY <2>1
<1>8. PICK e \in S : e = PublishedContents'
  BY <1>6
<1>9. PICK k : k = Append(h, e)
  OBVIOUS
<1>10. /\ k \in Seq(S) /\ Len(k) = n + 1
       /\ \A i \in 1..n : k[i] = h[i]
       /\ k[n + 1] = e
  BY <1>7, <1>8, <1>9, AppendProperties
<1>11. k = [i \in 1..(n + 1) |-> k[i]]
  BY <1>10
<1>12. CheckpointContents' = [i \in 1..(n + 1) |-> CheckpointContent(i)']
  BY <1>3 DEF CheckpointContents
<1>13. \A i \in 1..(n + 1) : k[i] = CheckpointContent(i)'
  <2>1. \A i \in 1..n : h[i] = CheckpointContent(i)
    BY <1>3, <1>7 DEF CheckpointContents
  <2> QED
    BY <1>4, <1>5, <1>8, <1>10, <2>1
<1> QED
  BY <1>7, <1>8, <1>9, <1>11, <1>12, <1>13

\* A live published version shows in the history.
LEMMA RecordedContent ==
  ASSUME IInv, Recorded, NEW b \in Block, NEW v \in Published(blocks[b]),
         ~blocks[b][v].deleted
  PROVE  Content(blocks[b], v) \in AsUsersSeeIt!EverPublished(b)
<1>1. PICK i \in 1..Len(checkpoints) : checkpoints[i][b] = v
  BY DEF Recorded
<1>2. v # 0 /\ Content(blocks[b], v) # Absent
  BY VersionFacts, ContentOf
  DEF Published, Present, IInv, StacksSound, SoundStack
<1>3. i \in DOMAIN CheckpointContents
      /\ CheckpointContents[i][b] = Content(blocks[b], v)
  BY <1>1, <1>2, CheckpointsSeq DEF CheckpointContents, CheckpointContent
<1> QED
  BY <1>2, <1>3 DEF AsUsersSeeIt!EverPublished

\* A block that was never published is in no checkpoint.
LEMMA NothingRecorded ==
  ASSUME IInv, NEW b \in Block, Published(blocks[b]) = {}
  PROVE  AsUsersSeeIt!EverPublished(b) = {}
<1>1. \A i \in 1..Len(checkpoints) : checkpoints[i][b] = 0
  BY DEF IInv, CheckpointsRestorable
<1>2. DOMAIN CheckpointContents = 1..Len(checkpoints)
  BY CheckpointsSeq DEF CheckpointContents
<1>3. \A i \in DOMAIN CheckpointContents : CheckpointContents[i][b] = Absent
  BY <1>1, <1>2 DEF CheckpointContents, CheckpointContent
<1> QED
  BY <1>3 DEF AsUsersSeeIt!EverPublished

-----------------------------------------------------------------------------
(* Edits                                                                   *)

\* An edit of a block shows in its author's draft of that block, and nowhere else.
LEMMA EditViews ==
  ASSUME IInv, EditStep, NEW u \in Teacher, ActsFor(u), NEW b \in Block,
         \A c \in Block : c # b => blocks'[c] = blocks[c]
  PROVE  /\ PublishedContents' = PublishedContents
         /\ CheckpointContents' = CheckpointContents
         /\ DraftContents' =
              [DraftContents EXCEPT ![u][b] = DraftContent(blocks'[b], u)]
<1>1. \A c \in Block : SoundStack(blocks[c]) /\ SoundEdit(blocks[c], blocks'[c])
  BY DEF IInv, StacksSound, EditStep
<1>2. PublishedContents' = PublishedContents
  BY <1>1, EditKeepsPublished DEF PublishedContents
<1>3. CheckpointContents' = CheckpointContents
  BY <1>1, HistoryKept DEF EditStep, SoundEdit, SoundStep
<1>4. \A w \in Teacher, c \in Block : w # u \/ c # b =>
        DraftContent(blocks'[c], w) = DraftContent(blocks[c], w)
  BY <1>1, OthersDraftContent DEF ActsFor
<1>5. DraftContents' =
        [DraftContents EXCEPT ![u][b] = DraftContent(blocks'[b], u)]
  BY <1>4 DEF DraftContents
<1> QED
  BY <1>2, <1>3, <1>5

\* The draft r that u edits, as it was and as the edit leaves it.
LEMMA DraftEdited ==
  ASSUME IInv, Recorded, EditStep, NEW u \in Teacher, ActsFor(u), NEW b \in Block,
         \A c \in Block : c # b => blocks'[c] = blocks[c],
         NEW seen \in Version, NEW d \in Version, CanEdit(blocks[b], u, seen, d),
         NEW r, r = Drafted(blocks[b], u, seen, d),
         NEW row, row.draft, row.createdBy = u, row.base = r[d].base,
         row.deleted => row.base # NoBase,
         row # Absent,
         blocks'[b] = [r EXCEPT ![d] = row]
  PROVE  AsUsersSeeIt!Edit(u, b)
<1>1. PICK s : s = blocks[b]
  OBVIOUS
<1>2. PICK t : t = blocks'[b]
  OBVIOUS
<1>3. SoundStack(s) /\ SoundStack(t) /\ Keeps(s, t)
  BY <1>1, <1>2 DEF IInv, StacksSound, EditStep, SoundEdit, SoundStep
<1>4. t[d] = row
  <2>1. SoundStack(r)
    BY EditedDraft
  <2> QED
    BY <1>2, <2>1 DEF SoundStack, Stack
<1>5. d \in OwnDrafts(t, u)
  BY <1>4 DEF OwnDrafts, Present
<1>6. PICK base : base = (IF t[d].base = NoBase THEN Absent ELSE Content(t, t[d].base))
  OBVIOUS
<1>7. /\ DraftContent(t, u) = [base |-> base, mine |-> Content(t, d)]
      /\ base \in CourseContent \cup {Absent}
      /\ Content(t, d) \in CourseContent \cup {Absent}
      /\ t[d].base # NoBase => base # Absent
  BY <1>3, <1>5, <1>6, DraftContentOf
<1>8. base = Absent => Content(t, d) # Absent
  <2>1. t \in Stack /\ d \in Present(t)
    BY <1>3, <1>5 DEF SoundStack, OwnDrafts
  <2> QED
    BY <1>4, <1>7, <2>1, ContentOf
<1>9. /\ DraftContents[u][b] # Absent => DraftContents[u][b].mine # Absent
      /\ base \in AsUsersSeeIt!Base(u, b)
  <2>1. DraftContents[u][b] = DraftContent(s, u)
    BY <1>1 DEF DraftContents
  <2>2. CASE d = seen
    <3>1. seen \in OwnDrafts(s, u) /\ ~s[seen].deleted /\ r = s
      BY <1>1, <2>2, VersionFacts DEF CanEdit, Published, Drafted
    <3>2. PICK old : old = (IF s[d].base = NoBase THEN Absent ELSE Content(s, s[d].base))
      OBVIOUS
    <3>3. /\ DraftContent(s, u) = [base |-> old, mine |-> Content(s, d)]
          /\ DraftContent(s, u) # Absent
      BY <1>3, <2>2, <3>1, <3>2, DraftContentOf
    <3>4. Content(s, d) # Absent
      <4>1. s \in Stack /\ d \in Present(s)
        BY <1>3, <2>2, <3>1 DEF SoundStack, OwnDrafts
      <4> QED
        BY <2>2, <3>1, <4>1, ContentOf
    <3>5. base = old
      <4>1. t[d].base = s[d].base
        BY <1>4, <3>1
      <4>2. s[d].base # NoBase => s[d].base \in Published(s)
        BY <1>3, <2>2, <3>1 DEF SoundStack, Anchored, OwnDrafts, Published
      <4> QED
        BY <1>3, <1>6, <3>2, <4>1, <4>2 DEF Keeps, Content
    <3>6. AsUsersSeeIt!Base(u, b) = {old}
      BY <2>1, <3>3 DEF AsUsersSeeIt!Base
    <3> QED
      BY <2>1, <3>3, <3>4, <3>5, <3>6
  <2>3. CASE d # seen
    <3>1. /\ OwnDrafts(s, u) = {} /\ seen \in Published(s) /\ ~s[seen].deleted
      BY <1>1, <2>3 DEF CanEdit
    <3>2. r[d].base = seen
      <4>1. s \in Stack /\ s[seen] \in VersionRow
        BY <1>3, <3>1, RowType DEF SoundStack, Published
      <4>2. r[d] = [s[seen] EXCEPT !.draft = TRUE, !.createdBy = u, !.base = seen]
        BY <1>1, <2>3, <4>1 DEF Drafted, Stack
      <4> QED
        BY <4>1, <4>2 DEF VersionRow
    <3>3. base = Content(s, seen)
      BY <1>3, <1>4, <1>6, <3>1, <3>2, VersionFacts DEF Keeps, Content
    <3>4. Content(s, seen) \in AsUsersSeeIt!EverPublished(b)
      BY <1>1, <3>1, RecordedContent
    <3>5. DraftContents[u][b] = Absent
      BY <2>1, <3>1 DEF DraftContent
    <3> QED
      BY <3>3, <3>4, <3>5 DEF AsUsersSeeIt!Base
  <2> QED
    BY <2>2, <2>3
<1>10. PICK draft : draft = [base |-> base, mine |-> Content(t, d)]
  OBVIOUS
<1>11. /\ draft \in [base : AsUsersSeeIt!Base(u, b), mine : AsUsersSeeIt!MaybeContent]
       /\ draft.base = Absent => draft.mine # Absent
       /\ DraftContents' = [DraftContents EXCEPT ![u][b] = draft]
  <2>1. DraftContents' = [DraftContents EXCEPT ![u][b] = draft]
    BY <1>2, <1>7, <1>10, EditViews
  <2> QED
    BY <1>7, <1>8, <1>9, <1>10, <2>1
    DEF AsUsersSeeIt!MaybeContent, AsUsersSeeIt!Content, CourseContent
<1>12. UNCHANGED <<PublishedContents, CheckpointContents>>
  BY EditViews
<1> QED
  BY <1>9, <1>11, <1>12 DEF AsUsersSeeIt!Edit

\* A new block deleted again.
LEMMA DraftDropped ==
  ASSUME IInv, EditStep, NEW u \in Teacher, ActsFor(u), NEW b \in Block,
         \A c \in Block : c # b => blocks'[c] = blocks[c],
         NEW d \in OwnDrafts(blocks[b], u), blocks[b][d].base = NoBase,
         blocks'[b] = Without(blocks[b], d)
  PROVE  AsUsersSeeIt!Drop(u, b)
<1>1. PICK s : s = blocks[b]
  OBVIOUS
<1>2. SoundStack(s)
  BY <1>1 DEF IInv, StacksSound
<1>3. DraftContent(s, u) # Absent /\ DraftContent(s, u).base = Absent
  <2>1. PICK base : base = (IF s[d].base = NoBase THEN Absent ELSE Content(s, s[d].base))
    OBVIOUS
  <2>2. /\ DraftContent(s, u) = [base |-> base, mine |-> Content(s, d)]
        /\ DraftContent(s, u) # Absent
    BY <1>1, <1>2, <2>1, DraftContentOf
  <2> QED
    BY <1>1, <2>1, <2>2
<1>4. OwnDrafts(blocks'[b], u) = {}
  <2>1. \A v \in OwnDrafts(s, u) : v = d
    BY <1>1, <1>2 DEF SoundStack
  <2> QED
    BY <1>1, <1>2, <2>1 DEF Without, OwnDrafts, Present, SoundStack, Stack
<1>5. DraftContent(blocks'[b], u) = Absent
  BY <1>4 DEF DraftContent
<1>6. /\ UNCHANGED <<PublishedContents, CheckpointContents>>
      /\ DraftContents' = [DraftContents EXCEPT ![u][b] = Absent]
  BY <1>5, EditViews
<1>7. DraftContents[u][b] # Absent /\ DraftContents[u][b].base = Absent
  BY <1>1, <1>3 DEF DraftContents
<1> QED
  BY <1>6, <1>7 DEF AsUsersSeeIt!Drop

\* Creating a block is an edit that starts from nothing.
LEMMA CreateBlockMaps ==
  ASSUME IInv, NEW u \in Teacher, NEW b \in Block, NEW x \in Data,
         NEW p \in Position, NewBlock(u, b, x, p)
  PROVE  AsUsersSeeIt!Edit(u, b)
<1>1. PICK row : row = [data |-> x, position |-> p, draft |-> TRUE, deleted |-> FALSE,
                        createdBy |-> u, base |-> NoBase]
  OBVIOUS
<1>2. row # Absent
  <2>1. row \in VersionRow
    BY <1>1 DEF VersionRow
  <2> QED
    BY <2>1, ConstantsAssumption
<1>3. PICK t : t = blocks'[b]
  OBVIOUS
<1>4. blocks' = [blocks EXCEPT ![b] = [EmptyStack EXCEPT ![1] = row]]
      /\ blocks[b] = EmptyStack
  BY <1>1 DEF NewBlock
<1>5. EditStep /\ ActsFor(u)
  BY CreateBlockStep, CreateBlockActs
<1>6. /\ \A c \in Block : c # b => blocks'[c] = blocks[c]
      /\ t = [EmptyStack EXCEPT ![1] = row]
  BY <1>3, <1>4 DEF IInv, TypeOK
<1>7. t[1] = row /\ 1 \in OwnDrafts(t, u) /\ SoundStack(t)
  <2>1. t[1] = row /\ SoundStack(t)
    BY <1>3, <1>5, <1>6, VersionFacts DEF EditStep, SoundEdit, SoundStep, EmptyStack
  <2> QED
    BY <1>1, <1>2, <2>1, VersionFacts DEF OwnDrafts, Present
<1>8. PICK mine : mine = Content(t, 1)
  OBVIOUS
<1>9. DraftContent(t, u) = [base |-> Absent, mine |-> mine]
  <2>1. PICK base : base = (IF t[1].base = NoBase THEN Absent ELSE Content(t, t[1].base))
    OBVIOUS
  <2>2. DraftContent(t, u) = [base |-> base, mine |-> Content(t, 1)]
    BY <1>7, <2>1, DraftContentOf
  <2> QED
    BY <1>1, <1>7, <1>8, <2>1, <2>2
<1>10. mine \in CourseContent /\ mine # Absent
  BY <1>1, <1>7, <1>8, ContentOf DEF OwnDrafts, SoundStack
<1>11. DraftContents[u][b] = Absent /\ AsUsersSeeIt!EverPublished(b) = {}
  <2>1. OwnDrafts(EmptyStack, u) = {} /\ Published(EmptyStack) = {}
    BY DEF OwnDrafts, Published, Present, EmptyStack
  <2> QED
    BY <1>4, <2>1, NothingRecorded DEF DraftContents, DraftContent
<1>12. PICK draft : draft = [base |-> Absent, mine |-> mine]
  OBVIOUS
<1>13. /\ UNCHANGED <<PublishedContents, CheckpointContents>>
       /\ DraftContents' = [DraftContents EXCEPT ![u][b] = draft]
  <2>1. /\ UNCHANGED <<PublishedContents, CheckpointContents>>
        /\ DraftContents' =
             [DraftContents EXCEPT ![u][b] = DraftContent(blocks'[b], u)]
    BY <1>5, <1>6, EditViews
  <2> QED
    BY <1>3, <1>9, <1>12, <2>1
<1>14. /\ draft \in [base : AsUsersSeeIt!Base(u, b), mine : AsUsersSeeIt!MaybeContent]
       /\ draft.base = Absent => draft.mine # Absent
  BY <1>10, <1>11, <1>12
  DEF AsUsersSeeIt!Base, AsUsersSeeIt!MaybeContent, AsUsersSeeIt!Content, CourseContent
<1> QED
  BY <1>11, <1>13, <1>14 DEF AsUsersSeeIt!Edit

\* Patching, moving and deleting a block is an edit, or drops a new block.
LEMMA EditMaps ==
  ASSUME IInv, Recorded, NEW u \in Teacher, NEW b \in Block, NEW seen \in Version,
         NEW d \in Version, NEW x \in Data, NEW p \in Position,
         \/ PatchBlock(u, b, seen, d, x)
         \/ MoveBlock(u, b, seen, d, p)
         \/ DeleteBlockByID(u, b, seen, d)
         \/ b \in TaskBlock /\ UpdateTask(u, b, seen, d, x) /\ d = seen
  PROVE  AsUsersSeeIt!Edit(u, b) \/ AsUsersSeeIt!Drop(u, b)
<1>1. CanDraft(blocks[b], u, seen, d)
  BY DEF PatchBlock, MoveBlock, DeleteBlockByID, UpdateTask
<1>2. PICK r : r = Drafted(blocks[b], u, seen, d)
  OBVIOUS
<1>3. r[d] \in VersionRow /\ r[d].draft = TRUE /\ r[d].deleted = FALSE
  BY <1>1, <1>2, DraftEdits, EditedDraft
<1>4. r[d].createdBy = u
  BY <1>1, <1>2, DraftEdits, DraftedBy
<1>5. ActsFor(u)
  BY EditActs, UpdateTaskActs
<1>6. blocks \in [Block -> Stack]
  BY DEF IInv, TypeOK
<1>7. CASE DeleteBlockByID(u, b, seen, d) /\ r[d].base = NoBase
  <2>1. blocks' = [blocks EXCEPT ![b] = Without(r, d)]
    BY <1>2, <1>7 DEF DeleteBlockByID
  <2>2. EditStep
    BY <1>7, DeleteBlockStep
  <2>3. d = seen
    <3>1. SUFFICES ASSUME d # seen PROVE FALSE
      OBVIOUS
    <3>2. blocks[b][seen] \in VersionRow /\ blocks[b] \in Stack
      BY <1>1, <1>6, <3>1, RowType DEF CanDraft, Published
    <3>3. r[d].base = seen
      <4>1. r[d] = [blocks[b][seen] EXCEPT !.draft = TRUE, !.createdBy = u, !.base = seen]
        BY <1>2, <3>1, <3>2 DEF Drafted, Stack
      <4> QED
        BY <3>2, <4>1 DEF VersionRow
    <3> QED
      BY <1>7, <3>3, VersionFacts
  <2>4. r = blocks[b] /\ d \in OwnDrafts(blocks[b], u)
    BY <1>1, <1>2, <2>3, VersionFacts DEF Drafted, CanDraft, IsNext, Published
  <2>5. blocks'[b] = Without(blocks[b], d) /\ \A c \in Block : c # b => blocks'[c] = blocks[c]
    BY <1>6, <2>1, <2>4
  <2> QED
    BY <1>5, <1>7, <2>2, <2>4, <2>5, DraftDropped
<1>8. CASE ~(DeleteBlockByID(u, b, seen, d) /\ r[d].base = NoBase)
  <2> DEFINE Rewritten ==
        \E row \in VersionRow :
          /\ row.draft /\ row.createdBy = u /\ row.base = r[d].base
          /\ row.deleted => row.base # NoBase
          /\ blocks' = [blocks EXCEPT ![b] = [r EXCEPT ![d] = row]]
  <2>1. Rewritten
    <3>1. ASSUME \/ PatchBlock(u, b, seen, d, x)
                 \/ UpdateTask(u, b, seen, d, x) /\ d = seen
          PROVE  Rewritten
      <4> DEFINE row == [r[d] EXCEPT !.data = x]
      <4>1. /\ row \in VersionRow /\ row.draft /\ row.createdBy = u
            /\ row.base = r[d].base /\ ~row.deleted
        BY <1>3, <1>4 DEF VersionRow
      <4>2. blocks' = [blocks EXCEPT ![b] = [r EXCEPT ![d] = row]]
        BY <1>2, <3>1 DEF PatchBlock, UpdateTask
      <4> QED
        BY <4>1, <4>2
    <3>2. CASE MoveBlock(u, b, seen, d, p)
      <4> DEFINE row == [r[d] EXCEPT !.position = p]
      <4>1. /\ row \in VersionRow /\ row.draft /\ row.createdBy = u
            /\ row.base = r[d].base /\ ~row.deleted
        BY <1>3, <1>4 DEF VersionRow
      <4>2. blocks' = [blocks EXCEPT ![b] = [r EXCEPT ![d] = row]]
        BY <1>2, <3>2 DEF MoveBlock
      <4> QED
        BY <4>1, <4>2
    <3>3. CASE DeleteBlockByID(u, b, seen, d)
      <4> DEFINE row == [r[d] EXCEPT !.deleted = TRUE]
      <4>1. /\ row \in VersionRow /\ row.draft /\ row.createdBy = u
            /\ row.base = r[d].base /\ row.base # NoBase
        BY <1>3, <1>4, <1>8, <3>3 DEF VersionRow
      <4>2. blocks' = [blocks EXCEPT ![b] = [r EXCEPT ![d] = row]]
        BY <1>2, <1>8, <3>3 DEF DeleteBlockByID
      <4> QED
        BY <4>1, <4>2
    <3> HIDE DEF Rewritten
    <3> QED
      BY <3>1, <3>2, <3>3
  <2>2. PICK row \in VersionRow :
          /\ row.draft /\ row.createdBy = u /\ row.base = r[d].base
          /\ row.deleted => row.base # NoBase
          /\ blocks' = [blocks EXCEPT ![b] = [r EXCEPT ![d] = row]]
    BY <2>1 DEF Rewritten
  <2>3. PICK t : t = [r EXCEPT ![d] = row]
    OBVIOUS
  <2>4. blocks'[b] = t /\ \A c \in Block : c # b => blocks'[c] = blocks[c]
    BY <1>6, <2>2, <2>3
  <2>5. EditStep
    <3>1. SoundEdit(blocks[b], t) /\ SoundStep(blocks[b], t)
      BY <1>1, <1>2, <1>4, <2>2, <2>3, DraftEdits, RewriteStep
    <3>2. UNCHANGED checkpoints
      BY DEF PatchBlock, MoveBlock, DeleteBlockByID, UpdateTask
    <3>3. blocks' = [blocks EXCEPT ![b] = t]
      BY <2>2, <2>3
    <3> QED
      BY <3>1, <3>2, <3>3, OneStack DEF EditStep, IInv
  <2>6. row # Absent
    BY ConstantsAssumption
  <2> QED
    BY <1>1, <1>2, <1>5, <2>2, <2>3, <2>4, <2>5, <2>6, DraftEdits, DraftEdited
<1> QED
  BY <1>7, <1>8

-----------------------------------------------------------------------------
(* Publishing                                                              *)

\* The head row of a stack is what is published of it.
LEMMA HeadContent ==
  ASSUME NEW t, SoundStack(t), NEW n \in Version, IsHead(t, n)
  PROVE  /\ HeadVersion(t) = n
         /\ t[n].deleted => PublishedContent(t) = Absent /\ ~HasLiveHead(t)
         /\ ~t[n].deleted => /\ PublishedContent(t) \in CourseContent
                             /\ PublishedContent(t) # Absent
                             /\ PublishedContent(t).data = t[n].data
                             /\ PublishedContent(t).position = t[n].position
<1>1. HeadVersion(t) = n /\ Published(t) # {}
  BY HeadNow
<1>2. HasLiveHead(t) <=> ~t[n].deleted
  BY <1>1 DEF HasLiveHead
<1> QED
  BY <1>1, <1>2, PublishedContentOf DEF HeadRow

\* What publishing a draft leaves: what it publishes is the head, and shows the
\* draft, or its changes over the head.
PublishedShows(s, d, mine, t) ==
  /\ \A v \in Published(t) \ Published(s) : v = HeadVersion(t)
  /\ Outdated(s, d) /\ (HeadRow(s).deleted \/ s[d].deleted) =>
       PublishedContent(t) = Absent
  /\ Outdated(s, d) /\ ~HeadRow(s).deleted /\ ~s[d].deleted =>
       /\ PublishedContent(t) \in CourseContent /\ PublishedContent(t) # Absent
       /\ PublishedContent(t).data = IF mine THEN s[d].data ELSE HeadRow(s).data
       /\ PublishedContent(t).position =
            IF s[d].position # s[s[d].base].position THEN s[d].position
            ELSE HeadRow(s).position
  /\ ~Outdated(s, d) => PublishedContent(t) = Content(s, d)

\* Publishing a draft shows the draft, or its merge with a newer head.
LEMMA PublishDraftShows ==
  ASSUME NEW s, SoundStack(s), NEW d \in Present(s) \ Published(s),
         NEW mine \in BOOLEAN, PublishHasRoom(s, d),
         NEW t, t = PublishDraft(s, d, mine)
  PROVE  PublishedShows(s, d, mine, t)
<1>1. /\ s \in Stack /\ d \in Version /\ s[d] \in VersionRow
      /\ SoundStack(t) /\ Anchored(s, d)
  BY RowType, PublishDraftSound DEF SoundStack, SoundStep
<1>2. PICK rest : rest = Without(s, d)
  OBVIOUS
<1>3. Quiet(s, rest) /\ Published(rest) = Published(s)
  BY <1>2, WithoutSound DEF Quiet, SoundEdit, SoundStep, Keeps, SamePublished
<1>4. CASE Outdated(s, d) /\ HeadRow(s).deleted
  <2>1. t = rest
    BY <1>2, <1>4 DEF PublishDraft, Outdated, HeadRow
  <2>2. ~HasLiveHead(s)
    BY <1>4 DEF HasLiveHead, HeadRow
  <2>3. PublishedContent(t) = Absent
    BY <1>1, <1>3, <2>1, <2>2, QuietKeepsHead, PublishedContentOf
  <2> QED
    BY <1>3, <1>4, <2>1, <2>3 DEF PublishedShows
<1>5. CASE Outdated(s, d) /\ ~HeadRow(s).deleted
  <2>1. PICK n : n = NextVersion(rest)
    OBVIOUS
  <2>2. n \in Version /\ IsNext(rest, n)
    BY <1>2, <1>5, <2>1, NextIsNext DEF PublishHasRoom
  <2>3. s[d].base \in Published(s) /\ HeadVersion(s) \in Published(s)
    BY <1>1, <1>5, HeadIsHead DEF Anchored, Outdated, SoundStack, IsHead
  <2>4. HeadRow(s) \in VersionRow /\ ~HeadRow(s).draft
    BY <1>1, <2>3, RowType DEF Published, HeadRow
  <2>5. PICK row : row = Merge(s[s[d].base], HeadRow(s), s[d], mine)
    OBVIOUS
  <2>6. /\ row \in VersionRow /\ row.draft = FALSE /\ row.deleted = s[d].deleted
        /\ row.data = IF mine /\ ~s[d].deleted THEN s[d].data ELSE HeadRow(s).data
        /\ row.position =
             IF s[d].position # s[s[d].base].position /\ ~s[d].deleted
             THEN s[d].position ELSE HeadRow(s).position
    <3>1. s[s[d].base] \in VersionRow
      BY <1>1, <2>3, RowType DEF Published
    <3> QED
      BY <1>1, <2>4, <2>5, <3>1 DEF Merge, VersionRow
  <2>7. t = [rest EXCEPT ![n] = row]
    BY <1>2, <1>5, <2>1, <2>3, <2>5, VersionFacts
    DEF PublishDraft, HeadRow, Outdated
  <2>8. /\ SoundStack(rest) /\ Published(rest) # {}
        /\ \A w \in Published(rest) : w < n
    BY <1>3, <2>2, <2>3 DEF Quiet, IsNext, Published
  <2>9. IsHead(t, n) /\ t[n] = row
    <3>1. n \in Version /\ row \in VersionRow /\ row.draft = FALSE
      BY <2>2, <2>6
    <3> QED
      BY <2>7, <2>8, <3>1, PublishOnTop
  <2>10. \A v \in Published(t) \ Published(s) : v = HeadVersion(t)
    <3>1. HeadVersion(t) = n
      BY <2>2, <2>9, HeadNow
    <3>2. \A v \in Version : v # n => t[v] = rest[v]
      BY <2>7, <2>8 DEF SoundStack, Stack
    <3> QED
      BY <1>3, <3>1, <3>2 DEF Published, Present
  <2>11. /\ t[n].deleted => PublishedContent(t) = Absent
         /\ ~t[n].deleted => /\ PublishedContent(t) \in CourseContent
                             /\ PublishedContent(t) # Absent
                             /\ PublishedContent(t).data = t[n].data
                             /\ PublishedContent(t).position = t[n].position
    BY <1>1, <2>2, <2>9, HeadContent
  <2> QED
    BY <1>5, <2>6, <2>9, <2>10, <2>11 DEF PublishedShows
<1>6. CASE ~Outdated(s, d)
  <2>0. ~(s[d].base = NoBase /\ s[d].deleted)
    BY <1>1, VersionFacts DEF Anchored, Published, Present
  <2>1. t = InPlace(s, d)
    BY <1>6, <2>0 DEF PublishDraft
  <2>2. /\ IsHead(t, d) /\ t[d] = [s[d] EXCEPT !.draft = FALSE, !.base = NoBase]
        /\ \A v \in Version : v # d => t[v] = s[v]
    BY <1>1, <1>6, <2>0, <2>1, InPlaceSound DEF InPlace, Stack
  <2>3. /\ t[d].deleted = s[d].deleted /\ t[d].data = s[d].data
        /\ t[d].position = s[d].position
    BY <1>1, <2>2 DEF VersionRow
  <2>4. PublishedContent(t) = Content(s, d)
    <3>1. /\ t[d].deleted => PublishedContent(t) = Absent
          /\ ~t[d].deleted => /\ PublishedContent(t) \in CourseContent
                              /\ PublishedContent(t).data = t[d].data
                              /\ PublishedContent(t).position = t[d].position
      BY <1>1, <2>2, HeadContent
    <3>2. /\ s[d].deleted => Content(s, d) = Absent
          /\ ~s[d].deleted => /\ Content(s, d) \in CourseContent
                              /\ Content(s, d).data = s[d].data
                              /\ Content(s, d).position = s[d].position
      BY <1>1, ContentOf
    <3> QED
      BY <2>3, <3>1, <3>2, ContentEqual
  <2>5. \A v \in Published(t) \ Published(s) : v = HeadVersion(t)
    <3>1. HeadVersion(t) = d
      BY <1>1, <2>2, HeadNow
    <3> QED
      BY <2>2, <3>1 DEF Published, Present
  <2> QED
    BY <1>6, <2>4, <2>5 DEF PublishedShows
<1> QED
  BY <1>4, <1>5, <1>6

\* A draft without a conflict is merged by content as it is by version.
LEMMA MergedByContent ==
  ASSUME NEW s, SoundStack(s), NEW u \in Teacher, NEW d \in OwnDrafts(s, u),
         NEW mine \in BOOLEAN, mine = DataMine(s, d),
         ~Conflicting(s, d, mine), PublishHasRoom(s, d),
         NEW t, t = PublishDraft(s, d, mine),
         NEW draft, draft = DraftContent(s, u),
         NEW head, head = PublishedContent(s)
  PROVE  /\ ~AsUsersSeeIt!Conflict(draft.base, head, draft.mine)
         /\ PublishedContent(t) = AsUsersSeeIt!Merged(draft.base, head, draft.mine)
<1>1. PICK base : base = (IF s[d].base = NoBase THEN Absent ELSE Content(s, s[d].base))
  OBVIOUS
<1>2. PICK my : my = Content(s, d)
  OBVIOUS
<1>3. draft.base = base /\ draft.mine = my
  BY <1>1, <1>2, DraftContentOf
<1>4. s \in Stack /\ d \in Present(s) \ Published(s)
  BY DEF SoundStack, OwnDrafts, Published
<1>5. PublishedShows(s, d, mine, t)
  BY <1>4, PublishDraftShows
<1>6. /\ s[d].deleted => my = Absent
      /\ ~s[d].deleted => /\ my \in CourseContent /\ my # Absent
                          /\ my.data = s[d].data /\ my.position = s[d].position
  BY <1>2, <1>4, ContentOf
<1>7. CASE s[d].base = NoBase
  <2>1. base = Absent /\ ~Outdated(s, d) /\ PublishedContent(t) = my
    BY <1>1, <1>2, <1>5, <1>7 DEF Outdated, PublishedShows
  <2>2. my # Absent
    BY <1>4, <1>6, <1>7, VersionFacts DEF SoundStack, Anchored, Published, Present
  <2> QED
    BY <1>3, <2>1, <2>2 DEF AsUsersSeeIt!Conflict, AsUsersSeeIt!Merged
<1>8. CASE s[d].base # NoBase
  <2>1. PICK v : v = s[d].base
    OBVIOUS
  <2>2. v \in Published(s) /\ ~s[v].deleted
    BY <1>4, <1>8, <2>1 DEF SoundStack, Anchored
  <2>3. /\ base \in CourseContent /\ base # Absent
        /\ base.data = s[v].data /\ base.position = s[v].position
    BY <1>1, <1>4, <1>8, <2>1, <2>2, ContentOf DEF Published
  <2>4. mine <=> s[d].data # s[v].data
    BY <1>8, <2>1 DEF DataMine
  <2>5. CASE ~Outdated(s, d)
    <3>1. v = HeadVersion(s)
      BY <1>8, <2>1, <2>5 DEF Outdated
    <3>2. HasLiveHead(s)
      BY <2>2, <3>1 DEF HasLiveHead
    <3>3. head = base
      BY <1>1, <1>8, <2>1, <3>1, <3>2 DEF PublishedContent
    <3>4. PublishedContent(t) = my
      BY <1>2, <1>5, <2>5 DEF PublishedShows
    <3>5. my \in CourseContent => (my.data = base.data /\ my.position = base.position => my = base)
      BY <2>3, ContentEqual
    <3>6. CASE my = Absent
      BY <1>3, <2>3, <3>3, <3>4, <3>6 DEF AsUsersSeeIt!Conflict, AsUsersSeeIt!Merged
    <3>7. CASE my # Absent
      <4>1. my \in CourseContent
        BY <1>6, <3>7
      <4>2. my = [data |-> my.data, position |-> my.position]
        BY <4>1 DEF CourseContent
      <4> QED
        BY <1>3, <2>3, <3>3, <3>4, <3>7, <4>2
        DEF AsUsersSeeIt!Conflict, AsUsersSeeIt!Merged
    <3> QED
      BY <3>6, <3>7
  <2>6. CASE Outdated(s, d) /\ HeadRow(s).deleted
    <3>1. head = Absent /\ PublishedContent(t) = Absent
      <4>1. ~HasLiveHead(s)
        BY <2>6 DEF HasLiveHead, HeadRow
      <4> QED
        BY <1>5, <2>6, <4>1, PublishedContentOf DEF PublishedShows
    <3>2. ~s[d].deleted => ~mine /\ s[d].position = s[v].position
      BY <2>1, <2>6 DEF Conflicting, HeadRow
    <3>3. my = Absent \/ my = base
      BY <1>6, <2>3, <2>4, <3>2, ContentEqual
    <3> QED
      BY <1>3, <2>3, <3>1, <3>3 DEF AsUsersSeeIt!Conflict, AsUsersSeeIt!Merged
  <2>7. CASE Outdated(s, d) /\ ~HeadRow(s).deleted
    <3>1. HasLiveHead(s)
      <4>1. Published(s) # {}
        BY <2>2
      <4> QED
        BY <2>7, <4>1 DEF HasLiveHead, HeadRow
    <3>2. /\ head \in CourseContent /\ head # Absent
          /\ head.data = HeadRow(s).data /\ head.position = HeadRow(s).position
      BY <3>1, PublishedContentOf
    <3>3. CASE s[d].deleted
      <4>1. head.data = base.data /\ head.position = base.position
        BY <2>1, <2>3, <2>7, <3>2, <3>3 DEF Conflicting, HeadRow
      <4>2. head = base /\ my = Absent /\ PublishedContent(t) = Absent
        BY <1>5, <1>6, <2>3, <2>7, <3>2, <3>3, <4>1, ContentEqual DEF PublishedShows
      <4> QED
        BY <1>3, <2>3, <4>2 DEF AsUsersSeeIt!Conflict, AsUsersSeeIt!Merged
    <3>4. CASE ~s[d].deleted
      <4>1. PICK out : out = PublishedContent(t)
        OBVIOUS
      <4>2. /\ out \in CourseContent
            /\ out.data = IF mine THEN s[d].data ELSE HeadRow(s).data
            /\ out.position = IF s[d].position # s[v].position THEN s[d].position
                              ELSE HeadRow(s).position
        BY <1>5, <2>1, <2>7, <3>4, <4>1 DEF PublishedShows
      <4>3. ~(mine /\ head.data # base.data)
        BY <2>1, <2>3, <2>7, <3>2, <3>4 DEF Conflicting, HeadRow
      <4>4. /\ my \in CourseContent /\ my # Absent
            /\ my.data = s[d].data /\ my.position = s[d].position
        BY <1>6, <3>4
      <4>5. ~AsUsersSeeIt!Conflict(base, head, my)
        BY <2>3, <2>4, <3>2, <4>3, <4>4 DEF AsUsersSeeIt!Conflict
      <4>6. CASE my = base
        <5>1. out.data = head.data /\ out.position = head.position
          BY <2>3, <2>4, <3>2, <4>2, <4>4, <4>6
        <5>2. out = head
          BY <3>2, <4>2, <5>1, ContentEqual
        <5> QED
          BY <1>3, <4>1, <4>5, <4>6, <5>2 DEF AsUsersSeeIt!Merged
      <4>7. CASE my # base
        <5>1. out = [data |-> out.data, position |-> out.position]
          BY <4>2 DEF CourseContent
        <5>2. /\ out.data = IF my.data # base.data THEN my.data ELSE head.data
              /\ out.position = IF my.position # base.position THEN my.position
                                ELSE head.position
          BY <2>3, <2>4, <3>2, <4>2, <4>4
        <5>3. AsUsersSeeIt!Merged(base, head, my) =
                [data |-> IF my.data # base.data THEN my.data ELSE head.data,
                 position |-> IF my.position # base.position THEN my.position
                              ELSE head.position]
          BY <2>3, <3>2, <4>4, <4>7 DEF AsUsersSeeIt!Merged
        <5> QED
          BY <1>3, <4>1, <4>5, <5>1, <5>2, <5>3
      <4> QED
        BY <4>6, <4>7
    <3> QED
      BY <3>3, <3>4
  <2> QED
    BY <2>5, <2>6, <2>7
<1> QED
  BY <1>7, <1>8

\* Only one version of a block is published at a time, as its head.
NewIsHead ==
  \A b \in Block :
    \A v \in Published(blocks'[b]) \ Published(blocks[b]) : v = HeadVersion(blocks'[b])

\* Publish.
LEMMA PublishDraftsMaps ==
  ASSUME IInv, NEW u \in Teacher, PublishDrafts(u)
  PROVE  AsUsersSeeIt!Publish(u) /\ NewIsHead
<1>1. PublishStep /\ ActsFor(u)
  BY PublishDraftsStep, PublishDraftsActs
<1>2. /\ \A b \in Block : SoundStack(blocks[b]) /\ SoundStep(blocks[b], blocks'[b])
      /\ StacksSound' /\ CreateCheckpoint
  BY <1>1, ConstantsAssumption
  DEF PublishStep, IInv, StacksSound, SoundStep, SoundStack, Stack
<1>3. ASSUME NEW b \in WithDraft(u)
      PROVE  /\ DraftContents[u][b] # Absent
             /\ ~AsUsersSeeIt!Conflict(DraftContents[u][b].base, PublishedContents[b],
                                       DraftContents[u][b].mine)
             /\ PublishedContents'[b] =
                  AsUsersSeeIt!Merged(DraftContents[u][b].base, PublishedContents[b],
                                      DraftContents[u][b].mine)
             /\ \A v \in Published(blocks'[b]) \ Published(blocks[b]) :
                  v = HeadVersion(blocks'[b])
  <2>1. PICK s : s = blocks[b]
    OBVIOUS
  <2>2. PICK t : t = blocks'[b]
    OBVIOUS
  <2>3. PICK d : d = OwnDraft(s, u)
    OBVIOUS
  <2>4. b \in Block /\ SoundStack(s) /\ d \in OwnDrafts(s, u)
    BY <1>2, <2>1, <2>3 DEF WithDraft, OwnDraft
  <2>5. PICK mine \in BOOLEAN : mine = DataMine(s, d)
    BY DEF DataMine
  <2>6. /\ ~Conflicting(s, d, mine) /\ PublishHasRoom(s, d)
        /\ t = PublishDraft(s, d, mine)
    BY <2>1, <2>2, <2>3, <2>4, <2>5 DEF PublishDrafts
  <2>7. d \in Present(s) \ Published(s)
    BY <2>4 DEF OwnDrafts, Published
  <2>8. \A v \in Published(t) \ Published(s) : v = HeadVersion(t)
    BY <2>4, <2>6, <2>7, PublishDraftShows DEF PublishedShows
  <2>9. PICK draft : draft = DraftContent(s, u)
    OBVIOUS
  <2>10. PICK head : head = PublishedContent(s)
    OBVIOUS
  <2>11. /\ ~AsUsersSeeIt!Conflict(draft.base, head, draft.mine)
         /\ PublishedContent(t) = AsUsersSeeIt!Merged(draft.base, head, draft.mine)
    BY <2>4, <2>5, <2>6, <2>9, <2>10, MergedByContent
  <2>12. DraftContent(s, u) # Absent
    BY <2>4, DraftContentOf
  <2>13. /\ DraftContents[u][b] = draft /\ PublishedContents[b] = head
         /\ PublishedContents'[b] = PublishedContent(t)
    BY <2>1, <2>2, <2>4, <2>9, <2>10 DEF DraftContents, PublishedContents
  <2> QED
    BY <2>1, <2>2, <2>8, <2>9, <2>11, <2>12, <2>13
<1>4. ASSUME NEW b \in Block, b \notin WithDraft(u)
      PROVE  /\ DraftContents[u][b] = Absent /\ blocks'[b] = blocks[b]
             /\ PublishedContents'[b] = PublishedContents[b]
  <2>1. blocks'[b] = blocks[b]
    BY <1>4 DEF PublishDrafts
  <2>2. DraftContents[u][b] = Absent
    BY <1>4 DEF WithDraft, DraftContents, DraftContent
  <2> QED
    BY <2>1, <2>2 DEF PublishedContents
<1>5. WithDraft(u) = {b \in Block : DraftContents[u][b] # Absent} /\ WithDraft(u) # {}
  BY <1>3, <1>4 DEF WithDraft, PublishDrafts
<1>6. PublishedContents' =
        [b \in Block |->
           IF b \in WithDraft(u)
           THEN AsUsersSeeIt!Merged(DraftContents[u][b].base, PublishedContents[b],
                                    DraftContents[u][b].mine)
           ELSE PublishedContents[b]]
  <2>1. PublishedContents' = [b \in Block |-> PublishedContents'[b]]
    BY DEF PublishedContents
  <2> QED
    BY <1>3, <1>4, <2>1
<1>7. CheckpointContents' = Append(CheckpointContents, PublishedContents')
  BY <1>2, HistoryAppended DEF SoundStep
<1>8. DraftContents' = [DraftContents EXCEPT ![u] = [b \in Block |-> Absent]]
  <2>1. \A b \in Block : DraftContent(blocks'[b], u) = Absent
    BY PublishTakesAll DEF DraftContent
  <2>2. \A w \in Teacher, b \in Block : w # u =>
          DraftContent(blocks'[b], w) = DraftContent(blocks[b], w)
    BY <1>1, <1>2, OthersDraftContent DEF ActsFor
  <2> QED
    BY <2>1, <2>2 DEF DraftContents
<1>9. AsUsersSeeIt!Publish(u)
  BY <1>3, <1>5, <1>6, <1>7, <1>8 DEF AsUsersSeeIt!Publish, AsUsersSeeIt!Published
<1>10. NewIsHead
  BY <1>3, <1>4 DEF NewIsHead
<1> QED
  BY <1>9, <1>10

\* CancelEdit.
LEMMA DiscardDraftsMaps ==
  ASSUME IInv, NEW u \in Teacher, DiscardDrafts(u)
  PROVE  AsUsersSeeIt!Discard(u) /\ EditStep
<1>1. EditStep /\ ActsFor(u)
  BY DiscardDraftsStep, DiscardDraftsActs
<1>2. \A b \in Block : SoundStack(blocks[b]) /\ SoundEdit(blocks[b], blocks'[b])
  BY <1>1 DEF IInv, StacksSound, EditStep
<1>3. PublishedContents' = PublishedContents
  BY <1>2, EditKeepsPublished DEF PublishedContents
<1>4. CheckpointContents' = CheckpointContents
  BY <1>1, <1>2, HistoryKept DEF EditStep, SoundEdit, SoundStep
<1>5. \A b \in Block : DraftContent(blocks'[b], u) = Absent
  BY DEF DiscardDrafts, DraftContent, OwnDrafts, Present
<1>6. \A w \in Teacher, b \in Block : w # u =>
        DraftContent(blocks'[b], w) = DraftContent(blocks[b], w)
  BY <1>1, <1>2, OthersDraftContent DEF ActsFor
<1>7. DraftContents' = [DraftContents EXCEPT ![u] = [b \in Block |-> Absent]]
  BY <1>5, <1>6 DEF DraftContents
<1> QED
  BY <1>1, <1>3, <1>4, <1>7 DEF AsUsersSeeIt!Discard

\* UpdateTask of a task block without a draft of its own.
LEMMA TaskUpdatedShows ==
  ASSUME IInv, NEW u \in Teacher, NEW b \in Block, NEW seen \in Version,
         NEW d \in Version, NEW x \in Data, TaskPublishedStep(u, b, seen, d, x),
         NEW s, s = blocks[b], NEW t, t = blocks'[b]
  PROVE  /\ PublishedContent(s) # Absent
         /\ PublishedContent(t) = [PublishedContent(s) EXCEPT !.data = x]
         /\ DraftContent(s, u) = Absent /\ DraftContent(t, u) = Absent
         /\ \A v \in Published(t) \ Published(s) : v = HeadVersion(t)
<1>1. PICK mine \in BOOLEAN : mine = TRUE
  OBVIOUS
<1>2. PICK r : r = TaskDraft(s, u, seen, d, x)
  OBVIOUS
<1>3. /\ d # seen /\ CanDraft(s, u, seen, d)
      /\ ~Conflicting(r, d, mine) /\ PublishHasRoom(r, d)
      /\ t = PublishDraft(r, d, mine)
  BY <1>1, <1>2 DEF TaskPublishedStep, UpdateTask, TaskDraft
<1>4. /\ Quiet(s, r) /\ HeadRow(r) = HeadRow(s)
      /\ SoundStack(r) /\ d \in Present(r) \ Published(r)
      /\ r[d].data = x /\ ~r[d].deleted
      /\ r[d].base = seen /\ seen \in Published(s)
      /\ r[seen] = s[seen]
  BY <1>2, TaskPublished
<1>5. SoundStack(s) /\ s \in Stack
  BY DEF IInv, StacksSound, SoundStack
<1>6. ~s[seen].deleted /\ OwnDrafts(s, u) = {} /\ d \notin Present(s) /\ seen # NoBase
  BY <1>3, <1>4, VersionFacts DEF CanDraft, IsNext, Published, Present
<1>7. /\ \A v \in Version : v # d => r[v] = s[v]
      /\ r[d].position = s[seen].position
  <2>1. PICK q : q = Drafted(s, u, seen, d)
    OBVIOUS
  <2>2. PICK row : row = [s[seen] EXCEPT !.draft = TRUE, !.createdBy = u, !.base = seen]
    OBVIOUS
  <2>3. q = [s EXCEPT ![d] = row]
    BY <1>3, <2>1, <2>2 DEF Drafted
  <2>4. s[seen] \in VersionRow
    BY <1>4, <1>5, RowType DEF Published
  <2>5. row \in VersionRow /\ row.position = s[seen].position
    BY <1>4, <2>2, <2>4 DEF VersionRow, Published, Present
  <2>6. q[d] = row /\ \A v \in Version : v # d => q[v] = s[v]
    BY <1>5, <2>3 DEF Stack
  <2>7. r = [q EXCEPT ![d].data = x]
    BY <1>2, <2>1 DEF TaskDraft
  <2>8. q \in [Version -> VersionRow \cup {Absent}]
    BY <1>5, <2>3, <2>5 DEF Stack
  <2>9. r[d] = [row EXCEPT !.data = x] /\ \A v \in Version : v # d => r[v] = q[v]
    BY <2>6, <2>7, <2>8
  <2>10. r[d].position = row.position
    BY <2>5, <2>9 DEF VersionRow
  <2> QED
    BY <2>5, <2>6, <2>9, <2>10
<1>8. PublishedShows(r, d, mine, t)
  BY <1>3, <1>4, PublishDraftShows
<1>9. Published(r) = Published(s) /\ HeadVersion(r) = HeadVersion(s)
      /\ (HasLiveHead(r) <=> HasLiveHead(s))
  BY <1>4, <1>5, QuietKeepsHead DEF Quiet, HeadVersion
<1>10. HasLiveHead(s)
  <2>1. CASE Outdated(r, d)
    <3>1. ~HeadRow(r).deleted
      BY <1>1, <1>3, <1>4, <2>1 DEF Conflicting, HeadRow
    <3> QED
      BY <1>4, <3>1 DEF HasLiveHead, HeadRow
  <2>2. CASE ~Outdated(r, d)
    BY <1>4, <1>6, <1>9, <2>2 DEF Outdated, HasLiveHead
  <2> QED
    BY <2>1, <2>2
<1>11. PICK head : head = PublishedContent(s)
  OBVIOUS
<1>12. /\ head \in CourseContent /\ head # Absent
       /\ head.data = HeadRow(s).data /\ head.position = HeadRow(s).position
  BY <1>5, <1>10, <1>11, PublishedContentOf
<1>13. PICK out : out = PublishedContent(t)
  OBVIOUS
<1>14. out \in CourseContent /\ out.data = x /\ out.position = head.position
  <2>1. CASE Outdated(r, d)
    <3>1. ~HeadRow(r).deleted
      BY <1>1, <1>3, <1>4, <2>1 DEF Conflicting, HeadRow
    <3> QED
      BY <1>1, <1>4, <1>7, <1>8, <1>12, <1>13, <2>1, <3>1 DEF PublishedShows
  <2>2. CASE ~Outdated(r, d)
    <3>1. seen = HeadVersion(s)
      BY <1>4, <1>6, <1>9, <2>2 DEF Outdated
    <3>2. out = Content(r, d)
      BY <1>8, <1>13, <2>2 DEF PublishedShows
    <3>3. /\ Content(r, d) \in CourseContent /\ Content(r, d).data = r[d].data
          /\ Content(r, d).position = r[d].position
      BY <1>4, ContentOf DEF SoundStack
    <3> QED
      BY <1>4, <1>7, <1>12, <3>1, <3>2, <3>3 DEF HeadRow
  <2> QED
    BY <2>1, <2>2
<1>15. out = [head EXCEPT !.data = x]
  <2>1. [head EXCEPT !.data = x] = [data |-> x, position |-> head.position]
    BY <1>12 DEF CourseContent
  <2>2. out = [data |-> out.data, position |-> out.position]
    BY <1>14 DEF CourseContent
  <2> QED
    BY <1>14, <2>1, <2>2
<1>16. OwnDrafts(t, u) = {}
  <2>1. \A v \in Version : \/ v # d /\ t[v] = r[v]
                           \/ v = d /\ v \notin Present(t)
                           \/ v \in Published(t)
    BY <1>3, <1>4, PublishDraftChanges
  <2> QED
    BY <1>6, <1>7, <2>1 DEF OwnDrafts, Published, Present
<1>17. \A v \in Published(t) \ Published(s) : v = HeadVersion(t)
  BY <1>8, <1>9 DEF PublishedShows
<1> QED
  BY <1>6, <1>11, <1>12, <1>13, <1>15, <1>16, <1>17 DEF DraftContent

\* Updating the task of a published block is an update.
LEMMA UpdateTaskMaps ==
  ASSUME IInv, NEW u \in Teacher, NEW b \in TaskBlock, NEW seen \in Version,
         NEW d \in Version, NEW x \in Data, UpdateTask(u, b, seen, d, x), d # seen
  PROVE  AsUsersSeeIt!Update(b) /\ NewIsHead /\ PublishStep
<1>1. ActsFor(u) /\ b \in Block
  BY UpdateTaskActs, ConstantsAssumption
<1>2. /\ CreateCheckpoint
      /\ blocks' = [blocks EXCEPT ![b] =
           PublishDraft(TaskDraft(blocks[b], u, seen, d, x), d, TRUE)]
  BY DEF UpdateTask, TaskDraft
<1>3. TaskPublishedStep(u, b, seen, d, x)
      /\ \A c \in Block : c # b => blocks'[c] = blocks[c]
  BY <1>1, <1>2 DEF TaskPublishedStep, IInv, TypeOK
<1>4. PublishStep
  <2>1. CASE PublishStep
    BY <2>1
  <2>2. CASE EditStep
    <3>1. UNCHANGED checkpoints
      BY <2>2 DEF EditStep
    <3>2. Len(checkpoints') = Len(checkpoints) + 1
      BY <1>2 DEF CreateCheckpoint, IInv, TypeOK
    <3> QED
      BY <3>1, <3>2, CheckpointsSeq
  <2> QED
    BY <1>1, <2>1, <2>2, UpdateTaskStep
<1>5. /\ \A c \in Block : SoundStack(blocks[c]) /\ SoundStep(blocks[c], blocks'[c])
      /\ StacksSound'
  BY <1>4 DEF PublishStep, IInv, StacksSound, SoundStep
<1>6. /\ PublishedContent(blocks[b]) # Absent
      /\ PublishedContent(blocks'[b]) = [PublishedContent(blocks[b]) EXCEPT !.data = x]
      /\ DraftContent(blocks[b], u) = Absent /\ DraftContent(blocks'[b], u) = Absent
      /\ \A v \in Published(blocks'[b]) \ Published(blocks[b]) : v = HeadVersion(blocks'[b])
  BY <1>1, <1>3, TaskUpdatedShows
<1>7. PublishedContents' = [PublishedContents EXCEPT ![b].data = x]
  <2>1. PICK out : out = [PublishedContent(blocks[b]) EXCEPT !.data = x]
    OBVIOUS
  <2>2. PublishedContents' = [PublishedContents EXCEPT ![b] = out]
    BY <1>3, <1>6, <2>1 DEF PublishedContents
  <2>3. PublishedContents[b] = PublishedContent(blocks[b])
    BY <1>1 DEF PublishedContents
  <2> QED
    BY <2>1, <2>2, <2>3
<1>8. CheckpointContents' = Append(CheckpointContents, PublishedContents')
  BY <1>2, <1>5, HistoryAppended DEF SoundStep
<1>9. DraftContents' = DraftContents
  <2>1. \A w \in Teacher, c \in Block :
          DraftContent(blocks'[c], w) = DraftContent(blocks[c], w)
    BY <1>1, <1>3, <1>5, <1>6, OthersDraftContent DEF ActsFor
  <2> QED
    BY <2>1 DEF DraftContents
<1>10. PublishedContents[b] # Absent
  BY <1>1, <1>6 DEF PublishedContents
<1>11. AsUsersSeeIt!Update(b)
  BY <1>7, <1>8, <1>9, <1>10 DEF AsUsersSeeIt!Update, AsUsersSeeIt!Published
<1>12. NewIsHead
  BY <1>3, <1>6 DEF NewIsHead
<1> QED
  BY <1>4, <1>11, <1>12

-----------------------------------------------------------------------------
(* Restoring                                                               *)

\* Publishing a new version on top keeps what the drafts show.
LEMMA OnTopShows ==
  ASSUME NEW s, SoundStack(s), NEW t, NEW n, n = HeadVersion(t),
         n \in Version \ Present(s), IsHead(t, n),
         \A w \in Version : w # n => t[w] = s[w]
  PROVE  /\ \A w \in Teacher : DraftContent(t, w) = DraftContent(s, w)
         /\ \A v \in Published(t) \ Published(s) : v = HeadVersion(t)
<1>1. Keeps(s, t)
  BY DEF Keeps, Published, Present
<1>2. \A w \in Teacher : /\ OwnDrafts(t, w) = OwnDrafts(s, w)
                         /\ \A d \in OwnDrafts(s, w) : t[d] = s[d]
  BY DEF OwnDrafts, Present, IsHead, Published
<1>3. \A v \in Published(t) \ Published(s) : v = HeadVersion(t)
  BY DEF Published, Present
<1> QED
  BY <1>1, <1>2, <1>3, DraftContentKept

\* A restored block shows what the checkpoint shows of it.
LEMMA RestoredShows ==
  ASSUME IInv, NEW u \in Teacher, NEW i \in 1..Len(checkpoints),
         RestoreCheckpoint(u, i), NEW b \in Block, NEW s, s = blocks[b],
         NEW t, t = blocks'[b], NEW v, v = checkpoints[i][b], SoundStack(t)
  PROVE  /\ PublishedContent(t) = (IF v = 0 THEN Absent ELSE Content(s, v))
         /\ \A w \in Teacher : DraftContent(t, w) = DraftContent(s, w)
         /\ \A w \in Published(t) \ Published(s) : w = HeadVersion(t)
<1>1. SoundStack(s) /\ (v # 0 => v \in Published(s) /\ ~s[v].deleted)
  BY DEF IInv, StacksSound, CheckpointsRestorable
<1>2. /\ HasLiveHead(t) <=> v # 0
      /\ v # 0 => HeadRow(t).data = s[v].data /\ HeadRow(t).position = s[v].position
  BY RestoredBlock
<1>3. PublishedContent(t) = (IF v = 0 THEN Absent ELSE Content(s, v))
  <2>1. CASE v = 0
    BY <1>2, <2>1, PublishedContentOf
  <2>2. CASE v # 0
    <3>1. v \in Present(s) /\ ~s[v].deleted /\ s \in Stack
      BY <1>1, <2>2 DEF Published, SoundStack
    <3>2. /\ Content(s, v) \in CourseContent /\ Content(s, v).data = s[v].data
          /\ Content(s, v).position = s[v].position
      BY <3>1, ContentOf
    <3>3. /\ PublishedContent(t) \in CourseContent
          /\ PublishedContent(t).data = HeadRow(t).data
          /\ PublishedContent(t).position = HeadRow(t).position
      BY <1>2, <2>2, PublishedContentOf
    <3> QED
      BY <1>2, <2>2, <3>2, <3>3, ContentEqual
  <2> QED
    BY <2>1, <2>2
<1>4. /\ Restored(s, v) => HasRoom(s) /\ t = Republish(s, v, u, FALSE)
      /\ Removed(s, v) => HasRoom(s) /\ t = Republish(s, HeadVersion(s), u, TRUE)
      /\ ~Restored(s, v) /\ ~Removed(s, v) => t = s
  BY DEF RestoreCheckpoint, Restored, Removed
<1>5. CASE ~Restored(s, v) /\ ~Removed(s, v)
  BY <1>3, <1>4, <1>5
<1>6. CASE Restored(s, v) \/ Removed(s, v)
  <2>1. \E deleted \in BOOLEAN, w \in Published(s) :
          HasRoom(s) /\ t = Republish(s, w, u, deleted)
    <3>1. CASE Restored(s, v)
      BY <1>1, <1>4, <3>1 DEF Restored
    <3>2. CASE Removed(s, v)
      <4>1. HeadVersion(s) \in Published(s)
        BY <1>1, <3>2, LiveHeadFacts DEF Removed
      <4> QED
        BY <1>4, <3>2, <4>1
    <3> QED
      BY <1>6, <3>1, <3>2
  <2>2. /\ HeadVersion(t) \in Version \ Present(s) /\ IsHead(t, HeadVersion(t))
        /\ \A w \in Version : w # HeadVersion(t) => t[w] = s[w]
    BY <1>1, <2>1, RepublishHead
  <2> QED
    BY <1>1, <1>3, <2>2, OnTopShows
<1> QED
  BY <1>5, <1>6

\* Restoring a checkpoint is a restore.
LEMMA RestoreMaps ==
  ASSUME IInv, NEW u \in Teacher, NEW i \in 1..Len(checkpoints),
         RestoreCheckpoint(u, i)
  PROVE  AsUsersSeeIt!Restore /\ NewIsHead /\ PublishStep
<1>1. PublishStep
  BY RestoreCheckpointStep
<1>2. /\ \A c \in Block : SoundStack(blocks[c]) /\ SoundStep(blocks[c], blocks'[c])
      /\ StacksSound' /\ CreateCheckpoint
  BY <1>1 DEF PublishStep, IInv, StacksSound, SoundStep
<1>3. ASSUME NEW b \in Block
      PROVE  /\ PublishedContent(blocks'[b]) =
                  (IF checkpoints[i][b] = 0 THEN Absent
                   ELSE Content(blocks[b], checkpoints[i][b]))
             /\ \A w \in Teacher : DraftContent(blocks'[b], w) = DraftContent(blocks[b], w)
             /\ \A w \in Published(blocks'[b]) \ Published(blocks[b]) :
                  w = HeadVersion(blocks'[b])
  <2>1. SoundStack(blocks'[b])
    BY <1>2 DEF SoundStep
  <2> QED
    BY <2>1, RestoredShows
<1>4. PublishedContents' = CheckpointContents[i] /\ i \in DOMAIN CheckpointContents
  <2>1. i \in DOMAIN CheckpointContents /\ CheckpointContents[i] = CheckpointContent(i)
    BY CheckpointsSeq DEF CheckpointContents
  <2> QED
    BY <1>3, <2>1 DEF PublishedContents, CheckpointContent
<1>5. CheckpointContents' = Append(CheckpointContents, PublishedContents')
  BY <1>2, HistoryAppended DEF SoundStep
<1>6. DraftContents' = DraftContents
  BY <1>3 DEF DraftContents
<1>7. AsUsersSeeIt!Restore
  BY <1>4, <1>5, <1>6 DEF AsUsersSeeIt!Restore, AsUsersSeeIt!Published
<1> QED
  BY <1>1, <1>3, <1>7 DEF NewIsHead

-----------------------------------------------------------------------------
(* Renumbering                                                             *)

\* A content at its new position.
Moved(f, c) == IF c = Absent THEN Absent ELSE [c EXCEPT !.position = f[@]]

\* After a rebalance a version shows the same data at its new position.
LEMMA MovedContent ==
  ASSUME NEW s, SoundStack(s), NEW f \in [Position -> Position],
         NEW t, t = Remap(s, f), NEW v \in Present(s)
  PROVE  /\ Content(t, v) = Moved(f, Content(s, v))
         /\ v \in Present(t) /\ t[v].draft = s[v].draft
         /\ t[v].deleted = s[v].deleted /\ t[v].createdBy = s[v].createdBy
         /\ t[v].base = s[v].base
<1>1. /\ s \in Stack /\ v \in Version /\ s[v] \in VersionRow /\ s[v] # Absent
  BY RowType DEF SoundStack, Present
<1>2. t[v] = [s[v] EXCEPT !.position = f[s[v].position]]
  BY <1>1 DEF Remap
<1>3. /\ t[v] \in VersionRow /\ t[v].position = f[s[v].position]
      /\ t[v].data = s[v].data /\ t[v].draft = s[v].draft
      /\ t[v].deleted = s[v].deleted /\ t[v].createdBy = s[v].createdBy
      /\ t[v].base = s[v].base
  <2>1. s[v].position \in Position
    BY <1>1 DEF VersionRow
  <2> QED
    BY <1>1, <1>2, <2>1 DEF VersionRow
<1>4. t[v] # Absent
  BY <1>3, ConstantsAssumption
<1>5. CASE s[v].deleted
  BY <1>1, <1>3, <1>4, <1>5 DEF Content, Moved, Present
<1>6. CASE ~s[v].deleted
  <2>1. PICK c : c = Content(s, v)
    OBVIOUS
  <2>2. /\ c \in CourseContent /\ c # Absent
        /\ c.data = s[v].data /\ c.position = s[v].position
    BY <1>1, <1>6, <2>1, ContentOf
  <2>3. Moved(f, c) = [data |-> c.data, position |-> f[c.position]]
    BY <2>2 DEF Moved, CourseContent
  <2>4. Content(t, v) = [data |-> t[v].data, position |-> t[v].position]
    BY <1>3, <1>4, <1>6 DEF Content
  <2> QED
    BY <1>1, <1>3, <1>4, <2>1, <2>2, <2>3, <2>4 DEF Present
<1> QED
  BY <1>5, <1>6

\* After a rebalance a block and its drafts show the same at their new positions.
LEMMA MovedStack ==
  ASSUME NEW s, SoundStack(s), NEW f \in [Position -> Position],
         NEW t, t = Remap(s, f), NEW u \in Teacher
  PROVE  /\ PublishedContent(t) = Moved(f, PublishedContent(s))
         /\ DraftContent(s, u) = Absent => DraftContent(t, u) = Absent
         /\ DraftContent(s, u) # Absent =>
              DraftContent(t, u) = [base |-> Moved(f, DraftContent(s, u).base),
                                    mine |-> Moved(f, DraftContent(s, u).mine)]
<1>1. Quiet(s, t) /\ SoundStack(t)
  BY RemapSound DEF Quiet
<1>2. PublishedContent(t) = Moved(f, PublishedContent(s))
  <2>1. (HasLiveHead(t) <=> HasLiveHead(s)) /\ HeadVersion(t) = HeadVersion(s)
    BY <1>1, QuietKeepsHead DEF HeadVersion
  <2>2. HasLiveHead(s) => HeadVersion(s) \in Present(s)
    BY LiveHeadFacts DEF Published
  <2> QED
    BY <2>1, <2>2, MovedContent DEF PublishedContent, Moved
<1>3. OwnDrafts(t, u) = OwnDrafts(s, u)
  <2>1. \A v \in Version : v \notin Present(s) => v \notin Present(t)
    BY DEF Remap, Present
  <2> QED
    BY <2>1, MovedContent DEF OwnDrafts, Present
<1>4. CASE OwnDrafts(s, u) = {}
  BY <1>2, <1>3, <1>4 DEF DraftContent
<1>5. CASE OwnDrafts(s, u) # {}
  <2>1. PICK d \in OwnDrafts(s, u) : TRUE
    BY <1>5
  <2>2. PICK base : base = (IF s[d].base = NoBase THEN Absent ELSE Content(s, s[d].base))
    OBVIOUS
  <2>3. PICK new : new = (IF t[d].base = NoBase THEN Absent ELSE Content(t, t[d].base))
    OBVIOUS
  <2>4. /\ DraftContent(s, u) = [base |-> base, mine |-> Content(s, d)]
        /\ DraftContent(s, u) # Absent
    BY <2>1, <2>2, DraftContentOf
  <2>5. DraftContent(t, u) = [base |-> new, mine |-> Content(t, d)]
    BY <1>1, <1>3, <2>1, <2>3, DraftContentOf
  <2>6. d \in Present(s) \ Published(s)
    BY <2>1 DEF OwnDrafts, Published
  <2>7. t[d].base = s[d].base /\ Content(t, d) = Moved(f, Content(s, d))
    BY <2>6, MovedContent
  <2>8. new = Moved(f, base)
    <3>1. CASE s[d].base = NoBase
      BY <2>2, <2>3, <2>7, <3>1 DEF Moved
    <3>2. CASE s[d].base # NoBase
      <4>1. PICK v : v = s[d].base
        OBVIOUS
      <4>2. v \in Present(s)
        BY <2>6, <3>2, <4>1 DEF SoundStack, Anchored, Published
      <4> QED
        BY <2>2, <2>3, <2>7, <3>2, <4>1, <4>2, MovedContent
    <3> QED
      BY <3>1, <3>2
  <2> QED
    BY <1>2, <2>4, <2>5, <2>7, <2>8
<1> QED
  BY <1>2, <1>4, <1>5

\* The position of what shows of a stack is in use.
LEMMA ShownPosition ==
  ASSUME IInv, NEW b \in Block, NEW v \in Present(blocks[b]), ~blocks[b][v].deleted
  PROVE  Content(blocks[b], v).position \in UsedPositions
<1>1. blocks[b] \in Stack
  BY DEF IInv, StacksSound, SoundStack
<1>2. blocks[b][v] # Absent /\ v \in Version /\ blocks[b][v].position \in Position
  BY <1>1, RowType DEF Present, VersionRow
<1>3. Content(blocks[b], v).position = blocks[b][v].position
  BY <1>1, ContentOf
<1> QED
  BY <1>2, <1>3 DEF UsedPositions

\* The position that a version shows is in use.
LEMMA ShownUsed ==
  ASSUME IInv, NEW b \in Block, NEW v \in Present(blocks[b]),
         Content(blocks[b], v) # Absent
  PROVE  Content(blocks[b], v).position \in UsedPositions
<1>1. blocks[b] \in Stack
  BY DEF IInv, StacksSound, SoundStack
<1>2. ~blocks[b][v].deleted
  BY <1>1, ContentOf
<1> QED
  BY <1>2, ShownPosition

\* A position that a checkpoint shows is in use.
LEMMA HistoryUsed ==
  ASSUME IInv, NEW i \in DOMAIN CheckpointContents, NEW b \in Block,
         CheckpointContents[i][b] # Absent
  PROVE  CheckpointContents[i][b].position \in UsedPositions
<1>1. i \in 1..Len(checkpoints)
  BY CheckpointsSeq DEF CheckpointContents
<1>2. PICK v : v = checkpoints[i][b]
  OBVIOUS
<1>3. v # 0 /\ CheckpointContents[i][b] = Content(blocks[b], v)
  BY <1>1, <1>2, CheckpointsSeq DEF CheckpointContents, CheckpointContent
<1>4. v \in Present(blocks[b])
  BY <1>1, <1>2, <1>3 DEF IInv, CheckpointsRestorable, Published
<1> QED
  BY <1>3, <1>4, ShownUsed

\* A position that a draft or its base shows is in use.
LEMMA DraftUsed ==
  ASSUME IInv, NEW u \in Teacher, NEW b \in Block, DraftContents[u][b] # Absent,
         NEW c \in {DraftContents[u][b].base, DraftContents[u][b].mine}, c # Absent
  PROVE  c.position \in UsedPositions
<1>1. PICK s : s = blocks[b]
  OBVIOUS
<1>2. SoundStack(s) /\ DraftContents[u][b] = DraftContent(s, u)
  BY <1>1 DEF IInv, StacksSound, DraftContents
<1>3. PICK d \in OwnDrafts(s, u) : TRUE
  BY <1>2 DEF DraftContent
<1>4. PICK base : base = (IF s[d].base = NoBase THEN Absent ELSE Content(s, s[d].base))
  OBVIOUS
<1>5. DraftContent(s, u) = [base |-> base, mine |-> Content(s, d)]
  BY <1>2, <1>3, <1>4, DraftContentOf
<1>6. d \in Present(s) \ Published(s)
  BY <1>3 DEF OwnDrafts, Published
<1>7. CASE c = Content(s, d)
  BY <1>1, <1>6, <1>7, ShownUsed
<1>8. CASE c = base /\ s[d].base # NoBase
  <2>1. PICK v : v = s[d].base
    OBVIOUS
  <2>2. v \in Present(s)
    BY <1>2, <1>6, <1>8, <2>1 DEF SoundStack, Anchored, Published
  <2> QED
    BY <1>1, <1>4, <1>8, <2>1, <2>2, ShownUsed
<1> QED
  BY <1>2, <1>4, <1>5, <1>7, <1>8

\* RebalanceBlockPositions.
LEMMA RebalanceMaps ==
  ASSUME IInv, NEW f \in [Position -> Position], RebalanceBlockPositions(f)
  PROVE  AsUsersSeeIt!Renumber
<1>1. \A b \in Block : SoundStack(blocks[b]) /\ blocks'[b] = Remap(blocks[b], f)
  BY DEF IInv, StacksSound, RebalanceBlockPositions
<1>2. UNCHANGED checkpoints
  BY DEF RebalanceBlockPositions
<1>3. PublishedContents' = [b \in Block |-> Moved(f, PublishedContents[b])]
  <2>1. ASSUME NEW b \in Block
        PROVE  PublishedContent(blocks'[b]) = Moved(f, PublishedContent(blocks[b]))
    <3>1. PICK s : s = blocks[b]
      OBVIOUS
    <3>2. PICK t : t = blocks'[b]
      OBVIOUS
    <3>3. SoundStack(s) /\ t = Remap(s, f)
      BY <1>1, <3>1, <3>2
    <3>4. (HasLiveHead(t) <=> HasLiveHead(s)) /\ HeadVersion(t) = HeadVersion(s)
      BY <3>3, RemapSound, QuietKeepsHead DEF HeadVersion
    <3>5. HasLiveHead(s) => HeadVersion(s) \in Present(s)
      BY <3>3, LiveHeadFacts DEF Published
    <3> QED
      BY <3>1, <3>2, <3>3, <3>4, <3>5, MovedContent DEF PublishedContent, Moved
  <2> QED
    BY <2>1 DEF PublishedContents
<1>4. CheckpointContents' =
        [i \in DOMAIN CheckpointContents |->
           [b \in Block |-> Moved(f, CheckpointContents[i][b])]]
  <2>1. ASSUME NEW i \in 1..Len(checkpoints), NEW b \in Block, NEW v,
               v = checkpoints[i][b], v # 0
        PROVE  Content(blocks'[b], v) = Moved(f, Content(blocks[b], v))
    <3>1. v \in Present(blocks[b])
      BY <2>1 DEF IInv, CheckpointsRestorable, Published
    <3> QED
      BY <1>1, <3>1, MovedContent
  <2>2. \A i \in 1..Len(checkpoints) :
          CheckpointContent(i)' = [b \in Block |-> Moved(f, CheckpointContent(i)[b])]
    BY <1>2, <2>1 DEF CheckpointContent, Moved
  <2>3. DOMAIN CheckpointContents = 1..Len(checkpoints)
        /\ DOMAIN checkpoints = 1..Len(checkpoints)
    BY CheckpointsSeq DEF CheckpointContents
  <2> QED
    BY <1>2, <2>2, <2>3 DEF CheckpointContents
<1>5. DraftContents' =
        [u \in Teacher |-> [b \in Block |->
           IF DraftContents[u][b] = Absent THEN Absent
           ELSE [base |-> Moved(f, DraftContents[u][b].base),
                 mine |-> Moved(f, DraftContents[u][b].mine)]]]
  <2>1. \A u \in Teacher, b \in Block :
          /\ DraftContent(blocks[b], u) = Absent => DraftContent(blocks'[b], u) = Absent
          /\ DraftContent(blocks[b], u) # Absent =>
               DraftContent(blocks'[b], u) =
                 [base |-> Moved(f, DraftContent(blocks[b], u).base),
                  mine |-> Moved(f, DraftContent(blocks[b], u).mine)]
    BY <1>1, MovedStack
  <2> QED
    BY <2>1 DEF DraftContents
<1>6. \A p, q \in UsedPositions : p < q => f[p] < f[q]
  BY DEF RebalanceBlockPositions
<1> DEFINE positions(m) == {m[b].position : b \in {b \in Block : m[b] # Absent}}
           drafted == {d \in UNION {{DraftContents[u][b] : b \in Block} : u \in Teacher} :
                         d # Absent}
           used == UNION (
             {positions(CheckpointContents[i]) : i \in DOMAIN CheckpointContents} \cup
             {{c.position : c \in {d.base, d.mine} \ {Absent}} : d \in drafted})
<1>7. used \subseteq UsedPositions
  <2>1. ASSUME NEW i \in DOMAIN CheckpointContents, NEW p \in positions(CheckpointContents[i])
        PROVE  p \in UsedPositions
    BY <2>1, HistoryUsed
  <2>2. ASSUME NEW d \in drafted, NEW p \in {c.position : c \in {d.base, d.mine} \ {Absent}}
        PROVE  p \in UsedPositions
    <3>1. PICK u \in Teacher, b \in Block : d = DraftContents[u][b] /\ d # Absent
      OBVIOUS
    <3>2. PICK c \in {d.base, d.mine} : c # Absent /\ p = c.position
      OBVIOUS
    <3> QED
      BY <3>1, <3>2, DraftUsed
  <2> QED
    BY <2>1, <2>2
<1>8. \A p, q \in used : p < q => f[p] < f[q]
  <2> HIDE DEF used
  <2> QED
    BY <1>6, <1>7
<1> QED
  BY <1>3, <1>4, <1>5, <1>8 DEF AsUsersSeeIt!Renumber, Moved

-----------------------------------------------------------------------------
(* The refinement                                                          *)

\* What a step does to the course as it is shown; what is published newly is
\* recorded.
MappedStep ==
  /\ AsUsersSeeIt!Next \/ UNCHANGED vars
  /\ EditStep \/ RenumberStep \/ (PublishStep /\ NewIsHead)

\* Every step that changes anything is one of Course, and publishes on top.
LEMMA StepMaps ==
  ASSUME IInv, Recorded, [Next]_vars
  PROVE  MappedStep
<1>1. CASE UNCHANGED vars
  <2>1. EditStep
    BY <1>1, UnchangedStep DEF vars
  <2> QED
    BY <1>1, <2>1 DEF MappedStep
<1>2. ASSUME NEW u \in Teacher, NEW b \in Block, NEW x \in Data,
             NEW p \in Position, CreateBlock(u, b, x, p)
      PROVE  MappedStep
  <2>1. AsUsersSeeIt!Edit(u, b) /\ EditStep
    BY <1>2, CreateIsNew, CreateBlockMaps, CreateBlockStep
  <2>2. ~courseDeleted /\ UNCHANGED courseDeleted
    BY <1>2 DEF CreateBlock
  <2> QED
    BY <2>1, <2>2 DEF MappedStep, AsUsersSeeIt!Next
<1>3. ASSUME NEW u \in Teacher, NEW b \in Block, NEW seen \in Version,
             NEW d \in Version,
             \/ \E x \in Data : PatchBlock(u, b, seen, d, x)
             \/ \E p \in Position : MoveBlock(u, b, seen, d, p)
             \/ DeleteBlockByID(u, b, seen, d)
      PROVE  MappedStep
  <2>1. seen \in Present(blocks[b]) /\ blocks[b] \in Stack
    BY <1>3 DEF PatchBlock, MoveBlock, DeleteBlockByID, CanDraft, Published,
                OwnDrafts, IInv, StacksSound, SoundStack
  <2>2. blocks[b][seen].data \in Data /\ blocks[b][seen].position \in Position
    BY <2>1, RowType DEF VersionRow
  <2>3. AsUsersSeeIt!Edit(u, b) \/ AsUsersSeeIt!Drop(u, b)
    BY <1>3, <2>2, EditMaps
  <2>4. EditStep
    BY <1>3, PatchBlockStep, MoveBlockStep, DeleteBlockStep
  <2>5. ~courseDeleted /\ UNCHANGED courseDeleted
    BY <1>3 DEF PatchBlock, MoveBlock, DeleteBlockByID
  <2> QED
    BY <2>3, <2>4, <2>5 DEF MappedStep, AsUsersSeeIt!Next
<1>4. ASSUME NEW u \in Teacher, NEW b \in TaskBlock, NEW seen \in Version,
             NEW d \in Version, NEW x \in Data, UpdateTask(u, b, seen, d, x)
      PROVE  MappedStep
  <2>0. b \in Block /\ ~courseDeleted /\ UNCHANGED courseDeleted
    BY <1>4, ConstantsAssumption DEF UpdateTask
  <2>1. CASE d = seen
    <3>1. PICK p \in Position : TRUE
      BY ConstantsAssumption DEF Position
    <3>2. AsUsersSeeIt!Edit(u, b) \/ AsUsersSeeIt!Drop(u, b)
      BY <1>4, <2>0, <2>1, <3>1, EditMaps
    <3>3. EditStep
      <4>1. UNCHANGED checkpoints
        BY <1>4, <2>1 DEF UpdateTask
      <4>2. CASE PublishStep
        <5>1. Len(checkpoints') = Len(checkpoints) + 1
          BY <4>2 DEF PublishStep, CreateCheckpoint, IInv, TypeOK
        <5> QED
          BY <4>1, <5>1, CheckpointsSeq
      <4> QED
        BY <1>4, <2>0, <4>2, UpdateTaskStep
    <3> QED
      BY <2>0, <3>2, <3>3 DEF MappedStep, AsUsersSeeIt!Next
  <2>2. CASE d # seen
    <3>1. AsUsersSeeIt!Update(b) /\ NewIsHead /\ PublishStep
      BY <1>4, <2>2, UpdateTaskMaps
    <3> QED
      BY <2>0, <3>1 DEF MappedStep, AsUsersSeeIt!Next
  <2> QED
    BY <2>1, <2>2
<1>5. ASSUME NEW u \in Teacher, PublishDrafts(u)
      PROVE  MappedStep
  <2>1. AsUsersSeeIt!Publish(u) /\ NewIsHead /\ PublishStep
    BY <1>5, PublishDraftsMaps, PublishDraftsStep
  <2>2. ~courseDeleted /\ UNCHANGED courseDeleted
    BY <1>5 DEF PublishDrafts
  <2> QED
    BY <2>1, <2>2 DEF MappedStep, AsUsersSeeIt!Next
<1>6. ASSUME NEW u \in Teacher, DiscardDrafts(u)
      PROVE  MappedStep
  <2>1. AsUsersSeeIt!Discard(u) /\ EditStep
    BY <1>6, DiscardDraftsMaps
  <2>2. ~courseDeleted /\ UNCHANGED courseDeleted
    BY <1>6 DEF DiscardDrafts
  <2> QED
    BY <2>1, <2>2 DEF MappedStep, AsUsersSeeIt!Next
<1>7. ASSUME NEW u \in Teacher, NEW i \in 1..MaxCheckpoints,
             i <= Len(checkpoints), RestoreCheckpoint(u, i)
      PROVE  MappedStep
  <2>1. i \in 1..Len(checkpoints)
    BY <1>7, ConstantsAssumption DEF IInv, TypeOK
  <2>2. AsUsersSeeIt!Restore /\ NewIsHead /\ PublishStep
    BY <1>7, <2>1, RestoreMaps
  <2>3. ~courseDeleted /\ UNCHANGED courseDeleted
    BY <1>7 DEF RestoreCheckpoint
  <2> QED
    BY <2>2, <2>3 DEF MappedStep, AsUsersSeeIt!Next
<1>8. ASSUME NEW f \in [Position -> Position], RebalanceBlockPositions(f)
      PROVE  MappedStep
  <2>1. AsUsersSeeIt!Renumber /\ RenumberStep
    BY <1>8, RebalanceMaps, RebalanceStep
  <2>2. ~courseDeleted /\ UNCHANGED courseDeleted
    BY <1>8 DEF RebalanceBlockPositions
  <2> QED
    BY <2>1, <2>2 DEF MappedStep, AsUsersSeeIt!Next
<1>9. CASE DeleteCourseByID
  <2>1. UNCHANGED <<blocks, checkpoints>> /\ ~courseDeleted /\ courseDeleted' = TRUE
    BY <1>9 DEF DeleteCourseByID
  <2>2. UNCHANGED <<PublishedContents, DraftContents, CheckpointContents>>
    BY <2>1 DEF PublishedContents, DraftContents, CheckpointContents, CheckpointContent
  <2>3. EditStep
    BY <2>1, UnchangedStep
  <2> QED
    BY <2>1, <2>2, <2>3 DEF MappedStep, AsUsersSeeIt!Next
<1> QED
  BY <1>1, <1>2, <1>3, <1>4, <1>5, <1>6, <1>7, <1>8, <1>9 DEF Next

\* Every step records what it publishes.
LEMMA RecordedNext ==
  ASSUME IInv, Recorded, IInv',
         EditStep \/ RenumberStep \/ (PublishStep /\ NewIsHead)
  PROVE  Recorded'
<1> SUFFICES ASSUME NEW b \in Block, NEW v \in Published(blocks'[b]), ~blocks'[b][v].deleted
             PROVE  \E i \in 1..Len(checkpoints') : checkpoints'[i][b] = v
  BY DEF Recorded
<1>1. CASE EditStep \/ RenumberStep
  <2>1. Quiet(blocks[b], blocks'[b]) /\ UNCHANGED checkpoints
    BY <1>1, QuietSteps DEF QuietStep
  <2>2. v \in Published(blocks[b]) /\ ~blocks[b][v].deleted
    BY <2>1 DEF Quiet, SamePublished
  <2> QED
    BY <2>1, <2>2 DEF Recorded
<1>2. CASE PublishStep /\ NewIsHead
  <2>1. SoundStep(blocks[b], blocks'[b]) /\ CreateCheckpoint /\ StacksSound'
    BY <1>2 DEF PublishStep, IInv
  <2>2. /\ Len(checkpoints) \in Nat
        /\ Len(checkpoints') = Len(checkpoints) + 1
        /\ checkpoints'[Len(checkpoints')] = LiveHeads(blocks')
        /\ \A i \in 1..Len(checkpoints) : checkpoints'[i] = checkpoints[i]
    BY <2>1, NewCheckpoint
  <2>3. CASE v \in Published(blocks[b])
    <3>1. ~blocks[b][v].deleted
      BY <2>1, <2>3 DEF SoundStep, Keeps
    <3>2. PICK i \in 1..Len(checkpoints) : checkpoints[i][b] = v
      BY <2>3, <3>1 DEF Recorded
    <3>3. i \in 1..Len(checkpoints') /\ checkpoints'[i][b] = v
      BY <2>2, <3>2
    <3> QED
      BY <3>3
  <2>4. CASE v \notin Published(blocks[b])
    <3>1. v = HeadVersion(blocks'[b])
      BY <1>2, <2>4 DEF NewIsHead
    <3>2. HasLiveHead(blocks'[b])
      BY <3>1 DEF HasLiveHead
    <3>3. LiveHeads(blocks')[b] = v
      BY <3>1, <3>2 DEF LiveHeads
    <3>4. Len(checkpoints') \in 1..Len(checkpoints')
      BY <2>2
    <3> QED
      BY <2>2, <3>3, <3>4
  <2> QED
    BY <2>3, <2>4
<1> QED
  BY <1>1, <1>2

\* The empty store shows the empty course.
LEMMA InitMaps ==
  Init => AsUsersSeeIt!Init
<1> SUFFICES ASSUME Init  PROVE AsUsersSeeIt!Init
  OBVIOUS
<1>1. \A b \in Block : \A v \in Version : blocks[b][v] = Absent
  BY DEF Init, EmptyStack
<1>2. \A b \in Block : Published(blocks[b]) = {}
  BY <1>1 DEF Published, Present, Init, EmptyStack
<1>3. \A b \in Block, u \in Teacher : OwnDrafts(blocks[b], u) = {}
  BY <1>1 DEF OwnDrafts, Present, Init, EmptyStack
<1>4. PublishedContents = [b \in Block |-> Absent]
  BY <1>2, ConstantsAssumption DEF PublishedContents, PublishedContent, HasLiveHead, HeadVersion
<1>5. DraftContents = [u \in Teacher |-> [b \in Block |-> Absent]]
  BY <1>3 DEF DraftContents, DraftContent
<1>6. checkpoints = <<>> /\ courseDeleted = FALSE
  BY DEF Init
<1>7. CheckpointContents = <<>>
  BY <1>6 DEF CheckpointContents
<1> QED
  BY <1>4, <1>5, <1>6, <1>7 DEF AsUsersSeeIt!Init

\* To its users the store is the course of Course (BlockVersions): whatever
\* teachers do with drafts, versions and checkpoints shows as steps of it.
THEOREM CourseImplemented == Spec => ImplementsCourse
<1>1. Init => Recorded
  BY DEF Init, Recorded, EmptyStack, Published, Present
<1>2. IInv /\ Recorded /\ [Next]_vars => Recorded'
  BY NextIInv, StepMaps, RecordedNext DEF MappedStep
<1>3. IInv /\ Recorded /\ [Next]_vars => [AsUsersSeeIt!Next]_AsUsersSeeIt!vars
  <2>1. UNCHANGED vars => UNCHANGED AsUsersSeeIt!vars
    BY DEF vars, AsUsersSeeIt!vars, PublishedContents, DraftContents, CheckpointContents,
           CheckpointContent
  <2>2. QED
    BY <2>1, StepMaps DEF MappedStep
<1>4. Spec => [](IInv /\ Recorded)
  BY <1>1, <1>2, Invariance, PTL DEF Spec
<1> QED
  BY <1>3, <1>4, InitMaps, PTL DEF Spec, ImplementsCourse, AsUsersSeeIt!Spec
=============================================================================
