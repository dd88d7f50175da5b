------------------------- MODULE BlockVersionsCourse -------------------------
(* The versions, drafts and checkpoints of BlockVersions implement Course.   *)
EXTENDS BlockVersions

CourseContent == [data : Data, position : Position]

\* Absent is no content, and no draft.
ASSUME AbsentAssumption ==
  /\ Absent \notin CourseContent
  /\ Absent \notin [base : CourseContent \cup {Absent},
                    mine : CourseContent \cup {Absent}]

Content(s, v) ==
  IF s[v] = Absent \/ s[v].deleted THEN Absent
  ELSE [data |-> s[v].data, position |-> s[v].position]

PublishedContent(s) ==
  IF HasLiveHead(s) THEN Content(s, HeadVersion(s)) ELSE Absent

DraftContent(s, u) ==
  IF OwnDrafts(s, u) = {} THEN Absent
  ELSE LET d == OwnDraft(s, u)
       IN  [base |-> IF s[d].base = NoBase THEN Absent ELSE Content(s, s[d].base),
            mine |-> Content(s, d)]

CheckpointContent(i) ==
  [b \in Block |->
     IF checkpoints[i][b] = 0 THEN Absent
     ELSE Content(blocks[b], checkpoints[i][b])]

PublishedContents == [b \in Block |-> PublishedContent(blocks[b])]

DraftContents ==
  [u \in Teacher |-> [b \in Block |-> DraftContent(blocks[b], u)]]

CheckpointContents == [i \in DOMAIN checkpoints |-> CheckpointContent(i)]

AsUsersSeeIt == INSTANCE Course WITH
  Nothing   <- Absent,
  NoDraft   <- Absent,
  published <- PublishedContents,
  drafts    <- DraftContents,
  history   <- CheckpointContents,
  deleted   <- courseDeleted

\* To its users the course is one published course with a history that is
\* only added to and private drafts merged by value: version numbers, the
\* rows that publishing deletes and those it copies never show (PublishDrafts,
\* RestoreCheckpoint, UpdateTask, RebalanceBlockPositions).
ImplementsCourse == AsUsersSeeIt!Spec
==============================================================================
