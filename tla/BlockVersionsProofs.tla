------------------------- MODULE BlockVersionsProofs -------------------------
(***************************************************************************)
(* Theorems about BlockVersions, for every number of teachers, blocks,     *)
(* versions, positions and checkpoints.                                    *)
(*                                                                         *)
(* The argument is per stack: SoundStack says what is always true of one   *)
(* block's versions, and one lemma per operation on a stack shows that the *)
(* operation keeps it (Sound), keeps the published versions (Keeps) and    *)
(* publishes only above them (OnTop).  The theorems lift the lemmas to the *)
(* actions.                                                                *)
(***************************************************************************)
EXTENDS BlockVersions, TLAPS

HeadExists(s) == Published(s) # {} => \E v \in Version : IsHead(s, v)

SoundStack(s) ==
  /\ s \in Stack
  /\ HeadExists(s)
  /\ \A d \in Present(s) \ Published(s) : Anchored(s, d)
  /\ \A u \in Teacher : \A v, w \in OwnDrafts(s, u) : v = w

\* t keeps the published versions of s and publishes only above them.
Keeps(s, t) == \A v \in Published(s) : v \in Published(t) /\ t[v] = s[v]
OnTop(s, t) ==
  \A v \in Published(t) \ Published(s) : \A w \in Published(s) : w < v
SoundStep(s, t) == SoundStack(t) /\ Keeps(s, t) /\ OnTop(s, t)

\* A step that publishes nothing.
SoundEdit(s, t) == SoundStep(s, t) /\ Published(t) = Published(s)

\* The same, but positions may be renumbered.
Quiet(s, t) ==
  /\ SoundStack(t)
  /\ Published(t) = Published(s)
  /\ \A v \in Published(s) : SamePublished(s, t, v)

-----------------------------------------------------------------------------
(* Stacks                                                                  *)

LEMMA VersionFacts ==
  /\ Version \subseteq Nat \ {0}
  /\ 1 \in Version
  /\ NoBase \notin Version
BY ConstantsAssumption DEF Version, NoBase

\* HeadVersion finds the head of a stack with published versions.
LEMMA HeadIsHead ==
  ASSUME NEW s, HeadExists(s), Published(s) # {}
  PROVE  HeadVersion(s) \in Version /\ IsHead(s, HeadVersion(s))
BY DEF HeadExists, HeadVersion

\* A stack has at most one head.
LEMMA HeadUnique ==
  ASSUME NEW s, NEW v \in Version, NEW w \in Version, IsHead(s, v), IsHead(s, w)
  PROVE  v = w
BY VersionFacts DEF IsHead, Published, Present

\* NextVersion finds the next number of a stack with room.
LEMMA NextIsNext ==
  ASSUME NEW s, HasRoom(s)
  PROVE  NextVersion(s) \in Version /\ IsNext(s, NextVersion(s))
BY DEF HasRoom, NextVersion

LEMMA EmptyStackSound == SoundStack(EmptyStack)
BY DEF SoundStack, EmptyStack, Stack, HeadExists, Present, Published, OwnDrafts

\* The stack of a block just created.
LEMMA NewStackSound ==
  ASSUME NEW u \in Teacher, NEW x \in Data, NEW p \in Position
  PROVE  SoundEdit(EmptyStack,
           [EmptyStack EXCEPT ![1] =
             [data |-> x, position |-> p, draft |-> TRUE, deleted |-> FALSE,
              createdBy |-> u, base |-> NoBase]])
<1> DEFINE row == [data |-> x, position |-> p, draft |-> TRUE, deleted |-> FALSE,
                   createdBy |-> u, base |-> NoBase]
           t   == [EmptyStack EXCEPT ![1] = row]
<1>1. row \in VersionRow
  BY DEF VersionRow
<1>2. t \in Stack /\ t[1] = row /\ \A v \in Version : v # 1 => t[v] = Absent
  BY <1>1, VersionFacts DEF EmptyStack, Stack
<1>3. Present(t) = {1} /\ Published(t) = {} /\ Published(EmptyStack) = {}
  BY <1>1, <1>2, VersionFacts, ConstantsAssumption
  DEF Present, Published, EmptyStack
<1>4. Anchored(t, 1)
  <2>1. t[1].base = NoBase /\ ~t[1].deleted
    BY <1>2
  <2> QED
    BY <2>1, <1>3 DEF Anchored
<1>5. SoundStack(t)
  BY <1>2, <1>3, <1>4 DEF SoundStack, HeadExists, OwnDrafts
<1> QED
  BY <1>3, <1>5 DEF SoundEdit, SoundStep, Keeps, OnTop

-----------------------------------------------------------------------------
(* Drafting and editing                                                    *)

\* A change that leaves the published rows alone is a sound edit if the
\* drafts it leaves behind are sound.
LEMMA SoundEditIntro ==
  ASSUME NEW s, SoundStack(s), NEW t \in Stack,
         Published(t) = Published(s),
         \A v \in Published(s) : t[v] = s[v],
         \A d \in Present(t) \ Published(t) : Anchored(t, d),
         \A u \in Teacher : \A v, w \in OwnDrafts(t, u) : v = w
  PROVE  SoundEdit(s, t)
<1>1. HeadExists(t)
  BY DEF SoundStack, HeadExists, IsHead
<1>2. Keeps(s, t) /\ OnTop(s, t)
  BY DEF Keeps, SamePublished, OnTop
<1> QED
  BY <1>1, <1>2 DEF SoundEdit, SoundStep, SoundStack

\* Rows of a stack.
LEMMA RowType ==
  ASSUME NEW s \in Stack, NEW v \in Present(s)
  PROVE  v \in Version /\ s[v] \in VersionRow
BY DEF Present, Stack

\* What an edit of version d needs of the stack: a draft of its author, or a
\* published version to copy and a number above all.
CanEdit(s, u, seen, d) ==
  \/ OwnDrafts(s, u) = {seen} /\ ~s[seen].deleted /\ d = seen
  \/ /\ OwnDrafts(s, u) = {}
     /\ seen \in Published(s) /\ ~s[seen].deleted
     /\ \A v \in Present(s) : v < d

LEMMA DraftEdits ==
  ASSUME NEW s, NEW u, NEW seen, NEW d, CanDraft(s, u, seen, d)
  PROVE  CanEdit(s, u, seen, d)
BY DEF CanDraft, CanEdit, IsNext

\* ensureDraft: the stack has the draft, live and by u.
LEMMA DraftedSound ==
  ASSUME NEW s, SoundStack(s), NEW u \in Teacher,
         NEW seen \in Version, NEW d \in Version, CanEdit(s, u, seen, d)
  PROVE  /\ SoundEdit(s, Drafted(s, u, seen, d))
         /\ d \in OwnDrafts(Drafted(s, u, seen, d), u)
         /\ ~Drafted(s, u, seen, d)[d].deleted
<1>1. CASE d = seen
  <2>1. OwnDrafts(s, u) = {seen} /\ ~s[seen].deleted
    BY <1>1, VersionFacts DEF CanEdit, Published
  <2>2. Drafted(s, u, seen, d) = s
    BY <1>1 DEF Drafted
  <2>3. SoundEdit(s, s)
    BY SoundEditIntro DEF SoundStack
  <2> QED
    BY <1>1, <2>1, <2>2, <2>3
<1>2. CASE d # seen
  <2> DEFINE t   == Drafted(s, u, seen, d)
             row == [s[seen] EXCEPT !.draft = TRUE, !.createdBy = u, !.base = seen]
  <2>1. /\ OwnDrafts(s, u) = {}
        /\ seen \in Published(s) /\ seen \in Present(s) /\ ~s[seen].deleted
        /\ \A v \in Present(s) : v < d
    BY <1>2 DEF CanEdit, Published
  <2>2. s \in Stack /\ s[seen] \in VersionRow
    BY <2>1, RowType DEF SoundStack
  <2>3. /\ row \in VersionRow
        /\ row.draft = TRUE /\ row.createdBy = u /\ row.base = seen
        /\ row.deleted = s[seen].deleted
    BY <2>2 DEF VersionRow
  <2>4. /\ t \in Stack
        /\ t[d] = row
        /\ \A v \in Version : v # d => t[v] = s[v]
    BY <1>2, <2>2, <2>3 DEF Drafted, Stack
  <2>5. d \notin Present(s) /\ seen < d
    BY <2>1, VersionFacts DEF Present
  <2>6. Present(t) = Present(s) \cup {d}
    BY <2>3, <2>4, ConstantsAssumption DEF Present
  <2>7. Published(t) = Published(s)
    <3>1. \A v \in Version : v # d => (v \in Published(t) <=> v \in Published(s))
      BY <2>4 DEF Published, Present
    <3>2. d \notin Published(t) /\ d \notin Published(s)
      BY <2>3, <2>4, <2>5 DEF Published
    <3> QED
      BY <3>1, <3>2 DEF Published, Present
  <2>8. ASSUME NEW c \in Present(t) \ Published(t)
        PROVE  Anchored(t, c)
    <3>1. CASE c = d
      <4>1. t[c].base = seen /\ ~t[seen].deleted
        BY <1>2, <2>1, <2>3, <2>4, <3>1
      <4> QED
        BY <2>1, <2>5, <2>7, <3>1, <4>1 DEF Anchored
    <3>2. CASE c # d
      <4>1. c \in Present(s) \ Published(s) /\ t[c] = s[c]
        BY <2>4, <2>6, <2>7, <3>2 DEF Present
      <4>2. Anchored(s, c) /\ Present(s) # {c}
        BY <2>1, <4>1 DEF SoundStack
      <4>3. s[c].base \in Published(s) /\ ~s[s[c].base].deleted /\ s[c].base < c
        BY <4>2 DEF Anchored
      <4>4. t[s[c].base] = s[s[c].base]
        BY <2>4, <2>5, <4>3 DEF Published, Present
      <4> QED
        BY <2>7, <4>1, <4>3, <4>4 DEF Anchored
    <3> QED
      BY <3>1, <3>2
  <2>9. \A w \in Teacher : OwnDrafts(t, w) =
          IF w = u THEN {d} ELSE OwnDrafts(s, w)
    <3> SUFFICES ASSUME NEW w \in Teacher
                 PROVE  OwnDrafts(t, w) = IF w = u THEN {d} ELSE OwnDrafts(s, w)
      OBVIOUS
    <3>1. \A v \in Present(t) : v # d => (v \in OwnDrafts(t, w) <=>
                                          v \in OwnDrafts(s, w))
      BY <2>4, <2>6 DEF OwnDrafts, Present
    <3>2. d \in OwnDrafts(t, w) <=> w = u
      BY <2>3, <2>4, <2>6 DEF OwnDrafts
    <3>3. OwnDrafts(t, w) \subseteq Present(t) /\ OwnDrafts(s, w) \subseteq Present(s)
      BY DEF OwnDrafts
    <3> QED
      BY <2>1, <2>5, <2>6, <3>1, <3>2, <3>3
  <2>10. SoundEdit(s, t)
    <3>1. \A v \in Published(s) : t[v] = s[v]
      BY <2>4, <2>5 DEF Published, Present
    <3>2. \A w \in Teacher : \A v, x \in OwnDrafts(t, w) : v = x
      BY <2>9 DEF SoundStack
    <3> QED
      BY <2>4, <2>7, <2>8, <3>1, <3>2, SoundEditIntro
  <2> QED
    BY <2>1, <2>3, <2>4, <2>9, <2>10
<1> QED
  BY <1>1, <1>2

\* Rewriting the row of a draft: its author and base stay, and it is deleted
\* only if it has a base.
LEMMA RewriteSound ==
  ASSUME NEW s, SoundStack(s),
         NEW d \in Present(s) \ Published(s), NEW row \in VersionRow,
         row.draft = TRUE, row.createdBy = s[d].createdBy, row.base = s[d].base,
         row.deleted => row.base # NoBase
  PROVE  SoundEdit(s, [s EXCEPT ![d] = row])
<1> DEFINE t == [s EXCEPT ![d] = row]
<1>1. s \in Stack /\ d \in Version /\ s[d] # Absent /\ s[d].draft
  BY DEF SoundStack, Present, Published
<1>2. /\ t \in Stack
      /\ t[d] = row
      /\ \A v \in Version : v # d => t[v] = s[v]
  BY <1>1 DEF Stack
<1>3. Present(t) = Present(s)
  BY <1>1, <1>2, ConstantsAssumption DEF Present
<1>4. Published(t) = Published(s) /\ \A v \in Published(s) : t[v] = s[v]
  BY <1>1, <1>2, <1>3 DEF Published, Present
<1>5. ASSUME NEW c \in Present(t) \ Published(t)
      PROVE  Anchored(t, c)
  <2>1. Anchored(s, c)
    BY <1>3, <1>4, <1>5 DEF SoundStack
  <2>2. t[c].base = s[c].base
    BY <1>2, <1>3 DEF Present
  <2>3. CASE s[c].base = NoBase /\ ~s[c].deleted /\ Present(s) = {c}
    <3>1. c = d
      BY <2>3
    <3>2. ~t[c].deleted
      BY <1>2, <2>3, <3>1
    <3> QED
      BY <1>3, <2>2, <2>3, <3>2 DEF Anchored
  <2>4. CASE /\ s[c].base \in Published(s) /\ ~s[s[c].base].deleted
             /\ s[c].base < c
    BY <1>4, <2>2, <2>4 DEF Anchored
  <2> QED
    BY <2>1, <2>3, <2>4 DEF Anchored
<1>6. \A u \in Teacher : OwnDrafts(t, u) = OwnDrafts(s, u)
  <2> SUFFICES ASSUME NEW u \in Teacher, NEW v \in Present(s)
               PROVE  v \in OwnDrafts(t, u) <=> v \in OwnDrafts(s, u)
    BY <1>3 DEF OwnDrafts
  <2>1. CASE v = d
    BY <1>1, <1>2, <1>3, <2>1 DEF OwnDrafts
  <2>2. CASE v # d
    BY <1>2, <1>3, <2>2 DEF OwnDrafts, Present
  <2> QED
    BY <2>1, <2>2
<1>7. \A u \in Teacher : \A v, w \in OwnDrafts(t, u) : v = w
  BY <1>6 DEF SoundStack
<1> QED
  BY <1>2, <1>4, <1>5, <1>7, SoundEditIntro

\* Removing a draft.
LEMMA WithoutSound ==
  ASSUME NEW s, SoundStack(s), NEW d \in Present(s) \ Published(s)
  PROVE  /\ SoundEdit(s, Without(s, d))
         /\ Present(Without(s, d)) = Present(s) \ {d}
         /\ \A v \in Version : v # d => Without(s, d)[v] = s[v]
<1> DEFINE t == Without(s, d)
<1>1. s \in Stack /\ d \in Version /\ s[d] # Absent /\ s[d].draft
  BY DEF SoundStack, Present, Published
<1>2. /\ t \in Stack
      /\ t[d] = Absent
      /\ \A v \in Version : v # d => t[v] = s[v]
  BY <1>1 DEF Without, Stack
<1>3. Present(t) = Present(s) \ {d}
  BY <1>2 DEF Present
<1>4. Published(t) = Published(s) /\ \A v \in Published(s) : t[v] = s[v]
  BY <1>1, <1>2, <1>3 DEF Published, Present
<1>5. ASSUME NEW c \in Present(t) \ Published(t)
      PROVE  Anchored(t, c)
  <2>1. c # d /\ t[c] = s[c] /\ Anchored(s, c) /\ Present(s) # {c}
    BY <1>1, <1>2, <1>3, <1>4, <1>5 DEF SoundStack, Present
  <2>2. s[c].base \in Published(s) /\ ~s[s[c].base].deleted /\ s[c].base < c
    BY <2>1 DEF Anchored
  <2> QED
    BY <1>4, <2>1, <2>2 DEF Anchored
<1>6. \A u \in Teacher : OwnDrafts(t, u) \subseteq OwnDrafts(s, u)
  BY <1>2, <1>3 DEF OwnDrafts, Present
<1>7. \A u \in Teacher : \A v, w \in OwnDrafts(t, u) : v = w
  BY <1>6 DEF SoundStack
<1> QED
  BY <1>2, <1>3, <1>4, <1>5, <1>7, SoundEditIntro

\* An edit followed by a step is a step, and by an edit an edit.
LEMMA EditThenStep ==
  ASSUME NEW s, NEW t, NEW r, SoundEdit(s, t), SoundStep(t, r)
  PROVE  /\ SoundStep(s, r)
         /\ SoundEdit(t, r) => SoundEdit(s, r)
BY DEF SoundEdit, SoundStep, Keeps, SamePublished, OnTop

-----------------------------------------------------------------------------
(* Publishing                                                              *)

\* A published row put above every published version, over a draft or on a
\* free number, becomes the head.
LEMMA PublishOnTop ==
  ASSUME NEW s, SoundStack(s), NEW n \in Version, NEW row \in VersionRow,
         row.draft = FALSE,
         \A w \in Published(s) : w < n,
         n \in Present(s) \/ Published(s) # {}
  PROVE  /\ SoundStep(s, [s EXCEPT ![n] = row])
         /\ IsHead([s EXCEPT ![n] = row], n)
         /\ [s EXCEPT ![n] = row][n] = row
<1> DEFINE t == [s EXCEPT ![n] = row]
<1>1. /\ s \in Stack /\ t \in Stack
      /\ t[n] = row
      /\ \A v \in Version : v # n => t[v] = s[v]
  BY DEF SoundStack, Stack
<1>2. Present(t) = Present(s) \cup {n}
  BY <1>1, ConstantsAssumption DEF Present
<1>3. n \notin Published(s)
  BY VersionFacts
<1>4. /\ Published(t) = Published(s) \cup {n}
      /\ \A v \in Published(s) : t[v] = s[v]
  <2>1. \A v \in Present(t) : v # n => (v \in Published(t) <=> v \in Published(s))
    BY <1>1, <1>2 DEF Published, Present
  <2>2. n \in Published(t)
    BY <1>1, <1>2 DEF Published
  <2>3. Published(t) \subseteq Present(t) /\ Published(s) \subseteq Present(s)
    BY DEF Published
  <2>4. Published(t) = Published(s) \cup {n}
    BY <1>2, <2>1, <2>2, <2>3
  <2> QED
    BY <1>1, <1>3, <2>3, <2>4 DEF Present
<1>5. IsHead(t, n)
  <2>1. ASSUME NEW w \in Published(t)
        PROVE  w <= n
    <3>1. w \in Version /\ n \in Nat /\ w \in Nat
      BY VersionFacts DEF Published, Present
    <3>2. w = n \/ w < n
      BY <1>4
    <3> QED
      BY <3>1, <3>2
  <2> QED
    BY <1>4, <2>1 DEF IsHead
<1>6. HeadExists(t)
  BY <1>5 DEF HeadExists
<1>7. ASSUME NEW c \in Present(t) \ Published(t)
      PROVE  Anchored(t, c)
  <2>1. /\ c # n /\ c \in Present(s) \ Published(s)
        /\ t[c] = s[c]
        /\ Anchored(s, c)
    BY <1>1, <1>2, <1>4, <1>7 DEF SoundStack, Present
  <2>2. Present(s) # {c}
    BY <2>1 DEF Published
  <2>3. s[c].base \in Published(s) /\ ~s[s[c].base].deleted /\ s[c].base < c
    BY <2>1, <2>2 DEF Anchored
  <2> QED
    BY <1>4, <2>1, <2>3 DEF Anchored
<1>8. \A u \in Teacher : \A v, w \in OwnDrafts(t, u) : v = w
  <2>1. \A u \in Teacher : OwnDrafts(t, u) \subseteq OwnDrafts(s, u)
    BY <1>1, <1>2 DEF OwnDrafts, Present
  <2> QED
    BY <2>1 DEF SoundStack
<1>9. Keeps(s, t) /\ OnTop(s, t)
  BY <1>4 DEF Keeps, SamePublished, OnTop
<1> QED
  BY <1>1, <1>5, <1>6, <1>7, <1>8, <1>9 DEF SoundStack, SoundStep

\* A draft published as it is.
LEMMA InPlaceSound ==
  ASSUME NEW s, SoundStack(s), NEW d \in Present(s) \ Published(s),
         ~Outdated(s, d)
  PROVE  SoundStep(s, InPlace(s, d)) /\ IsHead(InPlace(s, d), d)
<1> DEFINE row == [s[d] EXCEPT !.draft = FALSE, !.base = NoBase]
<1>1. s \in Stack /\ d \in Version /\ s[d] \in VersionRow
  BY RowType DEF SoundStack
<1>2. row \in VersionRow /\ row.draft = FALSE
  BY <1>1 DEF VersionRow
<1>3. InPlace(s, d) = [s EXCEPT ![d] = row]
  BY <1>1 DEF InPlace, Stack
<1>4. \A w \in Published(s) : w < d
  <2>1. CASE s[d].base = NoBase
    <3>1. Present(s) = {d}
      <4>1. Anchored(s, d)
        BY DEF SoundStack
      <4>2. NoBase \notin Published(s)
        BY VersionFacts DEF Published, Present
      <4> QED
        BY <2>1, <4>1, <4>2 DEF Anchored
    <3> QED
      BY <3>1 DEF Published
  <2>2. CASE s[d].base # NoBase
    <3>1. s[d].base \in Published(s) /\ s[d].base < d /\ s[d].base \in Version
      BY <2>2 DEF SoundStack, Anchored, Published, Present
    <3>2. IsHead(s, s[d].base)
      BY <2>2, <3>1, HeadIsHead DEF Outdated, SoundStack
    <3>3. ASSUME NEW w \in Published(s)
          PROVE  w < d
      <4>1. w \in Version /\ w <= s[d].base
        BY <3>2 DEF IsHead, Published, Present
      <4>2. w \in Nat /\ s[d].base \in Nat /\ d \in Nat
        BY <1>1, <3>1, <4>1, VersionFacts
      <4> QED
        BY <3>1, <4>1, <4>2
    <3> QED
      BY <3>3
  <2> QED
    BY <2>1, <2>2
<1> QED
  BY <1>1, <1>2, <1>3, <1>4, PublishOnTop

\* publishDraft, merging or not, is a sound step.
LEMMA PublishDraftSound ==
  ASSUME NEW s, SoundStack(s), NEW d \in Present(s) \ Published(s),
         NEW mine \in BOOLEAN, PublishHasRoom(s, d)
  PROVE  SoundStep(s, PublishDraft(s, d, mine))
<1> DEFINE head == s[HeadVersion(s)]
           rest == Without(s, d)
<1>1. s \in Stack /\ d \in Version /\ s[d] \in VersionRow
  BY RowType DEF SoundStack
<1>2. SoundEdit(s, rest)
  BY WithoutSound
<1>3. CASE s[d].base = NoBase /\ s[d].deleted
  BY <1>2, <1>3 DEF PublishDraft, SoundEdit, Outdated
<1>4. CASE Outdated(s, d)
  <2>1. s[d].base \in Published(s) /\ s[d].base # NoBase
    BY <1>4 DEF SoundStack, Anchored, Outdated
  <2>2. HeadVersion(s) \in Published(s)
    BY <2>1, HeadIsHead DEF SoundStack, IsHead
  <2>3. CASE head.deleted
    BY <1>2, <1>4, <2>1, <2>3 DEF PublishDraft, SoundEdit
  <2>4. CASE ~head.deleted
    <3> DEFINE n   == NextVersion(rest)
               row == Merge(s[s[d].base], head, s[d], mine)
    <3>1. n \in Version /\ IsNext(rest, n)
      BY <1>4, NextIsNext DEF PublishHasRoom
    <3>2. head \in VersionRow /\ head.draft = FALSE /\ s[s[d].base] \in VersionRow
      <4>1. head \in VersionRow /\ s[s[d].base] \in VersionRow
        BY <1>1, <2>1, <2>2, RowType DEF Published
      <4>2. head.draft \in BOOLEAN /\ ~head.draft
        BY <2>2, <4>1 DEF Published, VersionRow
      <4> QED
        BY <4>1, <4>2
    <3>3. row \in VersionRow /\ row.draft = FALSE
      BY <1>1, <3>2 DEF Merge, VersionRow
    <3>4. PublishDraft(s, d, mine) = [rest EXCEPT ![n] = row]
      BY <1>4, <2>1, <2>4 DEF PublishDraft
    <3>5. /\ SoundStack(rest) /\ Published(rest) = Published(s)
          /\ Published(rest) # {}
          /\ \A w \in Published(rest) : w < n
      BY <1>2, <2>1, <3>1 DEF SoundEdit, SoundStep, IsNext, Published
    <3>6. SoundStep(rest, [rest EXCEPT ![n] = row])
      BY <3>1, <3>3, <3>5, PublishOnTop
    <3> QED
      BY <1>2, <3>4, <3>6, EditThenStep
  <2> QED
    BY <2>3, <2>4
<1>5. CASE ~(s[d].base = NoBase /\ s[d].deleted) /\ ~Outdated(s, d)
  <2>1. PublishDraft(s, d, mine) = InPlace(s, d)
    BY <1>5 DEF PublishDraft
  <2> QED
    BY <1>5, <2>1, InPlaceSound
<1> QED
  BY <1>3, <1>4, <1>5

\* A published version of the stack republished, or its head deleted, as a
\* new version.
LEMMA RepublishSound ==
  ASSUME NEW s, SoundStack(s), HasRoom(s), NEW v \in Published(s),
         NEW u \in Teacher, NEW deleted \in BOOLEAN
  PROVE  /\ SoundStep(s, Republish(s, v, u, deleted))
         /\ IsHead(Republish(s, v, u, deleted), NextVersion(s))
         /\ Republish(s, v, u, deleted)[NextVersion(s)] =
              [s[v] EXCEPT !.draft = FALSE, !.deleted = deleted,
                           !.createdBy = u, !.base = NoBase]
<1> DEFINE n   == NextVersion(s)
           row == [s[v] EXCEPT !.draft = FALSE, !.deleted = deleted,
                               !.createdBy = u, !.base = NoBase]
<1>1. n \in Version /\ \A w \in Published(s) : w < n
  BY NextIsNext DEF IsNext, Published
<1>2. row \in VersionRow /\ row.draft = FALSE
  <2>1. s[v] \in VersionRow
    BY RowType DEF SoundStack, Published
  <2> QED
    BY <2>1 DEF VersionRow
<1>3. Republish(s, v, u, deleted) = [s EXCEPT ![n] = row]
  BY DEF Republish
<1>4. Published(s) # {}
  OBVIOUS
<1>5. /\ SoundStep(s, [s EXCEPT ![n] = row])
      /\ IsHead([s EXCEPT ![n] = row], n)
      /\ [s EXCEPT ![n] = row][n] = row
  <2> HIDE DEF n, row
  <2> QED
    BY <1>1, <1>2, <1>4, PublishOnTop
<1> QED
  BY <1>3, <1>5

\* Renumbering positions.
LEMMA RemapSound ==
  ASSUME NEW s, SoundStack(s), NEW f \in [Position -> Position]
  PROVE  Quiet(s, Remap(s, f))
<1> DEFINE t == Remap(s, f)
<1>1. s \in Stack
  BY DEF SoundStack
<1>2. ASSUME NEW v \in Version, s[v] # Absent
      PROVE  /\ t[v] \in VersionRow
             /\ t[v].data = s[v].data /\ t[v].draft = s[v].draft
             /\ t[v].deleted = s[v].deleted /\ t[v].createdBy = s[v].createdBy
             /\ t[v].base = s[v].base
  <2>1. s[v] \in VersionRow /\ t[v] = [s[v] EXCEPT !.position = f[s[v].position]]
    BY <1>1, <1>2 DEF Remap, Stack
  <2> QED
    BY <2>1 DEF VersionRow
<1>3. \A v \in Version : s[v] = Absent => t[v] = Absent
  BY DEF Remap
<1>4. t \in Stack
  BY <1>2, <1>3 DEF Stack, Remap
<1>5. Present(t) = Present(s)
  BY <1>2, <1>3, ConstantsAssumption DEF Present
<1>6. Published(t) = Published(s)
  BY <1>2, <1>5 DEF Published, Present
<1>7. \A u \in Teacher : OwnDrafts(t, u) = OwnDrafts(s, u)
  BY <1>2, <1>5 DEF OwnDrafts, Present
<1>8. ASSUME NEW c \in Present(t) \ Published(t)
      PROVE  Anchored(t, c)
  <2>1. Anchored(s, c) /\ t[c].base = s[c].base /\ t[c].deleted = s[c].deleted
    BY <1>2, <1>5, <1>6 DEF SoundStack, Present
  <2>2. s[c].base \in Published(s) => t[s[c].base].deleted = s[s[c].base].deleted
    BY <1>2 DEF Published, Present
  <2> QED
    BY <1>5, <1>6, <2>1, <2>2 DEF Anchored
<1>9. HeadExists(t)
  BY <1>6 DEF SoundStack, HeadExists, IsHead
<1>10. \A v \in Published(s) : SamePublished(s, t, v)
  BY <1>2, <1>6 DEF SamePublished, Published, Present
<1> QED
  BY <1>4, <1>6, <1>7, <1>8, <1>9, <1>10
  DEF Quiet, SoundStack

\* Discarding a teacher's drafts of one block.
LEMMA DiscardSound ==
  ASSUME NEW s, SoundStack(s), NEW u \in Teacher
  PROVE  SoundEdit(s, [v \in Version |->
                         IF v \in OwnDrafts(s, u) THEN Absent ELSE s[v]])
<1> DEFINE t == [v \in Version |-> IF v \in OwnDrafts(s, u) THEN Absent ELSE s[v]]
<1>1. s \in Stack
  BY DEF SoundStack
<1>2. CASE OwnDrafts(s, u) = {}
  <2>1. t = s
    BY <1>1, <1>2 DEF Stack
  <2>2. SoundEdit(s, s)
    BY SoundEditIntro DEF SoundStack
  <2> QED
    BY <2>1, <2>2
<1>3. CASE OwnDrafts(s, u) # {}
  <2>1. PICK d \in OwnDrafts(s, u) : OwnDrafts(s, u) = {d}
    BY <1>3 DEF SoundStack
  <2>2. t = Without(s, d)
    BY <1>1, <2>1 DEF Without, Stack
  <2>3. d \in Present(s) \ Published(s)
    BY <2>1 DEF OwnDrafts, Published
  <2> QED
    BY <2>2, <2>3, WithoutSound
<1> QED
  BY <1>2, <1>3

-----------------------------------------------------------------------------
(* The actions                                                             *)

StacksSound ==
  blocks \in [Block -> Stack] /\ \A b \in Block : SoundStack(blocks[b])

IInv ==
  /\ TypeOK
  /\ StacksSound
  /\ CheckpointsRestorable
  /\ LatestCheckpointIsPublished

\* What a step does to the stacks: it publishes nothing, or it renumbers the
\* positions, or it publishes and records a checkpoint.
EditStep ==
  /\ blocks' \in [Block -> Stack]
  /\ \A b \in Block : SoundEdit(blocks[b], blocks'[b])
  /\ UNCHANGED checkpoints

RenumberStep ==
  /\ \E f \in [Position -> Position] : RebalanceBlockPositions(f)
  /\ \A b \in Block : Quiet(blocks[b], blocks'[b])

QuietStep ==
  /\ blocks' \in [Block -> Stack]
  /\ \A b \in Block : Quiet(blocks[b], blocks'[b])
  /\ UNCHANGED checkpoints

PublishStep ==
  /\ blocks' \in [Block -> Stack]
  /\ \A b \in Block : SoundStep(blocks[b], blocks'[b])
  /\ CreateCheckpoint

LEMMA SoundEditRefl ==
  ASSUME NEW s, SoundStack(s)
  PROVE  SoundEdit(s, s) /\ SoundStep(s, s)
BY SoundEditIntro DEF SoundStack, SoundEdit

\* A step on one stack is a step on all.
LEMMA OneStack ==
  ASSUME StacksSound, NEW b \in Block, NEW t,
         SoundStep(blocks[b], t),
         blocks' = [blocks EXCEPT ![b] = t]
  PROVE  /\ blocks' \in [Block -> Stack]
         /\ \A c \in Block : SoundStep(blocks[c], blocks'[c])
         /\ SoundEdit(blocks[b], t) =>
              \A c \in Block : SoundEdit(blocks[c], blocks'[c])
<1>1. t \in Stack
  BY DEF SoundStep, SoundStack
<1>2. blocks' \in [Block -> Stack]
  BY <1>1 DEF StacksSound
<1>3. \A c \in Block : blocks'[c] = IF c = b THEN t ELSE blocks[c]
  BY DEF StacksSound
<1>4. \A c \in Block : c # b => SoundEdit(blocks[c], blocks'[c])
  BY <1>3, SoundEditRefl DEF StacksSound
<1> QED
  BY <1>2, <1>3, <1>4 DEF SoundEdit

\* What creating a block does to the stacks.
NewBlock(u, b, x, p) ==
  /\ blocks[b] = EmptyStack
  /\ blocks' = [blocks EXCEPT ![b][1] =
       [data |-> x, position |-> p, draft |-> TRUE, deleted |-> FALSE,
        createdBy |-> u, base |-> NoBase]]
  /\ UNCHANGED checkpoints

LEMMA CreateIsNew ==
  ASSUME NEW u, NEW b, NEW x, NEW p, CreateBlock(u, b, x, p)
  PROVE  NewBlock(u, b, x, p)
BY DEF CreateBlock, NewBlock

LEMMA CreateBlockStep ==
  ASSUME IInv, NEW u \in Teacher, NEW b \in Block, NEW x \in Data,
         NEW p \in Position, NewBlock(u, b, x, p)
  PROVE  EditStep
<1> DEFINE t == [EmptyStack EXCEPT ![1] =
                  [data |-> x, position |-> p, draft |-> TRUE,
                   deleted |-> FALSE, createdBy |-> u, base |-> NoBase]]
<1>1. SoundEdit(blocks[b], t) /\ SoundStep(blocks[b], t)
  BY NewStackSound DEF NewBlock, SoundEdit
<1>2. blocks' = [blocks EXCEPT ![b] = t]
  BY DEF NewBlock
<1>3. UNCHANGED checkpoints
  BY DEF NewBlock
<1> QED
  BY <1>1, <1>2, <1>3, OneStack DEF EditStep, IInv

\* The draft an edit works on.
LEMMA EditedDraft ==
  ASSUME IInv, NEW u \in Teacher, NEW b \in Block,
         NEW seen \in Version, NEW d \in Version,
         CanEdit(blocks[b], u, seen, d),
         NEW t, t = Drafted(blocks[b], u, seen, d)
  PROVE  /\ SoundEdit(blocks[b], t)
         /\ SoundStack(t)
         /\ d \in Present(t) \ Published(t)
         /\ t[d] \in VersionRow /\ t[d].draft = TRUE /\ t[d].deleted = FALSE
<1>1. SoundEdit(blocks[b], t) /\ d \in OwnDrafts(t, u) /\ ~t[d].deleted
  BY DraftedSound DEF IInv, StacksSound
<1>2. SoundStack(t)
  BY <1>1 DEF SoundEdit, SoundStep
<1>3. d \in Present(t) \ Published(t) /\ t[d].draft
  BY <1>1 DEF OwnDrafts, Published
<1>4. t[d] \in VersionRow
  BY <1>2, <1>3, RowType DEF SoundStack
<1>5. t[d].draft \in BOOLEAN /\ t[d].deleted \in BOOLEAN
  BY <1>4 DEF VersionRow
<1> QED
  BY <1>1, <1>2, <1>3, <1>4, <1>5

\* An edit of one block: drafting it and rewriting the draft.
LEMMA RewriteStep ==
  ASSUME IInv, NEW u \in Teacher, NEW b \in Block,
         NEW seen \in Version, NEW d \in Version,
         CanEdit(blocks[b], u, seen, d),
         NEW t, t = Drafted(blocks[b], u, seen, d), NEW row \in VersionRow,
         row.draft = TRUE, row.createdBy = t[d].createdBy, row.base = t[d].base,
         row.deleted => row.base # NoBase
  PROVE  /\ SoundEdit(blocks[b], [t EXCEPT ![d] = row])
         /\ SoundStep(blocks[b], [t EXCEPT ![d] = row])
<1>1. SoundEdit(blocks[b], t) /\ SoundStack(t) /\ d \in Present(t) \ Published(t)
  BY EditedDraft
<1>2. SoundEdit(t, [t EXCEPT ![d] = row]) /\ SoundStep(t, [t EXCEPT ![d] = row])
  BY <1>1, RewriteSound DEF SoundEdit
<1> QED
  BY <1>1, <1>2, EditThenStep

LEMMA PatchBlockStep ==
  ASSUME IInv, NEW u \in Teacher, NEW b \in Block, NEW seen \in Version,
         NEW d \in Version, NEW x \in Data, PatchBlock(u, b, seen, d, x)
  PROVE  EditStep
<1> DEFINE t   == Drafted(blocks[b], u, seen, d)
           row == [t[d] EXCEPT !.data = x]
<1>1. /\ CanEdit(blocks[b], u, seen, d)
      /\ blocks' = [blocks EXCEPT ![b] = [t EXCEPT ![d].data = x]]
      /\ UNCHANGED checkpoints
  BY DraftEdits DEF PatchBlock
<1>2. t[d] \in VersionRow /\ t[d].draft = TRUE /\ t[d].deleted = FALSE
  <2> HIDE DEF t
  <2>1. t = Drafted(blocks[b], u, seen, d)
    BY DEF t
  <2> QED
    BY <1>1, <2>1, EditedDraft
<1>3. /\ row \in VersionRow /\ row.draft = TRUE /\ row.deleted = FALSE
      /\ row.createdBy = t[d].createdBy /\ row.base = t[d].base
  BY <1>2 DEF VersionRow
<1>4. SoundEdit(blocks[b], [t EXCEPT ![d] = row]) /\
      SoundStep(blocks[b], [t EXCEPT ![d] = row])
  BY <1>1, <1>3, RewriteStep
<1>5. blocks' = [blocks EXCEPT ![b] = [t EXCEPT ![d] = row]]
  BY <1>1
<1> QED
  BY <1>1, <1>4, <1>5, OneStack DEF EditStep, IInv

LEMMA MoveBlockStep ==
  ASSUME IInv, NEW u \in Teacher, NEW b \in Block, NEW seen \in Version,
         NEW d \in Version, NEW p \in Position, MoveBlock(u, b, seen, d, p)
  PROVE  EditStep
<1> DEFINE t   == Drafted(blocks[b], u, seen, d)
           row == [t[d] EXCEPT !.position = p]
<1>1. /\ CanEdit(blocks[b], u, seen, d)
      /\ blocks' = [blocks EXCEPT ![b] = [t EXCEPT ![d].position = p]]
      /\ UNCHANGED checkpoints
  BY DraftEdits DEF MoveBlock
<1>2. t[d] \in VersionRow /\ t[d].draft = TRUE /\ t[d].deleted = FALSE
  <2> HIDE DEF t
  <2>1. t = Drafted(blocks[b], u, seen, d)
    BY DEF t
  <2> QED
    BY <1>1, <2>1, EditedDraft
<1>3. /\ row \in VersionRow /\ row.draft = TRUE /\ row.deleted = FALSE
      /\ row.createdBy = t[d].createdBy /\ row.base = t[d].base
  BY <1>2 DEF VersionRow
<1>4. SoundEdit(blocks[b], [t EXCEPT ![d] = row]) /\
      SoundStep(blocks[b], [t EXCEPT ![d] = row])
  BY <1>1, <1>3, RewriteStep
<1>5. blocks' = [blocks EXCEPT ![b] = [t EXCEPT ![d] = row]]
  BY <1>1
<1> QED
  BY <1>1, <1>4, <1>5, OneStack DEF EditStep, IInv

LEMMA DeleteBlockStep ==
  ASSUME IInv, NEW u \in Teacher, NEW b \in Block, NEW seen \in Version,
         NEW d \in Version, DeleteBlockByID(u, b, seen, d)
  PROVE  EditStep
<1> DEFINE t   == Drafted(blocks[b], u, seen, d)
           row == [t[d] EXCEPT !.deleted = TRUE]
<1>1. /\ CanEdit(blocks[b], u, seen, d)
      /\ blocks' = [blocks EXCEPT ![b] =
           IF t[d].base = NoBase THEN Without(t, d)
           ELSE [t EXCEPT ![d].deleted = TRUE]]
      /\ UNCHANGED checkpoints
  BY DraftEdits DEF DeleteBlockByID
<1>2. /\ t[d] \in VersionRow /\ t[d].draft = TRUE
      /\ SoundEdit(blocks[b], t) /\ SoundStack(t)
      /\ d \in Present(t) \ Published(t)
  BY <1>1, EditedDraft
<1>3. CASE t[d].base = NoBase
  <2>1. SoundEdit(t, Without(t, d)) /\ SoundStep(t, Without(t, d))
    BY <1>2, WithoutSound DEF SoundEdit
  <2>2. SoundEdit(blocks[b], Without(t, d)) /\ SoundStep(blocks[b], Without(t, d))
    BY <1>2, <2>1, EditThenStep
  <2>3. blocks' = [blocks EXCEPT ![b] = Without(t, d)]
    BY <1>1, <1>3
  <2> QED
    BY <1>1, <2>2, <2>3, OneStack DEF EditStep, IInv
<1>4. CASE t[d].base # NoBase
  <2>1. /\ row \in VersionRow /\ row.draft = TRUE
        /\ row.createdBy = t[d].createdBy /\ row.base = t[d].base
    BY <1>2 DEF VersionRow
  <2>2. SoundEdit(blocks[b], [t EXCEPT ![d] = row]) /\
        SoundStep(blocks[b], [t EXCEPT ![d] = row])
    BY <1>1, <1>4, <2>1, RewriteStep
  <2>3. blocks' = [blocks EXCEPT ![b] = [t EXCEPT ![d] = row]]
    BY <1>1, <1>4
  <2> QED
    BY <1>1, <2>2, <2>3, OneStack DEF EditStep, IInv
<1> QED
  BY <1>3, <1>4

LEMMA UpdateTaskStep ==
  ASSUME IInv, NEW u \in Teacher, NEW b \in Block, NEW seen \in Version,
         NEW d \in Version, NEW x \in Data, UpdateTask(u, b, seen, d, x)
  PROVE  EditStep \/ PublishStep
<1> DEFINE t   == Drafted(blocks[b], u, seen, d)
           row == [t[d] EXCEPT !.data = x]
           s   == [t EXCEPT ![d].data = x]
<1>1. /\ CanEdit(blocks[b], u, seen, d)
      /\ IF d = seen
         THEN blocks' = [blocks EXCEPT ![b] = s] /\ UNCHANGED checkpoints
         ELSE /\ PublishHasRoom(s, d)
              /\ blocks' = [blocks EXCEPT ![b] = PublishDraft(s, d, TRUE)]
              /\ CreateCheckpoint
  BY DraftEdits DEF UpdateTask
<1>2. /\ t[d] \in VersionRow /\ t[d].draft = TRUE /\ t[d].deleted = FALSE
      /\ SoundStack(t) /\ d \in Present(t) \ Published(t)
  <2>1. CanEdit(blocks[b], u, seen, d)
    BY <1>1
  <2>2. t = Drafted(blocks[b], u, seen, d)
    OBVIOUS
  <2> HIDE DEF t
  <2> QED
    BY <2>1, <2>2, EditedDraft
<1>3. /\ row \in VersionRow /\ row.draft = TRUE /\ row.deleted = FALSE
      /\ row.createdBy = t[d].createdBy /\ row.base = t[d].base
  BY <1>2 DEF VersionRow
<1>4. s = [t EXCEPT ![d] = row]
  OBVIOUS
<1>5. SoundEdit(blocks[b], s) /\ SoundStep(blocks[b], s)
  <2>1. SoundEdit(blocks[b], [t EXCEPT ![d] = row]) /\
        SoundStep(blocks[b], [t EXCEPT ![d] = row])
    BY <1>1, <1>3, RewriteStep
  <2> QED
    BY <1>4, <2>1
<1>6. CASE d = seen
  <2> HIDE DEF s
  <2>1. blocks' = [blocks EXCEPT ![b] = s] /\ UNCHANGED checkpoints
    BY <1>1, <1>6
  <2> QED
    BY <1>5, <2>1, OneStack DEF EditStep, IInv
<1>7. CASE d # seen
  <2>1. SoundStack(s)
    BY <1>5 DEF SoundStep
  <2>2. d \in Present(s) \ Published(s)
    <3>1. s[d] = row
      BY <1>2, <1>4 DEF SoundStack, Stack
    <3> QED
      BY <1>2, <1>3, <3>1, ConstantsAssumption DEF Present, Published
  <2> HIDE DEF s
  <2>3. SoundStep(s, PublishDraft(s, d, TRUE))
    BY <1>1, <1>7, <2>1, <2>2, PublishDraftSound
  <2>4. SoundStep(blocks[b], PublishDraft(s, d, TRUE))
    BY <1>5, <2>3, EditThenStep
  <2>5. blocks' = [blocks EXCEPT ![b] = PublishDraft(s, d, TRUE)]
    BY <1>1, <1>7
  <2> QED
    BY <1>1, <1>7, <2>4, <2>5, OneStack DEF PublishStep, IInv
<1> QED
  BY <1>6, <1>7

LEMMA PublishDraftsStep ==
  ASSUME IInv, NEW u \in Teacher, PublishDrafts(u)
  PROVE  PublishStep
<1> DEFINE draft(b)  == OwnDraft(blocks[b], u)
           mine(b)   == DataMine(blocks[b], draft(b))
           next(b)   == IF b \in WithDraft(u)
                        THEN PublishDraft(blocks[b], draft(b), mine(b))
                        ELSE blocks[b]
<1>1. /\ \A b \in WithDraft(u) : PublishHasRoom(blocks[b], draft(b))
      /\ blocks' = [b \in Block |-> next(b)]
      /\ CreateCheckpoint
  BY DEF PublishDrafts
<1>2. ASSUME NEW b \in Block
      PROVE  SoundStep(blocks[b], next(b))
  <2>1. SoundStack(blocks[b])
    BY DEF IInv, StacksSound
  <2>2. CASE b \in WithDraft(u)
    <3>1. draft(b) \in OwnDrafts(blocks[b], u)
      BY <2>2 DEF WithDraft, OwnDraft
    <3>2. draft(b) \in Present(blocks[b]) \ Published(blocks[b])
      BY <3>1 DEF OwnDrafts, Published
    <3>3. mine(b) \in BOOLEAN /\ PublishHasRoom(blocks[b], draft(b))
      BY <1>1, <2>2 DEF DataMine
    <3> HIDE DEF draft, mine
    <3>4. SoundStep(blocks[b], PublishDraft(blocks[b], draft(b), mine(b)))
      BY <2>1, <3>2, <3>3, PublishDraftSound
    <3> QED
      BY <2>2, <3>4
  <2>3. CASE b \notin WithDraft(u)
    BY <2>1, <2>3, SoundEditRefl
  <2> QED
    BY <2>2, <2>3
<1> HIDE DEF next
<1>3. \A b \in Block : next(b) \in Stack
  BY <1>2 DEF SoundStep, SoundStack
<1>4. \A b \in Block : blocks'[b] = next(b)
  BY <1>1
<1> QED
  BY <1>1, <1>2, <1>3, <1>4 DEF PublishStep

LEMMA DiscardDraftsStep ==
  ASSUME IInv, NEW u \in Teacher, DiscardDrafts(u)
  PROVE  EditStep
<1> DEFINE next(b) == [v \in Version |->
             IF v \in OwnDrafts(blocks[b], u) THEN Absent ELSE blocks[b][v]]
<1>1. blocks' = [b \in Block |-> next(b)] /\ UNCHANGED checkpoints
  BY DEF DiscardDrafts
<1>2. \A b \in Block : SoundEdit(blocks[b], next(b))
  BY DiscardSound DEF IInv, StacksSound
<1> HIDE DEF next
<1>3. \A b \in Block : next(b) \in Stack
  BY <1>2 DEF SoundEdit, SoundStep, SoundStack
<1> QED
  BY <1>1, <1>2, <1>3 DEF EditStep

LEMMA RestoreCheckpointStep ==
  ASSUME IInv, NEW u \in Teacher, NEW i \in 1..Len(checkpoints),
         RestoreCheckpoint(u, i)
  PROVE  PublishStep
<1> DEFINE target   == checkpoints[i]
           restored == {b \in Block : Restored(blocks[b], target[b])}
           removed  == {b \in Block : Removed(blocks[b], target[b])}
           next(b)  ==
             CASE b \in restored -> Republish(blocks[b], target[b], u, FALSE)
               [] b \in removed  ->
                    Republish(blocks[b], HeadVersion(blocks[b]), u, TRUE)
               [] OTHER          -> blocks[b]
<1>1. /\ \A b \in restored \cup removed : HasRoom(blocks[b])
      /\ blocks' = [b \in Block |-> next(b)]
      /\ CreateCheckpoint
  BY DEF RestoreCheckpoint
<1>2. ASSUME NEW b \in Block
      PROVE  SoundStep(blocks[b], next(b))
  <2>1. SoundStack(blocks[b])
    BY DEF IInv, StacksSound
  <2>2. CASE b \in restored
    <3>1. target[b] \in Published(blocks[b])
      BY <2>2 DEF IInv, CheckpointsRestorable, Restored
    <3>2. HasRoom(blocks[b])
      BY <1>1, <2>2
    <3>3. SoundStep(blocks[b], Republish(blocks[b], target[b], u, FALSE))
      BY <2>1, <3>1, <3>2, RepublishSound
    <3>4. next(b) = Republish(blocks[b], target[b], u, FALSE)
      <4>1. b \notin removed
        BY <2>2 DEF Restored, Removed
      <4> QED
        BY <2>2, <4>1
    <3> QED
      BY <3>3, <3>4
  <2>3. CASE b \in removed /\ b \notin restored
    <3>1. HeadVersion(blocks[b]) \in Published(blocks[b])
      BY <2>1, <2>3, HeadIsHead DEF Removed, HasLiveHead, SoundStack, IsHead
    <3>2. HasRoom(blocks[b])
      BY <1>1, <2>3
    <3>3. SoundStep(blocks[b],
                    Republish(blocks[b], HeadVersion(blocks[b]), u, TRUE))
      BY <2>1, <3>1, <3>2, RepublishSound
    <3> QED
      BY <2>3, <3>3
  <2>4. CASE b \notin removed /\ b \notin restored
    BY <2>1, <2>4, SoundEditRefl
  <2> QED
    BY <2>2, <2>3, <2>4
<1> HIDE DEF next
<1>3. \A b \in Block : next(b) \in Stack
  BY <1>2 DEF SoundStep, SoundStack
<1>4. \A b \in Block : blocks'[b] = next(b)
  BY <1>1
<1> QED
  BY <1>1, <1>2, <1>3, <1>4 DEF PublishStep

LEMMA RebalanceStep ==
  ASSUME IInv, NEW f \in [Position -> Position], RebalanceBlockPositions(f)
  PROVE  RenumberStep
<1>1. blocks' = [b \in Block |-> Remap(blocks[b], f)]
  BY DEF RebalanceBlockPositions
<1>2. \A b \in Block : Quiet(blocks[b], Remap(blocks[b], f))
  BY RemapSound DEF IInv, StacksSound
<1> QED
  BY <1>1, <1>2 DEF RenumberStep

LEMMA UnchangedStep ==
  ASSUME IInv, UNCHANGED blocks, UNCHANGED checkpoints
  PROVE  EditStep
BY SoundEditRefl DEF EditStep, IInv, StacksSound

\* Every step is an edit, a rebalance or a publish.
LEMMA StepShape ==
  ASSUME IInv, [Next]_vars
  PROVE  EditStep \/ RenumberStep \/ PublishStep
<1>1. CASE UNCHANGED vars
  BY <1>1, UnchangedStep DEF vars
<1>2. CASE \E u \in Teacher, b \in Block, x \in Data, p \in Position :
             CreateBlock(u, b, x, p)
  BY <1>2, CreateIsNew, CreateBlockStep
<1>3. CASE \E u \in Teacher, b \in Block, seen, d \in Version, x \in Data :
             PatchBlock(u, b, seen, d, x)
  BY <1>3, PatchBlockStep
<1>4. CASE \E u \in Teacher, b \in Block, seen, d \in Version, p \in Position :
             MoveBlock(u, b, seen, d, p)
  BY <1>4, MoveBlockStep
<1>5. CASE \E u \in Teacher, b \in Block, seen, d \in Version :
             DeleteBlockByID(u, b, seen, d)
  BY <1>5, DeleteBlockStep
<1>6. CASE \E u \in Teacher, b \in TaskBlock, seen, d \in Version, x \in Data :
             UpdateTask(u, b, seen, d, x)
  BY <1>6, UpdateTaskStep, ConstantsAssumption
<1>7. CASE \E u \in Teacher : PublishDrafts(u) \/ DiscardDrafts(u)
  BY <1>7, PublishDraftsStep, DiscardDraftsStep
<1>8. CASE \E u \in Teacher, i \in 1..MaxCheckpoints :
             i <= Len(checkpoints) /\ RestoreCheckpoint(u, i)
  <2>1. PICK u \in Teacher, i \in 1..MaxCheckpoints :
          i <= Len(checkpoints) /\ RestoreCheckpoint(u, i)
    BY <1>8
  <2>2. i \in 1..Len(checkpoints)
    BY <2>1, ConstantsAssumption DEF IInv, TypeOK
  <2> QED
    BY <2>1, <2>2, RestoreCheckpointStep
<1>9. CASE \E f \in [Position -> Position] : RebalanceBlockPositions(f)
  BY <1>9, RebalanceStep
<1>10. CASE DeleteCourseByID
  BY <1>10, UnchangedStep DEF DeleteCourseByID
<1> QED
  BY <1>1, <1>2, <1>3, <1>4, <1>5, <1>6, <1>7, <1>8, <1>9, <1>10 DEF Next

-----------------------------------------------------------------------------
(* Types                                                                   *)

TasksType  == [TaskBlock -> Task \cup {Absent}]
GroupsType == [Group -> {"none", "live", "deleted"}]

LEMMA DeleteUnlinkedTasksType ==
  ASSUME NEW B, NEW R, NEW T \in TasksType, NEW G \in GroupsType,
         DeleteUnlinkedTasks(B, R, T, G)
  PROVE  tasks' \in TasksType /\ groups' \in GroupsType
<1> DEFINE gone == {b \in B \cap TaskBlock : IsLiveTask(T[b]) /\ ~LinksTask(R[b])}
           next(b) == IF b \in gone THEN [T[b] EXCEPT !.live = FALSE] ELSE T[b]
<1>1. /\ tasks' = [b \in TaskBlock |-> next(b)]
      /\ groups' = [g \in Group |-> IF g \in Emptied(T, gone) THEN "deleted" ELSE G[g]]
  BY DEF DeleteUnlinkedTasks
<1>2. ASSUME NEW b \in TaskBlock
      PROVE  next(b) \in Task \cup {Absent}
  <2>1. b \in gone => T[b] \in Task
    BY DEF TasksType, IsLiveTask
  <2> QED
    BY <2>1 DEF TasksType, Task
<1> HIDE DEF gone, next
<1>3. groups' \in GroupsType
  BY <1>1 DEF GroupsType
<1> QED
  BY <1>1, <1>2, <1>3 DEF TasksType

LEMMA CreateTaskType ==
  ASSUME tasks \in TasksType, groups \in GroupsType, NEW u, NEW b \in TaskBlock,
         CreateTask(u, b)
  PROVE  tasks' \in TasksType /\ groups' \in GroupsType
<1>1. PICK g \in Group, name \in TaskName :
        /\ tasks' = [tasks EXCEPT ![b] = [group |-> g, name |-> name, live |-> TRUE]]
        /\ groups' = [groups EXCEPT ![g] = "live"]
  BY DEF CreateTask
<1>2. [group |-> g, name |-> name, live |-> TRUE] \in Task
  BY DEF Task
<1> QED
  BY <1>1, <1>2 DEF TasksType, GroupsType

\* A restore undeletes tasks before it deletes those of the removed blocks.
LEMMA RestoreCheckpointType ==
  ASSUME tasks \in TasksType, groups \in GroupsType, NEW u, NEW i,
         RestoreCheckpoint(u, i)
  PROVE  tasks' \in TasksType /\ groups' \in GroupsType
<1> DEFINE removed == {b \in Block : Removed(blocks[b], checkpoints[i][b])}
           back == Undeleted({b \in Block : Restored(blocks[b], checkpoints[i][b])})
           T == [b \in TaskBlock |->
                  IF b \in back THEN [tasks[b] EXCEPT !.live = TRUE] ELSE tasks[b]]
           G == [g \in Group |->
                  IF \E b \in back : tasks[b].group = g THEN "live" ELSE groups[g]]
<1>1. DeleteUnlinkedTasks(removed, blocks', T, G)
  BY DEF RestoreCheckpoint
<1>2. \A b \in back : tasks[b] \in Task
  BY DEF Undeleted, TasksType
<1> HIDE DEF removed, back
<1>3. \A b \in TaskBlock :
        (IF b \in back THEN [tasks[b] EXCEPT !.live = TRUE] ELSE tasks[b])
          \in Task \cup {Absent}
  BY <1>2 DEF Task, TasksType
<1>4. T \in TasksType /\ G \in GroupsType
  BY <1>3 DEF TasksType, GroupsType
<1> HIDE DEF T, G
<1> QED
  BY <1>1, <1>4, DeleteUnlinkedTasksType

\* What a step does to the tasks, their groups and the course row.
LEMMA TasksStep ==
  ASSUME TypeOK, [Next]_vars
  PROVE  /\ tasks' \in TasksType /\ groups' \in GroupsType
         /\ courseDeleted' \in BOOLEAN
<1>1. /\ tasks \in TasksType /\ groups \in GroupsType
      /\ courseDeleted \in BOOLEAN
  BY DEF TypeOK, TasksType, GroupsType
<1>2. CASE UNCHANGED vars
  BY <1>1, <1>2 DEF vars
<1>3. ASSUME NEW u \in Teacher, NEW b \in Block, NEW x \in Data,
             NEW p \in Position, CreateBlock(u, b, x, p)
      PROVE  /\ tasks' \in TasksType /\ groups' \in GroupsType
             /\ courseDeleted' \in BOOLEAN
  BY <1>1, <1>3, CreateTaskType DEF CreateBlock
<1>4. ASSUME NEW u \in Teacher, NEW b \in Block, NEW seen \in Version,
             NEW d \in Version, DeleteBlockByID(u, b, seen, d)
      PROVE  /\ tasks' \in TasksType /\ groups' \in GroupsType
             /\ courseDeleted' \in BOOLEAN
  <2>1. DeleteUnlinkedTasks({b}, blocks', tasks, groups) /\ UNCHANGED courseDeleted
    BY <1>4 DEF DeleteBlockByID
  <2> QED
    BY <1>1, <2>1, DeleteUnlinkedTasksType
<1>5. ASSUME NEW u \in Teacher, PublishDrafts(u)
      PROVE  /\ tasks' \in TasksType /\ groups' \in GroupsType
             /\ courseDeleted' \in BOOLEAN
  <2>1. /\ \E B : DeleteUnlinkedTasks(B, blocks', tasks, groups)
        /\ UNCHANGED courseDeleted
    BY <1>5 DEF PublishDrafts
  <2> QED
    BY <1>1, <2>1, DeleteUnlinkedTasksType
<1>6. ASSUME NEW u \in Teacher, DiscardDrafts(u)
      PROVE  /\ tasks' \in TasksType /\ groups' \in GroupsType
             /\ courseDeleted' \in BOOLEAN
  <2>1. /\ DeleteUnlinkedTasks(WithDraft(u), blocks', tasks, groups)
        /\ UNCHANGED courseDeleted
    BY <1>6 DEF DiscardDrafts
  <2> QED
    BY <1>1, <2>1, DeleteUnlinkedTasksType
<1>7. ASSUME NEW u \in Teacher, NEW i \in 1..MaxCheckpoints,
             RestoreCheckpoint(u, i)
      PROVE  /\ tasks' \in TasksType /\ groups' \in GroupsType
             /\ courseDeleted' \in BOOLEAN
  <2>1. UNCHANGED courseDeleted
    BY <1>7 DEF RestoreCheckpoint
  <2> QED
    BY <1>1, <1>7, <2>1, RestoreCheckpointType
<1>8. ASSUME \/ \E u \in Teacher, b \in Block, seen, d \in Version, x \in Data :
                  PatchBlock(u, b, seen, d, x)
             \/ \E u \in Teacher, b \in Block, seen, d \in Version,
                   p \in Position : MoveBlock(u, b, seen, d, p)
             \/ \E u \in Teacher, b \in TaskBlock, seen, d \in Version,
                   x \in Data : UpdateTask(u, b, seen, d, x)
             \/ \E f \in [Position -> Position] : RebalanceBlockPositions(f)
             \/ DeleteCourseByID
      PROVE  /\ tasks' \in TasksType /\ groups' \in GroupsType
             /\ courseDeleted' \in BOOLEAN
  <2>1. UNCHANGED <<tasks, groups>> /\ courseDeleted' \in BOOLEAN
    <3>1. ASSUME NEW u, NEW b, NEW seen, NEW d, NEW x,
                 \/ PatchBlock(u, b, seen, d, x) \/ MoveBlock(u, b, seen, d, x)
                 \/ UpdateTask(u, b, seen, d, x)
          PROVE  UNCHANGED <<tasks, groups, courseDeleted>>
      BY <3>1 DEF PatchBlock, MoveBlock, UpdateTask
    <3>2. ASSUME NEW f, RebalanceBlockPositions(f)
          PROVE  UNCHANGED <<tasks, groups, courseDeleted>>
      BY <3>2 DEF RebalanceBlockPositions
    <3>3. DeleteCourseByID => UNCHANGED <<tasks, groups>> /\ courseDeleted' = TRUE
      BY DEF DeleteCourseByID
    <3> QED
      BY <1>1, <1>8, <3>1, <3>2, <3>3
  <2> QED
    BY <1>1, <2>1
<1> QED
  BY <1>2, <1>3, <1>4, <1>5, <1>6, <1>7, <1>8 DEF Next

-----------------------------------------------------------------------------
(* Checkpoints                                                             *)

\* Edits and rebalances publish nothing.
LEMMA QuietSteps ==
  ASSUME IInv, EditStep \/ RenumberStep
  PROVE  QuietStep
<1>1. CASE EditStep
  BY <1>1 DEF EditStep, QuietStep, Quiet, SoundEdit, SoundStep, Keeps, SamePublished
<1>2. CASE RenumberStep
  <2>1. UNCHANGED checkpoints
        /\ \E f : blocks' = [b \in Block |-> Remap(blocks[b], f)]
    BY <1>2 DEF RenumberStep, RebalanceBlockPositions
  <2>2. \A b \in Block : blocks'[b] \in Stack
    BY <1>2 DEF RenumberStep, Quiet, SoundStack
  <2> QED
    BY <1>2, <2>1, <2>2 DEF RenumberStep, QuietStep
<1> QED
  BY <1>1, <1>2

\* The live head of a sound stack is a live published version.
LEMMA LiveHeadFacts ==
  ASSUME NEW s, SoundStack(s), HasLiveHead(s)
  PROVE  /\ HeadVersion(s) \in Version /\ IsHead(s, HeadVersion(s))
         /\ HeadVersion(s) \in Published(s) /\ ~s[HeadVersion(s)].deleted
BY HeadIsHead DEF SoundStack, HasLiveHead, IsHead

\* A step that publishes nothing keeps the head and whether it is live.
LEMMA QuietKeepsHead ==
  ASSUME NEW s, SoundStack(s), NEW t, Quiet(s, t)
  PROVE  /\ HasLiveHead(t) <=> HasLiveHead(s)
         /\ \A v : IsHead(t, v) <=> IsHead(s, v)
<1>1. \A v : IsHead(t, v) <=> IsHead(s, v)
  BY DEF Quiet, IsHead
<1>2. HeadVersion(t) = HeadVersion(s)
  BY <1>1 DEF HeadVersion
<1>3. Published(s) # {} => t[HeadVersion(s)].deleted = s[HeadVersion(s)].deleted
  <2>1. Published(s) # {} => HeadVersion(s) \in Published(s)
    BY HeadIsHead DEF SoundStack, IsHead
  <2> QED
    BY <2>1 DEF Quiet, SamePublished
<1> QED
  BY <1>1, <1>2, <1>3 DEF HasLiveHead, Quiet

\* What createCheckpoint records, when the stacks are sound after the step.
LEMMA NewCheckpoint ==
  ASSUME IInv, StacksSound', CreateCheckpoint
  PROVE  /\ LiveHeads(blocks') \in [Block -> Version \cup {0}]
         /\ checkpoints' \in Seq([Block -> Version \cup {0}])
         /\ Len(checkpoints') = Len(checkpoints) + 1
         /\ Len(checkpoints) \in Nat
         /\ checkpoints'[Len(checkpoints')] = LiveHeads(blocks')
         /\ \A i \in 1..Len(checkpoints) : checkpoints'[i] = checkpoints[i]
<1>1. \A b \in Block : HasLiveHead(blocks'[b]) => HeadVersion(blocks'[b]) \in Version
  BY LiveHeadFacts DEF StacksSound
<1>2. LiveHeads(blocks') \in [Block -> Version \cup {0}]
  BY <1>1 DEF LiveHeads
<1>3. /\ checkpoints \in Seq([Block -> Version \cup {0}])
      /\ checkpoints' = Append(checkpoints, LiveHeads(blocks'))
  BY DEF IInv, TypeOK, CreateCheckpoint
<1> HIDE DEF LiveHeads
<1> QED
  BY <1>2, <1>3

LEMMA QuietPreserves ==
  ASSUME IInv, QuietStep
  PROVE  /\ StacksSound'
         /\ CheckpointsRestorable'
         /\ LatestCheckpointIsPublished'
<1>1. StacksSound'
  BY DEF QuietStep, StacksSound, Quiet
<1>2. CheckpointsRestorable'
  BY DEF QuietStep, IInv, CheckpointsRestorable, Quiet, SamePublished
<1>3. LatestCheckpointIsPublished'
  <2>1. CASE checkpoints = <<>>
    BY <2>1 DEF QuietStep, IInv, LatestCheckpointIsPublished, Quiet
  <2>2. CASE checkpoints # <<>>
    <3>1. \A b \in Block :
            /\ HasLiveHead(blocks'[b]) <=> HasLiveHead(blocks[b])
            /\ \A v : IsHead(blocks'[b], v) <=> IsHead(blocks[b], v)
      BY QuietKeepsHead DEF QuietStep, IInv, StacksSound
    <3>2. UNCHANGED checkpoints
      BY DEF QuietStep
    <3> QED
      BY <2>2, <3>1, <3>2 DEF IInv, LatestCheckpointIsPublished
  <2> QED
    BY <2>1, <2>2
<1> QED
  BY <1>1, <1>2, <1>3

LEMMA PublishPreserves ==
  ASSUME IInv, PublishStep
  PROVE  /\ StacksSound'
         /\ CheckpointsRestorable'
         /\ LatestCheckpointIsPublished'
<1>1. StacksSound' /\ CreateCheckpoint
  BY DEF PublishStep, StacksSound, SoundStep
<1>2. /\ Len(checkpoints') = Len(checkpoints) + 1
      /\ Len(checkpoints) \in Nat
      /\ checkpoints'[Len(checkpoints')] = LiveHeads(blocks')
      /\ \A i \in 1..Len(checkpoints) : checkpoints'[i] = checkpoints[i]
  BY <1>1, NewCheckpoint
<1>3. ASSUME NEW b \in Block
      PROVE  IF HasLiveHead(blocks'[b])
             THEN /\ IsHead(blocks'[b], LiveHeads(blocks')[b])
                  /\ LiveHeads(blocks')[b] \in Published(blocks'[b])
                  /\ ~blocks'[b][LiveHeads(blocks')[b]].deleted
             ELSE LiveHeads(blocks')[b] = 0
  BY <1>1, LiveHeadFacts DEF LiveHeads, StacksSound
<1>4. CheckpointsRestorable'
  <2> SUFFICES ASSUME NEW i \in 1..Len(checkpoints'), NEW b \in Block,
                      checkpoints'[i][b] # 0
               PROVE  /\ checkpoints'[i][b] \in Published(blocks'[b])
                      /\ ~blocks'[b][checkpoints'[i][b]].deleted
    BY DEF CheckpointsRestorable
  <2>1. CASE i = Len(checkpoints')
    BY <1>2, <1>3, <2>1
  <2>2. CASE i # Len(checkpoints')
    <3>1. i \in 1..Len(checkpoints)
      BY <1>2, <2>2
    <3>2. checkpoints'[i][b] = checkpoints[i][b]
      BY <1>2, <3>1
    <3>3. /\ checkpoints[i][b] \in Published(blocks[b])
          /\ ~blocks[b][checkpoints[i][b]].deleted
      BY <3>1, <3>2 DEF IInv, CheckpointsRestorable
    <3> QED
      BY <3>2, <3>3 DEF PublishStep, SoundStep, Keeps, SamePublished
  <2> QED
    BY <2>1, <2>2
<1>5. LatestCheckpointIsPublished'
  <2>1. checkpoints' # <<>>
    BY <1>2
  <2> QED
    BY <1>2, <1>3, <2>1 DEF LatestCheckpointIsPublished
<1> QED
  BY <1>1, <1>4, <1>5

-----------------------------------------------------------------------------
(* The inductive invariant                                                 *)

LEMMA InitIInv == Init => IInv
<1> SUFFICES ASSUME Init PROVE IInv
  OBVIOUS
<1>1. \A b \in Block : blocks[b] = EmptyStack
  BY DEF Init
<1>2. StacksSound
  <2>1. EmptyStack \in Stack
    BY EmptyStackSound DEF SoundStack
  <2> QED
    BY <1>1, <2>1, EmptyStackSound DEF Init, StacksSound
<1>3. TypeOK
  <2>1. tasks \in [TaskBlock -> Task \cup {Absent}]
    BY DEF Init
  <2>2. groups \in [Group -> {"none", "live", "deleted"}]
    BY DEF Init
  <2>3. checkpoints \in Seq([Block -> Version \cup {0}])
    <3>1. \A S : <<>> \in Seq(S)
      OBVIOUS
    <3> QED
      BY <3>1 DEF Init
  <2>4. courseDeleted \in BOOLEAN
    BY DEF Init
  <2> QED
    BY <1>2, <2>1, <2>2, <2>3, <2>4 DEF TypeOK, StacksSound
<1>4. CheckpointsRestorable
  BY DEF Init, CheckpointsRestorable
<1>5. LatestCheckpointIsPublished
  BY <1>1 DEF Init, LatestCheckpointIsPublished, Published, Present, EmptyStack
<1> QED
  BY <1>2, <1>3, <1>4, <1>5 DEF IInv

LEMMA NextIInv == IInv /\ [Next]_vars => IInv'
<1> SUFFICES ASSUME IInv, [Next]_vars PROVE IInv'
  OBVIOUS
<1>1. StacksSound' /\ CheckpointsRestorable' /\ LatestCheckpointIsPublished'
  BY StepShape, QuietSteps, QuietPreserves, PublishPreserves
<1>2. checkpoints' \in Seq([Block -> Version \cup {0}])
  BY <1>1, StepShape, QuietSteps, NewCheckpoint
  DEF QuietStep, PublishStep, IInv, TypeOK
<1>3. TypeOK'
  BY <1>1, <1>2, TasksStep DEF IInv, TypeOK, StacksSound, TasksType, GroupsType
<1> QED
  BY <1>1, <1>3 DEF IInv

\* The inductive invariant holds in every reachable state.
THEOREM Invariance == Spec => []IInv
BY InitIInv, NextIInv, PTL DEF Spec

\* Every variable keeps its type.
THEOREM TypeCorrect == Spec => []TypeOK
<1>1. IInv => TypeOK
  BY DEF IInv
<1> QED
  BY <1>1, Invariance, PTL

\* No teacher ever has two drafts of one block.
THEOREM DraftUnique == Spec => []OneDraftPerAuthor
<1>1. IInv => OneDraftPerAuthor
  BY DEF IInv, StacksSound, SoundStack, OneDraftPerAuthor
<1> QED
  BY <1>1, Invariance, PTL

\* Every draft keeps a live published base below it, or is alone in its stack.
THEOREM DraftBase == Spec => []DraftsAnchored
<1>1. IInv => DraftsAnchored
  BY DEF IInv, StacksSound, SoundStack, DraftsAnchored
<1> QED
  BY <1>1, Invariance, PTL

\* Every checkpoint can be shown and restored for ever.
THEOREM CheckpointsKept == Spec => []CheckpointsRestorable
<1>1. IInv => CheckpointsRestorable
  BY DEF IInv
<1> QED
  BY <1>1, Invariance, PTL

\* The last checkpoint committed is the published course.
THEOREM LatestCheckpoint == Spec => []LatestCheckpointIsPublished
<1>1. IInv => LatestCheckpointIsPublished
  BY DEF IInv
<1> QED
  BY <1>1, Invariance, PTL

\* A newly published version is above everything published before it.
THEOREM PublishedAbove == Spec => PublishedOnTop
<1> DEFINE Top == \A b \in Block : OnTop(blocks[b], blocks'[b])
<1>1. IInv /\ [Next]_vars => Top
  BY StepShape DEF EditStep, RenumberStep, PublishStep, SoundEdit, SoundStep,
                   Quiet, OnTop
<1>2. Spec => [][Top]_vars
  BY <1>1, Invariance, PTL DEF Spec
<1> QED
  BY <1>2, PTL DEF PublishedOnTop, OnTop

\* A step that renumbers no positions keeps every published row as it is.
LEMMA RowsKept ==
  ASSUME EditStep \/ PublishStep, NEW b \in Block, NEW v \in Published(blocks[b])
  PROVE  v \in Published(blocks'[b]) /\ blocks'[b][v] = blocks[b][v]
BY DEF EditStep, PublishStep, SoundEdit, SoundStep, Keeps

\* A rebalance keeps the order of the positions of two versions.
LEMMA OrderKept ==
  ASSUME IInv, NEW f \in [Position -> Position], RebalanceBlockPositions(f),
         NEW b \in Block, NEW v \in Present(blocks[b]),
         NEW c \in Block, NEW w \in Present(blocks[c])
  PROVE  blocks[b][v].position < blocks[c][w].position <=>
         blocks'[b][v].position < blocks'[c][w].position
<1> DEFINE p == blocks[b][v].position
           q == blocks[c][w].position
<1>1. /\ blocks[b][v] \in VersionRow /\ blocks[c][w] \in VersionRow
      /\ blocks[b][v] # Absent /\ blocks[c][w] # Absent
      /\ v \in Version /\ w \in Version
  BY RowType DEF IInv, StacksSound, SoundStack, Present
<1>2. /\ blocks'[b][v] = [blocks[b][v] EXCEPT !.position = f[p]]
      /\ blocks'[c][w] = [blocks[c][w] EXCEPT !.position = f[q]]
  BY <1>1 DEF RebalanceBlockPositions, Remap
<1>3. blocks'[b][v].position = f[p] /\ blocks'[c][w].position = f[q]
  BY <1>1, <1>2 DEF VersionRow
<1>4. p \in Position /\ q \in Position
  BY <1>1 DEF VersionRow
<1>5. p \in UsedPositions /\ q \in UsedPositions
  BY <1>1, <1>4 DEF UsedPositions
<1>6. (p < q => f[p] < f[q]) /\ (q < p => f[q] < f[p])
  BY <1>5 DEF RebalanceBlockPositions
<1>7. p \in Nat /\ q \in Nat /\ f[p] \in Nat /\ f[q] \in Nat
  BY <1>4 DEF Position
<1> HIDE DEF p, q
<1>8. p < q <=> f[p] < f[q]
  BY <1>6, <1>7
<1> QED
  BY <1>3, <1>8 DEF p, q

\* Published versions are kept, in their order.
THEOREM PublishedNeverChanges == Spec => PublishedKept
<1> DEFINE Kept ==
      \A b, c \in Block :
        \A v \in Published(blocks[b]), w \in Published(blocks[c]) :
          /\ SamePublished(blocks[b], blocks'[b], v)
          /\ blocks[b][v].position < blocks[c][w].position <=>
             blocks'[b][v].position < blocks'[c][w].position
<1>1. ASSUME IInv, [Next]_vars
      PROVE  Kept
  <2>1. CASE EditStep \/ PublishStep
    BY <2>1, RowsKept DEF SamePublished
  <2>2. CASE RenumberStep
    <3>1. PICK f \in [Position -> Position] : RebalanceBlockPositions(f)
      BY <2>2 DEF RenumberStep
    <3>2. \A b \in Block : \A v \in Published(blocks[b]) :
            SamePublished(blocks[b], blocks'[b], v)
      BY <2>2 DEF RenumberStep, Quiet
    <3>3. \A b \in Block : Published(blocks[b]) \subseteq Present(blocks[b])
      BY DEF Published
    <3> QED
      BY <1>1, <3>1, <3>2, <3>3, OrderKept
  <2> QED
    BY <1>1, <2>1, <2>2, StepShape
<1> HIDE DEF Kept
<1>2. Spec => [][Kept]_vars
  BY <1>1, Invariance, PTL DEF Spec
<1> QED
  BY <1>2, PTL DEF PublishedKept, Kept

==============================================================================
