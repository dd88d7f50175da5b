------------------------------- MODULE Course -------------------------------
(***************************************************************************)
(* What the course editor promises its users (internal/courses/service.go, *)
(* internal/blocks/service.go), without versions, tables or locks: there   *)
(* is one published course with a history that is only added to, and every *)
(* teacher has private drafts, each with the content it started from.      *)
(* Publishing merges all of a teacher's drafts by value, or none of them.  *)
(***************************************************************************)
EXTENDS Naturals, Sequences

CONSTANTS
  Teacher, Block, Data, Position,
  Nothing,     \* no content: the block is not there, or deleted
  NoDraft

Content      == [data : Data, position : Position]
MaybeContent == Content \cup {Nothing}

VARIABLES
  published,   \* block -> content
  drafts,      \* teacher -> block -> [base, mine], or NoDraft
  history,     \* the published courses so far, the present one last
  deleted      \* the course is deleted

vars == <<published, drafts, history, deleted>>

Init ==
  /\ published = [b \in Block |-> Nothing]
  /\ drafts = [u \in Teacher |-> [b \in Block |-> NoDraft]]
  /\ history = <<>>
  /\ deleted = FALSE

\* The contents the block ever had in the published course.
EverPublished(b) == {history[i][b] : i \in DOMAIN history} \ {Nothing}

\* What a draft of a block starts from: a content that was published, not
\* necessarily the present one, or nothing for a new block.
Base(u, b) ==
  IF drafts[u][b] # NoDraft THEN {drafts[u][b].base}
  ELSE IF EverPublished(b) = {} THEN {Nothing} ELSE EverPublished(b)

\* One teacher edits one block, in the draft there is or in a new one; a
\* deleted block is not edited, and a new one is not deleted.
Edit(u, b) ==
  /\ UNCHANGED <<published, history>>
  /\ drafts[u][b] # NoDraft => drafts[u][b].mine # Nothing
  /\ \E draft \in [base : Base(u, b), mine : MaybeContent] :
       /\ draft.base = Nothing => draft.mine # Nothing
       /\ drafts' = [drafts EXCEPT ![u][b] = draft]

\* A new block that is deleted again leaves nothing.
Drop(u, b) ==
  /\ drafts[u][b] # NoDraft /\ drafts[u][b].base = Nothing
  /\ drafts' = [drafts EXCEPT ![u][b] = NoDraft]
  /\ UNCHANGED <<published, history>>

\* Both sides changed the data, or one deleted what the other changed.
Conflict(base, head, mine) ==
  IF base = Nothing \/ head = base \/ mine = base THEN FALSE
  ELSE IF head = Nothing THEN mine # Nothing
  ELSE mine = Nothing \/ (head.data # base.data /\ mine.data # base.data)

Merged(base, head, mine) ==
  IF mine = base THEN head
  ELSE IF base = Nothing \/ mine = Nothing \/ head = Nothing THEN mine
  ELSE [data     |-> IF mine.data # base.data THEN mine.data ELSE head.data,
        position |-> IF mine.position # base.position THEN mine.position
                     ELSE head.position]

Published(new) ==
  /\ published' = new
  /\ history' = Append(history, new)

Publish(u) ==
  LET drafted == {b \in Block : drafts[u][b] # NoDraft}
      draft(b) == drafts[u][b]
  IN  /\ drafted # {}
      /\ \A b \in drafted : ~Conflict(draft(b).base, published[b], draft(b).mine)
      /\ Published([b \in Block |->
           IF b \in drafted THEN Merged(draft(b).base, published[b], draft(b).mine)
           ELSE published[b]])
      /\ drafts' = [drafts EXCEPT ![u] = [b \in Block |-> NoDraft]]

Discard(u) ==
  /\ drafts' = [drafts EXCEPT ![u] = [b \in Block |-> NoDraft]]
  /\ UNCHANGED <<published, history>>

\* The settings of a published task are changed at once, past any drafts.
Update(b) ==
  /\ published[b] # Nothing
  /\ \E x \in Data : Published([published EXCEPT ![b].data = x])
  /\ UNCHANGED drafts

Restore ==
  /\ \E i \in DOMAIN history : Published(history[i])
  /\ UNCHANGED drafts

\* All positions are renumbered, in the same order: what the users see, and
\* what a merge decides, does not change.
Renumber ==
  \E f \in [Position -> Position] :
    LET new(c)  == IF c = Nothing THEN Nothing ELSE [c EXCEPT !.position = f[@]]
        course(m) == [b \in Block |-> new(m[b])]
        positions(m) == {m[b].position : b \in {b \in Block : m[b] # Nothing}}
        drafted == {d \in UNION {{drafts[u][b] : b \in Block} : u \in Teacher} : d # NoDraft}
        used == UNION (
          {positions(history[i]) : i \in DOMAIN history} \cup
          {{c.position : c \in {d.base, d.mine} \ {Nothing}} : d \in drafted})
    IN  /\ \A p, q \in used : p < q => f[p] < f[q]
        /\ published' = course(published)
        /\ history' = [i \in DOMAIN history |-> course(history[i])]
        /\ drafts' = [u \in Teacher |-> [b \in Block |->
             IF drafts[u][b] = NoDraft THEN NoDraft
             ELSE [base |-> new(drafts[u][b].base), mine |-> new(drafts[u][b].mine)]]]

Next ==
  /\ ~deleted
  /\ \/ /\ \/ \E u \in Teacher : Publish(u) \/ Discard(u)
           \/ \E u \in Teacher, b \in Block : Edit(u, b) \/ Drop(u, b)
           \/ \E b \in Block : Update(b)
           \/ Restore
           \/ Renumber
        /\ UNCHANGED deleted
     \/ deleted' = TRUE /\ UNCHANGED <<published, drafts, history>>

Spec == Init /\ [][Next]_vars
=============================================================================
