----------------------------- MODULE BlockOrder -----------------------------
(***************************************************************************)
(* The order of the blocks of one course: teachers create and move blocks  *)
(* in their drafts (internal/pg/blocks.go), each as they see the course,   *)
(* and publish, restore and rebalance it.  Only positions are modelled; a  *)
(* conflict over the data of a block is a publish that does not happen.    *)
(***************************************************************************)
EXTENDS FractionalIndex, FiniteSets

CONSTANTS
  Teacher,
  Block,           \* block ids, ordered as numbers
  MaxLength,       \* the length of the position column, 64 in the code
  MaxEdits,        \* bound: edits of blocks
  MaxCheckpoints,  \* bound: publishes and restores
  MaxRebalances    \* bound

NoBlock == 0

ASSUME ConstantsAssumption ==
  /\ Block \subseteq Nat \ {NoBlock} /\ IsFiniteSet(Block)
  /\ MaxLength \in Nat /\ Digits <= MaxLength
  /\ MaxEdits \in Nat /\ MaxCheckpoints \in Nat /\ MaxRebalances \in Nat

\* The empty string is not a position: NoPosition is a block that is not
\* there, not published yet, or deleted.
NoPosition == <<>>
Position == {p \in String : p # NoPosition /\ Len(p) <= MaxLength}

\* base is the position of the published version the draft started from,
\* NoPosition for a new block; the position of a deletion is NoPosition.
NoDraft == [position |-> NoPosition, base |-> NoPosition]

VARIABLES
  published,    \* block -> its position in the published course
  drafts,       \* teacher -> block -> draft, or NoDraft
  checkpoints,  \* the published positions there have been, oldest first
  edits, rebalances

vars == <<published, drafts, checkpoints, edits, rebalances>>

Init ==
  /\ published = [b \in Block |-> NoPosition]
  /\ drafts = [u \in Teacher |-> [b \in Block |-> NoDraft]]
  /\ checkpoints = <<>>
  /\ edits = 0 /\ rebalances = 0

-----------------------------------------------------------------------------
(* A teacher's view of the course                                          *)

HasDraft(u, b) == drafts[u][b] # NoDraft

View(u) ==
  [b \in Block |-> IF HasDraft(u, b) THEN drafts[u][b].position ELSE published[b]]

Shown(view) == {b \in Block : view[b] # NoPosition}

\* ORDER BY position ASC, id ASC
Precedes(view, b, c) ==
  Less(view[b], view[c]) \/ (view[b] = view[c] /\ b < c)

PositionOf(view, b) == IF b = NoBlock THEN NoPosition ELSE view[b]

\* What follows the block `after' in the view; after no block, all of it.
Following(view, after) ==
  {b \in Shown(view) : after # NoBlock => Precedes(view, after, b)}

NextPosition(view, after) ==
  LET blocks == Following(view, after)
  IN  IF blocks = {} THEN NoPosition
      ELSE view[CHOOSE b \in blocks : \A c \in blocks \ {b} : Precedes(view, b, c)]

\* Mutant: positions are looked up in the published course.
NewPositionPublished(view, after) ==
  CalculateMiddlePosition(
    PositionOf(published, after), NextPosition(published, after))

\* The position of a block put after the block `after', or first.
NewPosition(view, after) ==
  CalculateMiddlePosition(PositionOf(view, after), NextPosition(view, after))

-----------------------------------------------------------------------------
(* Editing                                                                 *)

IsUnused(b) ==
  /\ \A u \in Teacher : ~HasDraft(u, b)
  /\ \A i \in DOMAIN checkpoints : checkpoints[i][b] = NoPosition

CountEdit == edits < MaxEdits /\ edits' = edits + 1

Put(u, b, base, after) ==
  LET p == NewPosition(View(u), after)
  IN  /\ after \in Shown(View(u)) \cup {NoBlock}
      /\ Len(p) <= MaxLength
      /\ drafts' = [drafts EXCEPT ![u][b] = [position |-> p, base |-> base]]

CreateBlock(u, b, after) ==
  /\ CountEdit
  /\ IsUnused(b)
  /\ Put(u, b, NoPosition, after)
  /\ UNCHANGED <<published, checkpoints, rebalances>>

\* The version the client loaded is the own draft or the published one here;
\* BlockVersions has the older ones.
MoveBlock(u, b, after) ==
  /\ CountEdit
  /\ b # after
  /\ b \in Shown(View(u))
  /\ Put(u, b, IF HasDraft(u, b) THEN drafts[u][b].base ELSE published[b], after)
  /\ UNCHANGED <<published, checkpoints, rebalances>>

\* An edit of the data keeps the position the block had.
PatchBlock(u, b) ==
  /\ CountEdit
  /\ b \in Shown(View(u)) /\ ~HasDraft(u, b)
  /\ drafts' = [drafts EXCEPT ![u][b] =
       [position |-> published[b], base |-> published[b]]]
  /\ UNCHANGED <<published, checkpoints, rebalances>>

DeleteBlockByID(u, b) ==
  /\ CountEdit
  /\ b \in Shown(View(u))
  /\ LET base == IF HasDraft(u, b) THEN drafts[u][b].base ELSE published[b]
     IN  drafts' = [drafts EXCEPT ![u][b] =
           [position |-> NoPosition, base |-> base]]
  /\ UNCHANGED <<published, checkpoints, rebalances>>

DiscardDrafts(u) ==
  /\ drafts' = [drafts EXCEPT ![u] = [b \in Block |-> NoDraft]]
  /\ UNCHANGED <<published, checkpoints, edits, rebalances>>

-----------------------------------------------------------------------------
(* Publishing                                                              *)

\* Publishing draft d over the published position p.
Conflicting(d, p) ==
  \/ d.base # NoPosition /\ p = NoPosition /\ d.position \notin {NoPosition, d.base}
  \/ d.base # NoPosition /\ p \notin {NoPosition, d.base} /\ d.position = NoPosition

\* The draft's position when it was moved, else the published one.
Merged(d, p) ==
  IF d.base # NoPosition /\ (p = NoPosition \/ d.position = d.base)
  THEN p ELSE d.position

PublishDrafts(u) ==
  LET drafted == {b \in Block : HasDraft(u, b)}
  IN  /\ drafted # {}
      /\ Len(checkpoints) < MaxCheckpoints
      /\ \A b \in drafted : ~Conflicting(drafts[u][b], published[b])
      /\ published' = [b \in Block |->
           IF b \in drafted THEN Merged(drafts[u][b], published[b])
           ELSE published[b]]
      /\ checkpoints' = Append(checkpoints, published')
      /\ drafts' = [drafts EXCEPT ![u] = [b \in Block |-> NoDraft]]
      /\ UNCHANGED <<edits, rebalances>>

RestoreCheckpoint(i) ==
  /\ i \in DOMAIN checkpoints
  /\ Len(checkpoints) < MaxCheckpoints
  /\ published' = checkpoints[i]
  /\ checkpoints' = Append(checkpoints, published')
  /\ UNCHANGED <<drafts, edits, rebalances>>

-----------------------------------------------------------------------------
(* Rebalancing                                                             *)

\* The distinct positions among all versions of the blocks.
UsedPositions ==
  ( {checkpoints[i][b] : i \in DOMAIN checkpoints, b \in Block}
    \cup {drafts[u][b].position : u \in Teacher, b \in Block}
    \cup {drafts[u][b].base : u \in Teacher, b \in Block} ) \ {NoPosition}

\* Mutant: only the positions of the published versions are ranked.
RebalancedPublished(p) ==
  IF p = NoPosition THEN NoPosition
  ELSE LET used == {published[b] : b \in Block} \ {NoPosition}
           rank == Cardinality({q \in used : q = p \/ Less(q, p)})
       IN  IndexToPosition(rank, Cardinality(used) + 1)

\* The i-th position is mapped to the fraction i / (total + 1).
Rebalanced(p) ==
  IF p = NoPosition THEN NoPosition
  ELSE LET rank == Cardinality({q \in UsedPositions : q = p \/ Less(q, p)})
       IN  IndexToPosition(rank, Cardinality(UsedPositions) + 1)

RebalanceBlockPositions ==
  /\ rebalances < MaxRebalances
  /\ rebalances' = rebalances + 1
  /\ published' = [b \in Block |-> Rebalanced(published[b])]
  /\ checkpoints' = [i \in DOMAIN checkpoints |->
       [b \in Block |-> Rebalanced(checkpoints[i][b])]]
  /\ drafts' = [u \in Teacher |-> [b \in Block |->
       [position |-> Rebalanced(drafts[u][b].position),
        base |-> Rebalanced(drafts[u][b].base)]]]
  /\ UNCHANGED edits

Next ==
  \/ \E u \in Teacher, b \in Block :
       \/ \E after \in Block \cup {NoBlock} :
            CreateBlock(u, b, after) \/ MoveBlock(u, b, after)
       \/ PatchBlock(u, b) \/ DeleteBlockByID(u, b)
  \/ \E u \in Teacher : PublishDrafts(u) \/ DiscardDrafts(u)
  \/ \E i \in 1 .. MaxCheckpoints : RestoreCheckpoint(i)
  \/ RebalanceBlockPositions

Spec == Init /\ [][Next]_vars

-----------------------------------------------------------------------------
\* Every variable has its type (the position column of table blocks).
TypeOK ==
  LET MaybePosition == Position \cup {NoPosition}
  IN  /\ published \in [Block -> MaybePosition]
      /\ drafts \in [Teacher -> [Block ->
           [position : MaybePosition, base : MaybePosition]]]
      /\ checkpoints \in Seq([Block -> MaybePosition])
      /\ edits \in 0 .. MaxEdits
      /\ rebalances \in 0 .. MaxRebalances

\* A block put after another, or first, comes right after it in the teacher's
\* view, and the order of the others stays, whatever was published, restored
\* and rebalanced before; unless there is no room for it between the two
\* positions (CreateBlock, MoveBlock).
PutRightAfter(u, b, after) ==
  LET others == Shown(View(u)) \ {b}
  IN  /\ \A c \in others :
           Precedes(View(u)', c, b) <=>
             after # NoBlock /\ (c = after \/ Precedes(View(u), c, after))
      /\ \A c, d \in others : Precedes(View(u)', c, d) <=> Precedes(View(u), c, d)

PutsRightAfter ==
  [][\A u \in Teacher, b \in Block, after \in Block \cup {NoBlock} :
       /\ CreateBlock(u, b, after) \/ MoveBlock(u, b, after)
       /\ ~Crowded(PositionOf(View(u), after), NextPosition(View(u), after))
       => PutRightAfter(u, b, after)]_vars

\* A rebalance keeps the order and the equality of all positions, so that no
\* view changes its order and no merge its outcome (RebalanceBlockPositions).
RebalanceKeepsOrder ==
  [][RebalanceBlockPositions =>
       \A p, q \in UsedPositions :
         Less(p, q) => Less(Rebalanced(p), Rebalanced(q))]_vars
=============================================================================
