------------------------- MODULE MCCourseTransactions -------------------------
(* CourseTransactions on small instances.  Connections, teachers, data are   *)
(* interchangeable.                                                          *)
EXTENDS CourseTransactions, TLC

Symmetry == Permutations(Teacher) \cup Permutations(Connection) \cup Permutations(Data)

Written ==
  UNION {{blocks[b][v], txn[c].rows[b][v]} :
           <<b, v, c>> \in Block \X Version \X Connection} \ {Absent, Kept}

OneData     == \A r, q \in Written : r.data = q.data
OnePosition == \A r \in Written : r.position = 1

Alone(B) ==
  \A b \in Block \ B :
    blocks[b] = EmptyStack /\ \A c \in Connection : txn[c].rows[b] = NoRows[b]

TwoVersions ==
  /\ \A b \in Block, v \in Version, c \in Connection :
       v > 2 => blocks[b][v] = Absent /\ txn[c].rows[b][v] \in {Absent, Kept}
  /\ Len(checkpoints) <= 2

NoneDoes(ops) == \A c \in Connection : txn[c].op \notin ops

\* The task block alone is edited through three versions; through two it is
\* moved too, or edited beside the other block where one datum and one position
\* leave a patch nothing to do that a move does not, or the other block alone
\* is edited.
Explored ==
  /\ \/ Alone(TaskBlock) /\ OnePosition
     \/ Alone(TaskBlock) /\ TwoVersions /\ OneData
     \/ Alone(Block \ TaskBlock) /\ TwoVersions /\ OnePosition
     \/ TwoVersions /\ OneData /\ OnePosition /\ NoneDoes({"patch", "rebalance"})
  /\ Len(checkpoints) < MaxCheckpoints
===============================================================================
