--------------------------- MODULE MCBlockVersions ---------------------------
(* BlockVersions on small instances.  Teachers, blocks of one type, data,   *)
(* groups and task names are interchangeable; positions are ordered and     *)
(* versions are numbers, so they are not.                                   *)
EXTENDS BlockVersionsCourse, TLC

Symmetry ==
  Permutations(Teacher) \cup Permutations(Block \ TaskBlock)
    \cup Permutations(TaskBlock) \cup Permutations(Data) \cup Permutations(Group)

\* Nothing is explored past the last checkpoint; the step to it is checked.
BeforeLastCheckpoint == Len(checkpoints) < MaxCheckpoints

==============================================================================
