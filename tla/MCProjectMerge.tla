---------------------------- MODULE MCProjectMerge ----------------------------
\* ProjectMerge for TLC: projects, memos and threads are interchangeable.
EXTENDS ProjectMerge, TLC

Symmetry == Permutations(Project) \cup Permutations(Memo) \cup Permutations(Thread)

=============================================================================
