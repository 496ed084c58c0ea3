---------------------------- MODULE MCScheduler ----------------------------
EXTENDS Scheduler

\* LRem is the library's Remove, on every short queue.
ASSUME LRemIsRemove ==
  \A q \in BoundedSeq(Trace, 5), t \in Trace : LRem(q, t) = Remove(q, t)

Symmetry == Permutations(Trace) \cup Permutations(Node)
=============================================================================
