---------------------------- MODULE MCThreadPool ----------------------------
(* Instances of the thread pool for TLC. *)
EXTENDS ThreadPool

\* Threads are interchangeable, and so are tasks: they are numbers, and the
\* least unused one is taken.  Every behaviour is such a behaviour up to
\* renaming, and unlike a symmetry set this is sound for liveness too.
LeastFirst ==
  /\ \A t, u \in Threads :
       state[t] = "none" /\ state'[t] # "none" /\ u < t => state[u] # "none"
  /\ \A f, g \in Tasks : arg # arg' /\ arg' = f /\ g < f => g \in Submitted
=============================================================================
