------------------------------- MODULE Tasks -------------------------------
(***************************************************************************)
(* Vocabulary of the task modules: the identities the server passes        *)
(* around and the values of the "status" field of a task:{traceID} hash.   *)
(***************************************************************************)
EXTENDS Integers, FiniteSets

CONSTANTS
  Trace,    \* trace ids (a fresh UUID per parse request)
  Node,     \* worker nodes
  Key,      \* (user, gallery) pairs: what inflight:{U}:{G} and cache:{U}:{G} are keyed by
  NoTrace,  \* GET of a missing sentinel or cache entry
  NoNode,   \* node_id = ""
  NoKey     \* a trace id that no request has drawn yet

ASSUME NullAssumption ==
  /\ NoTrace \notin Trace
  /\ NoNode \notin Node
  /\ NoKey \notin Key

\* "NONE" is the absence of the field: HGET answers nil.
Live == {"PENDING", "PROCESSING"}
Finished == {"COMPLETED", "FAILED"}
Status == {"NONE"} \cup Live \cup Finished
=============================================================================
