--------------------------- MODULE MCMemoryDream ---------------------------
(***************************************************************************)
(* An instance of MemoryDream: three topics and a fourth id, two runs of    *)
(* the model, two changes by others and one crash.                         *)
(***************************************************************************)
EXTENDS MemoryDream

CONSTANTS t1, t2, t3, t4

ThreeTopics == <<t1, t2, t3>>

\* A merge, and a topic archived in its favour (named twice, so that the plan is
\* over the cap and is trimmed); a rewrite with two archives, one of them of a
\* stale topic; and a merge that only fits what another plan has left.
Answers == {<<Merge({t1, t2}, t4), Archive(t3, t4), Archive(t3, t4)>>,
            <<Rewrite(t1), Archive(t2, t1), Archive(t3, "none")>>,
            <<Merge({t3, t4}, t2)>>}
=============================================================================
