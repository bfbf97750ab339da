----------------------------- MODULE PushStream -----------------------------
(***************************************************************************)
(* What the push log promises about one (workspace, session) stream: a     *)
(* bounded window of consecutively numbered frames that grows at the end,  *)
(* and that a restart may only shorten at the end.  The promise is given   *)
(* up when the log breaks: a failed write, a session that emits without    *)
(* its tail, a stale tail, or the end of the session.                      *)
(***************************************************************************)
EXTENDS Naturals, Sequences

CONSTANTS
    Capacity,   \* frames a client can still ask for
    MaxFrames   \* bound: frames ever emitted

VARIABLES
    window,     \* the replayable frames, oldest first
    promised    \* the log has not broken

LastN(n, s) == SubSeq(s, IF Len(s) > n THEN Len(s) - n + 1 ELSE 1, Len(s))

LastSeq(w) == IF w = <<>> THEN 0 ELSE w[Len(w)].seq

Init == window = <<>> /\ promised = TRUE

\* One more frame, numbered one past the last; the oldest may fall out.
Grow == \E id \in 1..MaxFrames :
            window' = LastN(Capacity, Append(window, [seq |-> LastSeq(window) + 1, id |-> id]))

\* A crash loses the last frames: what is left is a window, perhaps an older
\* one, of the same stream.
Shrink ==
    /\ LastSeq(window') < LastSeq(window)
    /\ \A i \in 1..Len(window') :
         /\ window'[i].seq = window'[1].seq + i - 1
         /\ \A j \in 1..Len(window) :
              window'[i].seq = window[j].seq => window'[i] = window[j]

\* The log breaks, and nothing is said of it from then on.
Break == promised' = FALSE

Next ==
    \/ promised /\ promised' /\ (Grow \/ Shrink)
    \/ Break

Spec == Init /\ [][Next]_<<window, promised>>
=============================================================================
