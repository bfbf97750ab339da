----------------------------- MODULE MCSessions -----------------------------
(* Small instances of the session registry's slots and of the two halves of  *)
(* the subagent spawner.  They share no state, so each behaviour explores    *)
(* one of them and leaves the others in their initial states, where no step  *)
(* is enabled of which fairness is assumed.                                  *)
EXTENDS SubagentNotices, SubagentRuns, SessionSlots

VARIABLE part

mcVars == <<noticeVars, runVars, slotVars, part>>

Init ==
    /\ NoticesInit /\ RunsInit /\ SlotsInit
    /\ part \in {"notices", "runs", "slots"}

Next ==
    \/ part = "notices" /\ NoticesNext /\ UNCHANGED <<runVars, slotVars, part>>
    \/ part = "runs" /\ RunsNext /\ UNCHANGED <<noticeVars, slotVars, part>>
    \/ part = "slots" /\ SlotsNext /\ UNCHANGED <<noticeVars, runVars, part>>

Spec == Init /\ [][Next]_mcVars /\ NoticesFair /\ RunsFair /\ SlotsFair
=============================================================================
