---------------------------- MODULE MCScheduler ----------------------------
(* Small instances of Scheduler for TLC. *)
EXTENDS Scheduler

\* Objects nothing refers to are garbage and are overwritten before they are
\* read again; the view leaves them out.
View == <<store, lock, [o \in InUse \ {0} |-> objs[o]], timers, handle, fires,
          ctl, boot, generations, edits, boots>>
============================================================================
