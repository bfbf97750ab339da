---------------------------- MODULE ConfigStore ----------------------------
(***************************************************************************)
(* The cross-process transaction on the global config file                 *)
(* (ConfigStore.update): several taco processes read, change and replace   *)
(* config.json under a lock that is a directory holding one owner token.   *)
(* update() is synchronous, so a process is one thread; every file-system  *)
(* call is one step, and processes crash between any two of them.          *)
(*                                                                         *)
(* A process is named by its pid: Restart is a new process that was given  *)
(* the pid of a dead one.                                                  *)
(***************************************************************************)
EXTENDS Integers, FiniteSets

CONSTANTS
    Procs,        \* pids of taco processes
    Absent,       \* the lock directory does not exist
    MaxUpdates,   \* bound: transactions a pid starts
    MaxCrashes    \* bound: crashes, over all processes

ASSUME ConfigAssumption ==
    /\ MaxUpdates \in Nat /\ MaxCrashes \in Nat /\ IsFiniteSet(Procs)
    /\ \A S \in SUBSET (Procs \X (1..MaxUpdates)) : S # Absent

VARIABLES
    lock,      \* the lock directory: its set of owner tokens, or Absent
    file,      \* config.json: the transactions whose effect it holds
    pc, n,     \* where each process is, and how many transactions it began
    buf,       \* what a transaction read inside the lock
    seen,      \* the owners a process found in, or removes from, the directory
    live,      \* liveLockTokens of each process
    pend,      \* pendingReleases of each process
    committed, \* history: transactions whose update() replaced the file
    crashes

vars == <<lock, file, pc, n, buf, seen, live, pend, committed, crashes>>

Token == Procs \X (1..MaxUpdates)
Mine(p) == <<p, n[p]>>

Waiting == {"try", "wait", "reclaim", "steal", "rmdirEmpty"}
Holding == {"read", "commit", "unlink"}
Stages == Waiting \cup Holding \cup {"idle", "rmdir", "rmdirRetry", "dead"}

\* One type invariant; the lock directory holds tokens of known processes.
TypeOK ==
    /\ lock \in (SUBSET Token) \cup {Absent}
    /\ file \in SUBSET Token
    /\ pc \in [Procs -> Stages]
    /\ n \in [Procs -> 0..MaxUpdates]
    /\ buf \in [Procs -> SUBSET Token]
    /\ seen \in [Procs -> SUBSET Token]
    /\ live \in [Procs -> SUBSET Token]
    /\ pend \in [Procs -> SUBSET Token]
    /\ committed \in SUBSET Token
    /\ crashes \in 0..MaxCrashes

Init ==
    /\ lock = Absent
    /\ file = {}
    /\ pc = [p \in Procs |-> "idle"]
    /\ n = [p \in Procs |-> 0]
    /\ buf = [p \in Procs |-> {}]
    /\ seen = [p \in Procs |-> {}]
    /\ live = [p \in Procs |-> {}]
    /\ pend = [p \in Procs |-> {}]
    /\ committed = {}
    /\ crashes = 0

Goto(p, stage) == pc' = [pc EXCEPT ![p] = stage]

\* unlink(lock/token), with its ignored ENOENT.
Without(t) == IF lock = Absent THEN Absent ELSE lock \ {t}

\* A bug: rmdir is a recursive removal.
RemovedIfEmpty_Recursive == Absent

\* rmdir(lock), with its ignored ENOENT, ENOTEMPTY and EEXIST.
RemovedIfEmpty == IF lock = {} THEN Absent ELSE lock

----------------------------------------------------------------------------
(* lock(): a candidate directory holding a fresh token is renamed onto the *)
(* lock until that succeeds or the deadline passes.                        *)

\* update() up to the first rename: token, liveLockTokens, candidate.
Begin(p) ==
    /\ pc[p] = "idle"
    /\ n[p] < MaxUpdates
    /\ n' = [n EXCEPT ![p] = @ + 1]
    /\ live' = [live EXCEPT ![p] = @ \cup {<<p, n[p] + 1>>}]
    /\ Goto(p, "try")
    /\ UNCHANGED <<lock, file, buf, seen, pend, committed, crashes>>

\* Before a new lock, pendingReleases are tried again.  The unlink of a retry
\* may throw (the retry does not happen), and so may its rmdir.
RetryRelease(p) ==
    /\ pc[p] = "idle"
    /\ \E t \in pend[p] :
        /\ lock' = Without(t)
        /\ seen' = [seen EXCEPT ![p] = {t}]
    /\ Goto(p, "rmdirRetry")
    /\ UNCHANGED <<file, n, buf, live, pend, committed, crashes>>

RetryRmdir(p) ==
    /\ pc[p] = "rmdirRetry"
    /\ \/ /\ lock' = RemovedIfEmpty
          /\ pend' = [pend EXCEPT ![p] = @ \ seen[p]]
       \/ UNCHANGED <<lock, pend>>
    /\ seen' = [seen EXCEPT ![p] = {}]
    /\ Goto(p, "idle")
    /\ UNCHANGED <<file, n, buf, live, committed, crashes>>

\* rename(candidate, lock): the target must be missing or an empty directory.
Publishable == lock = Absent \/ lock = {}

Acquire(p) ==
    /\ pc[p] = "try"
    /\ Publishable
    /\ lock' = {Mine(p)}
    /\ Goto(p, "read")
    /\ UNCHANGED <<file, n, buf, seen, live, pend, committed, crashes>>

\* EEXIST / ENOTEMPTY; on Windows also EPERM for an existing empty directory.
Blocked(p) ==
    /\ pc[p] = "try"
    /\ lock # Absent
    /\ Goto(p, "wait")
    /\ UNCHANGED <<lock, file, n, buf, seen, live, pend, committed, crashes>>

\* A bug: waiting has no deadline.
TimeOut_Never(p) == FALSE /\ UNCHANGED vars

\* The deadline: the error is thrown and the candidate removed.
TimeOut(p) ==
    /\ pc[p] = "wait"
    /\ live' = [live EXCEPT ![p] = @ \ {Mine(p)}]
    /\ Goto(p, "idle")
    /\ UNCHANGED <<lock, file, n, buf, seen, pend, committed, crashes>>

\* Any other error of rename, readdir, rmdir or unlink is thrown.
LockFails(p) ==
    /\ pc[p] \in Waiting
    /\ live' = [live EXCEPT ![p] = @ \ {Mine(p)}]
    /\ seen' = [seen EXCEPT ![p] = {}]
    /\ Goto(p, "idle")
    /\ UNCHANGED <<lock, file, n, buf, pend, committed, crashes>>

\* readdir(lock).
ListOwners(p) ==
    /\ pc[p] = "wait"
    /\ seen' = [seen EXCEPT ![p] = IF lock = Absent THEN {} ELSE lock]
    /\ Goto(p, IF lock = Absent THEN "try" ELSE IF lock = {} THEN "rmdirEmpty" ELSE "reclaim")
    /\ UNCHANGED <<lock, file, n, buf, live, pend, committed, crashes>>

RmdirEmpty(p) ==
    /\ pc[p] = "rmdirEmpty"
    /\ lock' = RemovedIfEmpty
    /\ Goto(p, "try")
    /\ UNCHANGED <<file, n, buf, seen, live, pend, committed, crashes>>

\* A bug: only the pid is looked at, never whether it is alive.
Reclaimable_Age(p, t) == t[1] # p

\* reclaimIfDead: a token of this pid that no live transaction of this
\* process has, or a token whose pid does not exist.
Reclaimable(p, t) ==
    IF t[1] = p THEN t \notin live[p] ELSE pc[t[1]] = "dead"

Reclaim(p) ==
    /\ pc[p] = "reclaim"
    /\ \E t \in seen[p] : Reclaimable(p, t)
    /\ seen' = [seen EXCEPT ![p] = {CHOOSE t \in @ : Reclaimable(p, t)}]
    /\ Goto(p, "steal")
    /\ UNCHANGED <<lock, file, n, buf, live, pend, committed, crashes>>

\* Nobody to reclaim from: sleep 10 ms and rename again.
Sleep(p) ==
    /\ pc[p] = "reclaim"
    /\ \A t \in seen[p] : ~Reclaimable(p, t)
    /\ seen' = [seen EXCEPT ![p] = {}]
    /\ Goto(p, "try")
    /\ UNCHANGED <<lock, file, n, buf, live, pend, committed, crashes>>

\* removeOwner on the dead owner's token (a published directory has one).
Steal(p) ==
    /\ pc[p] = "steal"
    /\ \E t \in seen[p] : lock' = Without(t)
    /\ seen' = [seen EXCEPT ![p] = {}]
    /\ Goto(p, "rmdirEmpty")
    /\ UNCHANGED <<file, n, buf, live, pend, committed, crashes>>

----------------------------------------------------------------------------
(* update() inside the lock, and release.                                  *)

\* A bug: the transaction starts from the process's cached copy.
Read_Cached(p) ==
    /\ pc[p] = "read"
    /\ buf' = buf
    /\ Goto(p, "commit")
    /\ UNCHANGED <<lock, file, n, seen, live, pend, committed, crashes>>

\* readDisk inside the lock.
Read(p) ==
    /\ pc[p] = "read"
    /\ buf' = [buf EXCEPT ![p] = file]
    /\ Goto(p, "commit")
    /\ UNCHANGED <<lock, file, n, seen, live, pend, committed, crashes>>

\* rename(tmp, config.json): the file becomes what was read plus this change.
Commit(p) ==
    /\ pc[p] = "commit"
    /\ file' = buf[p] \cup {Mine(p)}
    /\ buf' = [buf EXCEPT ![p] = @ \cup {Mine(p)}]
    /\ committed' = committed \cup {Mine(p)}
    /\ Goto(p, "unlink")
    /\ UNCHANGED <<lock, n, seen, live, pend, crashes>>

\* readDisk or mutate throws, or the temporary file cannot be written.
Abort(p) ==
    /\ pc[p] = "commit"
    /\ Goto(p, "unlink")
    /\ UNCHANGED <<lock, file, n, buf, seen, live, pend, committed, crashes>>

\* release(): removeOwner, then the token is no longer live.
Release(p) ==
    /\ pc[p] = "unlink"
    /\ lock' = Without(Mine(p))
    /\ Goto(p, "rmdir")
    /\ UNCHANGED <<file, n, buf, seen, live, pend, committed, crashes>>

ReleaseRmdir(p) ==
    /\ pc[p] = "rmdir"
    /\ lock' = RemovedIfEmpty
    /\ live' = [live EXCEPT ![p] = @ \ {Mine(p)}]
    /\ Goto(p, "idle")
    /\ UNCHANGED <<file, n, buf, seen, pend, committed, crashes>>

\* unlink or rmdir throws: the release is kept for a later transaction.
ReleaseFails(p) ==
    /\ pc[p] \in {"unlink", "rmdir"}
    /\ live' = [live EXCEPT ![p] = @ \ {Mine(p)}]
    /\ pend' = [pend EXCEPT ![p] = @ \cup {Mine(p)}]
    /\ Goto(p, "idle")
    /\ UNCHANGED <<lock, file, n, buf, seen, committed, crashes>>

\* The process dies; the directory and the file stay as they are.
Crash(p) ==
    /\ pc[p] # "dead"
    /\ crashes < MaxCrashes
    /\ crashes' = crashes + 1
    /\ Goto(p, "dead")
    /\ live' = [live EXCEPT ![p] = {}]
    /\ pend' = [pend EXCEPT ![p] = {}]
    /\ seen' = [seen EXCEPT ![p] = {}]
    /\ buf' = [buf EXCEPT ![p] = {}]
    /\ UNCHANGED <<lock, file, n, committed>>

\* The pid is given to a new taco process.
Restart(p) ==
    /\ pc[p] = "dead"
    /\ Goto(p, "idle")
    /\ UNCHANGED <<lock, file, n, buf, seen, live, pend, committed, crashes>>

Next == \E p \in Procs :
    \/ Begin(p) \/ RetryRelease(p) \/ RetryRmdir(p)
    \/ Acquire(p) \/ Blocked(p) \/ TimeOut(p) \/ LockFails(p) \/ ListOwners(p)
    \/ RmdirEmpty(p) \/ Reclaim(p) \/ Sleep(p) \/ Steal(p)
    \/ Read(p) \/ Commit(p) \/ Abort(p)
    \/ Release(p) \/ ReleaseRmdir(p) \/ ReleaseFails(p)
    \/ Crash(p) \/ Restart(p)

Spec == Init /\ [][Next]_vars

\* A process that has not died runs on; performance.now() reaches the
\* deadline (strongly fair: a process passes "wait" again and again).
Fairness == \A p \in Procs :
    /\ WF_vars(\/ Acquire(p) \/ Blocked(p) \/ ListOwners(p) \/ RmdirEmpty(p)
               \/ Reclaim(p) \/ Sleep(p) \/ Steal(p))
    /\ SF_vars(TimeOut(p))
    /\ WF_vars(Read(p)) /\ WF_vars(Commit(p))
    /\ WF_vars(Release(p)) /\ WF_vars(ReleaseRmdir(p))

FairSpec == Spec /\ Fairness

----------------------------------------------------------------------------
(* Properties.                                                             *)

\* update() is a transaction: two processes are never inside the lock at
\* once, also when owners crash, pids are reused and releases fail.
MutualExclusion ==
    \A p, q \in Procs : pc[p] \in Holding /\ pc[q] \in Holding => p = q

\* No committed change is lost to a concurrent writer: the file always holds
\* every transaction that replaced it.
NoLostUpdate == committed \subseteq file

\* "A successor's nonempty directory cannot be removed by a stale releaser"
\* (removeOwner): the lock directory of a holder is never taken away.
HolderKeepsLock == \A p \in Procs : pc[p] \in Holding => lock = {Mine(p)}

\* The synchronous wait is bounded: every transaction ends.
EveryUpdateEnds == \A p \in Procs : pc[p] = "try" ~> pc[p] \in {"idle", "dead"}
============================================================================
