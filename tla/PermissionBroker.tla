-------------------------- MODULE PermissionBroker --------------------------
(***************************************************************************)
(* Asking the user before a command runs or the configuration changes      *)
(* (packages/sidecar/src/permissions/permissionBroker.ts and               *)
(* server/handlers/commandPermission.ts).                                  *)
(*                                                                         *)
(* A tool call of a session becomes an ask.  It awaits the session whose   *)
(* tool card shows it, is evaluated against the rules and, when they do    *)
(* not settle it, is parked until the user answers, its signal fires, its  *)
(* session is cleaned up or ten minutes pass.  commandPolicy's evaluation  *)
(* is external: a command is refused for good, is on a deny list, may be   *)
(* approved once only, or runs when a rule names it.  One that runs by     *)
(* itself, as a read-only command or in auto mode, touches no state of the *)
(* broker and is not among Commands.  A broker of an IM conversation has   *)
(* no approver.  The explorer subagents' read-only broker, which never     *)
(* parks, is left out, and so are edits that take a command off the allow  *)
(* list.                                                                   *)
(***************************************************************************)
EXTENDS Naturals, FiniteSets

CONSTANTS
    Sessions, Commands,
    Config,        \* what stands for the command of a configuration patch
    Asks,          \* tool calls
    Root,          \* session -> the root of its tree of subagents
    MaxEdits       \* bound: changes of what guards a command

ASSUME BrokerAssumption ==
    /\ IsFiniteSet(Asks) /\ IsFiniteSet(Sessions) /\ Config \notin Commands
    /\ Root \in [Sessions -> Sessions] /\ MaxEdits \in Nat

VARIABLES
    ask,        \* ask -> its call of the broker
    rules,      \* sessionRules
    allow,      \* the allow list of the global configuration
    deny,       \* commands its deny list, or the built-in one, matches
    opaque,     \* commands that may be allowed once only (persistentAllowed)
    approver,   \* hasApprover(): a client is there that can answer
    session,    \* session -> attached, leaving (being detached) or away
    disposed,   \* cleanupAll() was called
    granted,    \* session -> what the user meant to allow there from now on
    edits

brokerVars == <<ask, rules, allow, deny, opaque, approver, session, disposed, granted, edits>>

NoAsk == [st |-> "no", session |-> "none", cmd |-> Config, denied |-> FALSE,
          listed |-> FALSE, display |-> "none", eval |-> "none", aborted |-> FALSE,
          decision |-> "none"]

BrokerInit ==
    /\ ask = [a \in Asks |-> NoAsk]
    /\ rules = [s \in Sessions |-> {}] /\ granted = rules
    /\ allow = {}
    /\ deny \in SUBSET Commands /\ opaque \in SUBSET Commands
    /\ approver = TRUE /\ disposed = FALSE /\ edits = 0
    /\ session = [s \in Sessions |-> "attached"]

----------------------------------------------------------------------------

Parked == {a \in Asks : ask[a].st = "pending"}

\* finish(): the entry goes and the caller has its decision.
Finished(as, decision) ==
    [a \in Asks |-> IF a \in as
                    THEN [NoAsk EXCEPT !.st = "answered", !.decision = decision]
                    ELSE ask[a]]

\* evaluateAndRequest and requestConfigApproval up to the await of the display
\* context.  The configuration is read before it, and a configuration patch
\* nobody can answer is refused before it.
Ask(a, s, cmd) ==
    /\ ask[a].st = "no" /\ session[s] = "attached" /\ ~disposed
    /\ ask' = IF cmd = Config /\ ~approver
              THEN Finished({a}, "denied")
              ELSE [ask EXCEPT ![a] = [NoAsk EXCEPT
                        !.st = "resolving", !.session = s, !.cmd = cmd,
                        !.denied = cmd \in deny, !.listed = cmd \in allow]]
    /\ UNCHANGED <<rules, allow, deny, opaque, approver, session, disposed, granted, edits>>

\* The evaluation: the configuration as it was, the directories as they are.
EvalOf(a) ==
    CASE ask[a].denied -> "deny"
      [] ~ask[a].denied /\ ask[a].cmd \in opaque \cup {Config} -> "once"
      [] OTHER -> "free"

\* A global rule, or one of the session or its root, lets it run.
Allowed(a, display) ==
    /\ EvalOf(a) = "free"
    /\ ask[a].listed \/ ask[a].cmd \in rules[ask[a].session] \cup rules[display]

\* awaitDecision: the listener of a signal that fired already is never called.
Park(a, display) ==
    [ask EXCEPT ![a].st = "pending", ![a].display = display, ![a].eval = EvalOf(a)]

\* The display context is known, or could not be read: then the session itself
\* displays the ask.  The evaluation may refuse a command whatever the rules.
Resolved(a, display) ==
    /\ ask[a].st = "resolving"
    /\ display \in {ask[a].session, Root[ask[a].session]}
    /\ \/ ask' = CASE Allowed(a, display) -> Finished({a}, "allowed")
                   [] ~Allowed(a, display) /\ ask[a].cmd # Config /\ ~approver
                        -> Finished({a}, "denied")
                   [] OTHER -> Park(a, display)
       \/ ask[a].cmd # Config /\ ask' = Finished({a}, "denied")
    /\ UNCHANGED <<rules, allow, deny, opaque, approver, session, disposed, granted, edits>>

----------------------------------------------------------------------------
(* What settles a parked ask. *)

\* A bug: the scope is the one the client asked for.
Scope_Asked(a, scope) == scope
\* resolve(): a guarded command is approved once only.
Scope(a, scope) == IF ask[a].eval = "free" THEN scope ELSE "once"

\* The handler of commandPermission.resolve, with an approval.  One of global
\* scope is saved first; when that fails the ask is refused.
Approve(a, scope, saved) ==
    LET global == scope = "global" /\ ask[a].eval = "free"
        stored == Scope(a, scope) = "session" /\ ask[a].eval # "deny"
    IN  /\ a \in Parked /\ (global \/ saved)
        /\ allow' = IF global /\ saved THEN allow \cup {ask[a].cmd} ELSE allow
        /\ rules' = IF stored
                    THEN [rules EXCEPT ![ask[a].display] = @ \cup {ask[a].cmd}] ELSE rules
        /\ granted' = IF scope = "session" /\ ask[a].eval = "free"
                      THEN [granted EXCEPT ![ask[a].display] = @ \cup {ask[a].cmd}]
                      ELSE granted
        /\ ask' = Finished({a}, IF saved THEN "approved" ELSE "denied")
        /\ UNCHANGED <<deny, opaque, approver, session, disposed, edits>>

Deny(a) ==
    /\ a \in Parked
    /\ ask' = Finished({a}, "denied")
    /\ UNCHANGED <<rules, allow, deny, opaque, approver, session, disposed, granted, edits>>

\* A bug: only an ask whose signal can still fire has a timer.
TimedOut_Listening(a) == a \in Parked /\ ~ask[a].aborted /\ ask[a].cmd # Config
TimedOut(a) == a \in Parked

Timeout(a) ==
    /\ TimedOut(a)
    /\ ask' = Finished({a}, "denied")
    /\ UNCHANGED <<rules, allow, deny, opaque, approver, session, disposed, granted, edits>>

\* The signals of these asks fire; a configuration patch has none.
Aborted(as) ==
    [a \in Asks |->
        IF a \in as /\ ask[a].cmd # Config
        THEN IF a \in Parked THEN Finished({a}, "denied")[a]
             ELSE [ask[a] EXCEPT !.aborted = ask[a].st = "resolving"]
        ELSE ask[a]]

AsksOf(s) == {a \in Asks : ask[a].session = s}

\* The turn is aborted; detach() and deleteSession() do so first.
AbortTurn(s, leave) ==
    /\ session[s] = "attached"
    /\ ask' = Aborted(AsksOf(s))
    /\ session' = IF leave THEN [session EXCEPT ![s] = "leaving"] ELSE session
    /\ UNCHANGED <<rules, allow, deny, opaque, approver, disposed, granted, edits>>

\* cleanupSession(), when the session is detached or deleted.
CleanupSession(s) ==
    /\ session[s] = "leaving"
    /\ session' = [session EXCEPT ![s] = "away"]
    /\ rules' = [rules EXCEPT ![s] = {}]
    /\ granted' = [granted EXCEPT ![s] = {}]
    /\ ask' = Finished(Parked \cap AsksOf(s), "denied")
    /\ UNCHANGED <<allow, deny, opaque, approver, disposed, edits>>

Attach(s) ==
    /\ session[s] = "away" /\ ~disposed
    /\ session' = [session EXCEPT ![s] = "attached"]
    /\ UNCHANGED <<ask, rules, allow, deny, opaque, approver, disposed, granted, edits>>

\* cleanupAll(), when the workspace is disposed.
CleanupAll ==
    /\ ~disposed /\ disposed' = TRUE
    /\ ask' = Finished(Parked, "denied")
    /\ UNCHANGED <<rules, allow, deny, opaque, approver, session, granted, edits>>

----------------------------------------------------------------------------
(* The user, elsewhere: the deny list, the workspace's directories, clients. *)

GuardChanges(cmd) ==
    /\ edits < MaxEdits /\ edits' = edits + 1
    /\ \/ /\ deny' = IF cmd \in deny THEN deny \ {cmd} ELSE deny \cup {cmd}
          /\ UNCHANGED opaque
       \/ /\ opaque' = IF cmd \in opaque THEN opaque \ {cmd} ELSE opaque \cup {cmd}
          /\ UNCHANGED deny
    /\ UNCHANGED <<ask, rules, allow, approver, session, disposed, granted>>

ApproverChanges ==
    /\ approver' = ~approver
    /\ UNCHANGED <<ask, rules, allow, deny, opaque, session, disposed, granted, edits>>

BrokerNext ==
    \/ \E a \in Asks :
        \/ \E s \in Sessions, cmd \in Commands \cup {Config} : Ask(a, s, cmd)
        \/ Deny(a) \/ Timeout(a)
        \/ \E display \in Sessions : Resolved(a, display)
        \/ \E scope \in {"once", "session", "global"}, saved \in BOOLEAN :
                Approve(a, scope, saved)
    \/ \E s \in Sessions :
        \/ \E leave \in BOOLEAN : AbortTurn(s, leave)
        \/ CleanupSession(s) \/ Attach(s)
    \/ CleanupAll
    \/ \E cmd \in Commands : GuardChanges(cmd)
    \/ ApproverChanges

BrokerSpec == BrokerInit /\ [][BrokerNext]_brokerVars

\* Reading the display context ends and timers fire.  Nobody has to answer.
BrokerFair ==
    \A a \in Asks :
        /\ WF_brokerVars(\E display \in Sessions : Resolved(a, display))
        /\ WF_brokerVars(Timeout(a))

----------------------------------------------------------------------------

\* Nothing runs unasked that the user did not mean to allow: a command that runs
\* without a prompt was on no deny list when it was called, and was allowed
\* globally, or for this session or its root since that was last attached, by an
\* answer to a prompt about a command that could be allowed for good then.  Deny lists edited
\* between prompt and answer, children answering to their root's card and
\* sessions that come back are what could break it (resolve, cleanupSession).
OnlyGranted ==
    [][\A a \in Asks :
        ask'[a].decision = "allowed" /\ ask[a].decision # "allowed" =>
            /\ ~ask[a].denied /\ ask[a].cmd \notin opaque
            /\ ask[a].cmd \in allow \cup granted[ask[a].session]
                                      \cup granted[Root[ask[a].session]]]_brokerVars

\* A tool call does not hang in the broker: it is answered although nobody
\* answers, its signal fired before the ask was parked, or its session or the
\* workspace went while the display context was read (permissionBroker.ts:248).
AskAnswered == \A a \in Asks : ask[a].st = "resolving" ~> ask[a].st = "answered"
=============================================================================
