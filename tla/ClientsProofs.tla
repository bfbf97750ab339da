---------------------------- MODULE ClientsProofs ----------------------------
(***************************************************************************)
(* The clients' side of the daemon: a prompt for a pairing code is always  *)
(* live (ChannelBind), no command runs unasked without a grant             *)
(* (PermissionBroker), the desktop shows the daemon's stream (PushClient)  *)
(* and a chat's messages reach its session in order (InboundBatcher), for  *)
(* any number of requests, sessions, commands, edits, frames, messages,    *)
(* failures and replaced daemons.                                          *)
(***************************************************************************)
EXTENDS ChannelBind, PermissionBroker, PushClient, InboundBatcher,
        FiniteSetTheorems, SequenceTheorems, TLAPS

-----------------------------------------------------------------------------
(* ChannelBind *)

BindTypeOK ==
    /\ bind \in [state : States, id : Nat]
    /\ verify \in SUBSET Nat /\ issued \in Nat

\* The requests that wait are those of the latest call, or none; cardinality
\* needs no argument about finite sets then.
LatestOnly == verify \subseteq {issued}

\* A status that asks for a code names the latest request, and whoever takes that
\* request away changes the status in the same step, unless he closes the channel.
PromptNamesLatest ==
    loaded /\ bind.state = "awaiting_verify_code" => bind.id = issued /\ verify = {issued}

BindInv == BindTypeOK /\ LatestOnly /\ PromptNamesLatest

LEMMA BindInitInv == BindInit => BindInv
BY DEF BindInit, BindInv, BindTypeOK, LatestOnly, PromptNamesLatest, Status, States

\* Every operation of the broker and of its users keeps the invariant.
LEMMA BindStep == BindInv /\ [BindNext]_bindVars => BindInv'
<1> SUFFICES ASSUME BindInv, [BindNext]_bindVars PROVE BindInv'
  OBVIOUS
<1> USE DEF BindInv, BindTypeOK, LatestOnly, PromptNamesLatest, SetState, Status, States
<1>1. CASE RequestVerifyCode
  BY <1>1 DEF RequestVerifyCode, Superseded
<1>2. CASE ConnectTimeout
  BY <1>2 DEF ConnectTimeout
<1>3. ASSUME NEW r \in Requests, SubmitVerifyCode(r) PROVE BindInv'
  BY <1>3 DEF SubmitVerifyCode
<1>4. ASSUME NEW r \in Requests, VerifyTimeout(r) PROVE BindInv'
  BY <1>4 DEF VerifyTimeout
<1>5. CASE Login
  BY <1>5 DEF Login
<1>6. CASE MarkHealthy
  BY <1>6 DEF MarkHealthy
<1>7. CASE Unbind
  BY <1>7 DEF Unbind
<1>8. CASE Reset
  BY <1>8 DEF Reset
<1>9. CASE CloseChannel
  BY <1>9 DEF CloseChannel
<1>10. ASSUME NEW state \in States, SdkReports(state) PROVE BindInv'
  BY <1>10 DEF SdkReports
<1>11. CASE UNCHANGED bindVars
  BY <1>11 DEF bindVars
<1> QED
  BY <1>1, <1>2, <1>3, <1>4, <1>5, <1>6, <1>7, <1>8, <1>9, <1>10, <1>11 DEF BindNext

\* The user is never asked for a code nobody waits for, and at most one login
\* waits, whatever the platform reports and however often codes are asked for.
THEOREM PromptLive == BindSpec => []PromptIsLive
<1>1. BindInv => PromptIsLive
  <2> SUFFICES ASSUME BindInv PROVE PromptIsLive
    OBVIOUS
  <2>1. Cardinality({issued}) = 1 /\ Cardinality({}) = 0
    BY FS_Singleton, FS_EmptySet
  <2>2. verify = {} \/ verify = {issued}
    BY DEF BindInv, LatestOnly
  <2>3. Cardinality(verify) <= 1
    BY <2>1, <2>2
  <2> QED
    BY <2>3 DEF BindInv, PromptNamesLatest, PromptIsLive
<1> QED
  BY <1>1, BindInitInv, BindStep, PTL DEF BindSpec

-----------------------------------------------------------------------------
(* PermissionBroker *)

AskRecord ==
    [st : {"no", "resolving", "pending", "answered"}, session : Sessions \cup {"none"},
     cmd : Commands \cup {Config}, denied : BOOLEAN, listed : BOOLEAN,
     display : Sessions \cup {"none"}, eval : {"none", "deny", "once", "free"},
     aborted : BOOLEAN, decision : {"none", "denied", "allowed", "approved"}]

BrokerTypeOK ==
    /\ ask \in [Asks -> AskRecord]
    /\ rules \in [Sessions -> SUBSET (Commands \cup {Config})]
    /\ granted \in [Sessions -> SUBSET (Commands \cup {Config})]
    /\ session \in [Sessions -> {"attached", "leaving", "away"}]

\* An ask under way knows its session, and one that is parked the session that
\* displays it, whose rules an approval extends.
Placed ==
    \A a \in Asks :
        /\ ask[a].st = "resolving" => ask[a].session \in Sessions
        /\ ask[a].st = "pending" => ask[a].display \in Sessions

\* What a call found on the allow list before its await is still there: nothing
\* in the broker shortens the list.
StillListed == \A a \in Asks : ask[a].listed => ask[a].cmd \in allow

\* A rule exists only where the user meant one: the scope of an approval is
\* narrowed to once for whatever was guarded when the prompt was made.
RulesGranted == \A s \in Sessions : rules[s] \subseteq granted[s]

BrokerInv == BrokerTypeOK /\ Placed /\ StillListed /\ RulesGranted

LEMMA NoAskType == NoAsk \in AskRecord
BY DEF NoAsk, AskRecord

\* Finishing asks keeps the invariant when nothing else of it changes.
LEMMA FinishedKeeps ==
    ASSUME BrokerInv, NEW as, NEW decision \in {"denied", "allowed", "approved"},
           ask' = Finished(as, decision), allow \subseteq allow'
    PROVE  ask' \in [Asks -> AskRecord] /\ Placed' /\ StillListed'
<1>1. BrokerTypeOK
  BY DEF BrokerInv
<1>2. ask' \in [Asks -> AskRecord]
  BY <1>1, NoAskType DEF Finished, AskRecord, NoAsk, BrokerTypeOK
<1>3. ASSUME NEW a \in Asks
      PROVE  ask'[a] = ask[a] \/ (ask'[a].st = "answered" /\ ask'[a].listed = FALSE)
  BY <1>1 DEF Finished, NoAsk, BrokerTypeOK
<1>4. Placed'
  BY <1>3 DEF BrokerInv, Placed
<1>5. StillListed'
  BY <1>3 DEF BrokerInv, StillListed
<1> QED
  BY <1>2, <1>4, <1>5

LEMMA BrokerInitInv == BrokerInit => BrokerInv
<1> SUFFICES ASSUME BrokerInit PROVE BrokerInv
  OBVIOUS
<1>1. BrokerTypeOK
  BY NoAskType DEF BrokerInit, BrokerTypeOK
<1>2. Placed /\ StillListed
  BY DEF BrokerInit, Placed, StillListed, NoAsk
<1>3. RulesGranted
  BY DEF BrokerInit, RulesGranted
<1> QED
  BY <1>1, <1>2, <1>3 DEF BrokerInv

\* A step that leaves rules and sessions alone and only finishes asks.
LEMMA FinishingStep ==
    ASSUME BrokerInv, NEW as, NEW decision \in {"denied", "allowed", "approved"},
           ask' = Finished(as, decision), allow \subseteq allow',
           UNCHANGED <<rules, granted>>,
           session' \in [Sessions -> {"attached", "leaving", "away"}]
    PROVE  BrokerInv'
<1>1. ask' \in [Asks -> AskRecord] /\ Placed' /\ StillListed'
  BY FinishedKeeps
<1>2. BrokerTypeOK' /\ RulesGranted'
  BY <1>1 DEF BrokerInv, BrokerTypeOK, RulesGranted
<1> QED
  BY <1>1, <1>2 DEF BrokerInv

\* The call: what it caches of the lists is true when it is cached.
LEMMA AskStep ==
    ASSUME BrokerInv, NEW a \in Asks, NEW s \in Sessions,
           NEW cmd \in Commands \cup {Config}, Ask(a, s, cmd)
    PROVE  BrokerInv'
<1>1. UNCHANGED <<rules, allow, granted, session>>
  BY DEF Ask
<1>2. session' \in [Sessions -> {"attached", "leaving", "away"}]
  BY <1>1 DEF BrokerInv, BrokerTypeOK
<1>3. CASE cmd = Config /\ ~approver
  BY <1>1, <1>2, <1>3, FinishingStep DEF Ask
<1>4. CASE ~(cmd = Config /\ ~approver)
  <2> DEFINE den == cmd \in deny
             lis == cmd \in allow
             new == [NoAsk EXCEPT !.st = "resolving", !.session = s, !.cmd = cmd,
                                  !.denied = den, !.listed = lis]
  <2>1. ask' = [ask EXCEPT ![a] = new]
    BY <1>4 DEF Ask
  <2>2. /\ new \in AskRecord /\ new.st = "resolving" /\ new.session = s /\ new.cmd = cmd
        /\ new.listed = lis
    <3>1. den \in BOOLEAN /\ lis \in BOOLEAN
      OBVIOUS
    <3> HIDE DEF den, lis
    <3> QED
      BY <3>1 DEF NoAsk, AskRecord
  <2> HIDE DEF new
  <2>3. BrokerTypeOK'
    BY <1>1, <2>1, <2>2 DEF BrokerInv, BrokerTypeOK
  <2>4. \A b \in Asks : ask'[b] = IF b = a THEN new ELSE ask[b]
    BY <2>1 DEF BrokerInv, BrokerTypeOK
  <2>5. Placed'
    BY <2>2, <2>4 DEF BrokerInv, Placed
  <2>6. StillListed'
    BY <1>1, <2>2, <2>4 DEF BrokerInv, StillListed
  <2>7. RulesGranted'
    BY <1>1 DEF BrokerInv, RulesGranted
  <2> QED
    BY <2>3, <2>5, <2>6, <2>7 DEF BrokerInv
<1> QED
  BY <1>3, <1>4

\* The display context arrives: the ask is decided or parked with its display.
LEMMA ResolvedStep ==
    ASSUME BrokerInv, NEW a \in Asks, NEW display \in Sessions, Resolved(a, display)
    PROVE  BrokerInv'
<1>1. UNCHANGED <<rules, allow, granted, session>>
  BY DEF Resolved
<1>2. session' \in [Sessions -> {"attached", "leaving", "away"}]
  BY <1>1 DEF BrokerInv, BrokerTypeOK
<1>3. CASE ask' = Finished({a}, "allowed")
  BY <1>1, <1>2, <1>3, FinishingStep
<1>4. CASE ask' = Finished({a}, "denied")
  BY <1>1, <1>2, <1>4, FinishingStep
<1>5. CASE ask' = Park(a, display)
  <2>1. EvalOf(a) \in {"deny", "once", "free"}
    BY DEF EvalOf
  <2>2. ask' = [ask EXCEPT ![a] = [ask[a] EXCEPT !.st = "pending", !.display = display,
                                                 !.eval = EvalOf(a)]]
    BY <1>5 DEF Park, BrokerInv, BrokerTypeOK, AskRecord
  <2>3. BrokerTypeOK'
    <3> DEFINE parked == [ask[a] EXCEPT !.st = "pending", !.display = display,
                                        !.eval = EvalOf(a)]
    <3>1. ask[a] \in AskRecord
      BY DEF BrokerInv, BrokerTypeOK
    <3>2. parked \in AskRecord
      BY <2>1, <3>1 DEF AskRecord
    <3> HIDE DEF parked
    <3>3. ask' \in [Asks -> AskRecord]
      BY <2>2, <3>2 DEF BrokerInv, BrokerTypeOK, parked
    <3> QED
      BY <1>1, <3>3 DEF BrokerInv, BrokerTypeOK
  <2>4. Placed'
    BY <2>2 DEF BrokerInv, BrokerTypeOK, Placed, AskRecord
  <2>5. StillListed'
    BY <1>1, <2>2 DEF BrokerInv, BrokerTypeOK, StillListed, AskRecord
  <2>6. RulesGranted'
    BY <1>1 DEF BrokerInv, RulesGranted
  <2> QED
    BY <2>3, <2>4, <2>5, <2>6 DEF BrokerInv
<1> QED
  BY <1>3, <1>4, <1>5 DEF Resolved

\* The answer: a rule is stored only together with the grant it stands for.
LEMMA ApproveStep ==
    ASSUME BrokerInv, NEW a \in Asks, NEW scope \in {"once", "session", "global"},
           NEW saved \in BOOLEAN, Approve(a, scope, saved)
    PROVE  BrokerInv'
<1> DEFINE decision == IF saved THEN "approved" ELSE "denied"
<1>1. /\ ask' = Finished({a}, decision) /\ decision \in {"denied", "allowed", "approved"}
      /\ allow \subseteq allow' /\ UNCHANGED session
  BY DEF Approve
<1> HIDE DEF decision
<1>2. ask' \in [Asks -> AskRecord] /\ Placed' /\ StillListed'
  BY <1>1, FinishedKeeps
<1>3. ask[a].display \in Sessions /\ ask[a].cmd \in Commands \cup {Config}
  BY DEF Approve, Parked, BrokerInv, BrokerTypeOK, Placed, AskRecord
<1>4. rules' = rules \/ (/\ scope = "session" /\ ask[a].eval = "free"
                         /\ rules' = [rules EXCEPT ![ask[a].display] = @ \cup {ask[a].cmd}])
  BY DEF Approve, Scope
<1>5. /\ scope = "session" /\ ask[a].eval = "free" =>
            granted' = [granted EXCEPT ![ask[a].display] = @ \cup {ask[a].cmd}]
      /\ ~(scope = "session" /\ ask[a].eval = "free") => granted' = granted
  BY DEF Approve
<1>6. BrokerTypeOK'
  BY <1>1, <1>2, <1>3, <1>4, <1>5 DEF BrokerInv, BrokerTypeOK
<1>7. RulesGranted'
  BY <1>3, <1>4, <1>5 DEF BrokerInv, BrokerTypeOK, RulesGranted
<1> QED
  BY <1>2, <1>6, <1>7 DEF BrokerInv

\* Signals fire: an ask is finished, or only marked.
LEMMA AbortedKeeps ==
    ASSUME BrokerInv, NEW as, NEW a \in Asks
    PROVE  /\ Aborted(as)[a] \in AskRecord
           /\ Aborted(as)[a].decision = "allowed" => ask[a].decision = "allowed"
           /\ \/ Aborted(as)[a].st = "answered" /\ Aborted(as)[a].listed = FALSE
              \/ /\ Aborted(as)[a].st = ask[a].st /\ Aborted(as)[a].cmd = ask[a].cmd
                 /\ Aborted(as)[a].listed = ask[a].listed
                 /\ Aborted(as)[a].session = ask[a].session
                 /\ Aborted(as)[a].display = ask[a].display
<1> DEFINE done == [NoAsk EXCEPT !.st = "answered", !.decision = "denied"]
           resolving == ask[a].st = "resolving"
           marked == [ask[a] EXCEPT !.aborted = resolving]
<1>1. ask[a] \in AskRecord
  BY DEF BrokerInv, BrokerTypeOK
<1>2. done \in AskRecord /\ done.st = "answered" /\ done.listed = FALSE /\ done.decision = "denied"
  BY DEF NoAsk, AskRecord
<1>3. /\ marked \in AskRecord /\ marked.st = ask[a].st /\ marked.cmd = ask[a].cmd
      /\ marked.listed = ask[a].listed /\ marked.session = ask[a].session
      /\ marked.display = ask[a].display /\ marked.decision = ask[a].decision
  <2>1. resolving \in BOOLEAN
    OBVIOUS
  <2> HIDE DEF resolving
  <2> QED
    BY <1>1, <2>1 DEF AskRecord
<1>4. Aborted(as)[a] \in {done, marked, ask[a]}
  BY DEF Aborted, Finished
<1> HIDE DEF done, marked
<1> QED
  BY <1>1, <1>2, <1>3, <1>4

LEMMA AbortStep ==
    ASSUME BrokerInv, NEW s \in Sessions, NEW leave \in BOOLEAN, AbortTurn(s, leave)
    PROVE  BrokerInv'
<1>1. ask' = Aborted(AsksOf(s)) /\ UNCHANGED <<rules, allow, granted>>
  BY DEF AbortTurn
<1>2. session' \in [Sessions -> {"attached", "leaving", "away"}]
  BY DEF AbortTurn, BrokerInv, BrokerTypeOK
<1>3. ask' \in [Asks -> AskRecord]
  <2>1. \A a \in Asks : Aborted(AsksOf(s))[a] \in AskRecord
    BY AbortedKeeps
  <2>2. Aborted(AsksOf(s)) = [a \in Asks |-> Aborted(AsksOf(s))[a]]
    BY DEF Aborted
  <2> QED
    BY <1>1, <2>1, <2>2
<1>4. ASSUME NEW a \in Asks
      PROVE  \/ ask'[a].st = "answered" /\ ask'[a].listed = FALSE
             \/ /\ ask'[a].st = ask[a].st /\ ask'[a].cmd = ask[a].cmd
                /\ ask'[a].listed = ask[a].listed /\ ask'[a].session = ask[a].session
                /\ ask'[a].display = ask[a].display
  BY <1>1, AbortedKeeps
<1>5. Placed'
  BY <1>4 DEF BrokerInv, Placed
<1>6. StillListed'
  BY <1>1, <1>4 DEF BrokerInv, StillListed
<1>7. BrokerTypeOK' /\ RulesGranted'
  BY <1>1, <1>2, <1>3 DEF BrokerInv, BrokerTypeOK, RulesGranted
<1> QED
  BY <1>5, <1>6, <1>7 DEF BrokerInv

LEMMA CleanupStep ==
    ASSUME BrokerInv, NEW s \in Sessions, CleanupSession(s)
    PROVE  BrokerInv'
<1>1. ask' \in [Asks -> AskRecord] /\ Placed' /\ StillListed'
  BY FinishedKeeps DEF CleanupSession
<1>2. BrokerTypeOK' /\ RulesGranted'
  BY <1>1 DEF CleanupSession, BrokerInv, BrokerTypeOK, RulesGranted
<1> QED
  BY <1>1, <1>2 DEF BrokerInv

\* Steps that touch neither asks nor rules.
LEMMA OutsideStep ==
    ASSUME BrokerInv, UNCHANGED <<ask, rules, allow, granted>>,
           session' \in [Sessions -> {"attached", "leaving", "away"}]
    PROVE  BrokerInv'
BY DEF BrokerInv, BrokerTypeOK, Placed, StillListed, RulesGranted

LEMMA BrokerStep == BrokerInv /\ [BrokerNext]_brokerVars => BrokerInv'
<1> SUFFICES ASSUME BrokerInv, [BrokerNext]_brokerVars PROVE BrokerInv'
  OBVIOUS
<1>0. session \in [Sessions -> {"attached", "leaving", "away"}]
  BY DEF BrokerInv, BrokerTypeOK
<1>1. ASSUME NEW a \in Asks, NEW s \in Sessions, NEW cmd \in Commands \cup {Config},
             Ask(a, s, cmd)
      PROVE  BrokerInv'
  BY <1>1, AskStep
<1>2. ASSUME NEW a \in Asks, Deny(a) \/ Timeout(a) PROVE BrokerInv'
  BY <1>0, <1>2, FinishingStep DEF Deny, Timeout
<1>3. ASSUME NEW a \in Asks, NEW display \in Sessions, Resolved(a, display) PROVE BrokerInv'
  BY <1>3, ResolvedStep
<1>4. ASSUME NEW a \in Asks, NEW scope \in {"once", "session", "global"},
             NEW saved \in BOOLEAN, Approve(a, scope, saved)
      PROVE  BrokerInv'
  BY <1>4, ApproveStep
<1>5. ASSUME NEW s \in Sessions, NEW leave \in BOOLEAN, AbortTurn(s, leave) PROVE BrokerInv'
  BY <1>5, AbortStep
<1>6. ASSUME NEW s \in Sessions, CleanupSession(s) PROVE BrokerInv'
  BY <1>6, CleanupStep
<1>7. ASSUME NEW s \in Sessions, Attach(s) PROVE BrokerInv'
  BY <1>0, <1>7, OutsideStep DEF Attach
<1>8. CASE CleanupAll
  BY <1>0, <1>8, FinishingStep DEF CleanupAll
<1>9. ASSUME NEW cmd \in Commands, GuardChanges(cmd) PROVE BrokerInv'
  BY <1>0, <1>9, OutsideStep DEF GuardChanges
<1>10. CASE ApproverChanges \/ UNCHANGED brokerVars
  BY <1>0, <1>10, OutsideStep DEF ApproverChanges, brokerVars
<1> QED
  BY <1>1, <1>2, <1>3, <1>4, <1>5, <1>6, <1>7, <1>8, <1>9, <1>10 DEF BrokerNext

\* Only evaluation allows a command unasked: whatever else finishes an ask refuses
\* or approves it.
LEMMA OnlyEvaluationAllows ==
    ASSUME BrokerInv, [BrokerNext]_brokerVars, NEW a \in Asks,
           ask'[a].decision = "allowed", ask[a].decision # "allowed"
    PROVE  \E display \in Sessions : Resolved(a, display) /\ Allowed(a, display)
<1>1. ASSUME NEW as, ask' = Finished(as, "denied") PROVE FALSE
  BY <1>1 DEF Finished, NoAsk, BrokerInv, BrokerTypeOK
<1>2. ASSUME NEW b \in Asks, NEW s \in Sessions, NEW cmd \in Commands \cup {Config},
             Ask(b, s, cmd)
      PROVE  FALSE
  <2>1. CASE ask' = Finished({b}, "denied")
    BY <1>1, <2>1
  <2>2. CASE ask' # Finished({b}, "denied")
    <3> DEFINE den == cmd \in deny
               lis == cmd \in allow
               new == [NoAsk EXCEPT !.st = "resolving", !.session = s, !.cmd = cmd,
                                    !.denied = den, !.listed = lis]
    <3>1. ask' = [ask EXCEPT ![b] = new]
      BY <1>2, <2>2 DEF Ask
    <3>2. new.decision = "none"
      <4> HIDE DEF den, lis
      <4> QED
        BY DEF NoAsk
    <3> HIDE DEF new
    <3> QED
      BY <3>1, <3>2 DEF BrokerInv, BrokerTypeOK
  <2> QED
    BY <2>1, <2>2
<1>3. ASSUME NEW b \in Asks, Deny(b) \/ Timeout(b) PROVE FALSE
  BY <1>1, <1>3 DEF Deny, Timeout
<1>4. ASSUME NEW b \in Asks, NEW scope \in {"once", "session", "global"},
             NEW saved \in BOOLEAN, Approve(b, scope, saved)
      PROVE  FALSE
  <2>1. ask' = Finished({b}, "approved") \/ ask' = Finished({b}, "denied")
    BY <1>4 DEF Approve
  <2> QED
    BY <1>1, <2>1 DEF Finished, NoAsk, BrokerInv, BrokerTypeOK
<1>5. ASSUME NEW s \in Sessions, NEW leave \in BOOLEAN, AbortTurn(s, leave) PROVE FALSE
  BY <1>5, AbortedKeeps DEF AbortTurn
<1>6. ASSUME NEW s \in Sessions, CleanupSession(s) \/ Attach(s) PROVE FALSE
  BY <1>1, <1>6 DEF CleanupSession, Attach
<1>7. ASSUME NEW cmd \in Commands, GuardChanges(cmd) PROVE FALSE
  BY <1>7 DEF GuardChanges
<1>8. ASSUME CleanupAll \/ ApproverChanges \/ UNCHANGED brokerVars PROVE FALSE
  BY <1>1, <1>8 DEF CleanupAll, ApproverChanges, brokerVars
<1>9. PICK b \in Asks, display \in Sessions : Resolved(b, display)
  BY <1>2, <1>3, <1>4, <1>5, <1>6, <1>7, <1>8 DEF BrokerNext
<1>10. ask' # Finished({b}, "denied")
  BY <1>1
<1>11. ask' # Park(b, display)
  <2> SUFFICES ASSUME ask' = Park(b, display) PROVE FALSE
    OBVIOUS
  <2>1. ask'[a].decision = ask[a].decision
    BY DEF Park, BrokerInv, BrokerTypeOK, AskRecord
  <2> QED
    BY <2>1
<1>12. ask' = Finished({b}, "allowed") /\ Allowed(b, display)
  BY <1>9, <1>10, <1>11 DEF Resolved
<1>13. a = b
  BY <1>12 DEF Finished, BrokerInv, BrokerTypeOK
<1> QED
  BY <1>9, <1>12, <1>13

\* No command runs unasked that was on a deny list when it was called, or that
\* neither the allow list nor a grant of its session or of its root names.
THEOREM NothingUnasked == BrokerSpec => OnlyGranted
<1>1. ASSUME BrokerInv, [BrokerNext]_brokerVars, NEW a \in Asks,
             ask'[a].decision = "allowed", ask[a].decision # "allowed"
      PROVE  /\ ~ask[a].denied /\ ask[a].cmd \notin opaque
             /\ ask[a].cmd \in allow \cup granted[ask[a].session]
                                       \cup granted[Root[ask[a].session]]
  <2>1. PICK display \in Sessions : Resolved(a, display) /\ Allowed(a, display)
    BY <1>1, OnlyEvaluationAllows
  <2>2. ~ask[a].denied /\ ask[a].cmd \notin opaque
    BY <2>1 DEF Allowed, EvalOf
  <2>3. /\ ask[a].session \in Sessions
        /\ ask[a].listed => ask[a].cmd \in allow
        /\ display \in {ask[a].session, Root[ask[a].session]}
    BY <1>1, <2>1 DEF Resolved, BrokerInv, Placed, StillListed
  <2>4. rules[ask[a].session] \subseteq granted[ask[a].session]
    BY <1>1, <2>3 DEF BrokerInv, RulesGranted
  <2>5. rules[display] \subseteq granted[display]
    BY <1>1 DEF BrokerInv, RulesGranted
  <2> QED
    BY <2>1, <2>2, <2>3, <2>4, <2>5 DEF Allowed
<1>2. BrokerInv /\ [BrokerNext]_brokerVars =>
        [\A a \in Asks :
            ask'[a].decision = "allowed" /\ ask[a].decision # "allowed" =>
                /\ ~ask[a].denied /\ ask[a].cmd \notin opaque
                /\ ask[a].cmd \in allow \cup granted[ask[a].session]
                                          \cup granted[Root[ask[a].session]]]_brokerVars
  BY <1>1
<1> QED
  BY <1>2, BrokerInitInv, BrokerStep, PTL DEF BrokerSpec, OnlyGranted

-----------------------------------------------------------------------------
(* PushClient *)

\* A push, as the desktop receives it, and what a reset leaves.
Frame == [seq : Nat, id : Nat, era : Nat]
Marks == [seq : Nat, view : Seq(Nat), whole : BOOLEAN]
Snaps == [pass : Nat, before : Nat, content : Seq(Nat)]

\* Every variable the view depends on holds a value of its kind.
ClientTypeOK ==
    /\ log \in Seq(Nat) /\ view \in Seq(Nat) /\ got \in Seq(Nat) /\ chain \in Seq(Frame)
    /\ target \in Frame /\ cursor \in Nat /\ after \in Nat /\ emitted \in Nat /\ era \in Nat
    /\ snap \in Snaps /\ mark \in Marks

\* The frames of s from behind position m up to position n.
Segment(s, m, n) == SubSeq(s, m + 1, n)

\* What w becomes when the frames of a segment are delivered to it.
Track(w, s, m, n) == w \o Segment(s, m, n)

\* Frames are logged in the order of their emission.
LogSorted ==
    /\ \A s \in 1..Len(log) : log[s] \in 1..emitted
    /\ \A s, t \in 1..Len(log) : s < t => log[s] < log[t]

\* A push that was sent since frames were last lost carries the frame that has
\* its number.
Genuine(p, stream) == p.seq \in 1..Len(stream) /\ stream[p.seq] = p.id
Trusted(p, stream, present) == p.era <= present /\ (p.era = present => Genuine(p, stream))

PushesTrusted ==
    /\ \A i \in DOMAIN chain : Trusted(chain[i], log, era)
    /\ at # "idle" => Trusted(target, log, era)

\* The view follows the log from the mark to the cursor.
Follows(v, c) ==
    /\ c <= Len(log)
    /\ shown => mark.seq <= c /\ v = Track(mark.view, log, mark.seq, c)

ViewFollows == up /\ ~foreign => Follows(view, cursor)

\* A history that was read when n frames had been emitted.
Counted(v, n) == Len(v) <= n /\ \A i \in 1..Len(v) : v[i] = i

\* A snapshot that is shown has the frames up to its number and no others.
MarkIsWhole ==
    up /\ shown /\ ~foreign /\ mark.whole =>
        /\ Counted(mark.view, emitted)
        /\ \A s \in 1..Len(log) : log[s] <= Len(mark.view) <=> s <= mark.seq

\* A history that was read has every frame the log had at the first look.
SnapFits ==
    /\ at \in {"read", "compare"} => snap.before <= Len(log)
    /\ at = "compare" =>
         /\ Counted(snap.content, emitted)
         /\ \A s \in 1..snap.before : log[s] <= Len(snap.content)

ClientInv ==
    ClientTypeOK /\ LogSorted /\ PushesTrusted /\ ViewFollows /\ MarkIsWhole /\ SnapFits

LEMMA ThreeParts ==
    \A a, b, c \in Seq(Nat) : (a \o b) \o c = a \o (b \o c)
  BY ConcatAssociative

\* Delivering the segments of a stream one after the other.
LEMMA TrackJoins ==
    ASSUME NEW s \in Seq(Nat), NEW w \in Seq(Nat), NEW m \in Nat, NEW c \in Nat,
           m <= c, c <= Len(s)
    PROVE  \A n \in c..Len(s) : Track(w, s, m, c) \o Segment(s, c, n) = Track(w, s, m, n)
<1>n. Len(s) \in Nat /\ m + 1 \in 1..Len(s) + 1 /\ m + 1 - 1 = m
  OBVIOUS
<1>1. Segment(s, m, c) \in Seq(Nat) /\ w \o Segment(s, m, c) \in Seq(Nat)
  BY <1>n DEF Segment
<1>2. ASSUME NEW n \in c..Len(s)
      PROVE  Track(w, s, m, c) \o Segment(s, c, n) = Track(w, s, m, n)
  <2>1. m + 1 \in 1..Len(s) + 1 /\ c \in m + 1 - 1..Len(s) /\ n \in c..Len(s)
    BY <1>n
  <2>2. SubSeq(s, m + 1, c) \o SubSeq(s, c + 1, n) = SubSeq(s, m + 1, n)
    BY <2>1, ConcatAdjacentSubSeq
  <2>3. Segment(s, m, c) \o Segment(s, c, n) = Segment(s, m, n)
    BY <2>2 DEF Segment
  <2>4. Segment(s, c, n) \in Seq(Nat)
    BY <1>n DEF Segment
  <2>5. (w \o Segment(s, m, c)) \o Segment(s, c, n) = w \o (Segment(s, m, c) \o Segment(s, c, n))
    BY <1>1, <2>4, ThreeParts
  <2> QED
    BY <2>3, <2>5 DEF Track
<1> QED
  BY <1>2

\* Nothing is delivered.
LEMMA TrackNone ==
    ASSUME NEW s \in Seq(Nat), NEW w \in Seq(Nat), NEW m \in Nat, m <= Len(s)
    PROVE  Track(w, s, m, m) = w
<1>1. Segment(s, m, m) \in Seq(Nat) /\ Len(Segment(s, m, m)) = 0
  BY DEF Segment
<1>2. Segment(s, m, m) = <<>>
  BY <1>1, EmptySeq
<1> QED
  BY <1>2, ConcatEmptySeq DEF Track

\* One more frame is delivered, or all that are left.
LEMMA TrackNext ==
    ASSUME NEW s \in Seq(Nat), NEW w \in Seq(Nat), NEW m \in Nat, NEW c \in Nat,
           m <= c, c < Len(s)
    PROVE  Track(w, s, m, c) \o <<s[c + 1]>> = Track(w, s, m, c + 1)
<1>1. c <= Len(s) /\ c + 1 \in c..Len(s) /\ s[c + 1] \in Nat
  OBVIOUS
<1>2. Track(w, s, m, c) \o Segment(s, c, c + 1) = Track(w, s, m, c + 1)
  BY <1>1, TrackJoins
<1>3. <<s[c + 1]>> = Segment(s, c, c + 1)
  <2> DEFINE a == Segment(s, c, c + 1)  b == <<s[c + 1]>>
  <2>1. a \in Seq(Nat) /\ Len(a) = 1 /\ a[1] = s[c + 1]
    BY <1>1 DEF Segment
  <2>2. b \in Seq(Nat) /\ Len(b) = 1 /\ b[1] = s[c + 1]
    BY <1>1
  <2> HIDE DEF a, b
  <2>3. \A i \in 1..Len(a) : a[i] = b[i]
    BY <2>1, <2>2
  <2>4. a = b
    BY <2>1, <2>2, <2>3, SeqEqual
  <2> QED
    BY <2>4 DEF a, b
<1> QED
  BY <1>2, <1>3

LEMMA TrackRest ==
    ASSUME NEW s \in Seq(Nat), NEW w \in Seq(Nat), NEW m \in Nat, NEW c \in Nat,
           m <= c, c <= Len(s)
    PROVE  Track(w, s, m, c) \o Segment(s, c, Len(s)) = Track(w, s, m, Len(s))
<1>1. Len(s) \in c..Len(s)
  OBVIOUS
<1>2. \A n \in c..Len(s) : Track(w, s, m, c) \o Segment(s, c, n) = Track(w, s, m, n)
  BY TrackJoins
<1> QED
  BY <1>1, <1>2, Zenon

\* What was delivered does not depend on the frames behind it.
LEMMA TrackKept ==
    ASSUME NEW s \in Seq(Nat), NEW e \in Nat, NEW w, NEW m \in Nat, NEW c \in Nat,
           m <= c, c <= Len(s)
    PROVE  Track(w, Append(s, e), m, c) = Track(w, s, m, c)
<1> DEFINE t == Append(s, e)  a == SubSeq(t, m + 1, c)  b == SubSeq(s, m + 1, c)
<1>1. t \in Seq(Nat) /\ Len(t) = Len(s) + 1 /\ Len(s) \in Nat /\ \A i \in 1..Len(s) : t[i] = s[i]
  OBVIOUS
<1> HIDE DEF t
<1>2. a \in Seq(Nat) /\ Len(a) = c - m /\ \A i \in 1..(c - m) : a[i] = t[m + i]
  BY <1>1
<1>3. b \in Seq(Nat) /\ Len(b) = c - m /\ \A i \in 1..(c - m) : b[i] = s[m + i]
  OBVIOUS
<1> HIDE DEF a, b
<1>4. ASSUME NEW i \in 1..(c - m) PROVE a[i] = b[i]
  <2>1. m + i \in 1..Len(s)
    OBVIOUS
  <2> QED
    BY <2>1, <1>1, <1>2, <1>3
<1>5. a = b
  BY <1>2, <1>3, <1>4, SeqEqual
<1> QED
  BY <1>5 DEF a, b, t, Track, Segment

\* process() of a trusted push keeps the view on the log's track, or marks it.
LEMMA ProcessKeeps ==
    ASSUME log \in Seq(Nat), mark \in Marks, era \in Nat, NEW p \in Frame, Trusted(p, log, era),
           NEW c \in Nat, NEW v \in Seq(Nat), up /\ ~foreign => Follows(v, c),
           Process(p, c, v), UNCHANGED <<log, up, shown, mark, era>>
    PROVE  /\ ViewFollows' /\ cursor' \in Nat /\ view' \in Seq(Nat)
           /\ target' \in Frame /\ after' \in Nat /\ at' \in {"idle", "events"}
           /\ at' # "idle" => Trusted(target, log, era)'
           /\ ~foreign' => ~foreign
<1>1. p.seq \in Nat /\ p.id \in Nat /\ p.era \in Nat /\ NoPush \in Frame
  BY DEF Frame, NoPush
<1>2. ASSUME ~foreign', up, cursor' = c, view' = v, ~foreign
      PROVE  Follows(view, cursor)'
  BY <1>2 DEF Follows
<1>3. CASE p.seq <= c
  <2>1. Observe(c, p.seq) = "duplicate"
    BY <1>1, <1>3 DEF Observe
  <2>2. /\ cursor' = c /\ view' = v /\ at' = "idle" /\ target' = NoPush /\ after' = 0
        /\ ~foreign' => ~foreign
    BY <2>1 DEF Process
  <2> QED
    BY <1>1, <1>2, <2>2 DEF ViewFollows
<1>4. CASE p.seq = c + 1
  <2>1. Observe(c, p.seq) = "accepted"
    BY <1>1, <1>4 DEF Observe
  <2>2. /\ cursor' = c + 1 /\ view' = Delivered(v, <<p.id>>) /\ at' = "idle"
        /\ target' = NoPush /\ after' = 0
        /\ ~foreign' => ~foreign /\ p.era = era
    BY <1>4, <2>1 DEF Process
  <2>3. view' \in Seq(Nat)
    BY <1>1, <2>2 DEF Delivered
  <2>4. ASSUME up, ~foreign' PROVE Follows(view, cursor)'
    <3>1. Genuine(p, log) /\ Follows(v, c)
      BY <2>2, <2>4 DEF Trusted
    <3>2. c < Len(log) /\ p.id = log[c + 1]
      BY <1>1, <1>4, <3>1 DEF Genuine
    <3>5. c + 1 <= Len(log)
      BY <3>2
    <3>3. CASE shown
      <4>1. /\ mark.seq \in Nat /\ mark.view \in Seq(Nat) /\ mark.seq <= c
            /\ v = Track(mark.view, log, mark.seq, c)
            /\ view' = v \o <<log[c + 1]>>
        BY <2>2, <3>1, <3>2, <3>3 DEF Marks, Follows, Delivered
      <4>3. view' = Track(mark.view, log, mark.seq, c + 1)
        <5>1. c <= Len(log) /\ c < Len(log)
          BY <3>2
        <5>2. Track(mark.view, log, mark.seq, c) \o <<log[c + 1]>>
              = Track(mark.view, log, mark.seq, c + 1)
          BY <4>1, <5>1, TrackNext
        <5> QED
          BY <4>1, <5>2
      <4>4. mark.seq <= c + 1
        BY <4>1
      <4> QED
        BY <2>2, <3>5, <4>3, <4>4 DEF Follows
    <3>4. CASE ~shown
      BY <2>2, <3>5, <3>4 DEF Follows
    <3> QED
      BY <3>3, <3>4
  <2> QED
    BY <1>1, <2>2, <2>3, <2>4 DEF ViewFollows
<1>5. CASE p.seq > c + 1
  <2>1. Observe(c, p.seq) = "gap"
    BY <1>1, <1>5 DEF Observe
  <2>2. /\ cursor' = c /\ view' = v /\ at' = "events" /\ target' = p /\ after' = c
        /\ ~foreign' => ~foreign
    BY <2>1 DEF Process
  <2>3. Trusted(target, log, era)'
    BY <2>2 DEF Trusted
  <2> QED
    BY <1>1, <1>2, <2>2, <2>3 DEF ViewFollows
<1> QED
  BY <1>1, <1>3, <1>4, <1>5

\* What a step keeps that leaves the log, the mark and the pushes alone.
LEMMA QuietKeeps ==
    ASSUME ClientInv, UNCHANGED <<log, emitted, era>>,
           chain' \in Seq(Frame), \A i \in DOMAIN chain' : Trusted(chain'[i], log, era),
           target' \in Frame, after' \in Nat, cursor' \in Nat, view' \in Seq(Nat),
           got' \in Seq(Nat), mark' \in Marks, snap' \in Snaps,
           at' # "idle" => Trusted(target, log, era)',
           ViewFollows', SnapFits',
           \/ UNCHANGED <<up, shown, mark>> /\ (~foreign' => ~foreign)
           \/ ~up' \/ ~shown' \/ mark'.whole = FALSE
    PROVE  ClientInv'
<1> USE DEF ClientInv, ClientTypeOK
<1>1. ClientTypeOK' /\ LogSorted'
  BY DEF LogSorted
<1>2. PushesTrusted'
  BY DEF PushesTrusted, Trusted
<1>3. MarkIsWhole'
  BY DEF MarkIsWhole, Counted
<1> QED
  BY <1>1, <1>2, <1>3

\* The next push is processed.
LEMMA TakeKeeps ==
    ASSUME ClientInv, Take
    PROVE  ClientInv'
<1> USE DEF ClientInv, ClientTypeOK
<1>1. /\ chain # <<>> /\ chain' = Tail(chain)
      /\ UNCHANGED <<log, up, snap, shown, got, mark, era, emitted>>
      /\ Process(Head(chain), cursor, view)
  BY DEF Take, limits
<1>2. Head(chain) \in Frame /\ Trusted(Head(chain), log, era)
  BY <1>1 DEF PushesTrusted
<1>3. chain' \in Seq(Frame) /\ \A i \in DOMAIN chain' : Trusted(chain'[i], log, era)
  BY <1>1 DEF PushesTrusted
<1>4. /\ ViewFollows' /\ cursor' \in Nat /\ view' \in Seq(Nat)
      /\ target' \in Frame /\ after' \in Nat /\ at' \in {"idle", "events"}
      /\ at' # "idle" => Trusted(target, log, era)'
      /\ ~foreign' => ~foreign
  BY <1>1, <1>2, ProcessKeeps DEF ViewFollows
<1>5. SnapFits'
  BY <1>1, <1>4 DEF SnapFits
<1> QED
  BY <1>1, <1>3, <1>4, <1>5, QuietKeeps

\* The daemon answers getEvents.
LEMMA EventsKeeps ==
    ASSUME ClientInv, Events
    PROVE  ClientInv'
<1> USE DEF ClientInv, ClientTypeOK
<1>1. /\ at = "events" /\ UNCHANGED <<log, up, chain, snap, shown, got, mark, era, emitted>>
      /\ Trusted(target, log, era) /\ \A i \in DOMAIN chain' : Trusted(chain'[i], log, era)
  BY DEF Events, limits, PushesTrusted
<1>2. CASE ResetRequired
  <2>1. at' = "ask" /\ UNCHANGED <<target, after, cursor, view, foreign>>
    BY <1>2 DEF Events
  <2>2. ViewFollows' /\ SnapFits' /\ Trusted(target, log, era)'
    BY <1>1, <2>1 DEF ViewFollows, Follows, SnapFits, Trusted
  <2> QED
    BY <1>1, <2>1, <2>2, QuietKeeps
<1>3. CASE ~ResetRequired
  <2>1. Replayed
    BY <1>3 DEF Events
  <2>2. PICK c \in Nat, v \in Seq(Nat) :
           (up /\ ~foreign => Follows(v, c)) /\ Process(target, c, v)
    <3>1. CASE after = cursor /\ Len(log) > cursor
      <4> DEFINE v == Delivered(view, SubSeq(log, cursor + 1, Len(log)))
      <4>1. Process(target, Len(log), v) /\ Len(log) \in Nat
        BY <2>1, <3>1 DEF Replayed
      <4>2. SubSeq(log, cursor + 1, Len(log)) \in Seq(Nat)
        BY <3>1
      <4>3. v \in Seq(Nat)
        BY <4>2 DEF Delivered
      <4>5. Len(log) <= Len(log)
        BY <4>1
      <4>4. ASSUME up, ~foreign PROVE Follows(v, Len(log))
        <5>1. CASE shown
          <6>1. /\ mark.seq \in Nat /\ mark.view \in Seq(Nat) /\ mark.seq <= cursor
                /\ view = Track(mark.view, log, mark.seq, cursor)
                /\ v = view \o Segment(log, cursor, Len(log))
            BY <4>4, <5>1 DEF ViewFollows, Follows, Marks, Delivered, Segment
          <6>3. v = Track(mark.view, log, mark.seq, Len(log))
            <7>1. cursor <= Len(log) /\ log \in Seq(Nat) /\ cursor \in Nat
              BY <3>1
            <7>2. Track(mark.view, log, mark.seq, cursor) \o Segment(log, cursor, Len(log))
                  = Track(mark.view, log, mark.seq, Len(log))
              BY <6>1, <7>1, TrackRest
            <7> QED
              BY <6>1, <7>2
          <6>4. mark.seq <= Len(log)
            BY <3>1, <6>1
          <6> HIDE DEF v
          <6> QED
            BY <4>5, <6>3, <6>4 DEF Follows
        <5>2. CASE ~shown
          <6> HIDE DEF v
          <6> QED
            BY <4>5, <5>2 DEF Follows
        <5> QED
          BY <5>1, <5>2
      <4> HIDE DEF v
      <4> QED
        BY <4>1, <4>3, <4>4
    <3>2. CASE ~(after = cursor /\ Len(log) > cursor)
      <4>1. Process(target, cursor, view)
        BY <2>1, <3>2 DEF Replayed
      <4> QED
        BY <4>1 DEF ViewFollows
    <3> QED
      BY <3>1, <3>2
  <2>3. /\ ViewFollows' /\ cursor' \in Nat /\ view' \in Seq(Nat)
        /\ target' \in Frame /\ after' \in Nat /\ at' \in {"idle", "events"}
        /\ at' # "idle" => Trusted(target, log, era)'
        /\ ~foreign' => ~foreign
    BY <1>1, <2>2, ProcessKeeps
  <2>4. SnapFits'
    BY <1>1, <2>3 DEF SnapFits
  <2> QED
    BY <1>1, <2>3, <2>4, QuietKeeps
<1> QED
  BY <1>2, <1>3

\* A frame is emitted.
LEMMA EmitKeeps ==
    ASSUME ClientInv, NEW reaches \in BOOLEAN, Emit(reaches)
    PROVE  ClientInv'
<1> USE DEF ClientInv, ClientTypeOK
<1> DEFINE e == emitted + 1
<1>1. /\ e \in Nat /\ log' = Append(log, e) /\ emitted' = e
      /\ UNCHANGED <<up, target, at, after, snap, cursor, shown, view, got, mark, era, foreign>>
  BY DEF Emit, recoveryVars, screenVars, ghosts
<1>e. e > emitted
  OBVIOUS
<1> HIDE DEF e
<1>2. log' \in Seq(Nat) /\ Len(log') = Len(log) + 1 /\ log'[Len(log) + 1] = e
      /\ (\A i \in 1..Len(log) : log'[i] = log[i]) /\ Len(log) \in Nat
  BY <1>1
<1>3. LogSorted'
  <2>1. \A s \in 1..Len(log) : log'[s] = log[s] /\ log[s] \in 1..emitted
    BY <1>2 DEF LogSorted
  <2>2. \A s \in 1..Len(log') : s \in 1..Len(log) \/ s = Len(log) + 1
    BY <1>2
  <2>3. \A s \in 1..Len(log') : log'[s] \in 1..e
    BY <1>1, <1>2, <1>e, <2>1, <2>2
  <2>4. ASSUME NEW s \in 1..Len(log'), NEW t \in 1..Len(log'), s < t
        PROVE  log'[s] < log'[t]
    <3>1. s \in 1..Len(log)
      BY <1>2, <2>4
    <3>2. CASE t \in 1..Len(log)
      BY <2>1, <2>4, <3>1, <3>2 DEF LogSorted
    <3>3. CASE t = Len(log) + 1
      BY <1>1, <1>2, <1>e, <2>1, <3>1, <3>3
    <3> QED
      BY <2>2, <3>2, <3>3
  <2> QED
    BY <1>1, <2>3, <2>4 DEF LogSorted
<1>4. \A p \in Frame : Trusted(p, log, era) => Trusted(p, log', era)
  BY <1>1, <1>2 DEF Trusted, Genuine, Frame
<1>5. chain' \in Seq(Frame) /\ \A i \in DOMAIN chain' : Trusted(chain'[i], log', era)
  <2>1. \A i \in DOMAIN chain : Trusted(chain[i], log', era)
    BY <1>4 DEF PushesTrusted
  <2>2. CASE chain' = chain
    BY <2>1, <2>2
  <2>3. CASE chain' # chain
    <3> DEFINE p == [seq |-> Len(log) + 1, id |-> e, era |-> era]
    <3>1. chain' = Append(chain, p)
      BY <2>3 DEF Emit, e
    <3>2. p \in Frame /\ Trusted(p, log', era)
      BY <1>1, <1>2 DEF Frame, Genuine, Trusted
    <3> HIDE DEF p
    <3> QED
      BY <2>1, <3>1, <3>2
  <2> QED
    BY <2>2, <2>3
<1>6. PushesTrusted'
  BY <1>1, <1>4, <1>5 DEF PushesTrusted
<1>7. ViewFollows'
  <2> SUFFICES ASSUME up, ~foreign, Follows(view, cursor) PROVE Follows(view, cursor)'
    BY <1>1 DEF ViewFollows
  <2>1. cursor <= Len(log) /\ cursor <= Len(log')
    BY <1>2 DEF Follows
  <2>2. CASE shown
    <3>1. /\ mark.seq \in Nat /\ mark.view \in Seq(Nat) /\ mark.seq <= cursor
          /\ view = Track(mark.view, log, mark.seq, cursor)
      BY <2>2 DEF Follows, Marks
    <3>2. Track(mark.view, log', mark.seq, cursor) = Track(mark.view, log, mark.seq, cursor)
      BY <1>1, <2>1, <3>1, TrackKept
    <3> QED
      BY <1>1, <2>1, <3>1, <3>2 DEF Follows
  <2>3. CASE ~shown
    BY <1>1, <2>1, <2>3 DEF Follows
  <2> QED
    BY <2>2, <2>3
<1>8. MarkIsWhole'
  <2> SUFFICES ASSUME up, shown, ~foreign, mark.whole
               PROVE  /\ Counted(mark.view, e)
                      /\ \A s \in 1..Len(log') : log'[s] <= Len(mark.view) <=> s <= mark.seq
    BY <1>1 DEF MarkIsWhole
  <2>1. /\ Counted(mark.view, emitted)
        /\ \A s \in 1..Len(log) : log[s] <= Len(mark.view) <=> s <= mark.seq
        /\ Follows(view, cursor)
    BY DEF MarkIsWhole, ViewFollows
  <2>2. mark.seq \in Nat /\ Len(mark.view) \in Nat /\ mark.seq <= cursor /\ cursor <= Len(log)
    BY <2>1 DEF Marks, Follows
  <2>3. Len(mark.view) <= emitted
    BY <2>1 DEF Counted
  <2>4. Counted(mark.view, e)
    BY <1>e, <1>1, <2>1, <2>2 DEF Counted
  <2>5. ASSUME NEW s \in 1..Len(log') PROVE log'[s] <= Len(mark.view) <=> s <= mark.seq
    <3>1. CASE s \in 1..Len(log)
      BY <1>2, <2>1, <3>1
    <3>2. CASE s = Len(log) + 1
      BY <1>1, <1>2, <1>e, <2>2, <2>3, <3>2
    <3> QED
      BY <1>2, <3>1, <3>2
  <2> QED
    BY <2>4, <2>5
<1>9. SnapFits'
  <2>1. snap.before \in Nat /\ Len(snap.content) \in Nat
    BY DEF Snaps
  <2> QED
    BY <1>1, <1>2, <1>e, <2>1 DEF SnapFits, Counted
<1> QED
  BY <1>1, <1>2, <1>3, <1>5, <1>6, <1>7, <1>8, <1>9

\* A snapshot attempt is over.
LEMMA AttemptKeeps ==
    ASSUME ClientInv, InSnapshot, AttemptOver,
           UNCHANGED <<log, up, chain, after, cursor, shown, view, got, mark, era, foreign, emitted>>
    PROVE  ClientInv'
<1> USE DEF ClientInv, ClientTypeOK
<1>1. /\ at' \in {"delay", "idle"} /\ target' \in {target, NoPush} /\ snap' = NoSnap
      /\ at' = "delay" => target' = target
      /\ at # "idle"
  BY DEF AttemptOver, InSnapshot
<1>2. NoPush \in Frame /\ NoSnap \in Snaps
  BY DEF NoPush, NoSnap, Frame, Snaps
<1>3. ViewFollows' /\ SnapFits' /\ \A i \in DOMAIN chain' : Trusted(chain'[i], log, era)
  BY <1>1 DEF ViewFollows, Follows, SnapFits, PushesTrusted
<1>4. at' # "idle" => Trusted(target, log, era)'
  BY <1>1 DEF PushesTrusted, Trusted
<1> QED
  BY <1>1, <1>2, <1>3, <1>4, QuietKeeps

\* The three steps of sessionSnapshotGet.
LEMMA SnapshotKeeps ==
    ASSUME ClientInv, SnapshotBegin \/ SnapshotRead \/ SnapshotEnd
    PROVE  ClientInv'
<1> USE DEF ClientInv, ClientTypeOK
<1>1. CASE SnapshotBegin
  <2>1. /\ at = "ask" /\ at' = "read" /\ snap' = [snap EXCEPT !.pass = @ + 1, !.before = Len(log)]
        /\ UNCHANGED <<log, up, chain, target, after, cursor, shown, view, got,
                       mark, era, foreign, emitted>>
    BY <1>1 DEF SnapshotBegin, limits, screenVars, ghosts
  <2>2. snap' \in Snaps /\ snap'.before = Len(log)
    <3> DEFINE n == Len(log)
    <3>1. n \in Nat /\ snap.pass + 1 \in Nat
      BY DEF Snaps
    <3>2. snap' = [snap EXCEPT !.pass = snap.pass + 1, !.before = n]
      BY <2>1
    <3> HIDE DEF n
    <3>3. snap' \in Snaps /\ snap'.before = n
      BY <3>1, <3>2 DEF Snaps
    <3> QED
      BY <3>3 DEF n
  <2>3. ViewFollows' /\ SnapFits' /\ \A i \in DOMAIN chain' : Trusted(chain'[i], log, era)
    BY <2>1, <2>2 DEF ViewFollows, Follows, SnapFits, PushesTrusted
  <2>4. Trusted(target, log, era)'
    BY <2>1 DEF PushesTrusted, Trusted
  <2> QED
    BY <2>1, <2>2, <2>3, <2>4, QuietKeeps
<1>2. CASE SnapshotRead
  <2>1. /\ at = "read" /\ at' = "compare" /\ snap' = [snap EXCEPT !.content = History]
        /\ UNCHANGED <<log, up, chain, target, after, cursor, shown, view, got,
                       mark, era, foreign, emitted>>
    BY <1>2 DEF SnapshotRead, limits, screenVars, ghosts
  <2>2. History \in Seq(Nat) /\ Len(History) = emitted /\ \A i \in 1..emitted : History[i] = i
    BY DEF History
  <2> HIDE DEF History
  <2>3. snap' \in Snaps /\ snap'.before = snap.before /\ snap'.content = History
    BY <2>1, <2>2 DEF Snaps
  <2>4. Counted(History, emitted)
    BY <2>2 DEF Counted
  <2>5. SnapFits'
    <3>1. snap.before \in Nat /\ snap.before <= Len(log) /\ Len(log) \in Nat
      BY <2>1 DEF SnapFits, Snaps
    <3>2. \A s \in 1..snap.before : log[s] <= Len(History)
      BY <2>2, <3>1 DEF LogSorted
    <3>3. (snap.before)' = snap.before /\ (snap.content)' = History
      BY <2>3
    <3> QED
      BY <2>1, <2>4, <3>1, <3>2, <3>3 DEF SnapFits, Counted
  <2>6. ViewFollows' /\ \A i \in DOMAIN chain' : Trusted(chain'[i], log, era)
    BY <2>1 DEF ViewFollows, Follows, PushesTrusted
  <2>7. Trusted(target, log, era)'
    BY <2>1 DEF PushesTrusted, Trusted
  <2> QED
    BY <2>1, <2>3, <2>5, <2>6, <2>7, QuietKeeps
<1>3. CASE SnapshotEnd
  <2>1. /\ at = "compare" /\ UNCHANGED <<log, up, chain, shown, got, era, emitted>>
        /\ Trusted(target, log, era) /\ \A i \in DOMAIN chain' : Trusted(chain'[i], log, era)
    BY <1>3 DEF SnapshotEnd, limits, PushesTrusted
  <2>2. CASE Stable
    <3>1. /\ cursor' = snap.before /\ view' = IF shown THEN snap.content ELSE view
          /\ mark' = [seq |-> snap.before, view |-> view', whole |-> TRUE]
          /\ at' = "events" /\ after' = snap.before /\ snap' = NoSnap /\ target' = target
      BY <1>3, <2>2 DEF SnapshotEnd
    <3>2. /\ snap.before = Len(log) /\ Len(log) \in Nat /\ Counted(snap.content, emitted)
          /\ \A s \in 1..Len(log) : log[s] <= Len(snap.content)
          /\ snap.content \in Seq(Nat)
      BY <2>1, <2>2 DEF SnapFits, Stable, Snaps
    <3>3. NoSnap \in Snaps /\ view' \in Seq(Nat) /\ mark' \in Marks
      BY <3>1, <3>2 DEF NoSnap, Snaps, Marks
    <3>4. mark'.seq = Len(log) /\ mark'.view = view' /\ cursor' = Len(log)
      BY <3>1, <3>2
    <3>5. ViewFollows'
      <4>1. Track(view', log, Len(log), Len(log)) = view'
        BY <3>2, <3>3, TrackNone
      <4>2. Len(log) <= Len(log)
        BY <3>2
      <4> QED
        BY <2>1, <3>4, <4>1, <4>2 DEF ViewFollows, Follows
    <3>6. MarkIsWhole'
      <4>1. \A s \in 1..Len(log) : s <= Len(log)
        BY <3>2
      <4>2. CASE shown
        <5>1. view' = snap.content
          BY <3>1, <4>2
        <5> QED
          BY <2>1, <3>2, <3>4, <4>1, <5>1 DEF MarkIsWhole, Counted
      <4>3. CASE ~shown
        BY <2>1, <4>3 DEF MarkIsWhole
      <4> QED
        BY <4>2, <4>3
    <3>7. SnapFits' /\ LogSorted'
      BY <2>1, <3>1 DEF SnapFits, LogSorted
    <3>8. PushesTrusted'
      BY <2>1, <3>1 DEF PushesTrusted, Trusted
    <3> QED
      BY <2>1, <3>1, <3>2, <3>3, <3>5, <3>6, <3>7, <3>8
  <2>3. CASE at' = "ask" /\ UNCHANGED <<target, after, retry, snap, cursor, view, mark, foreign>>
    <3>1. ViewFollows' /\ SnapFits' /\ Trusted(target, log, era)'
      BY <2>1, <2>3 DEF ViewFollows, Follows, SnapFits, Trusted
    <3> QED
      BY <2>1, <2>3, <3>1, QuietKeeps
  <2>4. CASE AttemptOver /\ UNCHANGED <<after, cursor, view, mark, foreign>>
    BY <2>1, <2>4, AttemptKeeps DEF InSnapshot
  <2> QED
    BY <1>3, <2>2, <2>3, <2>4 DEF SnapshotEnd
<1> QED
  BY <1>1, <1>2, <1>3

\* The daemon goes down: pushes of frames that are lost with it are marked.
LEMMA DownKeeps ==
    ASSUME ClientInv, NEW kept \in 0..MaxFrames, Down(kept)
    PROVE  ClientInv'
<1> USE DEF ClientInv, ClientTypeOK
<1>1. /\ up' = FALSE /\ kept \in Nat /\ kept <= Len(log) /\ log' = SubSeq(log, 1, kept)
      /\ era' = IF kept < Len(log) THEN era + 1 ELSE era
      /\ UNCHANGED <<chain, after, cursor, view, got, mark, emitted>>
  BY DEF Down
<1>2. /\ log' \in Seq(Nat) /\ Len(log') = kept /\ \A i \in 1..kept : log'[i] = log[i]
      /\ Len(log) \in Nat /\ era' \in Nat
  <2>1. Len(log) \in Nat /\ kept \in 0..Len(log) /\ (era' = era + 1 \/ era' = era)
    BY <1>1
  <2>2. era' \in Nat
    BY <2>1
  <2>3. /\ SubSeq(log, 1, kept) \in Seq(Nat) /\ Len(SubSeq(log, 1, kept)) = kept
        /\ \A i \in 1..kept : SubSeq(log, 1, kept)[i] = log[i]
    BY <2>1
  <2> QED
    BY <1>1, <2>1, <2>2, <2>3
<1>3. LogSorted'
  <2>1. \A s \in 1..kept : s \in 1..Len(log) /\ log'[s] = log[s]
    BY <1>1, <1>2
  <2>2. Len(log') = kept /\ emitted' = emitted
    BY <1>1, <1>2
  <2> QED
    BY <2>1, <2>2 DEF LogSorted
<1>4. \A p \in Frame : Trusted(p, log, era) => Trusted(p, log', era')
  <2> TAKE p \in Frame
  <2> HAVE Trusted(p, log, era)
  <2>1. CASE kept < Len(log)
    BY <1>1, <2>1 DEF Trusted, Frame
  <2>2. CASE kept = Len(log)
    BY <1>1, <1>2, <2>2 DEF Trusted, Genuine, Frame
  <2> QED
    BY <1>1, <1>2, <2>1, <2>2
<1>5. \A i \in DOMAIN chain : Trusted(chain[i], log', era')
  BY <1>4 DEF PushesTrusted
<1>6. /\ target' \in Frame /\ snap' \in Snaps
      /\ at' # "idle" => target' = target /\ at # "idle"
      /\ at' \notin {"read", "compare"}
  <2>1. NoPush \in Frame /\ NoSnap \in Snaps
    BY DEF NoPush, NoSnap, Frame, Snaps
  <2>2. CASE InSnapshot /\ AttemptOver
    <3>1. at # "idle"
      BY <2>2 DEF InSnapshot
    <3> QED
      BY <2>1, <2>2, <3>1 DEF AttemptOver
  <2>3. CASE at = "events" /\ at' = "idle" /\ target' = NoPush /\ UNCHANGED <<retry, snap>>
    BY <2>1, <2>3
  <2>4. CASE at \in {"idle", "delay"} /\ UNCHANGED <<at, target, retry, snap>>
    BY <2>4
  <2> QED
    BY <2>2, <2>3, <2>4 DEF Down
<1>7. PushesTrusted'
  BY <1>1, <1>4, <1>5, <1>6 DEF PushesTrusted
<1>8. ViewFollows' /\ MarkIsWhole' /\ SnapFits'
  BY <1>1, <1>6 DEF ViewFollows, MarkIsWhole, SnapFits
<1> QED
  BY <1>1, <1>2, <1>3, <1>6, <1>7, <1>8

\* The handshake with a new daemon, and what the user opens and leaves.
LEMMA ScreenKeeps ==
    ASSUME ClientInv, Reconnect \/ Leave \/ OpenSession \/ HistoryRead \/ ShowSession \/ OpenFails
    PROVE  ClientInv'
<1> USE DEF ClientInv, ClientTypeOK
<1>1. /\ UNCHANGED <<log, emitted, chain, target, at, after, snap, era>>
      /\ \A i \in DOMAIN chain' : Trusted(chain'[i], log, era)
      /\ at' # "idle" => Trusted(target, log, era)'
  <2>1. UNCHANGED <<log, emitted, chain, target, at, after, snap, era>>
    BY DEF Reconnect, Leave, OpenSession, HistoryRead, ShowSession, OpenFails, Show, recoveryVars,
           limits, ghosts
  <2> QED
    BY <2>1 DEF PushesTrusted, Trusted
<1>2. SnapFits'
  BY <1>1 DEF SnapFits
<1>3. Len(log) \in Nat /\ 0 \in Nat /\ <<>> \in Seq(Nat)
  OBVIOUS
<1>4. CASE Reconnect
  <2>1. /\ cursor' = 0 /\ mark' = [seq |-> 0, view |-> view, whole |-> FALSE]
        /\ UNCHANGED <<shown, view, got>>
    BY <1>4 DEF Reconnect, screenVars
  <2>2. mark' \in Marks /\ mark'.seq = 0 /\ mark'.view = view /\ mark'.whole = FALSE
    BY <2>1 DEF Marks
  <2>3. Track(view, log, 0, 0) = view /\ 0 <= Len(log) /\ 0 <= 0
    BY <1>3, TrackNone
  <2>4. ViewFollows'
    BY <1>1, <2>1, <2>2, <2>3 DEF ViewFollows, Follows
  <2> QED
    BY <1>1, <1>2, <2>1, <2>2, <2>4, QuietKeeps
<1>5. CASE Leave
  <2>1. /\ shown' = FALSE /\ view' = <<>> /\ got' = <<>>
        /\ UNCHANGED <<up, cursor, mark, foreign>>
    BY <1>5 DEF Leave, ghosts
  <2>2. ViewFollows'
    BY <1>1, <2>1 DEF ViewFollows, Follows
  <2> QED
    BY <1>1, <1>2, <1>3, <2>1, <2>2, QuietKeeps
<1>6. CASE OpenSession \/ HistoryRead
  <2>1. UNCHANGED <<up, cursor, shown, view, mark, foreign>> /\ got' \in {got, History}
    BY <1>6 DEF OpenSession, HistoryRead, ghosts
  <2>2. History \in Seq(Nat)
    BY DEF History
  <2>3. ViewFollows'
    BY <1>1, <2>1 DEF ViewFollows, Follows
  <2> HIDE DEF History
  <2> QED
    BY <1>1, <1>2, <2>1, <2>2, <2>3, QuietKeeps
<1>7. ASSUME NEW v \in Seq(Nat), Show(v) PROVE ClientInv'
  <2>1. /\ shown' = TRUE /\ view' = v /\ got' = <<>>
        /\ mark' = [seq |-> cursor, view |-> v, whole |-> FALSE]
        /\ UNCHANGED <<up, cursor, foreign>>
    BY <1>7 DEF Show
  <2>2. mark' \in Marks /\ mark'.seq = cursor /\ mark'.view = v /\ mark'.whole = FALSE
    BY <2>1 DEF Marks
  <2>3. ASSUME up, ~foreign PROVE Follows(view, cursor)'
    <3>1. cursor <= Len(log) /\ cursor <= cursor
      BY <2>3 DEF ViewFollows, Follows
    <3>2. Track(v, log, cursor, cursor) = v
      BY <3>1, TrackNone
    <3> QED
      BY <1>1, <2>1, <2>2, <3>1, <3>2 DEF Follows
  <2>4. ViewFollows'
    BY <2>1, <2>3 DEF ViewFollows
  <2> QED
    BY <1>1, <1>2, <1>3, <2>1, <2>2, <2>4, QuietKeeps
<1>8. CASE OpenFails
  <2>1. CASE Show(<<>>)
    BY <1>3, <1>7, <2>1
  <2>2. CASE /\ got' = <<>>
             /\ UNCHANGED <<log, up, chain, recoveryVars, cursor, shown, view, ghosts>>
    <3>1. UNCHANGED <<up, cursor, shown, view, mark, foreign>>
      BY <2>2 DEF ghosts
    <3>2. ViewFollows'
      BY <1>1, <3>1 DEF ViewFollows, Follows
    <3> QED
      BY <1>1, <1>2, <1>3, <2>2, <3>1, <3>2, QuietKeeps
  <2> QED
    BY <1>8, <2>1, <2>2 DEF OpenFails
<1> QED
  BY <1>4, <1>5, <1>6, <1>7, <1>8 DEF ShowSession

\* The other steps.
LEMMA OtherClientStepsKeep ==
    ASSUME ClientInv, EventsFail \/ SnapshotFails \/ DelayOver \/ UNCHANGED clientVars
    PROVE  ClientInv'
<1> USE DEF ClientInv, ClientTypeOK
<1>1. CASE EventsFail
  <2>1. /\ at' = "idle" /\ target' = NoPush /\ NoPush \in Frame
        /\ UNCHANGED <<log, up, chain, after, snap, cursor, shown, view, got,
                       mark, era, foreign, emitted>>
    BY <1>1 DEF EventsFail, screenVars, ghosts, NoPush, Frame
  <2>2. ViewFollows' /\ SnapFits' /\ \A i \in DOMAIN chain' : Trusted(chain'[i], log, era)
    BY <2>1 DEF ViewFollows, Follows, SnapFits, PushesTrusted
  <2> QED
    BY <2>1, <2>2, QuietKeeps
<1>2. CASE SnapshotFails
  BY <1>2, AttemptKeeps DEF SnapshotFails, screenVars, ghosts
<1>3. CASE DelayOver \/ UNCHANGED clientVars
  <2>1. /\ at' = at \/ (at = "delay" /\ at' = "ask")
        /\ UNCHANGED <<log, up, chain, target, after, snap, cursor, shown, view, got,
                       mark, era, foreign, emitted>>
    BY <1>3 DEF DelayOver, clientVars, recoveryVars, limits, screenVars, ghosts
  <2>2. ViewFollows' /\ SnapFits' /\ \A i \in DOMAIN chain' : Trusted(chain'[i], log, era)
    BY <2>1 DEF ViewFollows, Follows, SnapFits, PushesTrusted
  <2>3. at' # "idle" => Trusted(target, log, era)'
    BY <2>1 DEF PushesTrusted, Trusted
  <2> QED
    BY <2>1, <2>2, <2>3, QuietKeeps
<1> QED
  BY <1>1, <1>2, <1>3

\* The desktop shows what was there at the last reset, and behind it the daemon's
\* frames up to the cursor (ViewIsStream), for every number of frames, missed
\* frames, failing requests, snapshot passes, openings and replaced daemons,
\* whatever a daemon loses when it goes down.
THEOREM DesktopShowsTheStream ==
    ClientSpec => []ViewIsStream
<1>1. ClientInit => ClientInv
  <2> SUFFICES ASSUME ClientInit PROVE ClientInv
    OBVIOUS
  <2>1. <<>> \in Seq(Nat) /\ Len(<<>>) = 0 /\ <<>> \in Seq(Frame)
    OBVIOUS
  <2>2. ClientTypeOK
    BY <2>1 DEF ClientInit, ClientTypeOK, NoPush, NoSnap, Frame, Marks, Snaps
  <2>3. log \in Seq(Nat) /\ Len(log) = 0 /\ mark.seq = 0 /\ mark.view = <<>>
    BY <2>1 DEF ClientInit
  <2>4. LogSorted
    BY <2>3 DEF LogSorted
  <2>7. PushesTrusted
    <3>1. chain \in Seq(Frame) /\ Len(chain) = 0 /\ at = "idle"
      BY <2>1 DEF ClientInit
    <3>2. ASSUME NEW i \in DOMAIN chain PROVE FALSE
      BY <3>1
    <3> QED
      BY <3>1, <3>2 DEF PushesTrusted
  <2>8. SnapFits
    BY DEF ClientInit, SnapFits
  <2>5. ViewFollows
    <3>1. view \in Seq(Nat) /\ view = mark.view /\ cursor = 0
      BY <2>1 DEF ClientInit
    <3>3. 0 \in Nat /\ 0 <= Len(log) /\ 0 <= 0
      BY <2>3
    <3>2. Track(view, log, 0, 0) = view
      BY <2>3, <3>1, <3>3, TrackNone
    <3> QED
      BY <2>3, <3>1, <3>2, <3>3 DEF ViewFollows, Follows
  <2>6. MarkIsWhole
    BY <2>1, <2>3 DEF ClientInit, MarkIsWhole, Counted
  <2> QED
    BY <2>2, <2>4, <2>5, <2>6, <2>7, <2>8 DEF ClientInv
<1>2. ClientInv /\ [ClientNext]_clientVars => ClientInv'
  BY EmitKeeps, DownKeeps, TakeKeeps, EventsKeeps, SnapshotKeeps, ScreenKeeps,
     OtherClientStepsKeep DEF ClientNext, RecoveryStep
<1>3. ClientInv => ViewIsStream
  <2> SUFFICES ASSUME ClientInv, up, shown, ~foreign
               PROVE  /\ cursor <= Len(log)
                      /\ view = mark.view \o SubSeq(log, mark.seq + 1, cursor)
                      /\ mark.whole => \A s \in 1..Len(log) :
                           (\E i \in 1..Len(mark.view) : mark.view[i] = log[s]) <=> s <= mark.seq
    BY DEF ViewIsStream
  <2>1. Follows(view, cursor)
    BY DEF ClientInv, ViewFollows
  <2>2. ASSUME mark.whole, NEW s \in 1..Len(log)
        PROVE  (\E i \in 1..Len(mark.view) : mark.view[i] = log[s]) <=> s <= mark.seq
    <3>1. /\ \A i \in 1..Len(mark.view) : mark.view[i] = i
          /\ log[s] <= Len(mark.view) <=> s <= mark.seq
      BY <2>2 DEF ClientInv, MarkIsWhole, Counted
    <3>2. log[s] \in Nat /\ log[s] >= 1
      BY DEF ClientInv, ClientTypeOK, LogSorted
    <3> QED
      BY <3>1, <3>2
  <2> QED
    BY <2>1, <2>2 DEF Follows, Track, Segment
<1> QED
  BY <1>1, <1>2, <1>3, PTL DEF ClientSpec

-----------------------------------------------------------------------------
(* InboundBatcher *)

Item == [kind : {"text", "media"}, at : Nat, state : {"flight", "ok", "failed"}]
BatchState == [ids : Seq(Nat), pending : Int, lastArrivalAt : Nat, openedAt : Nat, timer : Nat]
\* What flush() is given: the places of a batch that were fulfilled.
Given == UNION {[D -> Nat] : D \in SUBSET Nat}

BatcherTypeOK ==
    /\ now \in Nat /\ items \in Seq(Item) /\ batch \in BatchState
    /\ tails \in Seq(Seq(Nat)) /\ delivered \in Seq(Given)

\* Messages in arrival order, one prompt before another, messages that have arrived.
Rising(s) == \A i, j \in DOMAIN s : i < j => s[i] < s[j]
Precedes(s, t) == \A i \in DOMAIN s, j \in DOMAIN t : s[i] < t[j]
Within(s, n) == \A i \in DOMAIN s : s[i] <= n

\* The open batch has arrived, in order.
BatchLined(ids, n) == Rising(ids) /\ Within(ids, n)

\* The batches that wait for their hand-over are in order and before the open one.
TailsLined(q, ids, n) ==
    /\ \A k \in DOMAIN q : Rising(q[k]) /\ Within(q[k], n) /\ Precedes(q[k], ids)
    /\ \A k, l \in DOMAIN q : k < l => Precedes(q[k], q[l])

\* What was handed over is in order and before everything that waits.
DeliveredLined(d, q, ids, n) ==
    /\ \A a \in DOMAIN d : Rising(d[a]) /\ Within(d[a], n) /\ Precedes(d[a], ids)
    /\ \A a, b \in DOMAIN d : a < b => Precedes(d[a], d[b])
    /\ \A a \in DOMAIN d, k \in DOMAIN q : Precedes(d[a], q[k])

BatcherInv ==
    /\ BatcherTypeOK
    /\ BatchLined(batch.ids, Len(items))
    /\ TailsLined(tails, batch.ids, Len(items))
    /\ DeliveredLined(delivered, tails, batch.ids, Len(items))

\* The batch's record, and the one a message joins.
LEMMA BatchRecords ==
    ASSUME BatcherTypeOK
    PROVE  /\ NoBatch \in BatchState /\ NoBatch.ids = <<>>
           /\ \A id \in Nat : Joined(id) \in BatchState
                              /\ Joined(id).ids = Append(IF Open THEN batch.ids ELSE <<>>, id)
           /\ \A ok \in BOOLEAN : Settled(batch, ok) \in BatchState
                                  /\ Settled(batch, ok).ids = batch.ids
<1>0. Never \in Nat /\ QuietMs \in Nat /\ MaxWaitMs \in Nat
  BY BatcherAssumption DEF Never
<1>t. batch \in BatchState /\ now \in Nat
  BY DEF BatcherTypeOK
<1>1. NoBatch \in BatchState /\ NoBatch.ids = <<>>
  BY <1>0 DEF NoBatch, BatchState
<1>2. ASSUME NEW id \in Nat
      PROVE  Joined(id) \in BatchState /\ Joined(id).ids = Append(IF Open THEN batch.ids ELSE <<>>, id)
  <2> DEFINE b == IF Open THEN batch ELSE [NoBatch EXCEPT !.openedAt = now]
  <2>1. b \in BatchState /\ b.ids = IF Open THEN batch.ids ELSE <<>>
    BY <1>1, <1>t DEF BatchState
  <2> HIDE DEF b
  <2>2. Append(b.ids, id) \in Seq(Nat) /\ b.pending + 1 \in Int
    BY <2>1 DEF BatchState
  <2>3. Joined(id) = [b EXCEPT !.ids = Append(@, id), !.pending = @ + 1, !.lastArrivalAt = now,
                               !.timer = Never]
    BY DEF Joined, b
  <2> QED
    <3> DEFINE i == Append(b.ids, id)  p == b.pending + 1
    <3>1. Joined(id) = [b EXCEPT !.ids = i, !.pending = p, !.lastArrivalAt = now, !.timer = Never]
      BY <2>3
    <3>2. i \in Seq(Nat) /\ p \in Int /\ i = Append(IF Open THEN batch.ids ELSE <<>>, id)
      BY <2>1, <2>2
    <3> HIDE DEF i, p
    <3>3. Joined(id) \in BatchState /\ Joined(id).ids = i
      BY <3>1, <3>2, <2>1, <1>0, <1>t DEF BatchState
    <3> QED
      BY <3>2, <3>3
<1>3. ASSUME NEW ok \in BOOLEAN
      PROVE  Settled(batch, ok) \in BatchState /\ Settled(batch, ok).ids = batch.ids
  <2> DEFINE b == [batch EXCEPT !.pending = @ - 1]
  <2>1. b \in BatchState /\ b.ids = batch.ids
    <3> DEFINE p == batch.pending - 1
    <3>1. p \in Int
      BY <1>t DEF BatchState
    <3>2. b = [batch EXCEPT !.pending = p]
      OBVIOUS
    <3> HIDE DEF p, b
    <3> QED
      BY <1>t, <3>1, <3>2 DEF BatchState
  <2> HIDE DEF b
  <2>2. Max(now, Min(b.lastArrivalAt + QuietMs, b.openedAt + MaxWaitMs)) \in Nat
    BY <2>1, <1>0, <1>t DEF Max, Min, BatchState
  <2>3. Armed(b) \in BatchState /\ Armed(b).ids = b.ids
    BY <2>1, <2>2, <1>0 DEF Armed, BatchState
  <2> QED
    BY <2>1, <2>3 DEF Settled, b
<1> QED
  BY <1>1, <1>2, <1>3

\* A new message comes after all others, in the open batch or in a new one.
LEMMA PushKeeps ==
    ASSUME BatcherInv, NEW kind \in {"text", "media"}, Push(kind)
    PROVE  BatcherInv'
<1>t. BatcherTypeOK /\ Len(items) \in Nat
  BY DEF BatcherInv, BatcherTypeOK
<1>1. items' \in Seq(Item) /\ Len(items') = Len(items) + 1
  BY <1>t DEF Push, Item, BatcherTypeOK
<1>2. UNCHANGED <<now, tails, delivered>>
  BY DEF Push
<1>n. /\ batch.ids \in Seq(Nat) /\ (\A i \in DOMAIN batch.ids : batch.ids[i] \in Nat)
      /\ (\A k \in DOMAIN tails : \A i \in DOMAIN tails[k] : tails[k][i] \in Nat)
      /\ (\A a \in DOMAIN delivered : \A i \in DOMAIN delivered[a] : delivered[a][i] \in Nat)
  <2>1. batch.ids \in Seq(Nat) /\ tails \in Seq(Seq(Nat)) /\ delivered \in Seq(Given)
    BY <1>t DEF BatcherTypeOK, BatchState
  <2>2. ASSUME NEW k \in DOMAIN tails PROVE \A i \in DOMAIN tails[k] : tails[k][i] \in Nat
    <3>1. tails[k] \in Seq(Nat)
      BY <2>1
    <3> QED
      BY <3>1
  <2>3. ASSUME NEW a \in DOMAIN delivered PROVE \A i \in DOMAIN delivered[a] : delivered[a][i] \in Nat
    <3>1. delivered[a] \in Given
      BY <2>1
    <3> QED
      BY <3>1 DEF Given
  <2> QED
    BY <2>1, <2>2, <2>3
<1>w. \A s : Within(s, Len(items)) /\ (\A i \in DOMAIN s : s[i] \in Nat) => Within(s, Len(items) + 1)
  BY <1>t DEF Within
<1>3. CASE closed
  <2>1. batch' = batch
    BY <1>3 DEF Push
  <2>2. /\ BatchLined(batch.ids, Len(items) + 1) /\ TailsLined(tails, batch.ids, Len(items) + 1)
        /\ DeliveredLined(delivered, tails, batch.ids, Len(items) + 1)
    BY <1>n, <1>w DEF BatcherInv, BatchLined, TailsLined, DeliveredLined
  <2> QED
    BY <1>t, <1>1, <1>2, <2>1, <2>2 DEF BatcherInv, BatcherTypeOK
<1>4. CASE ~closed
  <2> DEFINE n == Len(items)  old == IF Open THEN batch.ids ELSE <<>>
  <2>1. batch' \in BatchState /\ batch'.ids = Append(old, n + 1)
    BY <1>4, <1>t, BatchRecords DEF Push
  <2>2. old \in Seq(Nat) /\ \A i \in DOMAIN old : i \in DOMAIN batch.ids /\ old[i] = batch.ids[i]
    BY <1>t DEF BatcherTypeOK, BatchState
  <2> DEFINE new == Append(old, n + 1)
  <2>3. \A i \in DOMAIN new : \/ i \in DOMAIN old /\ i \in DOMAIN batch.ids /\ new[i] = batch.ids[i]
                              \/ i = Len(old) + 1 /\ new[i] = n + 1
    BY <2>2, <1>t
  <2>4. new \in Seq(Nat) /\ \A i \in DOMAIN old : i \in 1..Len(old)
    BY <2>2, <1>t
  <2> HIDE DEF old, new
  <2>5. BatchLined(new, n + 1)
    <3>1. BatchLined(batch.ids, n) /\ n \in Nat /\ Len(old) \in Nat
      BY <1>t, <2>2 DEF BatcherInv
    <3> HIDE DEF n
    <3>2. Within(new, n + 1)
      BY <3>1, <2>3, <1>n DEF BatchLined, Within
    <3>3. ASSUME NEW i \in DOMAIN new, NEW j \in DOMAIN new, i < j PROVE new[i] < new[j]
      <4>1. i \in Nat /\ j \in Nat
        BY <2>4
      <4>2. CASE j \in DOMAIN old
        BY <4>1, <4>2, <3>3, <2>3, <2>4, <3>1 DEF BatchLined, Rising
      <4>3. CASE j = Len(old) + 1 /\ new[j] = n + 1
        BY <4>1, <4>3, <3>3, <2>3, <1>n, <3>1 DEF BatchLined, Within
      <4> QED
        BY <4>2, <4>3, <2>3
    <3> QED
      BY <3>2, <3>3 DEF BatchLined, Rising
  <2>6. \A s : Within(s, n) /\ Precedes(s, batch.ids) /\ (\A i \in DOMAIN s : s[i] \in Nat)
               => Within(s, n + 1) /\ Precedes(s, new)
    BY <2>3, <1>t DEF Within, Precedes
  <2>8. TailsLined(tails, new, n + 1)
    BY <2>6, <1>n DEF BatcherInv, TailsLined
  <2>9. DeliveredLined(delivered, tails, new, n + 1)
    BY <2>6, <1>n DEF BatcherInv, DeliveredLined
  <2> QED
    BY <2>1, <2>5, <2>8, <2>9, <1>t, <1>1, <1>2 DEF BatcherInv, BatcherTypeOK, new
<1> QED
  BY <1>3, <1>4

\* A batch closes behind those that wait.
LEMMA CloseKeeps ==
    ASSUME BatcherInv, Close
    PROVE  BatcherInv'
<1> DEFINE ids == batch.ids  n == Len(items)
<1>t. BatcherTypeOK /\ ids \in Seq(Nat) /\ tails \in Seq(Seq(Nat)) /\ delivered \in Seq(Given)
  BY DEF BatcherInv, BatcherTypeOK, BatchState
<1>1. /\ tails' = Append(tails, ids) /\ batch' = NoBatch
      /\ UNCHANGED <<now, items, delivered>>
  BY DEF Close
<1>2. batch' \in BatchState /\ batch'.ids = <<>>
  BY <1>1, <1>t, BatchRecords
<1> DEFINE q == Append(tails, ids)
<1>3. q \in Seq(Seq(Nat))
  BY <1>t
<1>4. \A k \in DOMAIN q : \/ k \in DOMAIN tails /\ k \in 1..Len(tails) /\ q[k] = tails[k]
                          \/ k = Len(tails) + 1 /\ q[k] = ids
  BY <1>t
<1>5. \A s : Precedes(s, <<>>)
  BY DEF Precedes
<1>6. /\ BatchLined(ids, n) /\ TailsLined(tails, ids, n) /\ DeliveredLined(delivered, tails, ids, n)
      /\ Len(tails) \in Nat
  BY <1>t DEF BatcherInv
<1> HIDE DEF ids, n, q
<1>7. BatchLined(<<>>, n)
  BY DEF BatchLined, Rising, Within
<1>8. TailsLined(q, <<>>, n)
  BY <1>4, <1>5, <1>6 DEF TailsLined, BatchLined
<1>9. DeliveredLined(delivered, q, <<>>, n)
  BY <1>4, <1>5, <1>6 DEF DeliveredLined
<1> QED
  BY <1>t, <1>1, <1>2, <1>3, <1>7, <1>8, <1>9 DEF BatcherInv, BatcherTypeOK, n, q

\* What the oldest batch hands over is in order, and before what still waits.
LEMMA HandOverKeeps ==
    ASSUME BatcherInv, HandOver
    PROVE  BatcherInv'
<1> DEFINE ids == batch.ids  n == Len(items)  q == Tail(tails)  h == Head(tails)  g == Fulfilled(h)
<1>t. BatcherTypeOK /\ tails \in Seq(Seq(Nat)) /\ delivered \in Seq(Given) /\ tails # <<>>
  BY DEF BatcherInv, BatcherTypeOK, HandOver, Ready
<1>1. /\ tails' = q /\ UNCHANGED <<now, items, batch>>
      /\ delivered' = IF closed \/ DOMAIN g = {} THEN delivered ELSE Append(delivered, g)
  BY DEF HandOver
<1>2. h \in Seq(Nat) /\ h = tails[1] /\ 1 \in DOMAIN tails /\ q \in Seq(Seq(Nat))
  BY <1>t
<1>3. \A k \in DOMAIN q : k + 1 \in DOMAIN tails /\ q[k] = tails[k + 1] /\ k \in Nat /\ 1 < k + 1
  BY <1>t
<1>4. DOMAIN g \subseteq DOMAIN h /\ \A i \in DOMAIN g : g[i] = h[i]
  BY DEF Fulfilled
<1>5. g \in Given
  <2>1. DOMAIN g \subseteq Nat /\ \A i \in DOMAIN g : g[i] \in Nat
    BY <1>2, <1>4
  <2>2. g = [i \in DOMAIN g |-> g[i]]
    BY DEF Fulfilled
  <2> HIDE DEF g
  <2>3. g \in [DOMAIN g -> Nat]
    BY <2>1, <2>2
  <2> QED
    BY <2>1, <2>3 DEF Given
<1>6. /\ TailsLined(tails, ids, n) /\ DeliveredLined(delivered, tails, ids, n)
      /\ BatchLined(ids, n)
  BY DEF BatcherInv
<1> HIDE DEF ids, n, q, h, g
<1>7. TailsLined(q, ids, n)
  BY <1>3, <1>6 DEF TailsLined
<1>8. \A a \in DOMAIN delivered, k \in DOMAIN q : Precedes(delivered[a], q[k])
  BY <1>3, <1>6 DEF DeliveredLined
<1>9. CASE delivered' = delivered
  BY <1>t, <1>1, <1>6, <1>7, <1>8, <1>2, <1>9 DEF BatcherInv, BatcherTypeOK, DeliveredLined, ids, n
<1>10. CASE delivered' = Append(delivered, g)
  <2> DEFINE d == Append(delivered, g)
  <2>1. d \in Seq(Given)
    BY <1>t, <1>5
  <2>2. \A a \in DOMAIN d : \/ a \in DOMAIN delivered /\ a \in 1..Len(delivered) /\ d[a] = delivered[a]
                            \/ a = Len(delivered) + 1 /\ d[a] = g
    BY <1>t, <1>5
  <2>3. Rising(h) /\ Within(h, n) /\ Precedes(h, ids)
    BY <1>2, <1>6 DEF TailsLined
  <2>4. Rising(g) /\ Within(g, n) /\ Precedes(g, ids)
    BY <2>3, <1>4 DEF Rising, Within, Precedes
  <2>5. \A a \in DOMAIN delivered : Precedes(delivered[a], g)
    BY <1>2, <1>4, <1>6 DEF DeliveredLined, Precedes
  <2>6. \A k \in DOMAIN q : Precedes(g, q[k])
    BY <1>2, <1>3, <1>4, <1>6 DEF TailsLined, Precedes
  <2>7. Len(delivered) \in Nat
    BY <1>t
  <2> HIDE DEF d
  <2>8. DeliveredLined(d, q, ids, n)
    BY <2>2, <2>4, <2>5, <2>6, <2>7, <1>6, <1>8 DEF DeliveredLined
  <2> QED
    BY <1>t, <1>1, <1>2, <1>6, <1>7, <1>10, <2>1, <2>8 DEF BatcherInv, BatcherTypeOK, d, ids, n
<1> QED
  BY <1>1, <1>9, <1>10

\* Settling, disposing and time leave the line as it is, or drop the open batch.
LEMMA OtherBatcherStepsKeep ==
    ASSUME BatcherInv,
           \/ \E id \in DOMAIN items, ok \in BOOLEAN : ItemSettles(id, ok)
           \/ Dispose \/ Tick \/ UNCHANGED batcherVars
    PROVE  BatcherInv'
<1>t. BatcherTypeOK
  BY DEF BatcherInv
<1>1. ASSUME NEW id \in DOMAIN items, NEW ok \in BOOLEAN, ItemSettles(id, ok)
      PROVE  BatcherInv'
  <2>1. items' \in Seq(Item) /\ Len(items') = Len(items)
    <3> DEFINE st == IF ok THEN "ok" ELSE "failed"
    <3>s. st \in {"flight", "ok", "failed"}
      OBVIOUS
    <3>i. items[id] \in Item
      BY <1>t DEF BatcherTypeOK
    <3>2. items' = [items EXCEPT ![id] = [items[id] EXCEPT !.state = st]]
      BY <1>1 DEF ItemSettles
    <3> HIDE DEF st
    <3>1. items[id] \in Item /\ [items[id] EXCEPT !.state = st] \in Item
      BY <3>s, <3>i DEF Item
    <3> QED
      BY <1>t, <3>1, <3>2, <1>1 DEF BatcherTypeOK
  <2>2. batch' \in BatchState /\ batch'.ids = batch.ids
    BY <1>1, <1>t, BatchRecords DEF ItemSettles, BatcherTypeOK
  <2>3. UNCHANGED <<now, tails, delivered>>
    BY <1>1 DEF ItemSettles
  <2> QED
    BY <2>1, <2>2, <2>3, <1>t DEF BatcherInv, BatcherTypeOK
<1>2. CASE Dispose
  <2>1. batch' \in BatchState /\ batch'.ids = <<>> /\ UNCHANGED <<now, items, tails, delivered>>
    BY <1>2, <1>t, BatchRecords DEF Dispose
  <2>2. BatchLined(<<>>, Len(items)) /\ \A s : Precedes(s, <<>>)
    BY DEF BatchLined, Rising, Within, Precedes
  <2>3. TailsLined(tails, <<>>, Len(items)) /\ DeliveredLined(delivered, tails, <<>>, Len(items))
    BY <2>2 DEF BatcherInv, TailsLined, DeliveredLined
  <2> QED
    BY <2>1, <2>2, <2>3, <1>t DEF BatcherInv, BatcherTypeOK
<1>3. CASE Tick
  BY <1>3, <1>t DEF Tick, BatcherInv, BatcherTypeOK
<1>4. CASE UNCHANGED batcherVars
  BY <1>4, <1>t DEF batcherVars, BatcherInv, BatcherTypeOK
<1> QED
  BY <1>1, <1>2, <1>3, <1>4

\* A chat's messages reach its session in arrival order and at most once
\* (DeliveredInOrder), for any number of messages, whatever order downloads end
\* or fail in and whenever the batcher is disposed.
THEOREM PromptsInOrder == BatcherSpec => []DeliveredInOrder
<1>1. BatcherInit => BatcherInv
  <2> SUFFICES ASSUME BatcherInit PROVE BatcherInv
    OBVIOUS
  <2>1. BatcherTypeOK
    BY BatcherAssumption DEF BatcherInit, BatcherTypeOK, NoBatch, BatchState, Never
  <2>2. items = <<>> /\ tails = <<>> /\ delivered = <<>> /\ batch.ids = <<>>
    BY DEF BatcherInit, NoBatch
  <2> QED
    BY <2>1, <2>2 DEF BatcherInv, BatchLined, TailsLined, DeliveredLined, Rising, Within, Precedes
<1>2. BatcherInv /\ [BatcherNext]_batcherVars => BatcherInv'
  BY PushKeeps, CloseKeeps, HandOverKeeps, OtherBatcherStepsKeep DEF BatcherNext
<1>3. BatcherInv => DeliveredInOrder
  BY DEF BatcherInv, DeliveredLined, DeliveredInOrder, Rising, Precedes
<1> QED
  BY <1>1, <1>2, <1>3, PTL DEF BatcherSpec
=============================================================================
