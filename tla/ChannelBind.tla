---------------------------- MODULE ChannelBind ----------------------------
(***************************************************************************)
(* Binding one IM channel to its platform                                  *)
(* (packages/sidecar/src/channels/channelBindBroker.ts, driven by          *)
(* channels/builtin/wechatChannel.ts, wecomChannel.ts and                  *)
(* server/channelControl.ts).                                              *)
(*                                                                         *)
(* The broker holds the status the desktop shows, the pairing-code         *)
(* requests a login waits on, and a watchdog for `connecting`.  The        *)
(* platform's SDK is external: it reports what it likes, when it likes, and *)
(* it may never report anything.  Channels share no state, so one channel  *)
(* is the whole component.                                                 *)
(***************************************************************************)
EXTENDS Naturals, FiniteSets

CONSTANT MaxRequests   \* bound: pairing-code requests

ASSUME BindAssumption == MaxRequests \in Nat

VARIABLES
    bind,       \* statuses: the state and the pairing-code request it names
    verify,     \* pending: requests that wait for a code
    issued,     \* requests made so far
    watchdog,   \* connectTimers: the watchdog is armed
    unbinding,  \* unbind() awaits logout()
    loaded      \* the channel was not closed

bindVars == <<bind, verify, issued, watchdog, unbinding, loaded>>

Requests == 1..MaxRequests
States == {"unbound", "awaiting_scan", "scanned", "awaiting_verify_code",
           "connecting", "connected", "expired", "error"}
Status(state, id) == [state |-> state, id |-> id]

BindInit ==
    /\ bind = Status("unbound", 0)
    /\ verify = {} /\ issued = 0
    /\ watchdog = FALSE /\ unbinding = FALSE /\ loaded = TRUE

----------------------------------------------------------------------------
(* The broker. *)

\* A bug: a watchdog that is armed is not armed again.
SetState_KeepWatchdog(state, id) ==
    /\ bind' = Status(state, id)
    /\ watchdog' = (state = "connecting" /\ ~watchdog)

\* setState: entering `connecting` arms the watchdog, anything else disarms it.
SetState(state, id) ==
    /\ bind' = Status(state, id)
    /\ watchdog' = (state = "connecting")

\* A bug: the request before stays, and its timer with it.
Superseded_Keep == verify
\* cancel(), as requestVerifyCode uses it: the requests before are rejected.
Superseded == {}

RequestVerifyCode ==
    /\ loaded /\ issued < MaxRequests
    /\ issued' = issued + 1
    /\ verify' = Superseded \cup {issued + 1}
    /\ SetState("awaiting_verify_code", issued + 1)
    /\ UNCHANGED <<unbinding, loaded>>

\* The user submits a code for a request he saw; one that is gone is refused.
SubmitVerifyCode(r) ==
    /\ r \in verify
    /\ verify' = verify \ {r}
    /\ SetState("connecting", 0)
    /\ UNCHANGED <<issued, unbinding, loaded>>

VerifyTimeout(r) ==
    /\ r \in verify
    /\ verify' = verify \ {r}
    /\ SetState("expired", 0)
    /\ UNCHANGED <<issued, unbinding, loaded>>

\* The watchdog's time is up.
ConnectTimeout ==
    /\ watchdog
    /\ IF bind.state = "connecting"
       THEN SetState("error", 0)
       ELSE watchdog' = FALSE /\ UNCHANGED bind
    /\ UNCHANGED <<verify, issued, unbinding, loaded>>

----------------------------------------------------------------------------
(* Its users. *)

\* login() and reconnect(), for a bind, a retry or stored credentials.
Login ==
    /\ loaded
    /\ SetState("connecting", 0)
    /\ UNCHANGED <<verify, issued, unbinding, loaded>>

\* What the SDK's events and login callbacks set.  A login that failed ends in
\* failChannel.
SdkReports(state) ==
    /\ loaded /\ state \in {"awaiting_scan", "scanned", "connected", "expired", "unbound", "error"}
    /\ SetState(state, 0)
    /\ UNCHANGED <<verify, issued, unbinding, loaded>>

\* markHealthy: a poll got through.
MarkHealthy ==
    /\ loaded /\ bind.state = "error"
    /\ SetState("connected", 0)
    /\ UNCHANGED <<verify, issued, unbinding, loaded>>

\* unbind(): logout() and, when it returns, reset().
Unbind ==
    /\ loaded /\ ~unbinding
    /\ unbinding' = TRUE
    /\ UNCHANGED <<bind, verify, issued, watchdog, loaded>>

Reset ==
    /\ unbinding
    /\ unbinding' = FALSE
    /\ verify' = {}
    /\ SetState("unbound", 0)
    /\ UNCHANGED <<issued, loaded>>

\* close(), and cancelAll() before it: requests are rejected, the watchdog is
\* disarmed, and the status stays.
CloseChannel ==
    /\ loaded
    /\ loaded' = FALSE
    /\ verify' = {} /\ watchdog' = FALSE
    /\ UNCHANGED <<bind, issued, unbinding>>

BindNext ==
    \/ RequestVerifyCode \/ ConnectTimeout
    \/ \E r \in Requests : SubmitVerifyCode(r) \/ VerifyTimeout(r)
    \/ Login \/ MarkHealthy \/ Unbind \/ Reset \/ CloseChannel
    \/ \E state \in States : SdkReports(state)

BindSpec == BindInit /\ [][BindNext]_bindVars

\* Timers fire: logins do not follow each other within the time limit for ever.
\* Neither the platform nor the user has to do anything.
BindFair ==
    /\ WF_bindVars(ConnectTimeout)
    /\ \A r \in Requests : WF_bindVars(VerifyTimeout(r))

----------------------------------------------------------------------------

\* The user is never asked for a code nobody waits for, and at most one login
\* waits: whatever the SDK, a second login, a time-out or an unbind do, the status
\* that asks for a code names the one request that is pending.
PromptIsLive ==
    /\ Cardinality(verify) <= 1
    /\ loaded /\ bind.state = "awaiting_verify_code" => verify = {bind.id}

\* "Without this the UI spins forever": a loaded channel does not stay in
\* `connecting` although the platform may never answer, whether it got there from
\* a login, a second one that restarts the clock, or a submitted code.
ConnectingEnds == bind.state = "connecting" ~> (bind.state # "connecting" \/ ~loaded)
============================================================================
