----------------------------- MODULE MCClients -----------------------------
(* Small instances of what faces the user: the desktop's copy of a stream,    *)
(* permission prompts, and an IM channel's binding and batches.  They share   *)
(* no state, so each behaviour explores one of them and leaves the others in  *)
(* their initial states, where no step is enabled of which fairness is        *)
(* assumed.                                                                   *)
EXTENDS PushClient, PermissionBroker, InboundBatcher, ChannelBind

CONSTANTS root, child   \* a session and its subagent

VARIABLE part

Tree == [s \in {root, child} |-> root]

mcVars == <<clientVars, brokerVars, batcherVars, bindVars, part>>

Init ==
    /\ ClientInit /\ BrokerInit /\ BatcherInit /\ BindInit
    /\ part \in {"client", "broker", "batcher", "bind"}
    /\ part # "broker" => deny = {} /\ opaque = {}

Next ==
    \/ part = "client" /\ ClientNext /\ UNCHANGED <<brokerVars, batcherVars, bindVars, part>>
    \/ part = "broker" /\ BrokerNext /\ UNCHANGED <<clientVars, batcherVars, bindVars, part>>
    \/ part = "batcher" /\ BatcherNext /\ UNCHANGED <<clientVars, brokerVars, bindVars, part>>
    \/ part = "bind" /\ BindNext /\ UNCHANGED <<clientVars, brokerVars, batcherVars, part>>

Spec ==
    /\ Init /\ [][Next]_mcVars
    /\ ClientFair /\ BrokerFair /\ BatcherFair /\ BindFair
============================================================================
