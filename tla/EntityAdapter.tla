---------------------------- MODULE EntityAdapter ---------------------------
(***************************************************************************)
(* EntityAdapter (home_assistant_adapter/adapter/entity_adapter.hpp) and   *)
(* the Entity of home_assistant_v2 it drives: one Home Assistant entity is *)
(* connected, configured, made available and kept so over lost sessions.   *)
(*                                                                         *)
(* The runner is the coroutine of async_init and then of async_run; event  *)
(* handlers publish the state of the device through the same entity while  *)
(* it is suspended.  The client below is its contract, MqttSession.  The   *)
(* broker keeps what it was told: the retained configuration, the retained *)
(* availability, the subscription, the will of the session.                *)
(***************************************************************************)
EXTENDS Integers, Sequences

CONSTANTS
    Kinds,              \* entity types that may be created
    InitRetryAttempts,  \* detail::InitRetryAttempts
    MaxInbox            \* bound: packets the other actors leave unread

ASSUME KindsAssumption == Kinds \subseteq {"cover", "button", "sensor", "binary_sensor"}
ASSUME InitRetryAssumption == InitRetryAttempts \in Nat \ {0}
ASSUME MaxInboxAssumption == MaxInbox \in Nat

VARIABLES
    armed, up, unreported, dead,   \* the client, see MqttSession
    kind,        \* the type of this entity
    pc,          \* where the runner is suspended
    created,     \* async_init has succeeded: event handlers find the entity
    attempt,     \* async_init: connection attempts made
    inbox,       \* packets that have arrived and were not received yet
    bsession,    \* broker: the entity's session exists (its will is armed)
    subscribed,  \* broker: the session has the command subscription
    config,      \* broker: the retained discovery configuration
    avail,       \* broker: the retained availability
    configured   \* history: how the last async_configure ended

sessionVars == <<armed, up, unreported, dead>>
brokerVars == <<bsession, subscribed, config, avail>>
vars == <<sessionVars, kind, pc, created, attempt, inbox, brokerVars, configured>>

Client == INSTANCE MqttSession

-----------------------------------------------------------------------------
Packets == {"puback", "suback", "suberr", "good", "bad"}

(* Cover and Button have a command topic; RestartButton has no state(). *)
Subscribes == kind \in {"cover", "button"}
Synchronizable == kind # "button"

TypeOK ==
    /\ Client!TypeOK
    /\ kind \in Kinds
    /\ pc \in {"connect", "retry", "config", "config_ack", "subscribe", "sub_ack",
               "settle", "online", "sync", "run", "reconnect", "nested", "failed"}
    /\ created \in BOOLEAN
    /\ attempt \in 1..InitRetryAttempts
    /\ inbox \in Seq(Packets)
    /\ bsession \in BOOLEAN /\ subscribed \in BOOLEAN /\ config \in BOOLEAN
    /\ avail \in {"none", "offline", "online"}
    /\ configured \in {"none", "ok", "failed"}

(* Mutant: the will is not set. *)
Will_Unset == avail

(* The constructor sets the will: "offline", retained. *)
Will == "offline"

Init ==
    /\ Client!Init
    /\ kind \in Kinds
    /\ pc = "connect"
    /\ created = FALSE
    /\ attempt = 1
    /\ inbox = <<>>
    /\ bsession = FALSE /\ subscribed = FALSE /\ config = FALSE
    /\ avail = "none"
    /\ configured = "none"

-----------------------------------------------------------------------------
(* What the client's calls do to the client, the broker and the inbox.      *)

(* A clean session is opened.  If the broker still has the old one it takes *)
(* it over, and that publishes the old will.                                *)
Open ==
    /\ Client!Open
    /\ bsession' = TRUE
    /\ subscribed' = FALSE
    /\ avail' = IF bsession THEN Will ELSE avail
    /\ inbox' = <<>>
    /\ UNCHANGED config

OpenNothing ==
    /\ Client!OpenNothing
    /\ inbox' = <<>>
    /\ UNCHANGED brokerVars

(* A packet reaches the broker, which answers; the caller gives its effect. *)
Sent(reply) == up /\ inbox' = Append(inbox, reply) /\ UNCHANGED sessionVars

(* Without a session the packet may still be written, into a connection     *)
(* whose loss was not noticed.                                              *)
SentIntoVoid == ~up /\ armed /\ UNCHANGED <<sessionVars, brokerVars, inbox>>

SendError == ~up /\ UNCHANGED <<sessionVars, brokerVars, inbox>>

Throw == Client!Die /\ UNCHANGED <<kind, pc, created, attempt, inbox, brokerVars, configured>>

SendThrows == ~up /\ armed /\ Throw

(* async_receive finds nothing more to read on a lost session: it reports a *)
(* reconnect or a disconnect.                                               *)
ReceivesReconnected == inbox = <<>> /\ ~up /\ armed /\ (Open \/ OpenNothing)

ReceivesDisconnected ==
    inbox = <<>> /\ ~up /\ Client!Report /\ UNCHANGED <<inbox, brokerVars>>

ReceiveThrows == inbox = <<>> /\ ~up /\ armed /\ Throw

Received(packets) ==
    /\ inbox # <<>>
    /\ Head(inbox) \in packets
    /\ inbox' = Tail(inbox)
    /\ UNCHANGED <<sessionVars, brokerVars>>

-----------------------------------------------------------------------------
(* async_init.                                                              *)

StartConfigure ==
    /\ pc' = "config"
    /\ configured' = "none"
    /\ UNCHANGED <<kind, created, attempt>>

(* async_connect returns no error, to async_init or to                      *)
(* async_handle_disconnected_error; both go on with async_configure.        *)
Connected ==
    /\ pc \in {"connect", "reconnect"}
    /\ Open \/ OpenNothing
    /\ StartConfigure

ConnectFails ==
    /\ pc \in {"connect", "reconnect"}
    /\ pc' = IF pc = "connect" THEN "retry" ELSE "run"
    /\ UNCHANGED <<sessionVars, kind, created, attempt, inbox, brokerVars, configured>>

ConnectThrows == pc \in {"connect", "reconnect"} /\ Throw

(* The runner waits in async_receive, with nothing more to read. *)
Receiving == pc \in {"config_ack", "sub_ack", "run"} /\ inbox = <<>>

(* A client that was connected before loses the CONNACK of a new attempt,   *)
(* which the runner makes or an async_receive that reconnects: a reconnect  *)
(* is started inside the attempt, and the call of the runner never returns  *)
(* (NestedReconnectNeverReturns of MqttClient).  Every reconnect that is    *)
(* nested in another counts its attempts anew, so there may be no end of it.*)
NestedReconnect ==
    /\ armed /\ ~up
    /\ pc \in {"connect", "reconnect"} \/ Receiving
    /\ pc' = "nested"
    /\ UNCHANGED <<sessionVars, kind, created, attempt, inbox, brokerVars, configured>>

(* If there is one, it is an exception. *)
NestedThrows == pc = "nested" /\ Throw

(* Mutants: one attempt too many, attempts that are not counted. *)
RetryElapsed_OneMore ==
    /\ pc = "retry"
    /\ IF attempt <= InitRetryAttempts
       THEN pc' = "connect" /\ attempt' = attempt + 1
       ELSE pc' = "failed" /\ UNCHANGED attempt
    /\ UNCHANGED <<sessionVars, kind, created, inbox, brokerVars, configured>>

RetryElapsed_Forever ==
    /\ pc = "retry"
    /\ pc' = "connect"
    /\ UNCHANGED <<sessionVars, kind, created, attempt, inbox, brokerVars, configured>>

(* InitRetryDelay is over.  The code also waits after the last failure, and *)
(* then gives up.                                                           *)
RetryElapsed ==
    /\ pc = "retry"
    /\ IF attempt < InitRetryAttempts
       THEN pc' = "connect" /\ attempt' = attempt + 1
       ELSE pc' = "failed" /\ UNCHANGED attempt
    /\ UNCHANGED <<sessionVars, kind, created, inbox, brokerVars, configured>>

-----------------------------------------------------------------------------
(* async_configure.                                                         *)

(* It returns false: async_run logs that it could not recover and goes on;  *)
(* async_create destroys the entity and with it the connection, also one    *)
(* that the client has just reopened.                                       *)
FailInRun ==
    /\ created
    /\ pc' = "run"
    /\ configured' = "failed"
    /\ UNCHANGED <<kind, created, attempt>>

FailInInit ==
    /\ ~created
    /\ pc' = "failed"
    /\ configured' = "failed"
    /\ inbox' = <<>>
    /\ IF up THEN Client!Lose ELSE UNCHANGED sessionVars
    /\ UNCHANGED <<kind, created, attempt, brokerVars>>

Stay == UNCHANGED <<kind, pc, created, attempt, configured>>

Goto(where) == pc' = where /\ UNCHANGED <<kind, created, attempt, configured>>

(* Entity::async_set_config, the retained publish. *)
PublishConfig ==
    /\ pc = "config"
    /\ \/ /\ Sent("puback")
          /\ config' = TRUE
          /\ UNCHANGED <<bsession, subscribed, avail>>
          /\ Goto("config_ack")
       \/ SentIntoVoid /\ Goto("config_ack")
       \/ SendError /\ FailInRun
       \/ ~up /\ FailInInit
       \/ SendThrows

AfterConfig == IF Subscribes THEN "subscribe" ELSE "settle"

(* Mutant: an error instead of the acknowledgement is ignored. *)
ConfigAck_IgnoresError ==
    /\ pc = "config_ack"
    /\ \/ Received(Packets) /\ Goto(AfterConfig)
       \/ (ReceivesReconnected \/ ReceivesDisconnected) /\ Goto(AfterConfig)
       \/ ReceiveThrows

(* The next packet must be a PUBACK (of any publish).  Every other packet   *)
(* and every error, Reconnected included, is the end of the attempt.        *)
ConfigAck ==
    /\ pc = "config_ack"
    /\ \/ Received({"puback"}) /\ Goto(AfterConfig)
       \/ (Received(Packets \ {"puback"}) \/ ReceivesReconnected \/ ReceivesDisconnected)
            /\ FailInRun
       \/ inbox # <<>> /\ Head(inbox) # "puback" /\ FailInInit
       \/ inbox = <<>> /\ ~up /\ FailInInit
       \/ ReceiveThrows

Subscribe ==
    /\ pc = "subscribe"
    /\ \/ /\ \E reply \in {"suback", "suberr"} :
                Sent(reply) /\ subscribed' = (reply = "suback")
          /\ UNCHANGED <<bsession, config, avail>>
          /\ Goto("sub_ack")
       \/ SentIntoVoid /\ Goto("sub_ack")
       \/ SendError /\ FailInRun
       \/ ~up /\ FailInInit
       \/ SendThrows

(* The next packet must be a SUBACK without a failure. *)
SubscribeAck ==
    /\ pc = "sub_ack"
    /\ \/ Received({"suback"}) /\ Goto("settle")
       \/ (Received(Packets \ {"suback"}) \/ ReceivesReconnected \/ ReceivesDisconnected)
            /\ FailInRun
       \/ inbox # <<>> /\ Head(inbox) # "suback" /\ FailInInit
       \/ inbox = <<>> /\ ~up /\ FailInInit
       \/ ReceiveThrows

(* The wait of one second, in which nobody receives. *)
Settled ==
    /\ pc = "settle"
    /\ Goto("online")
    /\ UNCHANGED <<sessionVars, brokerVars, inbox>>

(* Mutant: the availability is only published by async_init. *)
SetOnline_InitOnly ==
    /\ pc = "online"
    /\ \/ /\ ~created
          /\ Sent("puback")
          /\ avail' = "online"
          /\ UNCHANGED <<bsession, subscribed, config>>
       \/ created /\ UNCHANGED <<sessionVars, brokerVars, inbox>>
    /\ Goto("sync")

(* The result of async_set_availability is not looked at. *)
SetOnline ==
    /\ pc = "online"
    /\ \/ /\ Sent("puback")
          /\ avail' = "online"
          /\ UNCHANGED <<bsession, subscribed, config>>
          /\ Goto("sync")
       \/ (SentIntoVoid \/ SendError) /\ Goto("sync")
       \/ SendThrows

(* async_set_state of the entity types.  A hatch that is neither open nor   *)
(* closed has the state Undefined, which a Cover does not publish.          *)
PublishState ==
    \/ Sent("puback") /\ UNCHANGED brokerVars
    \/ SentIntoVoid
    \/ SendError

CoverSetState ==
    /\ kind = "cover"
    /\ PublishState \/ UNCHANGED <<sessionVars, brokerVars, inbox>>

SensorSetState == kind = "sensor" /\ PublishState

BinarySensorSetState == kind = "binary_sensor" /\ PublishState

(* A type without state() has nothing to do; an error is only logged. *)
async_sync_state ==
    \/ CoverSetState \/ SensorSetState \/ BinarySensorSetState
    \/ ~Synchronizable /\ UNCHANGED <<sessionVars, brokerVars, inbox>>

(* The end of async_configure, and of async_init.  Reading the device may   *)
(* throw.                                                                   *)
SyncAndFinish ==
    /\ pc = "sync"
    /\ \/ /\ async_sync_state
          /\ pc' = "run"
          /\ created' = TRUE
          /\ configured' = "ok"
          /\ UNCHANGED <<kind, attempt>>
       \/ Synchronizable /\ (SendThrows \/ Throw)

-----------------------------------------------------------------------------
(* async_run.                                                               *)

(* async_receive of the entity types: acknowledgements are dropped, a late  *)
(* SUBACK with a failure is logged, commands go to the device.              *)

(* map_command of a cover throws for a payload without a mapping. *)
Unmapped(packet) == packet = "bad"

(* async_handle_recv_value of Hatch: the driver may throw. *)
HatchCommandThrows == inbox # <<>> /\ Head(inbox) = "good" /\ Throw

CoverReceive ==
    /\ kind = "cover"
    /\ \/ Received({packet \in Packets : ~Unmapped(packet)}) /\ Stay
       \/ HatchCommandThrows
       \/ inbox # <<>> /\ Unmapped(Head(inbox)) /\ Throw

(* async_handle_recv_value of RestartButton: the board restarts, unless     *)
(* reboot() fails.                                                          *)
PressRestarts == inbox # <<>> /\ Head(inbox) = "good" /\ Throw

(* A payload other than the press is an error that is logged. *)
ButtonReceive ==
    /\ kind = "button"
    /\ (Received(Packets) /\ Stay) \/ PressRestarts

SensorReceive == kind = "sensor" /\ Received({"puback"}) /\ Stay

BinarySensorReceive == kind = "binary_sensor" /\ Received({"puback"}) /\ Stay

ReceivePacket ==
    /\ pc = "run"
    /\ CoverReceive \/ ButtonReceive \/ SensorReceive \/ BinarySensorReceive

(* Mutant: async_run does nothing about the error. *)
HandleReconnected_Ignored ==
    /\ pc = "run"
    /\ ReceivesReconnected
    /\ Stay

(* async_handle_reconnected_error. *)
HandleReconnected ==
    /\ pc = "run"
    /\ ReceivesReconnected
    /\ StartConfigure

(* async_handle_disconnected_error. *)
HandleDisconnected ==
    /\ pc = "run"
    /\ ReceivesDisconnected
    /\ Goto("reconnect")

HandleThrow == pc = "run" /\ ReceiveThrows

-----------------------------------------------------------------------------
(* The other actors.                                                        *)

(* An event handler calls async_sync_state. *)
SyncState ==
    /\ created
    /\ Synchronizable
    /\ \/ /\ Len(inbox) < MaxInbox
          /\ async_sync_state
          /\ Stay
       \/ SendThrows \/ Throw

(* External: Home Assistant sends a command. *)
Command ==
    /\ up /\ subscribed
    /\ Len(inbox) < MaxInbox
    /\ \E packet \in {"good", "bad"} : inbox' = Append(inbox, packet)
    /\ UNCHANGED <<sessionVars, kind, pc, created, attempt, brokerVars, configured>>

(* External: the connection is lost, and with it a part of what was on the  *)
(* way; the broker notices later, when the keep alive expires.              *)
ConnectionLost ==
    /\ Client!Lose
    /\ \E n \in 0..Len(inbox) : inbox' = SubSeq(inbox, 1, n)
    /\ UNCHANGED <<kind, pc, created, attempt, brokerVars, configured>>

(* External. *)
BrokerNotices ==
    /\ bsession /\ ~up
    /\ bsession' = FALSE
    /\ subscribed' = FALSE
    /\ avail' = Will
    /\ UNCHANGED <<sessionVars, kind, pc, created, attempt, inbox, config, configured>>

RunnerStep ==
    \/ Connected \/ ConnectFails \/ ConnectThrows \/ NestedReconnect \/ RetryElapsed
    \/ PublishConfig \/ ConfigAck \/ Subscribe \/ SubscribeAck
    \/ Settled \/ SetOnline \/ SyncAndFinish
    \/ ReceivePacket \/ HandleReconnected \/ HandleDisconnected \/ HandleThrow

Next ==
    \/ ~dead /\ (RunnerStep \/ NestedThrows \/ SyncState \/ Command \/ ConnectionLost)
    \/ BrokerNotices

Spec == Init /\ [][Next]_vars

(* Every call of the runner ends, in the sense of MqttClient's fairness: it *)
(* returns, throws, or falls into a nested reconnect, of which no end is    *)
(* assumed.  The timers expire by themselves, the broker's keep alive too.  *)
FairSpec ==
    /\ Spec
    /\ WF_vars(~dead /\ RunnerStep)
    /\ WF_vars(BrokerNotices)

-----------------------------------------------------------------------------
(* Properties.                                                              *)

(* An entity that Home Assistant sees as available can be used: it has its  *)
(* configuration, the broker has its command subscription, and a session    *)
(* whose will withdraws the availability when it is lost.                   *)
OnlineIsUsable ==
    avail = "online" => config /\ bsession /\ (Subscribes => subscribed)

(* While async_run waits on a session that is up, the entity is available,  *)
(* unless the last async_configure gave up: a reconnect is never mistaken   *)
(* for the old session.                                                     *)
UnavailableOnlyAfterFailure ==
    pc = "run" /\ up => avail = "online" \/ configured = "failed"

(* async_init decides: it fails, it succeeds, or the process dies, unless   *)
(* it has fallen into a nested reconnect, where it may be for ever.         *)
InitDecides == <>(created \/ pc = "failed" \/ dead \/ pc = "nested")

(* The will does its work: an entity whose process has died, or that was    *)
(* destroyed, does not stay available.                                      *)
EndShowsUnavailable == (dead \/ pc = "failed") ~> (avail # "online")

(* A configuration that is started on a session makes the entity available, *)
(* unless the session is lost, the attempt fails, or the process dies.      *)
ConfigureMakesAvailable ==
    (pc = "config" /\ up) ~> (avail = "online" \/ ~up \/ configured = "failed" \/ dead)

(* The phase of EntityLink that a state of the adapter is. *)
Phase ==
    CASE pc = "failed" -> "failed"
      [] pc \in {"connect", "retry"} -> "none"
      [] pc \notin {"connect", "retry", "failed"} /\ ~created -> IF up THEN "init" ELSE "initdown"
      [] created /\ ~up -> "down"
      [] created /\ up /\ pc # "run" -> "config"
      [] created /\ up /\ pc = "run" -> IF configured = "ok" THEN "up" ELSE "stuck"

Link == INSTANCE EntityLink WITH link <- Phase

(* The adapter implements EntityLink, which the devices are built on: a     *)
(* session is usable only after a whole async_configure on that session or  *)
(* a failed one, whatever is lost, reopened or received in between.         *)
ImplementsLink == Link!Spec

(* What the log of the code says (see the findings).                        *)
(* "Entity with unique id: '{}' configured properly.": when that is logged, *)
(* the entity is available.                                                 *)
ConfiguredProperly ==
    [][configured # "ok" /\ configured' = "ok" => avail = "online"]_vars

(* "Expected SubscriptionAckPacket_t was not received": when that is        *)
(* returned, no SUBACK has been received.                                   *)
SubackReallyMissing ==
    [][(pc = "sub_ack" /\ up /\ configured' = "failed") =>
         \A i \in DOMAIN inbox : inbox[i] # "suback"]_vars

=============================================================================
