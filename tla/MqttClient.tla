----------------------------- MODULE MqttClient -----------------------------
(***************************************************************************)
(* AsyncMqttClient (home_assistant_v2/mqtt/async_mqtt_client.hpp): the     *)
(* connection of one entity to the MQTT broker, with its auto-reconnect.   *)
(*                                                                         *)
(* One coroutine, the runner, calls async_connect and async_receive (it is *)
(* EntityAdapter::async_init, later async_run); the other tasks publish    *)
(* the state of the device through the same client while the runner is    *)
(* suspended.  Every co_await is a point where another coroutine of the    *)
(* single io_context thread runs, so an action is what the code does       *)
(* between two co_awaits.                                                  *)
(*                                                                         *)
(* Errors are kept as the numbers the code switches on, because            *)
(* map_error_code is applied to errno values and, on the CONNACK path, a   *)
(* second time to its own results.                                         *)
(***************************************************************************)
EXTENDS Integers

CONSTANTS
    MaxAttempts,  \* ClientConfig::max_attempts
    NetErrors,    \* values of the error codes a socket operation can end with
    Tasks,        \* coroutines that use the client
    Runner        \* the one that connects and receives

ASSUME MaxAttemptsAssumption == MaxAttempts \in Nat
ASSUME NetErrorsAssumption == NetErrors \subseteq Nat \ {0}
ASSUME RunnerAssumption == Runner \in Tasks

VARIABLES
    connected,   \* connected_
    attempt,     \* reconnect_.attempt
    pc,          \* where the runner is suspended
    frame,       \* who called the try_reconnect that is running, if any
    ret,         \* what the runner's last call returned
    send,        \* send[t]: the packet task t is sending
    sret,        \* sret[t]: what its last publish or subscribe returned
    link,        \* the TCP connection and the MQTT session on it
    aborted,     \* an exception left io_context::run(), main() calls abort()
    unreported,  \* history: a session was lost and the runner was not told
    tries        \* history: connection attempts made since that loss

callVars == <<pc, frame, ret>>
sendVars == <<send, sret>>
vars == <<connected, attempt, pc, frame, ret, send, sret, link, aborted,
          unreported, tries>>

-----------------------------------------------------------------------------
(* enum class ErrorCode.  0 is the absence of an error. *)
NoError == 0
Timeout == 1
NoService == 2
ConnectionRefused == 3
UnknownPacket == 4
Disconnected == 6
Reconnected == 7

Codes == 0..10

(* A std::runtime_error instead of a code. *)
Throws == -1

(* The errno values that boost::system::errc names in the switch.  The end *)
(* of file asio reports for a closed connection has the value of ENOENT.   *)
ENOENT == 2
ENETUNREACH == 101
ETIMEDOUT == 110
ECONNREFUSED == 111

map_error_code(value) ==
    IF value = ETIMEDOUT THEN Timeout
    ELSE IF value \in {ENETUNREACH, ENOENT} THEN NoService
    ELSE IF value = ECONNREFUSED THEN ConnectionRefused
    ELSE Throws

ConnectPhases == {"resolve", "tcp", "sendcon", "conack"}

TypeOK ==
    /\ connected \in BOOLEAN
    /\ attempt \in 0..(MaxAttempts + 1)
    /\ pc \in {"idle", "recv", "backoff"} \cup ConnectPhases
    /\ frame \in {"none", "direct", "nested"}
    /\ ret \in Codes
    /\ send \in [Tasks -> {"none", "publish", "subscribe"}]
    /\ sret \in [Tasks -> Codes]
    /\ link \in {"closed", "open", "session", "broken"}
    /\ aborted \in BOOLEAN
    /\ unreported \in BOOLEAN
    /\ tries \in 0..(MaxAttempts + 1)

Init ==
    /\ connected = FALSE
    /\ attempt = 0
    /\ pc = "idle"
    /\ frame = "none"
    /\ ret = Disconnected
    /\ send = [t \in Tasks |-> "none"]
    /\ sret = [t \in Tasks |-> NoError]
    /\ link = "closed"
    /\ aborted = FALSE
    /\ unreported = FALSE
    /\ tries = 0

-----------------------------------------------------------------------------
(* How a step ends.  Each of these fixes pc, frame, ret, aborted and the    *)
(* histories; the action fixes connected, attempt and link.                 *)

(* An exception escapes the coroutine: co_spawn rethrows it. *)
abort ==
    /\ aborted' = TRUE
    /\ UNCHANGED <<pc, frame, ret, unreported, tries>>

(* The runner's call returns.  async_receive has two codes that tell it of a *)
(* lost session.                                                            *)
Return(code) ==
    /\ pc' = "idle"
    /\ frame' = "none"
    /\ ret' = code
    /\ unreported' = (unreported /\ code \notin {Disconnected, Reconnected})
    /\ tries' = 0
    /\ UNCHANGED aborted

Suspend(where, caller) ==
    /\ pc' = where
    /\ frame' = caller
    /\ UNCHANGED <<ret, aborted, unreported, tries>>

(* Mutant: async_connect passes the error of the nested call on unmapped.   *)
handle_recv_error_Unmapped(code) == Return(code)

(* try_reconnect ends.  Called from async_receive its result becomes the    *)
(* Error that async_receive returns.  Called from async_recv_conack the     *)
(* Error goes to the async_connect that waits for the CONNACK, and that one *)
(* applies map_error_code to it: neither code has a mapping, so no frame    *)
(* under a nested one is ever resumed and one "nested" stands for any depth.*)
handle_recv_error(code) ==
    IF frame = "direct" THEN Return(code)
    ELSE abort

(* Mutants of the loop head: post-increment, "<" for "<=", no increment.    *)
NextAttempt_PostIncrement ==
    /\ attempt' = attempt + 1
    /\ IF attempt <= MaxAttempts THEN Suspend("backoff", frame)
       ELSE handle_recv_error(Disconnected)

NextAttempt_Less ==
    /\ attempt' = attempt + 1
    /\ IF attempt + 1 < MaxAttempts THEN Suspend("backoff", frame)
       ELSE handle_recv_error(Disconnected)

NextAttempt_NotCounted ==
    /\ UNCHANGED attempt
    /\ Suspend("backoff", frame)

(* The loop head of try_reconnect after a failed attempt. *)
NextAttempt ==
    /\ attempt' = attempt + 1
    /\ IF attempt + 1 <= MaxAttempts
       THEN Suspend("backoff", frame)
       ELSE handle_recv_error(Disconnected)

(* async_connect returns the error "code", to the runner's caller or to     *)
(* try_reconnect.                                                           *)
ConnectError(code) ==
    \/ /\ code = Throws
       /\ abort
       /\ UNCHANGED attempt
    \/ /\ code # Throws
       /\ frame = "none"
       /\ Return(code)
       /\ UNCHANGED attempt
    \/ /\ code # Throws
       /\ frame # "none"
       /\ NextAttempt

(* Mutant: async_receive goes on reading after a successful reconnect.      *)
ConnectSuccess_Silent ==
    /\ attempt' = 0
    /\ IF frame = "none" THEN Return(NoError)
       ELSE IF frame = "direct" THEN Suspend("recv", "none")
       ELSE handle_recv_error(Reconnected)

(* async_connect succeeds: the attempts are forgotten. *)
ConnectSuccess ==
    /\ attempt' = 0
    /\ IF frame = "none" THEN Return(NoError)
       ELSE handle_recv_error(Reconnected)

(* Mutant: the counter of the last reconnect is not reset.                  *)
try_reconnect_NoReset(caller) ==
    IF MaxAttempts = 0
    THEN /\ UNCHANGED attempt
         /\ IF caller = "direct" THEN Return(Disconnected) ELSE abort
    ELSE /\ attempt' = attempt + 1
         /\ Suspend("backoff", caller)

(* try_reconnect is entered, with the first attempt or with none allowed.   *)
try_reconnect(caller) ==
    IF MaxAttempts = 0
    THEN /\ UNCHANGED attempt
         /\ IF caller = "direct" THEN Return(Disconnected) ELSE abort
    ELSE /\ attempt' = 1
         /\ Suspend("backoff", caller)

-----------------------------------------------------------------------------
(* The runner: async_connect.                                               *)

(* EntityAdapter calls it before the first session, again after an error in *)
(* async_init, and when async_receive has returned Disconnected.            *)
async_connect ==
    /\ pc = "idle"
    /\ send[Runner] = "none"
    /\ ret \in {Timeout, NoService, ConnectionRefused, Disconnected}
    /\ Suspend("resolve", "none")
    /\ UNCHANGED <<connected, attempt, sendVars, link>>

(* Mutant: the error of the resolver (host_not_found is 1) is mapped like    *)
(* one of the socket.                                                       *)
Resolved_Mapped ==
    /\ pc = "resolve"
    /\ \/ /\ Suspend("tcp", frame)
          /\ UNCHANGED attempt
       \/ ConnectError(map_error_code(1))
    /\ UNCHANGED <<connected, sendVars, link>>

(* The host name is resolved, or not. *)
Resolved ==
    /\ pc = "resolve"
    /\ \/ /\ Suspend("tcp", frame)
          /\ UNCHANGED attempt
       \/ ConnectError(NoService)
    /\ UNCHANGED <<connected, sendVars, link>>

(* asio's connect closes the socket and tries the endpoints in turn. *)
TcpConnected ==
    /\ pc = "tcp"
    /\ \/ /\ Suspend("sendcon", frame)
          /\ link' = "open"
          /\ UNCHANGED attempt
       \/ /\ \E value \in NetErrors : ConnectError(map_error_code(value))
          /\ link' = "closed"
    /\ UNCHANGED <<connected, sendVars>>

async_send_con ==
    /\ pc = "sendcon"
    /\ \/ /\ link \in {"open", "broken"}
          /\ Suspend("conack", frame)
          /\ UNCHANGED attempt
       \/ /\ link # "open"
          /\ \E value \in NetErrors : ConnectError(map_error_code(value))
    /\ UNCHANGED <<connected, sendVars, link>>

(* A packet arrives: a CONNACK, whose return code is not looked at, or      *)
(* another packet, which only earns a warning.                              *)
async_recv_conack ==
    /\ pc = "conack"
    /\ link = "open"
    /\ \/ /\ link' = "session"      \* return code "accepted"
          /\ connected' = TRUE
       \/ /\ link' = "open"         \* any other return code
          /\ connected' = TRUE
       \/ /\ link' = "open"         \* not a CONNACK
          /\ UNCHANGED connected
    /\ ConnectSuccess
    /\ UNCHANGED sendVars

(* The read fails.  On a client that was connected before, this starts the  *)
(* auto-reconnect inside the attempt that is being made; otherwise the error*)
(* is mapped by handle_recv_error and mapped again by async_connect.        *)
ConackError ==
    /\ pc = "conack"
    /\ link # "open"
    /\ IF connected THEN try_reconnect("nested")
       ELSE \E value \in NetErrors :
                ConnectError(IF map_error_code(value) = Throws THEN Throws
                             ELSE map_error_code(map_error_code(value)))
    /\ link' = "closed"
    /\ UNCHANGED <<connected, sendVars>>

(* reconnect_.timer expires, and try_reconnect calls async_connect. *)
BackoffElapsed ==
    /\ pc = "backoff"
    /\ pc' = "resolve"
    /\ tries' = IF tries <= MaxAttempts THEN tries + 1 ELSE tries
    /\ UNCHANGED <<connected, attempt, frame, ret, sendVars, link, aborted, unreported>>

(* The wait ends with an error: try_reconnect gives up at once. *)
BackoffFailed ==
    /\ pc = "backoff"
    /\ handle_recv_error(Disconnected)
    /\ UNCHANGED <<connected, attempt, sendVars, link>>

-----------------------------------------------------------------------------
(* The runner: async_receive.                                               *)

async_receive ==
    /\ pc = "idle"
    /\ send[Runner] = "none"
    /\ IF connected THEN Suspend("recv", "none") ELSE Return(Disconnected)
    /\ UNCHANGED <<connected, attempt, sendVars, link>>

(* PUBLISH, PUBACK and SUBACK are returned, an unknown type is an error, any *)
(* other packet leaves the coroutine in its loop.                           *)
PacketReceived ==
    /\ pc = "recv"
    /\ link \in {"session", "broken"}   \* what had arrived is still read
    /\ \E code \in {NoError, UnknownPacket} : Return(code)
    /\ UNCHANGED <<connected, attempt, sendVars, link>>

ReceiveError ==
    /\ pc = "recv"
    /\ link # "session"
    /\ try_reconnect("direct")
    /\ link' = "closed"
    /\ UNCHANGED <<connected, sendVars>>

-----------------------------------------------------------------------------
(* Any task: async_publish and async_subscribe.                             *)

(* The guard on connected_, then the packet identifier and the packet are   *)
(* handed to the endpoint.                                                  *)
StartSend(t, packet) ==
    /\ send[t] = "none"
    /\ t = Runner => pc = "idle"
    /\ IF connected
       THEN /\ send' = [send EXCEPT ![t] = packet]
            /\ UNCHANGED sret
       ELSE /\ sret' = [sret EXCEPT ![t] = Disconnected]
            /\ UNCHANGED send
    /\ UNCHANGED <<connected, attempt, callVars, link, aborted, unreported, tries>>

async_publish(t) == StartSend(t, "publish")

(* Only EntityAdapter::async_configure subscribes, in the runner. *)
async_subscribe == StartSend(Runner, "subscribe")

(* ep_.send completes.  A write into a connection whose loss has not been   *)
(* noticed succeeds; an error without a mapping is an exception.            *)
SendCompletes(t) ==
    /\ send[t] # "none"
    /\ send' = [send EXCEPT ![t] = "none"]
    /\ \/ /\ link \in {"session", "broken"}
          /\ sret' = [sret EXCEPT ![t] = NoError]
          /\ UNCHANGED aborted
       \/ /\ link # "session"
          /\ \E value \in NetErrors :
                IF map_error_code(value) = Throws
                THEN aborted' = TRUE /\ UNCHANGED sret
                ELSE /\ sret' = [sret EXCEPT ![t] = map_error_code(value)]
                     /\ UNCHANGED aborted
    /\ UNCHANGED <<connected, attempt, callVars, link, unreported, tries>>

-----------------------------------------------------------------------------
(* The network and the broker (external): the connection is lost; asio sees *)
(* it at its next read or write.                                            *)
ConnectionLost ==
    /\ link \in {"open", "session"}
    /\ link' = "broken"
    /\ unreported' = (unreported \/ link = "session")
    /\ UNCHANGED <<connected, attempt, callVars, sendVars, aborted, tries>>

RunnerStep ==
    \/ async_connect \/ Resolved \/ TcpConnected \/ async_send_con
    \/ async_recv_conack \/ ConackError \/ BackoffElapsed \/ BackoffFailed
    \/ async_receive \/ PacketReceived \/ ReceiveError

Next ==
    /\ ~aborted
    /\ \/ RunnerStep
       \/ \E t \in Tasks : async_publish(t) \/ SendCompletes(t)
       \/ async_subscribe
       \/ ConnectionLost

Spec == Init /\ [][Next]_vars

-----------------------------------------------------------------------------
(* Fairness.  Resolving, connecting, writing and the timer complete by      *)
(* themselves; the broker answers a CONNECT or the connection is lost (the  *)
(* code has no timeout of its own there); async_run always comes back to    *)
(* async_receive; what had arrived on a lost connection is finite, so its   *)
(* error is read in the end.  Nothing is assumed about what the answers are.*)
Progress ==
    \/ Resolved \/ TcpConnected \/ async_send_con \/ async_recv_conack
    \/ ConackError \/ BackoffElapsed

FairSpec ==
    /\ Spec
    /\ WF_vars(~aborted /\ Progress)
    /\ \A t \in Tasks : WF_vars(~aborted /\ SendCompletes(t))
    /\ SF_vars(~aborted /\ async_receive)
    /\ SF_vars(~aborted /\ ReceiveError)

-----------------------------------------------------------------------------
(* Properties.                                                              *)

(* A session never exists behind the runner's back: while one is up, the    *)
(* guard of async_publish lets packets through, and the loss of the session *)
(* before it has been returned to the runner as Reconnected or Disconnected.*)
(* Otherwise the runner would go on receiving on a clean session without    *)
(* its subscriptions.                                                       *)
NoSilentSession == link = "session" /\ ~aborted => connected /\ ~unreported

(* In the loop of a try_reconnect called by async_receive, the shared       *)
(* counter reconnect_.attempt is the number of attempts really made since   *)
(* the loss, although async_connect resets it and every nested call restarts*)
(* it.                                                                      *)
AttemptCountsTries ==
    frame = "direct" =>
        /\ attempt \in 1..MaxAttempts
        /\ tries = IF pc = "backoff" THEN attempt - 1 ELSE attempt

(* async_receive gives a lost session up (returns Disconnected) only when   *)
(* reconnecting is switched off, when the timer failed, or after exactly    *)
(* max_attempts attempts.                                                   *)
GivesUpAfterMaxAttempts ==
    [][(pc # "idle" /\ pc' = "idle" /\ ret' = Disconnected) =>
         \/ MaxAttempts = 0
         \/ pc = "backoff"
         \/ tries = MaxAttempts]_vars

(* A CONNACK that gets lost on a client that had been connected starts a    *)
(* reconnect inside the attempt.  That call of the runner never returns,    *)
(* not even when the nested reconnect succeeds.                             *)
NestedReconnectNeverReturns == [][frame = "nested" => frame' = "nested"]_vars

(* Every error of the network has a code; the socket is connected or        *)
(* written to.                                                              *)
AllMapped == \A value \in NetErrors : map_error_code(value) # Throws

SocketBusy == pc \in {"tcp", "sendcon"} \/ \E t \in Tasks : send[t] # "none"

(* The process is aborted only around a CONNACK, by the second mapping of   *)
(* its error or at the end of a nested reconnect; if some error of the      *)
(* network has no mapping, then also while the socket is connected or       *)
(* written to.                                                              *)
AbortOnlyAroundConack ==
    [][aborted' =>
         \/ pc = "conack" \/ frame = "nested"
         \/ ~AllMapped /\ SocketBusy]_vars

(* The runner gets to know about a lost session, unless the process dies or *)
(* the runner has fallen into a nested reconnect.                           *)
LossReported == unreported ~> (~unreported \/ aborted \/ frame = "nested")

(* The client implements the abstract session that the entity layer relies  *)
(* on: every session is announced when it is opened, a lost one is reported *)
(* at most once, connected_ is never withdrawn, and nothing follows the     *)
(* death of the process.                                                    *)
Session == INSTANCE MqttSession WITH
    armed <- connected,
    up <- link = "session" /\ ~aborted,
    dead <- aborted

ImplementsSession == Session!Spec

(* The invariant the proofs use: the runner's position determines whether a *)
(* try_reconnect is running, the counter is in range while one runs, and    *)
(* nobody calls async_connect while there is a session.                     *)
ControlInv ==
    /\ pc \in {"idle", "recv"} => frame = "none"
    /\ pc = "recv" => connected
    /\ pc = "backoff" => frame # "none"
    /\ frame = "none" => tries = 0
    /\ frame # "none" /\ ~aborted => connected /\ attempt \in 1..MaxAttempts
    /\ link = "session" /\ ~aborted =>
          /\ pc \in {"idle", "recv"}
          /\ ret \notin {Timeout, NoService, ConnectionRefused, Disconnected}
    /\ unreported /\ ~aborted /\ frame = "none" =>
          /\ pc \in {"idle", "recv"}
          /\ ret \notin {Timeout, NoService, ConnectionRefused, Disconnected}

IInv == TypeOK /\ ControlInv /\ NoSilentSession /\ AttemptCountsTries

(* What the tests of the client say (see the findings).                     *)
(* "Client cannot publish when it is disconnected": while a client that has *)
(* lost its session is reconnecting, no packet is accepted.                 *)
PublishNeedsSession ==
    [][unreported /\ frame = "direct" =>
         \A t \in Tasks : send[t] = "none" => send'[t] # "publish"]_vars

(* "Client gets appropriate error code when cannot connect": an attempt to  *)
(* establish the TCP connection that fails ends with an error code.         *)
ConnectFailureIsACode == [][pc = "tcp" => ~aborted']_vars

=============================================================================
