-------------------------- MODULE MqttClientProofs --------------------------
(***************************************************************************)
(* Proofs about MqttClient for every number of attempts, every set of      *)
(* network errors and every set of tasks.                                  *)
(***************************************************************************)
EXTENDS MqttClient, TLAPS

(* The values map_error_code can have. *)
LEMMA MapErrorCodeType ==
    ASSUME NEW value
    PROVE  map_error_code(value) \in {Timeout, NoService, ConnectionRefused, Throws}
BY DEF map_error_code, Timeout, NoService, ConnectionRefused, Throws

(* The flags, apart from the other variables: the first-order prover reads  *)
(* "x = TRUE" as a fact about the value of x, the arithmetic one does not.  *)
FlagsOK == connected \in BOOLEAN /\ aborted \in BOOLEAN /\ unreported \in BOOLEAN

(* TypeOK without the flags. *)
RestOK ==
    /\ attempt \in 0..(MaxAttempts + 1)
    /\ pc \in {"idle", "recv", "backoff"} \cup ConnectPhases
    /\ frame \in {"none", "direct", "nested"}
    /\ ret \in Codes
    /\ send \in [Tasks -> {"none", "publish", "subscribe"}]
    /\ sret \in [Tasks -> Codes]
    /\ link \in {"closed", "open", "session", "broken"}
    /\ tries \in 0..(MaxAttempts + 1)

(* TypeOK is the two together. *)
LEMMA TypeOKSplit == TypeOK <=> FlagsOK /\ RestOK
BY DEF TypeOK, FlagsOK, RestOK

(* The initial state satisfies the inductive invariant. *)
LEMMA InitIInv == Init => IInv
<1> SUFFICES ASSUME Init PROVE IInv
    OBVIOUS
<1>1. FlagsOK
    BY Zenon DEF Init, FlagsOK
<1>2. RestOK
    BY MaxAttemptsAssumption
       DEF Init, RestOK, Codes, NoError, Disconnected, ConnectPhases
<1>3. ControlInv /\ NoSilentSession /\ AttemptCountsTries
    BY DEF Init, ControlInv, NoSilentSession, AttemptCountsTries
<1> QED
    BY <1>1, <1>2, <1>3, TypeOKSplit DEF IInv

(* Every step keeps the flags Boolean. *)
LEMMA FlagsStep == FlagsOK /\ [Next]_vars => FlagsOK'
<1> SUFFICES ASSUME FlagsOK, [Next]_vars PROVE FlagsOK'
    OBVIOUS
<1> USE DEF FlagsOK, Suspend, Return, abort, handle_recv_error, NextAttempt,
            ConnectError, ConnectSuccess, try_reconnect, callVars, sendVars
<1>1. CASE async_connect
    BY <1>1, Zenon DEF async_connect
<1>2. CASE Resolved
    BY <1>2, Zenon DEF Resolved
<1>3. CASE TcpConnected
    BY <1>3, Zenon DEF TcpConnected
<1>4. CASE async_send_con
    BY <1>4, Zenon DEF async_send_con
<1>5. CASE async_recv_conack
    BY <1>5, Zenon DEF async_recv_conack
<1>6. CASE ConackError
    BY <1>6, Zenon DEF ConackError
<1>7. CASE BackoffElapsed
    BY <1>7, Zenon DEF BackoffElapsed
<1>8. CASE BackoffFailed
    BY <1>8, Zenon DEF BackoffFailed
<1>9. CASE async_receive
    BY <1>9, Zenon DEF async_receive
<1>10. CASE PacketReceived
    BY <1>10, Zenon DEF PacketReceived
<1>11. CASE ReceiveError
    BY <1>11, Zenon DEF ReceiveError
<1>12. CASE \E t \in Tasks : async_publish(t) \/ SendCompletes(t)
    BY <1>12, Zenon DEF async_publish, StartSend, SendCompletes
<1>13. CASE async_subscribe
    BY <1>13, Zenon DEF async_subscribe, StartSend
<1>14. CASE ConnectionLost
    BY <1>14, Zenon DEF ConnectionLost
<1>15. CASE UNCHANGED vars
    BY <1>15, Zenon DEF vars
<1> QED
    BY <1>1, <1>2, <1>3, <1>4, <1>5, <1>6, <1>7, <1>8, <1>9, <1>10, <1>11,
       <1>12, <1>13, <1>14, <1>15, Zenon DEF Next, RunnerStep

(* Every step keeps the inductive invariant. *)
LEMMA StepIInv == IInv /\ [Next]_vars => IInv'
<1> SUFFICES ASSUME IInv, [Next]_vars PROVE IInv'
    OBVIOUS
<1> DEFINE Rest == RestOK /\ ControlInv /\ NoSilentSession /\ AttemptCountsTries
<1>a. FlagsOK /\ Rest
    BY TypeOKSplit DEF IInv
<1>b. FlagsOK'
    BY <1>a, FlagsStep
<1>c. CASE Next
  <2> SUFFICES Rest'
      BY <1>b, TypeOKSplit DEF IInv, TypeOK, FlagsOK, RestOK
  <2> USE MaxAttemptsAssumption, <1>a, <1>c
  <2> USE DEF FlagsOK, RestOK, ControlInv, NoSilentSession, AttemptCountsTries,
              ConnectPhases, Codes, NoError, Timeout, NoService, ConnectionRefused,
              UnknownPacket, Disconnected, Reconnected, Throws, sendVars, callVars
  <2>1. CASE async_connect
      BY <2>1 DEF Next, async_connect, Suspend
  <2>2. CASE Resolved
      BY <2>2 DEF Next, Resolved, Suspend, ConnectError, NextAttempt, handle_recv_error, Return, abort
  <2>3. CASE TcpConnected
      BY <2>3, MapErrorCodeType DEF Next, TcpConnected, Suspend, ConnectError, NextAttempt, handle_recv_error, Return, abort
  <2>4. CASE async_send_con
      BY <2>4, MapErrorCodeType DEF Next, async_send_con, Suspend, ConnectError, NextAttempt, handle_recv_error, Return, abort
  <2>5. CASE async_recv_conack
      BY <2>5 DEF Next, async_recv_conack, ConnectSuccess, handle_recv_error, Return, abort
  <2>6. CASE ConackError
      BY <2>6, MapErrorCodeType DEF Next, ConackError, try_reconnect, Suspend, ConnectError, NextAttempt, handle_recv_error, Return, abort
  <2>7. CASE BackoffElapsed
      BY <2>7 DEF Next, BackoffElapsed
  <2>8. CASE BackoffFailed
      BY <2>8 DEF Next, BackoffFailed, handle_recv_error, Return, abort
  <2>9. CASE async_receive
      BY <2>9 DEF Next, async_receive, Suspend, Return
  <2>10. CASE PacketReceived
      BY <2>10 DEF Next, PacketReceived, Return
  <2>11. CASE ReceiveError
      BY <2>11 DEF Next, ReceiveError, try_reconnect, Suspend, Return, abort
  <2>12. CASE \E t \in Tasks : async_publish(t) \/ SendCompletes(t)
      BY <2>12, MapErrorCodeType DEF Next, async_publish, StartSend, SendCompletes
  <2>13. CASE async_subscribe
      BY <2>13, RunnerAssumption DEF Next, async_subscribe, StartSend
  <2>14. CASE ConnectionLost
      BY <2>14 DEF Next, ConnectionLost
  <2> QED
      BY <2>1, <2>2, <2>3, <2>4, <2>5, <2>6, <2>7, <2>8, <2>9, <2>10, <2>11,
         <2>12, <2>13, <2>14 DEF Next, RunnerStep
<1>d. CASE UNCHANGED vars
    BY <1>d DEF vars, IInv, TypeOK, ControlInv, NoSilentSession, AttemptCountsTries
<1> QED
    BY <1>c, <1>d

(* The inductive invariant holds in every reachable state. *)
THEOREM Invariance == Spec => []IInv
<1>1. QED
    BY InitIInv, StepIInv, PTL DEF Spec

(* Type correctness of the client, for any number of tasks, any errors of   *)
(* the network and any max_attempts: in particular reconnect_.attempt stays *)
(* between 0 and max_attempts + 1.                                          *)
THEOREM TypeCorrect == Spec => []TypeOK
<1>1. IInv => TypeOK
    BY DEF IInv
<1>2. QED
    BY <1>1, Invariance, PTL

(* The runner is told about a lost session before it can receive on a new   *)
(* one.                                                                     *)
THEOREM SessionsAreAnnounced == Spec => []NoSilentSession
<1>1. IInv => NoSilentSession
    BY DEF IInv
<1>2. QED
    BY <1>1, Invariance, PTL

(* The shared counter counts the attempts of the reconnect that             *)
(* async_receive started.                                                   *)
THEOREM CounterIsExact == Spec => []AttemptCountsTries
<1>1. IInv => AttemptCountsTries
    BY DEF IInv
<1>2. QED
    BY <1>1, Invariance, PTL

(* One step never gives up early. *)
LEMMA StepGivesUp ==
    IInv /\ [Next]_vars =>
      [(pc # "idle" /\ pc' = "idle" /\ ret' = Disconnected) =>
         \/ MaxAttempts = 0
         \/ pc = "backoff"
         \/ tries = MaxAttempts]_vars
<1> SUFFICES ASSUME IInv, Next, pc # "idle", pc' = "idle", ret' = Disconnected,
                    MaxAttempts # 0, pc # "backoff"
             PROVE  tries = MaxAttempts
    BY DEF vars
<1> USE MaxAttemptsAssumption
<1> USE DEF IInv, TypeOK, ControlInv, AttemptCountsTries, ConnectPhases, NoError, Timeout,
            NoService, ConnectionRefused, UnknownPacket, Disconnected, Reconnected,
            Throws, callVars, sendVars, Suspend, Return, abort, handle_recv_error
<1>1. CASE Resolved
    BY <1>1 DEF Resolved, ConnectError, NextAttempt
<1>2. CASE TcpConnected
    BY <1>2, MapErrorCodeType DEF TcpConnected, ConnectError, NextAttempt
<1>3. CASE async_send_con
    BY <1>3, MapErrorCodeType DEF async_send_con, ConnectError, NextAttempt
<1>4. CASE async_recv_conack
    BY <1>4 DEF async_recv_conack, ConnectSuccess
<1>5. CASE ConackError
    BY <1>5, MapErrorCodeType DEF ConackError, try_reconnect, ConnectError, NextAttempt
<1>6. CASE async_connect \/ async_receive \/ BackoffElapsed \/ BackoffFailed
    BY <1>6 DEF async_connect, async_receive, BackoffElapsed, BackoffFailed
<1>7. CASE PacketReceived \/ ReceiveError
    BY <1>7 DEF PacketReceived, ReceiveError, try_reconnect
<1>8. CASE async_subscribe \/ ConnectionLost
           \/ \E t \in Tasks : async_publish(t) \/ SendCompletes(t)
    BY <1>8 DEF async_subscribe, async_publish, StartSend, SendCompletes, ConnectionLost
<1> QED
    BY <1>1, <1>2, <1>3, <1>4, <1>5, <1>6, <1>7, <1>8 DEF Next, RunnerStep

(* async_receive returns Disconnected only with reconnecting switched off,  *)
(* after a failed timer, or after max_attempts attempts.                    *)
THEOREM GivesUpLate == Spec => GivesUpAfterMaxAttempts
<1>1. QED
    BY Invariance, StepGivesUp, PTL DEF Spec, GivesUpAfterMaxAttempts

(* One step never leaves a nested reconnect. *)
LEMMA StepNested ==
    IInv /\ [Next]_vars => [frame = "nested" => frame' = "nested"]_vars
<1> SUFFICES ASSUME IInv, Next, frame = "nested" PROVE frame' = "nested"
    BY DEF vars
<1> USE DEF IInv, ControlInv, callVars, sendVars, Suspend, Return, abort, handle_recv_error,
            Throws
<1>1. CASE Resolved \/ TcpConnected \/ async_send_con
    BY <1>1 DEF Resolved, TcpConnected, async_send_con, ConnectError, NextAttempt
<1>2. CASE async_recv_conack
    BY <1>2 DEF async_recv_conack, ConnectSuccess
<1>3. CASE ConackError
    BY <1>3 DEF ConackError, try_reconnect, ConnectError, NextAttempt
<1>4. CASE async_connect \/ async_receive \/ BackoffElapsed \/ BackoffFailed
    BY <1>4 DEF async_connect, async_receive, BackoffElapsed, BackoffFailed
<1>5. CASE PacketReceived \/ ReceiveError
    BY <1>5 DEF PacketReceived, ReceiveError
<1>6. CASE async_subscribe \/ ConnectionLost
           \/ \E t \in Tasks : async_publish(t) \/ SendCompletes(t)
    BY <1>6 DEF async_subscribe, async_publish, StartSend, SendCompletes, ConnectionLost
<1> QED
    BY <1>1, <1>2, <1>3, <1>4, <1>5, <1>6 DEF Next, RunnerStep

(* A CONNACK lost while reconnecting is never survived. *)
THEOREM NestedIsFatal == Spec => NestedReconnectNeverReturns
<1>1. QED
    BY Invariance, StepNested, PTL DEF Spec, NestedReconnectNeverReturns

(* A step that aborts is one that waits for a CONNACK, one of a nested      *)
(* reconnect, or one that uses the socket and gets an error without a       *)
(* mapping.                                                                 *)
LEMMA StepAbort ==
    IInv /\ [Next]_vars =>
      [aborted' =>
         \/ pc = "conack" \/ frame = "nested"
         \/ ~AllMapped /\ SocketBusy]_vars
<1> SUFFICES ASSUME IInv, Next, aborted', SocketBusy => AllMapped
             PROVE  pc = "conack" \/ frame = "nested"
    BY DEF vars
<1>0. ~aborted
    BY DEF Next
<1> USE <1>0, MaxAttemptsAssumption
<1> USE DEF IInv, ControlInv, TypeOK, ConnectPhases, callVars, sendVars, Suspend, Return, abort,
            handle_recv_error, NoService, Throws
<1>1. CASE Resolved
  <2>1. CASE Suspend("tcp", frame)
      BY <2>1
  <2>2. CASE ConnectError(NoService)
    <3>1. NoService # Throws
        OBVIOUS
    <3>2. CASE frame = "none"
        BY <2>2, <3>1, <3>2 DEF ConnectError
    <3>3. CASE frame # "none"
        BY <2>2, <3>1, <3>3 DEF ConnectError, NextAttempt
    <3> QED
        BY <3>2, <3>3
  <2> QED
      BY <1>1, <2>1, <2>2 DEF Resolved
<1>6. CASE TcpConnected
    BY <1>6 DEF TcpConnected, ConnectError, NextAttempt, SocketBusy, AllMapped
<1>7. CASE async_send_con
    BY <1>7 DEF async_send_con, ConnectError, NextAttempt, SocketBusy, AllMapped
<1>2. CASE async_recv_conack \/ ConackError
    BY <1>2 DEF async_recv_conack, ConackError
<1>3. CASE async_connect \/ async_receive \/ BackoffElapsed \/ BackoffFailed
    BY <1>3 DEF async_connect, async_receive, BackoffElapsed, BackoffFailed
<1>4. CASE PacketReceived \/ ReceiveError
    BY <1>4 DEF PacketReceived, ReceiveError, try_reconnect
<1>5. CASE async_subscribe \/ ConnectionLost
           \/ \E t \in Tasks : async_publish(t) \/ SendCompletes(t)
    BY <1>5 DEF async_subscribe, async_publish, StartSend, SendCompletes,
                ConnectionLost, SocketBusy, AllMapped
<1> QED
    BY <1>1, <1>2, <1>3, <1>4, <1>5, <1>6, <1>7 DEF Next, RunnerStep

(* The client aborts around a CONNACK, or for an error without a mapping.   *)
THEOREM AbortsOnlyAroundConack == Spec => AbortOnlyAroundConack
<1>1. QED
    BY Invariance, StepAbort, PTL DEF Spec, AbortOnlyAroundConack

(* Every step of the client is a step of the abstract session, or changes   *)
(* nothing of it.  The session can be up only while the runner is idle or   *)
(* receiving (ControlInv), so no step of a connection attempt ends one      *)
(* unnoticed.                                                               *)
LEMMA StepImplementsSession ==
    IInv /\ [Next]_vars => [Session!Next]_Session!sessionVars
<1> SUFFICES ASSUME IInv, [Next]_vars PROVE [Session!Next]_Session!sessionVars
    OBVIOUS
<1> USE DEF IInv, TypeOK, ControlInv, NoSilentSession, ConnectPhases, NoError,
            Timeout, NoService, ConnectionRefused, UnknownPacket, Disconnected,
            Reconnected, Throws, callVars, sendVars, Suspend, Return, abort,
            handle_recv_error, Session!sessionVars
<1>1. CASE Next /\ Resolved
  <2>1. aborted' => Session!Die
      BY <1>1 DEF Next, Resolved, ConnectError, NextAttempt, Session!Die
  <2>2. ~aborted' => Session!Report \/ UNCHANGED Session!sessionVars
      BY <1>1 DEF Next, Resolved, ConnectError, NextAttempt, Session!Report
  <2> QED
      BY <2>1, <2>2 DEF Session!Next
<1>2. CASE Next /\ TcpConnected
  <2>1. aborted' => Session!Die
      BY <1>2, MapErrorCodeType DEF Next, TcpConnected, ConnectError, NextAttempt, Session!Die
  <2>2. ~aborted' => Session!Report \/ UNCHANGED Session!sessionVars
      BY <1>2, MapErrorCodeType DEF Next, TcpConnected, ConnectError, NextAttempt, Session!Report
  <2> QED
      BY <2>1, <2>2 DEF Session!Next
<1>3. CASE Next /\ async_send_con
  <2>1. aborted' => Session!Die
      BY <1>3, MapErrorCodeType DEF Next, async_send_con, ConnectError, NextAttempt, Session!Die
  <2>2. ~aborted' => Session!Report \/ UNCHANGED Session!sessionVars
      BY <1>3, MapErrorCodeType DEF Next, async_send_con, ConnectError, NextAttempt, Session!Report
  <2> QED
      BY <2>1, <2>2 DEF Session!Next
<1>4. CASE Next /\ async_recv_conack
  <2>1. aborted' => Session!Die
      BY <1>4 DEF Next, async_recv_conack, ConnectSuccess, Session!Die
  <2>2. ~aborted' => Session!Open \/ Session!OpenNothing
      BY <1>4 DEF Next, async_recv_conack, ConnectSuccess, Session!Open, Session!OpenNothing
  <2> QED
      BY <2>1, <2>2 DEF Session!Next
<1>5. CASE Next /\ ConackError
  <2>1. aborted' => Session!Die
      BY <1>5, MapErrorCodeType
         DEF Next, ConackError, try_reconnect, ConnectError, NextAttempt, Session!Die
  <2>2. ~aborted' => Session!Report \/ UNCHANGED Session!sessionVars
      BY <1>5, MapErrorCodeType
         DEF Next, ConackError, try_reconnect, ConnectError, NextAttempt, Session!Report
  <2> QED
      BY <2>1, <2>2 DEF Session!Next
<1>6. CASE Next /\ (async_connect \/ BackoffElapsed)
    BY <1>6 DEF Next, async_connect, BackoffElapsed
<1>7. CASE Next /\ BackoffFailed
  <2>1. aborted' => Session!Die
      BY <1>7 DEF Next, BackoffFailed, Session!Die
  <2>2. ~aborted' => Session!Report \/ UNCHANGED Session!sessionVars
      BY <1>7 DEF Next, BackoffFailed, Session!Report
  <2> QED
      BY <2>1, <2>2 DEF Session!Next
<1>8. CASE Next /\ async_receive
    BY <1>8 DEF Next, async_receive, Session!Next, Session!Report
<1>9. CASE Next /\ PacketReceived
    BY <1>9 DEF Next, PacketReceived
<1>10. CASE Next /\ ReceiveError
    BY <1>10 DEF Next, ReceiveError, try_reconnect, Session!Next, Session!Report
<1>11. CASE Next /\ (async_subscribe \/ \E t \in Tasks : async_publish(t))
    BY <1>11 DEF Next, async_subscribe, async_publish, StartSend
<1>12. CASE Next /\ \E t \in Tasks : SendCompletes(t)
  <2>1. aborted' => Session!Die
      BY <1>12 DEF Next, SendCompletes, Session!Die
  <2>2. ~aborted' => UNCHANGED Session!sessionVars
      BY <1>12 DEF Next, SendCompletes
  <2> QED
      BY <2>1, <2>2 DEF Session!Next
<1>13. CASE Next /\ ConnectionLost
    BY <1>13 DEF Next, ConnectionLost, Session!Next, Session!Lose
<1>14. CASE UNCHANGED vars
    BY <1>14 DEF vars
<1> QED
    BY <1>1, <1>2, <1>3, <1>4, <1>5, <1>6, <1>7, <1>8, <1>9, <1>10, <1>11,
       <1>12, <1>13, <1>14 DEF Next, RunnerStep

(* AsyncMqttClient implements MqttSession. *)
THEOREM Implementation == Spec => ImplementsSession
<1>1. Init => Session!Init
    BY Zenon DEF Init, Session!Init
<1>2. QED
    BY <1>1, StepImplementsSession, Invariance, PTL DEF Spec, ImplementsSession, Session!Spec

=============================================================================
