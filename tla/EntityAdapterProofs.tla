------------------------- MODULE EntityAdapterProofs ------------------------
(***************************************************************************)
(* Proofs about EntityAdapter for every set of entity types, every number  *)
(* of attempts and any number of packets of other actors: the availability *)
(* that Home Assistant sees is truthful, and the adapter implements        *)
(* EntityLink.                                                             *)
(***************************************************************************)
EXTENDS EntityAdapter, SequenceTheorems, TLAPS

(* The inductive invariant. *)

(* A session of the client is one of the broker, which forgets the          *)
(* subscription and the availability together with it.                      *)
SessionInv ==
    /\ up => ~dead /\ bsession
    /\ subscribed => bsession
    /\ avail = "online" => bsession

(* Where the runner is when there is no session, and when async_init is     *)
(* over.                                                                    *)
RunnerInv ==
    /\ pc \in {"connect", "retry", "reconnect", "nested", "failed"} => ~up
    /\ pc \in {"connect", "retry", "failed"} => ~created
    /\ pc \in {"run", "reconnect"} => created /\ configured # "none"

BeforeSuback == {"config", "config_ack", "subscribe"}
AfterSuback == {"settle", "online", "sync"}
AfterPublish == {"config_ack", "subscribe", "sub_ack"} \cup AfterSuback

SubackUnread == \E i \in DOMAIN inbox : inbox[i] = "suback"

(* What the broker has when async_configure has come somewhere on a session.*)
(* Had it not, a PUBACK or SUBACK would have been missing on the way: the   *)
(* only SUBACK of a session is the answer to its only SUBSCRIBE.            *)
ConfigureInv == up =>
    /\ pc \in AfterPublish => config
    /\ pc \in BeforeSuback => ~SubackUnread
    /\ pc = "sub_ack" /\ SubackUnread => subscribed
    /\ pc \in AfterSuback /\ Subscribes => subscribed
    /\ pc \in (AfterPublish \cup BeforeSuback) \ {"sync"} => avail # "online"
    /\ pc = "sync" => avail = "online"

IInv ==
    /\ TypeOK /\ SessionInv /\ RunnerInv /\ ConfigureInv
    /\ OnlineIsUsable /\ UnavailableOnlyAfterFailure

-----------------------------------------------------------------------------
(* Packets come and go: what that does to the SUBACK among them.            *)

(* A packet arrives. *)
LEMMA AppendToInbox ==
    ASSUME inbox \in Seq(Packets), NEW reply \in Packets, inbox' = Append(inbox, reply)
    PROVE  /\ inbox' \in Seq(Packets)
           /\ SubackUnread' => SubackUnread \/ reply = "suback"
<1>1. inbox' \in Seq(Packets) /\ Len(inbox') = Len(inbox) + 1
    BY AppendProperties
<1>2. ASSUME NEW i \in DOMAIN inbox' PROVE inbox'[i] = reply \/ (i \in DOMAIN inbox /\ inbox'[i] = inbox[i])
    BY <1>1, AppendProperties, LenProperties
<1> QED
    BY <1>1, <1>2 DEF SubackUnread

(* The next packet is received. *)
LEMMA TakeFromInbox ==
    ASSUME inbox \in Seq(Packets), inbox # <<>>, inbox' = Tail(inbox)
    PROVE  /\ inbox' \in Seq(Packets)
           /\ SubackUnread' => SubackUnread
           /\ Head(inbox) = "suback" => SubackUnread
<1>1. inbox' \in Seq(Packets) /\ Len(inbox') = Len(inbox) - 1
    BY HeadTailProperties
<1>2. ASSUME NEW i \in DOMAIN inbox' PROVE i + 1 \in DOMAIN inbox /\ inbox'[i] = inbox[i + 1]
    BY <1>1, HeadTailProperties, LenProperties
<1>3. 1 \in DOMAIN inbox /\ Head(inbox) = inbox[1]
    BY EmptySeq, LenProperties
<1> QED
    BY <1>1, <1>2, <1>3 DEF SubackUnread

(* A part of the packets is lost with the connection. *)
LEMMA CutInbox ==
    ASSUME inbox \in Seq(Packets), NEW n \in 0..Len(inbox), inbox' = SubSeq(inbox, 1, n)
    PROVE  inbox' \in Seq(Packets)
BY SubSeqProperties, LenProperties

(* Nothing is left of a session that is replaced. *)
LEMMA EmptyInbox ==
    ASSUME inbox' = <<>>
    PROVE  inbox' \in Seq(Packets) /\ ~SubackUnread'
<1>1. inbox' \in Seq(Packets) /\ DOMAIN inbox' = {}
    BY EmptySeq, LenProperties
<1> QED
    BY <1>1 DEF SubackUnread

(* A step that leaves the packets alone. *)
LEMMA SameInbox == ASSUME inbox' = inbox PROVE SubackUnread' <=> SubackUnread
BY DEF SubackUnread

-----------------------------------------------------------------------------
(* The flags, apart from the other variables: the first-order prover reads  *)
(* "x = TRUE" as a fact about the value of x, the arithmetic one does not.  *)
FlagsOK ==
    /\ armed \in BOOLEAN /\ up \in BOOLEAN /\ unreported \in BOOLEAN /\ dead \in BOOLEAN
    /\ created \in BOOLEAN
    /\ bsession \in BOOLEAN /\ subscribed \in BOOLEAN /\ config \in BOOLEAN

(* TypeOK without the flags. *)
RestOK ==
    /\ kind \in Kinds
    /\ pc \in {"connect", "retry", "config", "config_ack", "subscribe", "sub_ack",
               "settle", "online", "sync", "run", "reconnect", "nested", "failed"}
    /\ attempt \in 1..InitRetryAttempts
    /\ inbox \in Seq(Packets)
    /\ avail \in {"none", "offline", "online"}
    /\ configured \in {"none", "ok", "failed"}

(* TypeOK is the two together. *)
LEMMA TypeOKSplit == TypeOK <=> FlagsOK /\ RestOK
BY DEF TypeOK, FlagsOK, RestOK, Client!TypeOK

(* The initial state satisfies the inductive invariant. *)
LEMMA InitIInv == Init => IInv
<1> SUFFICES ASSUME Init PROVE IInv
    OBVIOUS
<1>1. FlagsOK
    BY Zenon DEF Init, FlagsOK, Client!Init
<1>2. RestOK
    BY InitRetryAssumption, EmptySeq DEF Init, RestOK
<1>3. SessionInv /\ RunnerInv /\ ConfigureInv /\ OnlineIsUsable /\ UnavailableOnlyAfterFailure
    BY DEF Init, Client!Init, SessionInv, RunnerInv, ConfigureInv, OnlineIsUsable,
           UnavailableOnlyAfterFailure
<1> QED
    BY <1>1, <1>2, <1>3, TypeOKSplit DEF IInv

(* Every step keeps the flags Boolean. *)
LEMMA FlagsStep == FlagsOK /\ [Next]_vars => FlagsOK'
<1> SUFFICES ASSUME FlagsOK, [Next]_vars PROVE FlagsOK'
    OBVIOUS
<1> USE DEF FlagsOK, sessionVars, brokerVars, Client!Open, Client!OpenNothing, Client!Lose,
            Client!Report, Client!Die, Open, OpenNothing, Sent, SentIntoVoid, SendError,
            Throw, SendThrows, ReceivesReconnected, ReceivesDisconnected, ReceiveThrows,
            Received, Goto, Stay, StartConfigure, FailInRun, FailInInit
<1>1. CASE Connected
    BY <1>1, Zenon DEF Connected
<1>2. CASE ConnectFails
    BY <1>2, Zenon DEF ConnectFails
<1>3. CASE ConnectThrows
    BY <1>3, Zenon DEF ConnectThrows
<1>4. CASE RetryElapsed
    BY <1>4, Zenon DEF RetryElapsed
<1>5. CASE PublishConfig
    BY <1>5, Zenon DEF PublishConfig
<1>6. CASE ConfigAck
    BY <1>6, Zenon DEF ConfigAck
<1>7. CASE Subscribe
    BY <1>7, Zenon DEF Subscribe
<1>8. CASE SubscribeAck
    BY <1>8, Zenon DEF SubscribeAck
<1>9. CASE Settled
    BY <1>9, Zenon DEF Settled
<1>10. CASE SetOnline
    BY <1>10, Zenon DEF SetOnline
<1>11. CASE SyncAndFinish
    BY <1>11, Zenon DEF SyncAndFinish, async_sync_state, CoverSetState, SensorSetState, BinarySensorSetState, PublishState
<1>12. CASE ReceivePacket
    BY <1>12, Zenon DEF ReceivePacket, CoverReceive, HatchCommandThrows, ButtonReceive, PressRestarts, SensorReceive, BinarySensorReceive
<1>13. CASE HandleReconnected
    BY <1>13, Zenon DEF HandleReconnected
<1>14. CASE HandleDisconnected
    BY <1>14, Zenon DEF HandleDisconnected
<1>15. CASE HandleThrow
    BY <1>15, Zenon DEF HandleThrow
<1>16. CASE SyncState
    BY <1>16, Zenon DEF SyncState, async_sync_state, CoverSetState, SensorSetState, BinarySensorSetState, PublishState
<1>17. CASE Command
    BY <1>17, Zenon DEF Command
<1>18. CASE ConnectionLost
    BY <1>18, Zenon DEF ConnectionLost
<1>19. CASE BrokerNotices
    BY <1>19, Zenon DEF BrokerNotices
<1>20. CASE UNCHANGED vars
    BY <1>20, Zenon DEF vars
<1>21. CASE NestedReconnect
    BY <1>21, Zenon DEF NestedReconnect
<1>22. CASE NestedThrows
    BY <1>22, Zenon DEF NestedThrows
<1> QED
    BY <1>21, <1>22, <1>1, <1>2, <1>3, <1>4, <1>5, <1>6, <1>7, <1>8, <1>9, <1>10, <1>11, <1>12, <1>13, <1>14, <1>15, <1>16, <1>17, <1>18, <1>19, <1>20, Zenon DEF Next, RunnerStep

(* The effect of an async_connect that returns no error, and of a reconnect *)
(* that async_receive reports.                                              *)
LEMMA OpenEffect ==
    ASSUME SessionInv, avail \in {"none", "offline", "online"}, Open \/ OpenNothing
    PROVE  /\ ~up /\ ~dead /\ ~dead'
           /\ inbox' \in Seq(Packets) /\ ~SubackUnread'
           /\ config' = config /\ avail' \in {"none", "offline", "online"}
           /\ up' => bsession' /\ ~subscribed' /\ avail' # "online"
           /\ ~up' => UNCHANGED brokerVars
<1>1. inbox' = <<>>
    BY DEF Open, OpenNothing
<1>2. inbox' \in Seq(Packets) /\ ~SubackUnread'
    BY <1>1, EmptyInbox
<1>3. CASE Open
    BY <1>2, <1>3 DEF Open, Client!Open, Will, SessionInv
<1>4. CASE OpenNothing
    BY <1>2, <1>4 DEF OpenNothing, Client!OpenNothing, brokerVars
<1> QED
    BY <1>3, <1>4

(* The next packet is taken from the inbox and nothing else happens.        *)
LEMMA ReceivedEffect ==
    ASSUME inbox \in Seq(Packets), NEW packets, Received(packets)
    PROVE  /\ inbox' \in Seq(Packets)
           /\ SubackUnread' => SubackUnread
           /\ Head(inbox) \in packets
           /\ Head(inbox) = "suback" => SubackUnread
           /\ UNCHANGED <<sessionVars, brokerVars>>
BY TakeFromInbox DEF Received

(* A packet reaches the broker: its session is up.                          *)
LEMMA SentEffect ==
    ASSUME inbox \in Seq(Packets), NEW reply \in Packets, Sent(reply)
    PROVE  /\ inbox' \in Seq(Packets)
           /\ SubackUnread' => SubackUnread \/ reply = "suback"
           /\ up
           /\ UNCHANGED sessionVars
BY AppendToInbox DEF Sent

(* async_set_state, or nothing. *)
LEMMA SyncEffect ==
    ASSUME inbox \in Seq(Packets), async_sync_state
    PROVE  /\ inbox' \in Seq(Packets)
           /\ SubackUnread' => SubackUnread
           /\ UNCHANGED <<sessionVars, brokerVars>>
<1>1. (Sent("puback") /\ UNCHANGED brokerVars) \/ UNCHANGED <<sessionVars, brokerVars, inbox>>
    BY DEF async_sync_state, CoverSetState, SensorSetState, BinarySensorSetState, PublishState,
           SentIntoVoid, SendError
<1>2. CASE Sent("puback") /\ UNCHANGED brokerVars
    BY <1>2, SentEffect DEF Packets
<1>3. CASE UNCHANGED <<sessionVars, brokerVars, inbox>>
    BY <1>3, SameInbox
<1> QED
    BY <1>1, <1>2, <1>3

(* An exception: the session goes with the process. *)
LEMMA ThrowEffect ==
    ASSUME Throw
    PROVE  ~up' /\ UNCHANGED <<kind, pc, created, attempt, inbox, brokerVars, configured>>
BY DEF Throw, Client!Die

(* Every step keeps the inductive invariant. *)
LEMMA StepIInv == IInv /\ [Next]_vars => IInv'
<1> SUFFICES ASSUME IInv, [Next]_vars PROVE IInv'
    OBVIOUS
<1> DEFINE Rest == RestOK /\ SessionInv /\ RunnerInv /\ ConfigureInv
                      /\ OnlineIsUsable /\ UnavailableOnlyAfterFailure
<1>a. FlagsOK /\ Rest
    BY TypeOKSplit DEF IInv
<1>b. FlagsOK'
    BY <1>a, FlagsStep
<1> SUFFICES Rest'
    BY <1>b, TypeOKSplit DEF IInv, TypeOK, FlagsOK, RestOK, Client!TypeOK
<1> USE <1>a DEF RestOK, SessionInv, RunnerInv, ConfigureInv, OnlineIsUsable,
        UnavailableOnlyAfterFailure, BeforeSuback, AfterSuback, AfterPublish, Subscribes
<1>0. CASE UNCHANGED <<kind, pc, created, attempt, inbox, brokerVars, configured>> /\ (up' => UNCHANGED sessionVars)
    BY <1>0, SameInbox DEF sessionVars, brokerVars
<1>1. CASE Throw
    BY <1>0, <1>1, ThrowEffect
<1>2. CASE Connected
    BY <1>2, OpenEffect DEF Connected, StartConfigure, brokerVars
<1>3. CASE ConnectFails
    BY <1>3, SameInbox DEF ConnectFails, sessionVars, brokerVars
<1>4. CASE RetryElapsed
    BY <1>4, SameInbox, InitRetryAssumption DEF RetryElapsed, sessionVars, brokerVars
<1>5. ASSUME FailInInit, pc \in BeforeSuback \cup {"sub_ack"} PROVE Rest'
    BY <1>5, EmptyInbox DEF FailInInit, Client!Lose, sessionVars, brokerVars
<1>6. CASE PublishConfig
  <2>1. CASE Sent("puback") /\ config' = TRUE /\ UNCHANGED <<bsession, subscribed, avail>> /\ Goto("config_ack")
      BY <1>6, <2>1, SentEffect DEF PublishConfig, Goto, Packets, sessionVars
  <2>2. CASE SentIntoVoid /\ Goto("config_ack")
      BY <2>2, SameInbox DEF SentIntoVoid, Goto, sessionVars, brokerVars
  <2>3. CASE SendError /\ FailInRun
      BY <2>3, SameInbox DEF SendError, FailInRun, sessionVars, brokerVars
  <2>4. CASE FailInInit
      BY <1>5, <1>6, <2>4 DEF PublishConfig, FailInInit
  <2>5. CASE SendThrows
      BY <1>1, <2>5 DEF SendThrows
  <2> QED
      BY <1>6, <2>1, <2>2, <2>3, <2>4, <2>5 DEF PublishConfig
<1>7. ASSUME NEW packets, Received(packets), FailInRun PROVE Rest'
    BY <1>7, ReceivedEffect DEF FailInRun, sessionVars, brokerVars
<1>8. ASSUME ReceivesReconnected \/ ReceivesDisconnected, FailInRun PROVE Rest'
  <2>1. CASE ReceivesReconnected
      BY <1>8, <2>1, OpenEffect DEF ReceivesReconnected, FailInRun, brokerVars
  <2>2. CASE ReceivesDisconnected
      BY <1>8, <2>2, SameInbox DEF ReceivesDisconnected, Client!Report, FailInRun, brokerVars
  <2> QED
      BY <1>8, <2>1, <2>2
<1>9. CASE ReceiveThrows
    BY <1>1, <1>9 DEF ReceiveThrows
<1>10. CASE ConfigAck
  <2>1. CASE Received({"puback"}) /\ Goto(AfterConfig)
      BY <1>10, <2>1, ReceivedEffect DEF ConfigAck, Goto, AfterConfig, sessionVars, brokerVars
  <2>2. CASE FailInInit
      BY <1>5, <1>10, <2>2 DEF ConfigAck, FailInInit
  <2> QED
      BY <1>7, <1>8, <1>9, <1>10, <2>1, <2>2 DEF ConfigAck
<1>11. CASE Subscribe
  <2>1. ASSUME NEW reply \in {"suback", "suberr"}, Sent(reply), subscribed' = (reply = "suback"),
               UNCHANGED <<bsession, config, avail>>, Goto("sub_ack")
        PROVE  Rest'
      BY <1>11, <2>1, SentEffect DEF Subscribe, Goto, Packets, sessionVars
  <2>2. CASE SentIntoVoid /\ Goto("sub_ack")
      BY <2>2, SameInbox DEF SentIntoVoid, Goto, sessionVars, brokerVars
  <2>3. CASE SendError /\ FailInRun
      BY <2>3, SameInbox DEF SendError, FailInRun, sessionVars, brokerVars
  <2>4. CASE FailInInit
      BY <1>5, <1>11, <2>4 DEF Subscribe, FailInInit
  <2>5. CASE SendThrows
      BY <1>1, <2>5 DEF SendThrows
  <2> QED
      BY <1>11, <2>1, <2>2, <2>3, <2>4, <2>5 DEF Subscribe
<1>12. CASE SubscribeAck
  <2>1. CASE Received({"suback"}) /\ Goto("settle")
      BY <1>12, <2>1, ReceivedEffect DEF SubscribeAck, Goto, sessionVars, brokerVars
  <2>2. CASE FailInInit
      BY <1>5, <1>12, <2>2 DEF SubscribeAck, FailInInit
  <2> QED
      BY <1>7, <1>8, <1>9, <1>12, <2>1, <2>2 DEF SubscribeAck
<1>13. CASE Settled
    BY <1>13, SameInbox DEF Settled, Goto, sessionVars, brokerVars
<1>14. CASE SetOnline
  <2>1. CASE Sent("puback") /\ avail' = "online" /\ UNCHANGED <<bsession, subscribed, config>> /\ Goto("sync")
      BY <1>14, <2>1, SentEffect DEF SetOnline, Goto, Packets, sessionVars
  <2>2. CASE (SentIntoVoid \/ SendError) /\ Goto("sync")
      BY <2>2, SameInbox DEF SentIntoVoid, SendError, Goto, sessionVars, brokerVars
  <2>3. CASE SendThrows
      BY <1>1, <2>3 DEF SendThrows
  <2> QED
      BY <1>14, <2>1, <2>2, <2>3 DEF SetOnline
<1>15. CASE SyncAndFinish
  <2>1. CASE /\ async_sync_state
             /\ pc' = "run" /\ created' = TRUE /\ configured' = "ok"
             /\ UNCHANGED <<kind, attempt>>
      BY <1>15, <2>1, SyncEffect DEF SyncAndFinish, sessionVars, brokerVars
  <2>2. CASE SendThrows \/ Throw
      BY <1>1, <2>2 DEF SendThrows
  <2> QED
      BY <1>15, <2>1, <2>2 DEF SyncAndFinish
<1>16. ASSUME NEW packets, Received(packets), Stay PROVE Rest'
    BY <1>16, ReceivedEffect DEF Stay, sessionVars, brokerVars
<1>17. CASE ReceivePacket
    BY <1>1, <1>16, <1>17 DEF ReceivePacket, CoverReceive, HatchCommandThrows, ButtonReceive,
       PressRestarts, SensorReceive, BinarySensorReceive
<1>18. CASE HandleReconnected
    BY <1>18, OpenEffect DEF HandleReconnected, ReceivesReconnected, StartConfigure, brokerVars
<1>19. CASE HandleDisconnected
    BY <1>19, SameInbox DEF HandleDisconnected, ReceivesDisconnected, Client!Report, Goto, brokerVars
<1>20. CASE SyncState
  <2>1. CASE async_sync_state /\ Stay
      BY <2>1, SyncEffect DEF Stay, sessionVars, brokerVars
  <2>2. CASE SendThrows \/ Throw
      BY <1>1, <2>2 DEF SendThrows
  <2> QED
      BY <1>20, <2>1, <2>2 DEF SyncState
<1>21. CASE Command
  <2>1. PICK packet \in {"good", "bad"} : inbox' = Append(inbox, packet)
      BY <1>21 DEF Command
  <2>2. inbox' \in Seq(Packets) /\ (SubackUnread' => SubackUnread)
      BY <2>1, AppendToInbox DEF Packets
  <2> QED
      BY <1>21, <2>2 DEF Command, sessionVars, brokerVars
<1>22. CASE ConnectionLost
    BY <1>22, CutInbox DEF ConnectionLost, Client!Lose, brokerVars
<1>23. CASE BrokerNotices
    BY <1>23, SameInbox DEF BrokerNotices, Will, sessionVars
<1>24. CASE UNCHANGED vars
    BY <1>0, <1>24 DEF vars
<1>25. CASE NestedReconnect
    BY <1>25, SameInbox DEF NestedReconnect, sessionVars, brokerVars
<1>26. CASE NestedThrows
    BY <1>1, <1>26 DEF NestedThrows
<1> QED
    BY <1>1, <1>2, <1>3, <1>4, <1>6, <1>9, <1>10, <1>11, <1>12, <1>13, <1>14, <1>15, <1>17, <1>18,
       <1>19, <1>20, <1>21, <1>22, <1>23, <1>24, <1>25, <1>26
       DEF Next, RunnerStep, ConnectThrows, HandleThrow

(* The inductive invariant holds in every reachable state. *)
THEOREM Invariance == Spec => []IInv
<1>1. QED
    BY InitIInv, StepIInv, PTL DEF Spec

(* Type correctness, for any number of attempts and of unread packets: in   *)
(* particular async_init never makes more than InitRetryAttempts attempts.  *)
THEOREM TypeCorrect == Spec => []TypeOK
<1>1. IInv => TypeOK
    BY DEF IInv
<1>2. QED
    BY <1>1, Invariance, PTL

(* What Home Assistant sees as available can be used. *)
THEOREM AvailabilityIsTruthful == Spec => []OnlineIsUsable
<1>1. IInv => OnlineIsUsable
    BY DEF IInv
<1>2. QED
    BY <1>1, Invariance, PTL

(* A runner that waits on a session that is up has made the entity          *)
(* available, or knows that it has failed to.                               *)
THEOREM NoSessionIsForgotten == Spec => []UnavailableOnlyAfterFailure
<1>1. IInv => UnavailableOnlyAfterFailure
    BY DEF IInv
<1>2. QED
    BY <1>1, Invariance, PTL

-----------------------------------------------------------------------------
(* The refinement.                                                          *)

(* The value of Phase in each of its cases. *)
PhaseTable ==
    /\ pc = "failed" => Phase = "failed"
    /\ pc \in {"connect", "retry"} => Phase = "none"
    /\ pc \notin {"connect", "retry", "failed"} /\ ~created /\ up => Phase = "init"
    /\ pc \notin {"connect", "retry", "failed"} /\ ~created /\ ~up => Phase = "initdown"
    /\ created /\ ~up => Phase = "down"
    /\ created /\ up /\ pc # "run" => Phase = "config"
    /\ created /\ up /\ pc = "run" /\ configured = "ok" => Phase = "up"
    /\ created /\ up /\ pc = "run" /\ configured # "ok" => Phase = "stuck"

(* The cases exclude each other. *)
LEMMA PhaseCases == IInv => PhaseTable
<1> SUFFICES ASSUME TypeOK, RunnerInv PROVE PhaseTable
    BY DEF IInv
<1> USE DEF PhaseTable, Phase, TypeOK, RunnerInv
<1>1. CASE pc = "failed"
    BY <1>1
<1>2. CASE pc \in {"connect", "retry"}
    BY <1>2
<1>3. CASE pc \notin {"connect", "retry", "failed"} /\ ~created
    BY <1>3
<1>4. CASE created /\ ~up
    BY <1>4
<1>5. CASE created /\ up /\ pc # "run"
    BY <1>5
<1>6. CASE created /\ up /\ pc = "run"
    BY <1>6
<1> QED
    BY <1>1, <1>2, <1>3, <1>4, <1>5, <1>6

(* Every step of the adapter is a step of the link, or changes nothing of   *)
(* it.  An exception is a loss; a configuration that fails right after a    *)
(* reconnect is the step from a lost session to one without an entity.      *)
LEMMA StepImplementsLink ==
    IInv /\ PhaseTable /\ PhaseTable' /\ [Next]_vars => [Link!Next]_Phase
<1> SUFFICES ASSUME IInv, PhaseTable, PhaseTable', [Next]_vars PROVE [Link!Next]_Phase
    OBVIOUS
<1> USE DEF IInv, TypeOK, RunnerInv, PhaseTable, Link!Next, Link!Connect, Link!FinishInit,
        Link!GiveUp, Link!Lose, Link!Reopen, Link!FinishAgain, Link!GetStuck
<1>0. CASE UNCHANGED <<pc, created, configured>> /\ (up' => up)
    BY <1>0
<1>1. CASE Throw
    BY <1>0, <1>1, ThrowEffect
<1>2. CASE Connected
    BY <1>2, OpenEffect DEF Connected, StartConfigure
<1>3. CASE ConnectFails
    BY <1>3 DEF ConnectFails, sessionVars
<1>4. CASE RetryElapsed
    BY <1>4 DEF RetryElapsed, sessionVars
<1>5. ASSUME FailInInit, pc \in BeforeSuback \cup {"sub_ack"} PROVE [Link!Next]_Phase
    BY <1>5 DEF FailInInit, BeforeSuback, Client!Lose, sessionVars
<1>6. ASSUME Goto("config_ack") \/ Goto("subscribe") \/ Goto("sub_ack") \/ Goto("settle")
                 \/ Goto("online") \/ Goto("sync"),
             pc \in BeforeSuback \cup {"sub_ack", "settle", "online"}, UNCHANGED sessionVars
      PROVE  [Link!Next]_Phase
    BY <1>6 DEF Goto, BeforeSuback, sessionVars
<1>7. ASSUME FailInRun, UNCHANGED sessionVars, pc \in BeforeSuback \cup {"sub_ack"}
      PROVE  [Link!Next]_Phase
    BY <1>7 DEF FailInRun, BeforeSuback, sessionVars
<1>8. ASSUME FailInRun, ReceivesReconnected \/ ReceivesDisconnected, pc \in {"config_ack", "sub_ack"}
      PROVE  [Link!Next]_Phase
    BY <1>8, OpenEffect DEF FailInRun, ReceivesReconnected, ReceivesDisconnected, Client!Report, SessionInv
<1>9. CASE ReceiveThrows \/ SendThrows
    BY <1>1, <1>9 DEF ReceiveThrows, SendThrows
<1>10. CASE PublishConfig
    BY <1>5, <1>6, <1>7, <1>9, <1>10
       DEF PublishConfig, Sent, SentIntoVoid, SendError, BeforeSuback
<1>11. CASE ConfigAck
    BY <1>5, <1>6, <1>7, <1>8, <1>9, <1>11 DEF ConfigAck, Received, AfterConfig, BeforeSuback
<1>12. CASE Subscribe
    BY <1>5, <1>6, <1>7, <1>9, <1>12
       DEF Subscribe, Sent, SentIntoVoid, SendError, BeforeSuback
<1>13. CASE SubscribeAck
    BY <1>5, <1>6, <1>7, <1>8, <1>9, <1>13 DEF SubscribeAck, Received
<1>14. CASE Settled
    BY <1>6, <1>14 DEF Settled
<1>15. CASE SetOnline
    BY <1>6, <1>9, <1>15 DEF SetOnline, Sent, SentIntoVoid, SendError
<1>16. CASE SyncAndFinish
  <2>1. CASE /\ async_sync_state
             /\ pc' = "run" /\ created' = TRUE /\ configured' = "ok"
             /\ UNCHANGED <<kind, attempt>>
      BY <1>16, <2>1, SyncEffect DEF SyncAndFinish, sessionVars
  <2> QED
      BY <1>1, <1>9, <1>16, <2>1 DEF SyncAndFinish
<1>17. CASE ReceivePacket
    BY <1>0, <1>1, <1>17 DEF ReceivePacket, CoverReceive, HatchCommandThrows, ButtonReceive,
       PressRestarts, SensorReceive, BinarySensorReceive, Received, Stay, sessionVars
<1>18. CASE HandleReconnected
    BY <1>18, OpenEffect DEF HandleReconnected, ReceivesReconnected, StartConfigure, SessionInv
<1>19. CASE HandleDisconnected
    BY <1>19 DEF HandleDisconnected, ReceivesDisconnected, Client!Report, Goto
<1>20. CASE SyncState
    BY <1>0, <1>1, <1>9, <1>20, SyncEffect DEF SyncState, Stay, sessionVars
<1>21. CASE Command \/ BrokerNotices
    BY <1>0, <1>21 DEF Command, BrokerNotices, sessionVars
<1>22. CASE ConnectionLost
    BY <1>0, <1>22 DEF ConnectionLost, Client!Lose
<1>23. CASE UNCHANGED vars
    BY <1>0, <1>23 DEF vars, sessionVars
<1>24. CASE NestedReconnect
  <2> USE <1>24 DEF NestedReconnect, Receiving, sessionVars
  <2>1. CASE pc = "connect"
        BY <2>1
  <2>2. CASE pc # "connect" /\ created
        BY <2>2
  <2>3. CASE pc # "connect" /\ ~created
        BY <2>3
  <2> QED
        BY <2>1, <2>2, <2>3
<1>25. CASE NestedThrows
    BY <1>1, <1>25 DEF NestedThrows
<1> QED
    BY <1>1, <1>2, <1>3, <1>4, <1>9, <1>10, <1>11, <1>12, <1>13, <1>14, <1>15, <1>16, <1>17, <1>18,
       <1>19, <1>20, <1>21, <1>22, <1>23, <1>24, <1>25
       DEF Next, RunnerStep, ConnectThrows, HandleThrow

(* The adapter implements EntityLink. *)
THEOREM Implementation == Spec => ImplementsLink
<1>1. Init => Link!Init
    BY DEF Init, Phase, Link!Init
<1>2. QED
    BY <1>1, PhaseCases, StepImplementsLink, Invariance, PTL DEF Spec, ImplementsLink, Link!Spec

=============================================================================
