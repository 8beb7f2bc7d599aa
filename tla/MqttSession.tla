----------------------------- MODULE MqttSession ----------------------------
(***************************************************************************)
(* What AsyncMqttClient promises the entity that owns it, without attempts,*)
(* timers, error numbers and the phases of a connection.  MqttClient is    *)
(* shown to implement it (MCMqttClient, MqttClientProofs), and             *)
(* EntityAdapter is built on it: its steps are the steps below joined with *)
(* those of the adapter.                                                   *)
(***************************************************************************)
VARIABLES
    armed,       \* connected_: publish, subscribe and receive are let through
    up,          \* the broker has accepted a session and it is not lost
    unreported,  \* the last session was lost and the runner was not told
    dead         \* the process has been aborted

sessionVars == <<armed, up, unreported, dead>>

TypeOK == /\ armed \in BOOLEAN /\ up \in BOOLEAN
          /\ unreported \in BOOLEAN /\ dead \in BOOLEAN

Init == armed = FALSE /\ up = FALSE /\ unreported = FALSE /\ dead = FALSE

(* A session is established and, in the same step, announced: async_connect *)
(* returns no error or async_receive returns Reconnected.                   *)
Open ==
    /\ ~dead /\ ~up
    /\ up' = TRUE
    /\ armed' = TRUE
    /\ unreported' = FALSE
    /\ UNCHANGED dead

(* The same answer without a session: the broker refused the CONNECT, or    *)
(* sent something that is not a CONNACK.                                    *)
OpenNothing ==
    /\ ~dead /\ ~up
    /\ armed' \in {armed, TRUE}
    /\ unreported' = FALSE
    /\ UNCHANGED <<up, dead>>

Lose ==
    /\ ~dead /\ up
    /\ up' = FALSE
    /\ unreported' = TRUE
    /\ UNCHANGED <<armed, dead>>

(* async_receive returns Disconnected. *)
Report ==
    /\ ~dead /\ ~up
    /\ unreported' = FALSE
    /\ UNCHANGED <<armed, up, dead>>

(* An exception leaves a coroutine. *)
Die ==
    /\ ~dead
    /\ dead' = TRUE
    /\ up' = FALSE
    /\ UNCHANGED <<armed, unreported>>

Next == Open \/ OpenNothing \/ Lose \/ Report \/ Die

Spec == Init /\ [][Next]_sessionVars
=============================================================================
