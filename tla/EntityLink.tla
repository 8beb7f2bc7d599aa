----------------------------- MODULE EntityLink -----------------------------
(***************************************************************************)
(* What an entity is to the device that owns it: whether a publish of its  *)
(* state reaches the broker, and when its own coroutine publishes the      *)
(* state.  Packets, acknowledgements, retries and timers are left out.     *)
(* EntityAdapter is shown to implement it, and DeviceSync has one for each *)
(* part of a device: its steps are the steps below joined with those of    *)
(* the event handlers.                                                     *)
(***************************************************************************)
VARIABLE link

(* none      async_init has not connected yet                               *)
(* init      the first async_configure, on a session that is up             *)
(* initdown  the same after the session was lost                            *)
(* failed    async_init has returned false                                  *)
(* up        created, configured, on a session that is up                   *)
(* down      created, without a session                                     *)
(* config    a later async_configure, on a session that is up               *)
(* stuck     created; async_configure has failed on a session that is up    *)
Phases == {"none", "init", "initdown", "failed", "up", "down", "config", "stuck"}

(* async_init and async_create are over. *)
Made == link \in {"up", "down", "config", "stuck"}

(* A publish reaches the broker. *)
Reaches == link \in {"init", "up", "config", "stuck"}

TypeOK == link \in Phases

Init == link = "none"

(* async_connect returns no error; the session may be none, see MqttSession.*)
Connect == link = "none" /\ link' \in {"init", "initdown"}

(* External: the session is lost. *)
Lose ==
    \/ link = "init" /\ link' = "initdown"
    \/ link \in {"up", "config", "stuck"} /\ link' = "down"

(* async_configure ends without an error, with the state as its last        *)
(* publish, in async_init or in async_run.  It does not find out that the   *)
(* session is gone.                                                         *)
FinishInit ==
    \/ link = "init" /\ link' = "up"
    \/ link = "initdown" /\ link' = "down"

FinishAgain == link = "config" /\ link' = "up"

(* async_init returns false. *)
GiveUp == link \in {"none", "init", "initdown"} /\ link' = "failed"

(* async_run has noticed the loss and async_configure starts on a session   *)
(* that is new.                                                             *)
Reopen == link = "down" /\ link' = "config"

(* async_configure fails in async_run, which goes on.  The session was up,  *)
(* or was reopened by the very call that failed.                            *)
GetStuck == link \in {"config", "down"} /\ link' = "stuck"

Next ==
    \/ Connect \/ FinishInit \/ GiveUp
    \/ Lose \/ Reopen \/ FinishAgain \/ GetStuck

Spec == Init /\ [][Next]_link
=============================================================================
