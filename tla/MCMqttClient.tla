---------------------------- MODULE MCMqttClient ----------------------------
(* MqttClient with the runner and one task that publishes state changes.    *)
EXTENDS MqttClient

CONSTANTS runner, sync

MCTasks == {runner, sync}

(* End of file, unreachable network, reset by peer, timeout, refused: all    *)
(* but ECONNRESET (104) have a mapping.                                     *)
MCNetErrors == {ENOENT, ENETUNREACH, 104, ETIMEDOUT, ECONNREFUSED}
MCMappedErrors == {ENOENT, ENETUNREACH, ETIMEDOUT, ECONNREFUSED}

(* The broker's host is down: the kernel answers EHOSTUNREACH. *)
MCHostDown == {ECONNREFUSED, 113}
=============================================================================
