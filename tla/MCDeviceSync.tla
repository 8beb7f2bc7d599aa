---------------------------- MODULE MCDeviceSync ----------------------------
(* DeviceSync with a hatch, a temperature sensor, or a main board of one or *)
(* two indicators and the button.  The devices share nothing but the        *)
(* process, so a behaviour has one of them.                                 *)
EXTENDS DeviceSync

CONSTANTS hatch, sensor, board, h, t, i1, i2, btn

MCPartsOf == (hatch :> <<h>>) @@ (sensor :> <<t>>) @@ (board :> <<i1, i2, btn>>)

MCSmallPartsOf == [MCPartsOf EXCEPT ![board] = <<i1, btn>>]

(* A hatch is open, closed, or in a state that is not published.  Two of    *)
(* the temperatures are the same after rounding.  The led is dark or has    *)
(* the colour of an indicator.                                              *)
MCValues == (hatch :> {"open", "closed", "moving"})
         @@ (sensor :> {"0.00", "0.01", "0.10"})
         @@ (board :> {"dark", i1, i2})

MCShown == (h :> [v \in MCValues[hatch] |-> IF v = "moving" THEN "undefined" ELSE v])
        @@ (t :> [v \in MCValues[sensor] |-> IF v = "0.10" THEN "0.1" ELSE "0.0"])
        @@ [i \in {i1, i2} |-> [v \in MCValues[board] |-> IF v = i THEN "on" ELSE "off"]]

(* hash_ starts as the hash of a state that is not published, or as 0,      *)
(* which is no hash of the indicator states; cached_temp_ starts as 0.0.    *)
MCInitialSeen == (hatch :> "moving") @@ (sensor :> "0.00") @@ (board :> "zero")

MCInit ==
    /\ Init
    /\ \E d \in Devices :
          /\ status[d] = "creating"
          /\ \A e \in Devices \ {d} :
                status[e] = "absent" /\ hw[e] = CHOOSE v \in Values[e] : TRUE

MCSafetySpec == MCInit /\ [][Next]_vars

MCSpec == MCSafetySpec /\ Fairness
=============================================================================
