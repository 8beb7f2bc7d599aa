------------------------------ MODULE MCDrivers ------------------------------
(* Drivers with the indicators or one of the other devices: they share      *)
(* nothing but the thread.                                                  *)
EXTENDS Drivers, FiniteSets

MCInit ==
    /\ Init
    /\ Cardinality(attached) = 1
    /\ "board" \notin attached => led = RGB(0, 0, 0)
    /\ \A d \in Single \ attached : text[d] = CHOOSE t \in Texts[d] : TRUE

MCSpec == MCInit /\ [][Next]_vars /\ Fairness
=============================================================================
