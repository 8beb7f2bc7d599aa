--------------------------- MODULE MCEntityAdapter --------------------------
(* EntityAdapter for each of the entity types the program creates.          *)
EXTENDS EntityAdapter

MCKinds == {"cover", "button", "sensor", "binary_sensor"}
=============================================================================
