------------------------------ MODULE MCFormat ------------------------------
(***************************************************************************)
(* A session with the smallest buffer size, and answers of the device from *)
(* an incompressible chunk to an empty payload.                            *)
(***************************************************************************)
EXTENDS QzFormat

MCOutputs == { [consumed |-> 1, produced |-> 6], [consumed |-> 1024, produced |-> 1029],
               [consumed |-> 1000, produced |-> 30] }
MCLooks == {-1, 3}
=============================================================================
