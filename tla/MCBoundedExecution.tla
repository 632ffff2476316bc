------------------------ MODULE MCBoundedExecution --------------------------
(* A small instance of BoundedExecution: caps and a chunk of one or two    *)
(* bytes, so that output ends below, at and above a cap, also in mid-chunk.*)
EXTENDS BoundedExecution

MCCap == [s \in Streams |-> IF s = "stdout" THEN 2 ELSE 1]
MCMaxOutput == [s \in Streams |-> IF s = "stdout" THEN 3 ELSE 2]
=============================================================================
