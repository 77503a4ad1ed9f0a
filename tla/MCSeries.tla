------------------------------ MODULE MCSeries ------------------------------
(***************************************************************************)
(* Instances of Series for TLC.                                            *)
(***************************************************************************)
EXTENDS Series

CONSTANTS i1, m1

OneGroup == [x \in Members |-> i1]

KeyOrder == [x \in Members |-> IF x = m1 THEN 1 ELSE 2]
=============================================================================
