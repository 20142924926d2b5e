--------------------------- MODULE MCRealtekR1000 ---------------------------
(* Traffic in one direction, and a little in both.                         *)
EXTENDS RealtekR1000

MCLoads == {<<5, 0>>, <<0, 5>>, <<2, 2>>}

=============================================================================
