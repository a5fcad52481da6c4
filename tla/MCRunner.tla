------------------------------- MODULE MCRunner -------------------------------
(* Runner on small instances: of two terminal sizes one is too small for all  *)
(* boxes.                                                                     *)
EXTENDS Runner

SmallNeeds == [few |-> 1, many |-> 2]
=============================================================================
