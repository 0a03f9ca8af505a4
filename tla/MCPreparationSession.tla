------------------------ MODULE MCPreparationSession ------------------------
(* Two turns of one call, and one turn of two calls with up to two tools.   *)
EXTENDS PreparationSession

MCTasks == {[turns |-> 2, calls |-> 1, tools |-> 1],
            [turns |-> 1, calls |-> 2, tools |-> 2]}
=============================================================================
