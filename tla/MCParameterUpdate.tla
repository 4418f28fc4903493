------------------------- MODULE MCParameterUpdate -------------------------
(* A small instance of ParameterUpdate for TLC.                            *)
EXTENDS ParameterUpdate

\* Two windows with a gap, the second of which outlasts the bound on the time; one
\* window that ends; a range without duration beside a good one; none at all.
MCWindows ==
    {{[start |-> 0, duration |-> 2], [start |-> 3, duration |-> 9]},
     {[start |-> 1, duration |-> 2]},
     {[start |-> 0, duration |-> Unset], [start |-> 1, duration |-> 9]},
     {}}
=============================================================================
