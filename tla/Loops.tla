--------------------------------- MODULE Loops ---------------------------------
(***************************************************************************)
(* A loop of the code as a function of what it changes.                    *)
(***************************************************************************)
EXTENDS Naturals

\* What the turns step[0], step[1] .. step[k - 1] make of a, one after the other.
After(a, k, step) ==
    LET loop[i \in 0..k] == IF i = 0 THEN a ELSE step[i - 1][loop[i - 1]]
    IN loop[k]
===============================================================================
