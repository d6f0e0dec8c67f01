------------------------------ MODULE Refusals ------------------------------
(***************************************************************************)
(* A validator as the sequence of its checks: <<applies, code>>, in the    *)
(* order of the code.  The first that applies is the answer; Nothing       *)
(* stands for none.                                                        *)
(***************************************************************************)
EXTENDS Naturals, Sequences

CONSTANT Nothing

Applying(refusals) == {i \in DOMAIN refusals : refusals[i][1]}
FirstRefusal(refusals) ==
    IF Applying(refusals) = {} THEN Nothing
    ELSE refusals[CHOOSE i \in Applying(refusals) : \A j \in Applying(refusals) : i <= j][2]

\* Checks that may only be made once others have passed.
OrElse(refusal, next) == IF refusal # Nothing THEN refusal ELSE next
=============================================================================
