----------------------------- MODULE HrSizeCheck -----------------------------
(***************************************************************************)
(* One call of hrSize per behaviour, on each size of Inputs, for TLC to    *)
(* compare the code's result with what spec section 8 asks of it.          *)
(***************************************************************************)
EXTENDS HrSize

CONSTANT Inputs   \* the file sizes printPackageInfo may pass to hrSize

VARIABLES
    size,     \* the argument
    result    \* what hrSize(size) returned or raised

vars == <<size, result>>

Init == size \in Inputs /\ result = HrSize(size)

Next == UNCHANGED vars

Spec == Init /\ [][Next]_vars

\* Spec 8, "unit-consistent" and hrSize(1024**3) == "1.00 GiB": a non-empty
\* size is printed in the largest unit it reaches, as its exact value to
\* two decimals.
HrSizeUnitConsistent == size > 0 => result = SpecHrSize(size)

=============================================================================
