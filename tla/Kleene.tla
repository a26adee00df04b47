------------------------------- MODULE Kleene -------------------------------
(***************************************************************************)
(* The three-valued joins of rag/judgment/obligation_logic.py: an unknown  *)
(* leaf stays unknown, "all" fails on a proven failed conjunct and "any"   *)
(* passes on a proven branch, even if another one is unresolved.           *)
(* "T", "F" and "U" are the code's True, False and None.                   *)
(***************************************************************************)

Truth == {"T", "F", "U"}

\* a says no more than b: b is a, or a resolution of the unknown a
Below(a, b) == a = "U" \/ a = b

AllOf(values) ==
    IF "F" \in values THEN "F" ELSE IF "U" \in values THEN "U" ELSE "T"

AnyOf(values) ==
    IF "T" \in values THEN "T" ELSE IF "U" \in values THEN "U" ELSE "F"

Negated(value) ==
    CASE value = "T" -> "F" [] value = "F" -> "T" [] OTHER -> "U"

Branch(condition, yes, no) ==
    CASE condition = "T" -> yes [] condition = "F" -> no [] OTHER -> "U"

=============================================================================
