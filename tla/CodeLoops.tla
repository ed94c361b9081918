----------------------------- MODULE CodeLoops -----------------------------
(***************************************************************************)
(* Two loops of the code as operators.                                     *)
(***************************************************************************)
EXTENDS Naturals, FiniteSets

\* A filter: the elements of s at the indices kept, in their order.
Picked(s, kept) ==
  LET rank(i) == Cardinality({j \in kept : j <= i})
  IN [k \in 1 .. Cardinality(kept) |-> s[CHOOSE i \in kept : rank(i) = k]]

\* A fixpoint: what is arrived at from T when a pass adds nothing.
Saturate(pass, T) ==
  LET loop[S \in DOMAIN pass] ==
        LET wider == pass[S] IN IF wider = S THEN S ELSE loop[wider]
  IN loop[T]
=============================================================================
