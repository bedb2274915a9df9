------------------------------- MODULE Option -------------------------------
(***************************************************************************)
(* Optional natural numbers, for the Option<u32> and Option<Instant>       *)
(* fields of the program.                                                  *)
(***************************************************************************)
EXTENDS Integers

CONSTANT None       \* Option::None

ASSUME NoneAssumption == None \notin Nat

OptNat == Nat \cup {None}

UnwrapOr(o, default) == IF o = None THEN default ELSE o
=============================================================================
