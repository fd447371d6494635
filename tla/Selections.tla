----------------------------- MODULE Selections -----------------------------
(***************************************************************************)
(* SelectSeq with the places of the elements in the place of a test: a     *)
(* recursive function can be reasoned about, an operator that takes an     *)
(* operator cannot.                                                        *)
(***************************************************************************)
EXTENDS Naturals, Sequences

ElementsAt(s, places) ==
  LET upto[n \in 0 .. Len(s)] ==
        IF n = 0 THEN <<>>
        ELSE IF n \in places THEN Append(upto[n - 1], s[n]) ELSE upto[n - 1]
  IN  upto[Len(s)]
=============================================================================
