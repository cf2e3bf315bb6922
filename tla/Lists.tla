------------------------------- MODULE Lists --------------------------------
(***************************************************************************)
(* filter, as the programs use it on a list: the elements that are wanted, *)
(* in their order.                                                         *)
(***************************************************************************)
EXTENDS Naturals, Sequences

ListOf(s) == {s[i] : i \in 1 .. Len(s)}

\* Iterator::filter of the control plane, Array.prototype.filter of uam-backend.
Only(s, wanted) ==
  LET only[i \in 0 .. Len(s)] ==
        IF i = 0 THEN <<>>
        ELSE IF s[i] \in wanted THEN Append(only[i - 1], s[i]) ELSE only[i - 1]
  IN  only[Len(s)]
=============================================================================
