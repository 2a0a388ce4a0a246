-------------------------------- MODULE Lists --------------------------------
(***************************************************************************)
(* The loops over slices that append to a second slice the members of the  *)
(* first that are wanted.  SelectSeq says the same; here the members are   *)
(* given as a set, and the recursion is one the proofs can unfold.         *)
(***************************************************************************)
EXTENDS Naturals, Sequences

Only(list, kept) ==
  LET upTo[n \in 0..Len(list)] ==
        IF n = 0 THEN <<>>
        ELSE IF list[n] \in kept THEN Append(upTo[n - 1], list[n])
        ELSE upTo[n - 1]
  IN  upTo[Len(list)]
=============================================================================
