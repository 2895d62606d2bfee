------------------------------- MODULE Filter -------------------------------
(***************************************************************************)
(* A loop over a list that keeps, in order, the elements of a set: the     *)
(* selection of install.sh, and the walk over a queue that unlinks the     *)
(* delivery-enabled frames.  A recursive function, which proofs can unfold *)
(* (SelectSeq is opaque to them).                                          *)
(***************************************************************************)
EXTENDS Integers, Sequences

Keep(s, S) ==
  LET kept[i \in 0..Len(s)] ==
        IF i = 0 THEN << >>
        ELSE IF s[i] \in S THEN Append(kept[i - 1], s[i]) ELSE kept[i - 1]
  IN  kept[Len(s)]
=============================================================================
