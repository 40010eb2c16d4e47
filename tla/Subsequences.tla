---------------------------- MODULE Subsequences ----------------------------
(***************************************************************************)
(* Parts of a sequence, in its order.  They are folded from the left by a  *)
(* recursive function, so that what they hold can be proved                *)
(* (Subsequences_proofs).                                                  *)
(***************************************************************************)
EXTENDS Naturals, Sequences

(* The elements of s at the indexes in I. *)
Picked(s, I) ==
    LET upTo[i \in 0 .. Len(s)] ==
            IF i = 0 THEN << >>
            ELSE IF i \in I THEN Append(upTo[i - 1], s[i]) ELSE upTo[i - 1]
    IN upTo[Len(s)]

(* The elements of s that are in S. *)
Only(s, S) == Picked(s, {i \in DOMAIN s : s[i] \in S})
=============================================================================
