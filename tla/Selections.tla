------------------------------ MODULE Selections ------------------------------
(***************************************************************************)
(* Parts of sequences.  The library's SelectSeq takes its test as an       *)
(* operator, and nothing can be proved of it here; this one takes a set.   *)
(***************************************************************************)
EXTENDS Naturals, Sequences

PickedUpTo(s, I) ==
  LET upTo[i \in 0..Len(s)] ==
        IF i = 0 THEN <<>>
        ELSE IF i \in I THEN Append(upTo[i - 1], s[i]) ELSE upTo[i - 1]
  IN upTo

\* The elements of s at the indices in I, in the order they have in s.
Picked(s, I) == PickedUpTo(s, I)[Len(s)]

==============================================================================
