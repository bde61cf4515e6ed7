-------------------------------- MODULE Lists --------------------------------
(***************************************************************************)
(* The filter method of lists, which the session store and the session use.*)
(***************************************************************************)
EXTENDS Integers, Sequences

\* filter: the items of a list that are in a set, up to each of its positions.
OnlyUpTo(s, S) ==
  LET upTo[i \in 0..Len(s)] ==
        IF i = 0 THEN <<>>
        ELSE IF s[i] \in S THEN Append(upTo[i - 1], s[i]) ELSE upTo[i - 1]
  IN  upTo

Only(s, S) == OnlyUpTo(s, S)[Len(s)]
=============================================================================
