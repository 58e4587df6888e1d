------------------------------ MODULE Selection ------------------------------
(***************************************************************************)
(* The elements of a sequence that belong to a set, in their order: what a *)
(* WHERE clause or an iterator's filter leaves.  It takes a set where      *)
(* SelectSeq takes a test, and is a recursive function, so that            *)
(* SequenceLemmas can prove what it returns.                               *)
(***************************************************************************)
EXTENDS Integers, Sequences

Select(s, T) ==
    LET kept[i \in 0 .. Len(s)] ==
            IF i = 0 THEN <<>>
            ELSE IF s[i] \in T THEN Append(kept[i - 1], s[i]) ELSE kept[i - 1]
    IN kept[Len(s)]
=============================================================================
