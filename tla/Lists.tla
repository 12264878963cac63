-------------------------------- MODULE Lists --------------------------------
(***************************************************************************)
(* Lists the program keeps in order and thins out in place.                *)
(***************************************************************************)
EXTENDS Naturals, Sequences

\* Vec::retain, VecDeque::retain: what is in keep stays, in its order.  Written
\* as a recursive function, about which facts can be proved (ListProofs); of
\* SelectSeq, which says the same, the provers know nothing.
Kept(s, keep) ==
    LET kept[n \in 0..Len(s)] ==
          IF n = 0 THEN <<>>
          ELSE IF s[n] \in keep THEN Append(kept[n - 1], s[n]) ELSE kept[n - 1]
    IN kept[Len(s)]
=============================================================================
