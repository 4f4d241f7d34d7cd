--------------------------------- MODULE Disk ---------------------------------
(***************************************************************************)
(* What lib/file-storage.interface.ts promises of every storage driver: a  *)
(* dictionary from paths to contents, changed by one operation at a time.  *)
(* A content is the sequence of the chunks that were put, appended or      *)
(* prepended to make it.                                                   *)
(***************************************************************************)
EXTENDS Naturals, Sequences

CONSTANTS
    Paths,
    Chunks      \* numbers from 1

\* The content of a path without a file.
Missing == <<0>>

VARIABLE dict   \* the content of every path

Present(p) == dict[p] # Missing
Content(p) == IF Present(p) THEN dict[p] ELSE <<>>

Init == dict = [p \in Paths |-> Missing]

Put(p, x) == dict' = [dict EXCEPT ![p] = <<x>>]
AppendTo(p, x) == dict' = [dict EXCEPT ![p] = Append(Content(p), x)]
PrependTo(p, x) == dict' = [dict EXCEPT ![p] = <<x>> \o Content(p)]
Copy(p, q) == Present(p) /\ dict' = [dict EXCEPT ![q] = dict[p]]
Move(p, q) == Present(p) /\ dict' = [dict EXCEPT ![p] = Missing, ![q] = dict[p]]
Remove(ps) == dict' = [p \in Paths |-> IF p \in ps THEN Missing ELSE dict[p]]

Next ==
    \/ \E p \in Paths, x \in Chunks : Put(p, x) \/ AppendTo(p, x) \/ PrependTo(p, x)
    \/ \E p, q \in Paths : Copy(p, q) \/ Move(p, q)
    \/ \E ps \in SUBSET Paths : Remove(ps)

Spec == Init /\ [][Next]_dict
===============================================================================
