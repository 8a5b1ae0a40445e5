------------------------------- MODULE MCPma -------------------------------
(***************************************************************************)
(* Small memories for the physical memory allocator: conventional memory   *)
(* below frame 2, a hole in the middle of the memory above, and one or two *)
(* frames for the bitmap.                                                  *)
(***************************************************************************)
EXTENDS Pma

Entry(base, size, free) == [base |-> base, size |-> size, free |-> free]

Whole == <<Entry(0, 1, TRUE), Entry(1, 1, FALSE), Entry(2, 5, TRUE)>>

Split == <<Entry(0, 1, TRUE), Entry(1, 1, FALSE), Entry(2, 5, TRUE),
           Entry(7, 1, FALSE), Entry(8, 3, TRUE)>>

\* One, two or three frames in any order, as page tables and kernel are listed.
Lists == {<<u>> : u \in 2..6} \cup {<<u, v>> : u \in 3..6, v \in 3..6} \cup
         {<<6, 3, 5>>, <<3, 4, 6>>}

MCMemoryMaps == {Whole, Split}

MCFrameLists == {l \in Lists : \A i, j \in 1..Len(l) : i # j => l[i] # l[j]}
=============================================================================
