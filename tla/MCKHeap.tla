------------------------------ MODULE MCKHeap ------------------------------
(***************************************************************************)
(* The heap on pages of 8 words: two pages at least, three at first, four  *)
(* at most.  A block takes at least six words, so five fill the heap; 4    *)
(* and 6 words with header and footer are more than a page.                *)
(***************************************************************************)
EXTENDS KHeap

Request(s, a) == [size |-> s, align |-> a]

MCRequests == {Request(4, FALSE), Request(6, FALSE), Request(1, TRUE)}
=============================================================================
