----------------------------- MODULE MCPaging -----------------------------
(***************************************************************************)
(* Paging scaled down: two units to a page, sixteen pages to a table,      *)
(* placement from page 2, a heap area of seven pages in two page tables,   *)
(* and frames from 16 on for the heap, for which bit 1 is cleared.         *)
(***************************************************************************)
EXTENDS Paging
=============================================================================
