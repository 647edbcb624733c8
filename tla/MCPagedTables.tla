--------------------------- MODULE MCPagedTables ---------------------------
(* Two page sizes over at most three rows: three pages of one row, two of two. *)
EXTENDS PagedTables
MCSizes == {1, 2}
=============================================================================
