------------------------------ MODULE MCPagination ------------------------------
(***************************************************************************)
(* Small instances of Pagination for TLC, with timestamps finer than a     *)
(* cursor.                                                                 *)
(***************************************************************************)
EXTENDS Pagination
===============================================================================
