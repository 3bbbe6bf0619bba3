--------------------------- MODULE MCDirectoryProxy ---------------------------
(***************************************************************************)
(* A small instance of DirectoryProxy: two calls at once, a token of each  *)
(* kind, one URL of a directory and one for each thing the code refuses,   *)
(* bodies that are empty, at the limit and one byte beyond it.             *)
(***************************************************************************)
EXTENDS DirectoryProxy, TLC

CONSTANTS r1, r2, empty, full, large

Plain(https, wellKnown) ==
  [valid |-> TRUE, https |-> https, credentials |-> FALSE, port |-> FALSE, wellKnown |-> wellKnown]
GoodUrl == Plain(TRUE, TRUE)
MCUrl == { GoodUrl, [GoodUrl EXCEPT !.valid = FALSE], Plain(FALSE, TRUE), Plain(TRUE, FALSE),
           [GoodUrl EXCEPT !.credentials = TRUE], [GoodUrl EXCEPT !.port = TRUE] }

MCSize == [b \in {empty, full, large} |-> CASE b = empty -> 0 [] b = full -> 2 [] b = large -> 3]
===============================================================================
