--------------------------- MODULE MCFileHandler ---------------------------
(***************************************************************************)
(* FileHandler for TLC: texts that overlap themselves, and new text that   *)
(* contains the old.                                                       *)
(***************************************************************************)
EXTENDS FileHandler

x == "x"
y == "y"
MCFiles == {<<>>, <<<<x, x, x>>>>, <<<<y, x, y, x>>, <<>>>>,
            <<<<x, y, x>>, <<x, x, y, x, x>>>>}
MCFroms == {<<>>, <<x>>, <<x, x>>, <<x, y, x>>, <<y, x>>}
MCTos == {<<>>, <<x>>, <<x, x>>, <<y, x>>, <<x, y>>}
=============================================================================
