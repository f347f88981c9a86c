---------------------------- MODULE MCWorkspace -----------------------------
EXTENDS Workspace

(* A program that includes a library outside the project, or not.           *)
MCIncludes == [t \in Texts |-> IF t = "uses" THEN {"lib"} ELSE {}]
MCDisks == { [p \in present |-> IF p = "main" THEN "uses" ELSE "plain"] :
               present \in {{"main", "lib"}, {"main", "game", "lib"}} }
MCMoves == {<<"main", "game">>, <<"game", "main">>, <<"lib", "game">>}
=============================================================================
