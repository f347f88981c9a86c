--------------------------- MODULE MCBreakpoints ----------------------------
(* Small instances of Breakpoints for TLC: an entry file with code on lines *)
(* 2 and 4, an included file with code on line 2, and a file that is not    *)
(* part of the program.                                                     *)
EXTENDS Breakpoints

MCFiles == {"main", "lib", "scratch"}
MCSafepoints == [f \in {"main", "lib"} |-> IF f = "main" THEN {2, 4} ELSE {2}]

All == [op |-> "all", n |-> 1]
Plain == [compiles |-> TRUE, condition |-> FALSE, hit |-> All, log |-> FALSE]
Second == [Plain EXCEPT !.hit = [op |-> "==", n |-> 2]]
Every2 == [Plain EXCEPT !.condition = TRUE, !.hit = [op |-> "%", n |-> 2]]
Log == [Plain EXCEPT !.log = TRUE]
Broken == [Plain EXCEPT !.compiles = FALSE]

At(line, spec) == [line |-> line, spec |-> spec]

(* Clearing a file, a line that is none, lines on and off the code, lines   *)
(* that land on one safepoint, and each kind of breakpoint.                 *)
PlainRequests ==
  { <<>>, <<At(-1, Plain), At(5, Plain)>>,
    <<At(3, Every2), At(2, Second)>>, <<At(1, Broken), At(2, Log)>>,
    <<At(3, Plain), At(4, Second)>> }
=============================================================================
