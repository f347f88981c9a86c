--------------------------- MODULE DebugInstances ---------------------------
(* Values for the constants of the debug-session modules.                   *)
EXTENDS Integers, TLC

(* Two statements written on one line, and one on the next.                 *)
TwoLines ==
  { [source |-> 1, line |-> 1, offset |-> 0],
    [source |-> 1, line |-> 1, offset |-> 5],
    [source |-> 1, line |-> 2, offset |-> 9] }

(* A statement of the entry file and one of an included file.               *)
TwoFiles ==
  { [source |-> 1, line |-> 1, offset |-> 0],
    [source |-> 2, line |-> 2, offset |-> 0] }

(* One statement, for the runs about stopping and leaving.                  *)
OneSite == { [source |-> 1, line |-> 1, offset |-> 0] }

(* No breakpoint on the first line, one that never stops, or one that may:   *)
(* what it answers at each arrival covers a breakpoint that always stops.   *)
FirstLineTables ==
  { <<>> } \cup { (<<1, 1>> :> kind) : kind \in {"ask", "log"} }

NoneOrStop == { <<>>, (<<1, 1>> :> "stop") }
=============================================================================
