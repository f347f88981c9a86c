---------------------------- MODULE StopProtocol ----------------------------
(***************************************************************************)
(* What a debug session promises its client, without threads, locks or     *)
(* steps: a stop holds the debuggee, is announced once, is ended by the    *)
(* client alone, and a session torn down holds nothing ever again.         *)
(***************************************************************************)
VARIABLES
  mode,   (* whether a stop is in force, or the session is over             *)
  told,   (* the client believes the debuggee stopped                       *)
  at      (* whether the debuggee is inside the stop or runs its program    *)

vars == <<mode, told, at>>

TypeOK ==
  /\ mode \in {"running", "held", "over"}
  /\ told \in BOOLEAN
  /\ at \in {"program", "stop"}

Init == mode = "running" /\ told = FALSE /\ at = "program"

Hold ==
  /\ mode = "running" /\ at = "program"
  /\ mode' = "held" /\ at' = "stop"
  /\ UNCHANGED told

Tell ==
  /\ mode = "held" /\ ~told
  /\ told' = TRUE
  /\ UNCHANGED <<mode, at>>

Release ==
  /\ mode = "held" /\ told
  /\ mode' = "running" /\ told' = FALSE
  /\ UNCHANGED at

Leave ==
  /\ at = "stop" /\ mode # "held"
  /\ at' = "program"
  /\ UNCHANGED <<mode, told>>

Detach ==
  /\ mode' = "over" /\ told' = FALSE
  /\ UNCHANGED at

Next == Hold \/ Tell \/ Release \/ Leave \/ Detach

Spec == Init /\ [][Next]_vars /\ WF_vars(Tell) /\ WF_vars(Leave)
=============================================================================
