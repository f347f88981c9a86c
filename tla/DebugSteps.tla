----------------------------- MODULE DebugSteps -----------------------------
(***************************************************************************)
(* What stepIn, next and stepOut promise, over DebugSession with two       *)
(* history variables: the last step request still unanswered, and the      *)
(* shallowest the shadow stack has been since it was made.  They record    *)
(* and never decide.                                                       *)
(***************************************************************************)
EXTENDS DebugSession

VARIABLES asked, shallowest

StepVars == <<vars, asked, shallowest>>

Requested == srv # "arm" /\ srv' = "arm"
StepTaken == dbg = "step" /\ dbg' = "capture"
Resumed == srv = "idle" /\ srv' = "wake"

Remember ==
  /\ asked' = IF Requested THEN want'
              ELSE IF StepTaken \/ Resumed THEN NoStep
              ELSE asked
  /\ shallowest' = IF Requested \/ Len(stack') < shallowest
                   THEN Len(stack') ELSE shallowest

StepSpec ==
  /\ Init /\ asked = NoStep /\ shallowest = 0
  /\ [][Next /\ Remember]_StepVars

FairStepSpec == StepSpec /\ Fairness
-----------------------------------------------------------------------------
(* step_reached has answered: the step is satisfied here, or it is not.     *)
StepAsked(kind) == dbg = "step" /\ dbg' # "step" /\ asked.kind = kind

(* A step out stops at the first statement after the frame it left has      *)
(* returned, and at none before: leave_frame turns the step into one that   *)
(* the next safepoint satisfies.  (A synthetic statement, which has no line *)
(* to show, is passed over.)                                                *)
StepOutStopsAfterReturn ==
  [][StepAsked("out") /\ site.line # 0
       => (StepTaken <=> shallowest < asked.depth)]_StepVars

(* A step over never stops inside a callee of the frame it started in, and  *)
(* in that frame only on another line.                                      *)
StepOverSkipsCallees ==
  [][StepAsked("over") /\ StepTaken
       => \/ Len(stack) < asked.depth
          \/ Len(stack) = asked.depth /\ site.line # asked.line]_StepVars
=============================================================================
