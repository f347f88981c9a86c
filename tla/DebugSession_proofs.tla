------------------------ MODULE DebugSession_proofs -------------------------
(***************************************************************************)
(* Proofs about DebugSession, for any program, any breakpoint tables, any  *)
(* call depth and any interleaving of the two threads.                     *)
(***************************************************************************)
EXTENDS DebugSteps, SequenceTheorems, TLAPS

USE DepthAssumption, SwitchAssumption

(* The worker's own bookkeeping: it reports once, and pops what it called.  *)
WorkerInv ==
  /\ dbg = "pop" => calls > 0
  /\ srv \in {"new", "pending"} => dbg = "none" /\ terminated = 0
  /\ dbg \notin {"none", "done"} => terminated = 0
  /\ dbg = "done" => terminated = 1

(* A stop is claimed by the debuggee inside stop alone, and once it sleeps, *)
(* the claim has been announced and not released.                           *)
ClaimInv ==
  /\ stopped => dbg \in {"announce", "park", "waiting"}
  /\ dbg = "park" /\ stopped => told
  /\ dbg = "waiting" => stopped /\ told

InStop == {"announce", "park", "waiting"}

(* Hook calls are made only under an installed hook, so for a session that  *)
(* has its controller or has given it up by detaching.                      *)
HookSteps == {"pop", "popped", "rearm", "frame", "arrive", "forced", "entry",
              "step", "match", "capture", "claim", "announce", "park", "waiting"}

TeardownInv ==
  /\ native_debug => ~detached /\ srv \notin {"new", "pending"}
  /\ srv \in {"arm", "wake", "detach"} => native_debug
  /\ detached => ~stopped /\ srv \in {"unhook", "poll", "joined", "abandoned"}
  /\ srv = "unhook" => detached
  /\ srv \in {"poll", "joined", "abandoned"} => ~hook /\ ~native_debug
  /\ hook => native_debug \/ srv = "unhook"
  /\ dbg \in HookSteps => native_debug \/ detached

(* The snapshot taken is the stack until the debuggee runs on.              *)
SnapshotInv ==
  dbg \in {"claim", "announce", "park", "waiting"} => snapshot = Reverse(stack)

(* What a client that answers only what it was told can count on.           *)
StrictInv ==
  StrictClient =>
    /\ srv \in {"arm", "wake"} => told
    /\ told /\ ~detached => stopped /\ dbg \in {"park", "waiting"}
    /\ dbg = "announce" /\ ~detached => stopped

IInv == TypeOK /\ WorkerInv /\ ClaimInv /\ TeardownInv /\ SnapshotInv /\ StrictInv
-----------------------------------------------------------------------------
(* What a member of Sites is made of.                                       *)
LEMMA SiteParts ==
  ASSUME NEW s \in Sites \cup {NoSite}
  PROVE  s.source \in Sources /\ s.line \in Lines /\ s.offset \in Nat
BY SitesAssumption DEF NoSite, Sources, Lines

LEMMA PrefixLength ==
  ASSUME NEW S, NEW s \in Seq(S), NEW n \in Nat, \A i \in 1 .. n : s[i] \in S
  PROVE  Len(SubSeq(s, 1, n)) = n
BY SubSeqProperties

(* Dropping the top of a stack, or writing it, leaves a stack.              *)
LEMMA FrontOfStack ==
  ASSUME NEW s \in Seq(Frames), s # <<>>
  PROVE  /\ Front(s) \in Seq(Frames) /\ Len(Front(s)) = Len(s) - 1
         /\ Last(s) \in Frames
<1>1. Len(s) \in Nat \ {0}
  BY EmptySeq
<1>2. Last(s) \in Frames
  BY <1>1, ElementOfSeq DEF Last
<1>a. \A i \in 1 .. Len(s) - 1 : s[i] \in Frames
  BY <1>1, ElementOfSeq
<1>b. 1 \in Int /\ Len(s) - 1 \in Int /\ Len(s) - 1 \in Nat
  BY <1>1
<1>3. SubSeq(s, 1, Len(s) - 1) \in Seq(Frames)
  BY <1>a, <1>b, SubSeqProperties, Zenon
<1>4. Len(SubSeq(s, 1, Len(s) - 1)) = Len(s) - 1
  BY <1>a, <1>b, PrefixLength, Zenon
<1> QED BY <1>2, <1>3, <1>4 DEF Front

LEMMA ReverseOfStack ==
  ASSUME NEW s \in Seq(Frames)
  PROVE  Reverse(s) \in Seq(Frames)
<1>1. \A i \in 1 .. Len(s) : s[Len(s) - i + 1] \in Frames
  OBVIOUS
<1> QED BY <1>1 DEF Reverse

LEMMA InitIInv == Init => IInv
<1> SUFFICES ASSUME Init PROVE IInv
  OBVIOUS
<1>1. TypeOK
  <2>1. StackOK
    BY EmptySeq DEF Init, StackOK
  <2>2. NoStep \in StepValues /\ 0 \in Depths
    BY DEF NoStep, StepValues, Lines, Depths
  <2>3. StepOK /\ SiteOK
    BY <2>2 DEF Init, StepOK, SiteOK
  <2>4. FlagsOK
    BY DEF Init, FlagsOK
  <2>5. PlacesOK
    BY DEF Init, PlacesOK
  <2> QED BY <2>1, <2>3, <2>4, <2>5 DEF TypeOK
<1>2. WorkerInv /\ ClaimInv /\ TeardownInv /\ SnapshotInv /\ StrictInv
  BY DEF Init, WorkerInv, ClaimInv, TeardownInv, SnapshotInv, StrictInv,
         HookSteps
<1> QED BY <1>1, <1>2 DEF IInv

-----------------------------------------------------------------------------
(* The flags stay flags.                                                   *)
LEMMA FlagsStep ==
  ASSUME FlagsOK, [Next]_vars
  PROVE  FlagsOK'
<1> USE DEF FlagsOK, vars, shared, worker, server, client
<1>1. CASE Program
  BY <1>1 DEF Program, EnterMain, enter_frame, raise_runtime_error,
              TrapReturn, fire_leave, fire_safepoint, program_ends, Goto
<1>2. CASE Hook
  BY <1>2 DEF Hook, leave_frame, leave_reads_step, leave_arms_into,
              safepoint_frame, arrived, take_stop_next, take_entry_stop,
              step_reached, match_breakpoint, stop_capture, stop_claim,
              on_stop, stop_park, worker_clears_hook, worker_reports, Onward,
              BackToUser, Goto, Arrives
<1>3. CASE Requests
  BY <1>3 DEF Requests, launch, configuration_done, request_pause, resume,
              shutdown, set_breakpoints, step_request
<1>4. CASE Handler
  BY <1>4 DEF Handler, arm_step, wake, detach, stop_clears_hook, stop_joins,
              Release
<1>5. CASE SpuriousWake
  BY <1>5 DEF SpuriousWake, Onward, Goto
<1>6. CASE Over \/ UNCHANGED vars
  BY <1>6 DEF Over
<1> QED BY <1>1, <1>2, <1>3, <1>4, <1>5, <1>6 DEF Next

(* The worker reports in its last step and configurationDone starts it in   *)
(* the first, so a program terminates once.                                 *)
LEMMA ControlStep ==
  ASSUME PlacesOK, WorkerInv, [Next]_vars
  PROVE  PlacesOK' /\ WorkerInv'
<1> USE DEF PlacesOK, WorkerInv, vars, shared, worker, server, client
<1>1. CASE Program
  BY <1>1 DEF Program, EnterMain, enter_frame, raise_runtime_error,
              TrapReturn, fire_leave, fire_safepoint, program_ends, Goto
<1>2. CASE Hook
  BY <1>2 DEF Hook, leave_frame, leave_reads_step, leave_arms_into,
              safepoint_frame, arrived, take_stop_next, take_entry_stop,
              step_reached, match_breakpoint, stop_capture, stop_claim,
              on_stop, stop_park, worker_clears_hook, worker_reports, Onward,
              BackToUser, Goto
<1>3. CASE Requests
  BY <1>3 DEF Requests, launch, configuration_done, request_pause, resume,
              shutdown, set_breakpoints, step_request, Serving, Controllable
<1>4. CASE Handler
  BY <1>4 DEF Handler, arm_step, wake, detach, stop_clears_hook, stop_joins,
              Release
<1>5. CASE SpuriousWake
  BY <1>5 DEF SpuriousWake, Onward, Goto
<1>6. CASE Over \/ UNCHANGED vars
  BY <1>6 DEF Over
<1> QED BY <1>1, <1>2, <1>3, <1>4, <1>5, <1>6 DEF Next

(* What is done outside a stop leaves its flags alone and enters no stop.   *)
LEMMA StopWriters ==
  ASSUME PlacesOK, WorkerInv, [Next]_vars
  PROVE  \/ stop_claim \/ on_stop \/ stop_park \/ SpuriousWake \/ wake \/ detach
         \/ /\ UNCHANGED <<stopped, detached, told>>
            /\ UNCHANGED dbg \/ (dbg \notin InStop /\ dbg' \notin InStop)
<1> USE DEF InStop, PlacesOK, WorkerInv, vars, shared, worker, server, client
<1>1. CASE Program
  BY <1>1 DEF Program, EnterMain, enter_frame, raise_runtime_error,
              TrapReturn, fire_leave, fire_safepoint, program_ends, Goto
<1>2. CASE Hook
  BY <1>2 DEF Hook, leave_frame, leave_reads_step, leave_arms_into,
              safepoint_frame, arrived, take_stop_next, take_entry_stop,
              step_reached, match_breakpoint, stop_capture, stop_claim,
              on_stop, stop_park, worker_clears_hook, worker_reports, Onward,
              BackToUser, Goto
<1>3. CASE Requests
  BY <1>3 DEF Requests, launch, configuration_done, request_pause, resume,
              shutdown, set_breakpoints, step_request
<1>4. CASE Handler
  BY <1>4 DEF Handler, arm_step, wake, detach, stop_clears_hook, stop_joins,
              Release
<1>5. CASE SpuriousWake
  BY <1>5 DEF SpuriousWake, Onward, Goto
<1>6. CASE Over \/ UNCHANGED vars
  BY <1>6 DEF Over
<1> QED BY <1>1, <1>2, <1>3, <1>4, <1>5, <1>6 DEF Next

(* A claim is made, announced and slept on in that order, and a release     *)
(* that comes anywhere in between is seen by the test before the sleep.     *)
LEMMA ClaimStep ==
  ASSUME FlagsOK, PlacesOK, WorkerInv, ClaimInv, [Next]_vars
  PROVE  ClaimInv'
<1> USE DEF PlacesOK, ClaimInv, InStop
<1>1. CASE stop_claim
  BY <1>1 DEF stop_claim, BackToUser, Onward, Goto, client
<1>2. CASE on_stop
  BY <1>2 DEF on_stop, Onward, Goto, shared
<1>3. CASE stop_park
  BY <1>3 DEF stop_park, BackToUser, Onward, Goto, shared, client
<1>4. CASE SpuriousWake
  BY <1>4 DEF SpuriousWake, Onward, Goto, shared, client
<1>5. CASE wake \/ detach
  BY <1>5 DEF wake, detach, Release
<1>6. CASE /\ UNCHANGED <<stopped, detached, told>>
           /\ UNCHANGED dbg \/ (dbg \notin InStop /\ dbg' \notin InStop)
  BY <1>6
<1> QED BY <1>1, <1>2, <1>3, <1>4, <1>5, <1>6, StopWriters

(* detach comes before the hook is cleared, and both before the worker is   *)
(* waited for; no claim passes the test of `detached`.                      *)
LEMMA TeardownStep ==
  ASSUME FlagsOK, PlacesOK, WorkerInv, TeardownInv, ClaimInv, [Next]_vars
  PROVE  TeardownInv'
<1> USE DEF FlagsOK, PlacesOK, WorkerInv, ClaimInv, TeardownInv, HookSteps,
            vars, shared, worker, server, client
<1>1. CASE Program
  BY <1>1 DEF Program, EnterMain, enter_frame, raise_runtime_error,
              TrapReturn, fire_leave, fire_safepoint, program_ends, Goto
<1>2. CASE Hook
  BY <1>2 DEF Hook, leave_frame, leave_reads_step, leave_arms_into,
              safepoint_frame, arrived, take_stop_next, take_entry_stop,
              step_reached, match_breakpoint, stop_capture, stop_claim,
              on_stop, stop_park, worker_clears_hook, worker_reports, Onward,
              BackToUser, Goto
<1>3. CASE Requests
  BY <1>3 DEF Requests, launch, configuration_done, request_pause, resume,
              shutdown, set_breakpoints, step_request, Serving, Controllable
<1>4. CASE Handler
  BY <1>4 DEF Handler, arm_step, wake, detach, stop_clears_hook, stop_joins,
              Release
<1>5. CASE SpuriousWake
  BY <1>5 DEF SpuriousWake, Onward, Goto
<1>6. CASE Over \/ UNCHANGED vars
  BY <1>6 DEF Over
<1> QED BY <1>1, <1>2, <1>3, <1>4, <1>5, <1>6 DEF Next

(* Between the capture and the way out of the stop no frame moves.          *)
LEMMA SnapshotStep ==
  ASSUME PlacesOK, SnapshotInv, [Next]_vars
  PROVE  SnapshotInv'
<1> USE DEF PlacesOK, SnapshotInv, vars, shared, worker, server, client
<1>1. CASE Program
  BY <1>1 DEF Program, EnterMain, enter_frame, raise_runtime_error,
              TrapReturn, fire_leave, fire_safepoint, program_ends, Goto
<1>2. CASE Hook
  BY <1>2 DEF Hook, leave_frame, leave_reads_step, leave_arms_into,
              safepoint_frame, arrived, take_stop_next, take_entry_stop,
              step_reached, match_breakpoint, stop_capture, stop_claim,
              on_stop, stop_park, worker_clears_hook, worker_reports, Onward,
              BackToUser, Goto
<1>3. CASE Requests
  BY <1>3 DEF Requests, launch, configuration_done, request_pause, resume,
              shutdown, set_breakpoints, step_request
<1>4. CASE Handler
  BY <1>4 DEF Handler, arm_step, wake, detach, stop_clears_hook, stop_joins,
              Release
<1>5. CASE SpuriousWake
  BY <1>5 DEF SpuriousWake, Onward, Goto
<1>6. CASE Over \/ UNCHANGED vars
  BY <1>6 DEF Over
<1> QED BY <1>1, <1>2, <1>3, <1>4, <1>5, <1>6 DEF Next

(* A client that waits to be told releases a stop it was told of only, and  *)
(* that one is claimed and slept on already.                                *)
LEMMA StrictStep ==
  ASSUME FlagsOK, PlacesOK, ClaimInv, TeardownInv, StrictInv, [Next]_vars
  PROVE  StrictInv'
<1> USE DEF FlagsOK, PlacesOK, ClaimInv, TeardownInv, StrictInv, HookSteps,
            vars, shared, worker, server, client
<1>1. CASE Program
  BY <1>1 DEF Program, EnterMain, enter_frame, raise_runtime_error,
              TrapReturn, fire_leave, fire_safepoint, program_ends, Goto
<1>2. CASE Hook
  BY <1>2 DEF Hook, leave_frame, leave_reads_step, leave_arms_into,
              safepoint_frame, arrived, take_stop_next, take_entry_stop,
              step_reached, match_breakpoint, stop_capture, stop_claim,
              on_stop, stop_park, worker_clears_hook, worker_reports, Onward,
              BackToUser, Goto
<1>3. CASE Requests
  BY <1>3 DEF Requests, launch, configuration_done, request_pause, resume,
              shutdown, set_breakpoints, step_request, Serving, Controllable
<1>4. CASE Handler
  BY <1>4 DEF Handler, arm_step, wake, detach, stop_clears_hook, stop_joins,
              Release
<1>5. CASE SpuriousWake
  BY <1>5 DEF SpuriousWake, Onward, Goto
<1>6. CASE Over \/ UNCHANGED vars
  BY <1>6 DEF Over
<1> QED BY <1>1, <1>2, <1>3, <1>4, <1>5, <1>6 DEF Next

(* The shadow stack belongs to the debuggee's thread.                       *)
LEMMA StackWriters ==
  ASSUME [Next]_vars
  PROVE  \/ EnterMain \/ enter_frame \/ leave_frame \/ safepoint_frame
         \/ stop_capture
         \/ UNCHANGED <<stack, snapshot>>
<1> USE DEF vars, shared, worker, server, client
<1>1. CASE Program
  BY <1>1 DEF Program, EnterMain, enter_frame, raise_runtime_error,
              TrapReturn, fire_leave, fire_safepoint, program_ends, Goto
<1>2. CASE Hook
  BY <1>2 DEF Hook, leave_frame, leave_reads_step, leave_arms_into,
              safepoint_frame, arrived, take_stop_next, take_entry_stop,
              step_reached, match_breakpoint, stop_capture, stop_claim,
              on_stop, stop_park, worker_clears_hook, worker_reports, Onward,
              BackToUser, Goto
<1>3. CASE Requests
  BY <1>3 DEF Requests, launch, configuration_done, request_pause, resume,
              shutdown, set_breakpoints, step_request
<1>4. CASE Handler
  BY <1>4 DEF Handler, arm_step, wake, detach, stop_clears_hook, stop_joins,
              Release
<1>5. CASE SpuriousWake
  BY <1>5 DEF SpuriousWake, Onward, Goto
<1>6. CASE Over \/ UNCHANGED vars
  BY <1>6 DEF Over
<1> QED BY <1>1, <1>2, <1>3, <1>4, <1>5, <1>6 DEF Next

LEMMA StackStep ==
  ASSUME StackOK, SiteOK, [Next]_vars
  PROVE  StackOK'
<1> USE DEF StackOK
<1>f. NoFrame \in Frames
  BY DEF NoFrame, Frames, Sources, Lines
<1>1. CASE EnterMain
  <2>1. CASE hook
    BY <1>1, <1>f, <2>1, AppendProperties DEF EnterMain
  <2>2. CASE ~hook
    BY <1>1, <2>2 DEF EnterMain
  <2> QED BY <2>1, <2>2
<1>2. CASE enter_frame
  <2>1. CASE hook
    BY <1>2, <1>f, <2>1, AppendProperties DEF enter_frame
  <2>2. CASE ~hook
    BY <1>2, <2>2 DEF enter_frame
  <2> QED BY <2>1, <2>2
<1>3. CASE leave_frame
  BY <1>3, FrontOfStack DEF leave_frame
<1>4. CASE safepoint_frame
  <2>1. [source |-> site.source, line |-> site.line] \in Frames
    BY SiteParts DEF SiteOK, Frames
  <2>2. CASE stack = <<>>
    BY <1>4, <2>2 DEF safepoint_frame
  <2>3. CASE stack # <<>>
    BY <1>4, <2>1, <2>3, FrontOfStack, AppendProperties DEF safepoint_frame
  <2> QED BY <2>2, <2>3
<1>5. CASE stop_capture
  BY <1>5, ReverseOfStack DEF stop_capture
<1>6. CASE UNCHANGED <<stack, snapshot>>
  BY <1>6
<1> QED BY <1>1, <1>2, <1>3, <1>4, <1>5, <1>6, StackWriters

(* The step is written by both threads, the call depth by the program.      *)
LEMMA StepWriters ==
  ASSUME PlacesOK, [Next]_vars
  PROVE  \/ EnterMain \/ enter_frame \/ raise_runtime_error \/ TrapReturn
         \/ fire_leave \/ leave_frame \/ leave_arms_into \/ step_reached
         \/ resume \/ (\E kind \in StepKinds : step_request(kind)) \/ arm_step
         \/ UNCHANGED <<step, want, calls>>
<1> USE DEF vars, shared, worker, server, client
<1>1. CASE Program
  BY <1>1 DEF Program, EnterMain, enter_frame, raise_runtime_error,
              TrapReturn, fire_leave, fire_safepoint, program_ends, Goto
<1>2. CASE Hook
  BY <1>2 DEF Hook, leave_frame, leave_reads_step, leave_arms_into,
              safepoint_frame, arrived, take_stop_next, take_entry_stop,
              step_reached, match_breakpoint, stop_capture, stop_claim,
              on_stop, stop_park, worker_clears_hook, worker_reports, Onward,
              BackToUser, Goto
<1>3. CASE Requests
  BY <1>3 DEF Requests, launch, configuration_done, request_pause, resume,
              shutdown, set_breakpoints, step_request
<1>4. CASE Handler
  BY <1>4 DEF Handler, arm_step, wake, detach, stop_clears_hook, stop_joins,
              Release
<1>5. CASE SpuriousWake
  BY <1>5 DEF SpuriousWake, Onward, Goto
<1>6. CASE Over \/ UNCHANGED vars
  BY <1>6 DEF Over
<1> QED BY <1>1, <1>2, <1>3, <1>4, <1>5, <1>6 DEF Next

(* The safepoint being handled, the one before it, and the table.           *)
LEMMA SiteWriters ==
  ASSUME PlacesOK, [Next]_vars
  PROVE  \/ (\E s \in Sites : fire_safepoint(s)) \/ arrived
         \/ (\E t \in Tables : set_breakpoints(t))
         \/ (UNCHANGED <<prev, table>> /\ (site' = NoSite \/ UNCHANGED site))
<1> USE DEF vars, shared, worker, server, client
<1>1. CASE Program
  BY <1>1 DEF Program, EnterMain, enter_frame, raise_runtime_error,
              TrapReturn, fire_leave, fire_safepoint, program_ends, Goto
<1>2. CASE Hook
  BY <1>2 DEF Hook, leave_frame, leave_reads_step, leave_arms_into,
              safepoint_frame, arrived, take_stop_next, take_entry_stop,
              step_reached, match_breakpoint, stop_capture, stop_claim,
              on_stop, stop_park, worker_clears_hook, worker_reports, Onward,
              BackToUser, Goto
<1>3. CASE Requests
  BY <1>3 DEF Requests, launch, configuration_done, request_pause, resume,
              shutdown, set_breakpoints, step_request
<1>4. CASE Handler
  BY <1>4 DEF Handler, arm_step, wake, detach, stop_clears_hook, stop_joins,
              Release
<1>5. CASE SpuriousWake
  BY <1>5 DEF SpuriousWake, Onward, Goto
<1>6. CASE Over \/ UNCHANGED vars
  BY <1>6 DEF Over
<1> QED BY <1>1, <1>2, <1>3, <1>4, <1>5, <1>6 DEF Next

LEMMA StepStep ==
  ASSUME StackOK, StepOK, WorkerInv, [Next]_vars, PlacesOK
  PROVE  StepOK'
<1> USE DEF StepOK, Depths
<1>n. NoStep \in StepValues
  BY DEF NoStep, StepValues, Lines, Depths
<1>d. Len(stack) \in Depths /\ 0 \in Lines
  BY DEF StackOK, Depths, Lines
<1>1. CASE EnterMain
  BY <1>1 DEF EnterMain, server
<1>2. CASE enter_frame
  BY <1>2 DEF enter_frame, server
<1>3. CASE raise_runtime_error \/ TrapReturn
  BY <1>3 DEF raise_runtime_error, TrapReturn, shared, server
<1>4. CASE fire_leave
  BY <1>4 DEF fire_leave, shared, server
<1>5. CASE leave_frame
  BY <1>5 DEF leave_frame, WorkerInv, Goto, server
<1>6. CASE leave_arms_into
  BY <1>6, <1>d DEF leave_arms_into, BackToUser, server, StepValues,
                    StepKinds
<1>7. CASE step_reached
  BY <1>7, <1>n DEF step_reached, Onward, server
<1>8. CASE resume
  BY <1>8, <1>n DEF resume, worker
<1>9. CASE \E kind \in StepKinds : step_request(kind)
  <2> SUFFICES ASSUME NEW kind \in StepKinds, step_request(kind)
               PROVE  StepOK'
    BY <1>9
  <2>1. Top(kind) \in StepValues
    BY <1>d, FrontOfStack DEF Top, StepValues, StackOK, Frames
  <2> QED BY <2>1 DEF step_request, shared, worker
<1>10. CASE arm_step
  BY <1>10, <1>n DEF arm_step, worker
<1>11. CASE UNCHANGED <<step, want, calls>>
  BY <1>11
<1> QED BY <1>1, <1>2, <1>3, <1>4, <1>5, <1>6, <1>7, <1>8, <1>9, <1>10, <1>11, StepWriters

LEMMA SiteStep ==
  ASSUME StackOK, SiteOK, PlacesOK, [Next]_vars
  PROVE  SiteOK'
<1> USE DEF SiteOK
<1>1. CASE \E s \in Sites : fire_safepoint(s)
  BY <1>1 DEF fire_safepoint, shared
<1>2. CASE arrived
  BY <1>2, SiteParts DEF arrived, StackOK, Depths
<1>3. CASE \E t \in Tables : set_breakpoints(t)
  BY <1>3 DEF set_breakpoints, worker
<1>4. CASE UNCHANGED <<prev, table>> /\ (site' = NoSite \/ UNCHANGED site)
  BY <1>4
<1> QED BY <1>1, <1>2, <1>3, <1>4, SiteWriters

-----------------------------------------------------------------------------
LEMMA IInvStep == IInv /\ [Next]_vars => IInv'
<1> SUFFICES ASSUME IInv, [Next]_vars PROVE IInv'
  OBVIOUS
<1>1. StackOK /\ SiteOK /\ StepOK /\ FlagsOK /\ PlacesOK
  BY DEF IInv, TypeOK
<1>2. WorkerInv /\ ClaimInv /\ TeardownInv /\ SnapshotInv /\ StrictInv
  BY DEF IInv
<1>3. StackOK' /\ SiteOK' /\ StepOK' /\ FlagsOK' /\ PlacesOK'
  BY <1>1, <1>2, StackStep, SiteStep, StepStep, FlagsStep, ControlStep
<1>4. WorkerInv' /\ ClaimInv' /\ TeardownInv' /\ SnapshotInv' /\ StrictInv'
  BY <1>1, <1>2, ControlStep, ClaimStep, TeardownStep, SnapshotStep, StrictStep
<1> QED BY <1>3, <1>4 DEF IInv, TypeOK

THEOREM Invariance == Spec => []IInv
BY InitIInv, IInvStep, PTL DEF Spec

(* Every variable keeps its type; in particular the program is reported     *)
(* terminated at most once.                                                 *)
THEOREM TypeCorrect == Spec => []TypeOK
<1>1. IInv => TypeOK
  BY DEF IInv
<1> QED BY <1>1, Invariance, PTL

(* No resume is lost: whatever a client sends and whenever, a debuggee      *)
(* asleep in stop has an announced, unanswered claim.                       *)
THEOREM NoLostResume == Spec => []ParkedIsAnswerable
<1>1. IInv => ParkedIsAnswerable
  BY DEF IInv, ClaimInv, ParkedIsAnswerable
<1> QED BY <1>1, Invariance, PTL

(* A client that answers only what it was told sees the stack as it is.     *)
THEOREM StoppedAsTold == StrictClient => (Spec => []ToldIsStopped)
<1> SUFFICES ASSUME StrictClient PROVE Spec => []ToldIsStopped
  OBVIOUS
<1>1. IInv => ToldIsStopped
  BY DEF IInv, StrictInv, SnapshotInv, ToldIsStopped
<1> QED BY <1>1, Invariance, PTL

(* Teardown leaves no hook, no parked debuggee and no missing report.       *)
THEOREM CleanTeardown == Spec => []OverLeavesNothing
<1>1. IInv => OverLeavesNothing
  BY DEF IInv, TypeOK, PlacesOK, WorkerInv, ClaimInv, TeardownInv, HookSteps,
         OverLeavesNothing
<1> QED BY <1>1, Invariance, PTL

(* Nothing takes a detach back.                                             *)
LEMMA DetachStays ==
  ASSUME PlacesOK, WorkerInv, detached, [Next]_vars
  PROVE  detached'
BY StopWriters DEF stop_claim, on_stop, stop_park, SpuriousWake, wake,
                   detach, shared

(* A session torn down claims no further stop.                              *)
THEOREM DetachIsFinal == Spec => NoClaimAfterDetach
<1>1. IInv /\ [Next]_vars => (detached /\ ~stopped => ~stopped')
  <2> SUFFICES ASSUME IInv, [Next]_vars, detached PROVE ~stopped'
    OBVIOUS
  <2>1. IInv' /\ detached'
    BY IInvStep, DetachStays DEF IInv, TypeOK
  <2> QED BY <2>1 DEF IInv, TeardownInv
<1> QED BY <1>1, Invariance, PTL DEF Spec, NoClaimAfterDetach
-----------------------------------------------------------------------------
LEMMA AbstractInit == Init => Abstract!Init
BY DEF Init, Abstract!Init

(* A claim holds, the announcement tells, the client's request releases,    *)
(* the debuggee's way out of the condition leaves; nothing else shows.      *)
LEMMA AbstractStep ==
  ASSUME StrictClient, IInv, IInv', [Next]_vars
  PROVE  [Abstract!Next]_(Abstract!vars)
<1> USE DEF IInv, TypeOK, PlacesOK, ClaimInv, TeardownInv, StrictInv, InStop,
            Abstract!Next, Abstract!vars
<1>1. CASE stop_claim
  BY <1>1 DEF stop_claim, BackToUser, Onward, Goto, client, Abstract!Hold
<1>2. CASE on_stop
  BY <1>2 DEF on_stop, Onward, Goto, shared, Abstract!Tell
<1>3. CASE stop_park
  BY <1>3 DEF stop_park, BackToUser, Onward, Goto, shared, client,
              Abstract!Leave
<1>4. CASE SpuriousWake
  BY <1>4 DEF SpuriousWake, Onward, Goto, shared, client
<1>5. CASE wake
  BY <1>5 DEF wake, Release, Abstract!Release
<1>6. CASE detach
  BY <1>6 DEF detach, Release, Abstract!Detach
<1>7. CASE /\ UNCHANGED <<stopped, detached, told>>
           /\ UNCHANGED dbg \/ (dbg \notin InStop /\ dbg' \notin InStop)
  BY <1>7
<1> QED BY <1>1, <1>2, <1>3, <1>4, <1>5, <1>6, <1>7, StopWriters

(* For a client that answers only what it was told, the session's two       *)
(* threads implement the stop protocol, step for step.                      *)
THEOREM Implements ==
  StrictClient => (Spec => Abstract!Init /\ [][Abstract!Next]_(Abstract!vars))
<1> SUFFICES ASSUME StrictClient
             PROVE  Spec => Abstract!Init /\ [][Abstract!Next]_(Abstract!vars)
  OBVIOUS
<1>1. IInv /\ IInv' /\ [Next]_vars => [Abstract!Next]_(Abstract!vars)
  BY AbstractStep
<1> QED BY <1>1, AbstractInit, Invariance, PTL DEF Spec
-----------------------------------------------------------------------------
(* In a program that records no error, frames and calls keep step while the *)
(* hook is installed; it is until the worker or a detach takes it away.     *)
FramesInv ==
  /\ ~aborting
  /\ dbg \in {"none", "start"} => calls = 0 /\ Len(stack) = 0
  /\ native_debug /\ dbg \notin {"report", "done"} => hook
  /\ hook => Len(stack) = calls

LEMMA FramesStep ==
  ASSUME ~Trappable, IInv, FramesInv, [Next]_vars
  PROVE  FramesInv'
<1>i. /\ StackOK /\ SiteOK /\ PlacesOK /\ WorkerInv /\ TeardownInv
      /\ calls \in Nat /\ Len(stack) \in Nat /\ stack \in Seq(Frames)
  BY DEF IInv, TypeOK, StepOK, Depths, StackOK
<1> USE <1>i DEF FramesInv, PlacesOK, WorkerInv, TeardownInv, HookSteps, vars,
                 shared, worker, server, client
<1>p. Len(Append(stack, NoFrame)) = Len(stack) + 1
  BY AppendProperties DEF NoFrame, Frames, Sources, Lines
<1>1. CASE Program
  BY <1>1, <1>p DEF Program, EnterMain, enter_frame, raise_runtime_error,
              TrapReturn, fire_leave, fire_safepoint, program_ends, Goto
<1>2. CASE leave_frame
  <2>1. Len(stack') = Len(stack) - 1 \/ (Len(stack) = 0 /\ Len(stack') = 0)
    BY <1>2, FrontOfStack, EmptySeq DEF leave_frame
  <2> QED BY <1>2, <2>1 DEF leave_frame, Goto
<1>3. CASE safepoint_frame
  <2>1. Len(stack') = Len(stack)
    <3>1. [source |-> site.source, line |-> site.line] \in Frames
      BY SiteParts DEF SiteOK, Frames
    <3>2. CASE stack = <<>>
      BY <1>3, <3>2 DEF safepoint_frame
    <3>3. CASE stack # <<>>
      BY <1>3, <3>1, <3>3, FrontOfStack, AppendProperties DEF safepoint_frame
    <3> QED BY <3>2, <3>3
  <2> QED BY <1>3, <2>1 DEF safepoint_frame, Onward, Goto
<1>4. CASE Hook /\ ~leave_frame /\ ~safepoint_frame
  BY <1>4 DEF Hook, leave_reads_step, leave_arms_into, arrived,
              take_stop_next, take_entry_stop, step_reached, match_breakpoint,
              stop_capture, stop_claim, on_stop, stop_park,
              worker_clears_hook, worker_reports, Onward, BackToUser, Goto
<1>5. CASE Requests
  BY <1>5 DEF Requests, launch, configuration_done, request_pause, resume,
              shutdown, set_breakpoints, step_request
<1>6. CASE Handler
  BY <1>6 DEF Handler, arm_step, wake, detach, stop_clears_hook, stop_joins,
              Release
<1>7. CASE SpuriousWake
  BY <1>7 DEF SpuriousWake, Onward, Goto
<1>8. CASE Over \/ UNCHANGED vars
  BY <1>8 DEF Over
<1> QED BY <1>1, <1>2, <1>3, <1>4, <1>5, <1>6, <1>7, <1>8 DEF Next

(* A program that records no error shows at a stop the frames it has: what  *)
(* an error path leaves behind is all that CapturedFramesAreLive lacks.     *)
THEOREM FramesAreLive ==
  StrictClient /\ ~Trappable => (Spec => []CapturedFramesAreLive)
<1> SUFFICES ASSUME StrictClient, ~Trappable
             PROVE  Spec => []CapturedFramesAreLive
  OBVIOUS
<1>1. Init => FramesInv
  BY EmptySeq DEF Init, FramesInv
<1>2. IInv /\ FramesInv /\ [Next]_vars => FramesInv'
  BY FramesStep
<1>3. IInv /\ FramesInv => CapturedFramesAreLive
  <2> SUFFICES ASSUME IInv, FramesInv, told, ~detached
               PROVE  Len(snapshot) = calls
    BY DEF CapturedFramesAreLive
  <2>1. dbg \in {"park", "waiting"} /\ native_debug
    BY DEF IInv, StrictInv, TeardownInv, HookSteps
  <2>2. Len(stack) = calls /\ snapshot = Reverse(stack)
    BY <2>1 DEF FramesInv, IInv, SnapshotInv
  <2> QED BY <2>2 DEF Reverse, IInv, TypeOK, StackOK
<1> QED BY <1>1, <1>2, <1>3, Invariance, PTL DEF Spec
-----------------------------------------------------------------------------
(***************************************************************************)
(* The steps a client that waits to be told asks for.                      *)
(***************************************************************************)
(* Returning from a frame is under way in the hook.                         *)
Leaving == {"popped", "rearm"}

(* A step out is pending, untouched, until its frame has returned; the hook *)
(* call that pops the frame then turns it into a step that the next         *)
(* statement satisfies.                                                     *)
OutPending ==
  /\ step = asked
  /\ \/ shallowest >= asked.depth
     \/ dbg \in Leaving /\ Len(stack) < asked.depth

OutReturned ==
  step.kind = "into" /\ step.line = 0 /\ shallowest < asked.depth

(* The step in progress is the one asked for.                               *)
StepIsAsked ==
  IF asked.kind = "out" THEN OutPending \/ OutReturned ELSE step = asked

AskedOK ==
  asked \in StepValues /\ shallowest \in Depths /\ shallowest <= Len(stack)

(* A step being armed was read off the stack the debuggee is stopped with.  *)
ArmingInv ==
  srv = "arm" =>
    asked = want /\ asked.depth = Len(stack) /\ shallowest = Len(stack)

RearmInv == dbg = "rearm" => step.kind = "out" /\ Len(stack) < step.depth

AskedInv ==
  StrictClient => AskedOK /\ ArmingInv /\ (srv # "arm" => StepIsAsked) /\ RearmInv

LEMMA InitAsked == Init /\ asked = NoStep /\ shallowest = 0 => AskedInv
BY EmptySeq DEF Init, NoStep, AskedInv, AskedOK, ArmingInv, StepIsAsked,
   RearmInv, StepValues, Lines, Depths

(* A step of the session that no step request is about.                     *)
Elsewhere ==
  /\ UNCHANGED <<stack, step, want>>
  /\ UNCHANGED dbg \/ (dbg \notin Leaving /\ dbg' \notin Leaving)
  /\ srv = "arm" <=> srv' = "arm"
  /\ ~StepTaken /\ ~Resumed

LEMMA AskedWriters ==
  ASSUME PlacesOK, WorkerInv, [Next]_vars
  PROVE  \/ EnterMain \/ enter_frame \/ leave_frame \/ safepoint_frame
         \/ leave_reads_step \/ leave_arms_into \/ step_reached
         \/ resume \/ (\E kind \in StepKinds : step_request(kind)) \/ arm_step
         \/ Elsewhere
<1> USE DEF PlacesOK, WorkerInv, Elsewhere, Leaving, StepTaken, Resumed, vars, shared,
            worker, server, client
<1>1. CASE Program
  BY <1>1 DEF Program, EnterMain, enter_frame, raise_runtime_error,
              TrapReturn, fire_leave, fire_safepoint, program_ends, Goto
<1>2. CASE Hook
  BY <1>2 DEF Hook, leave_frame, leave_reads_step, leave_arms_into,
              safepoint_frame, arrived, take_stop_next, take_entry_stop,
              step_reached, match_breakpoint, stop_capture, stop_claim,
              on_stop, stop_park, worker_clears_hook, worker_reports, Onward,
              BackToUser, Goto
<1>3. CASE Requests
  BY <1>3 DEF Requests, launch, configuration_done, request_pause, resume,
              shutdown, set_breakpoints, step_request, Serving
<1>4. CASE Handler
  BY <1>4 DEF Handler, arm_step, wake, detach, stop_clears_hook, stop_joins,
              Release
<1>5. CASE SpuriousWake
  BY <1>5 DEF SpuriousWake, Onward, Goto
<1>6. CASE Over \/ UNCHANGED vars
  BY <1>6 DEF Over
<1> QED BY <1>1, <1>2, <1>3, <1>4, <1>5, <1>6 DEF Next

(* While a step is armed the debuggee is in its stop.                       *)
LEMMA ArmingHolds ==
  ASSUME StrictClient, IInv, srv = "arm"
  PROVE  dbg \in {"park", "waiting"}
BY DEF IInv, StrictInv, TeardownInv

(* A call adds a frame and a safepoint writes the top one.                  *)
LEMMA StackGrows ==
  ASSUME StackOK, SiteOK, EnterMain \/ enter_frame \/ safepoint_frame
  PROVE  Len(stack') >= Len(stack)
<1> USE DEF StackOK
<1>1. CASE EnterMain \/ enter_frame
  <2>1. CASE stack' = Append(stack, NoFrame)
    BY <2>1, AppendProperties DEF NoFrame, Frames, Sources, Lines
  <2>2. CASE UNCHANGED stack
    BY <2>2
  <2> QED BY <1>1, <2>1, <2>2 DEF EnterMain, enter_frame
<1>2. CASE safepoint_frame
  <2>1. [source |-> site.source, line |-> site.line] \in Frames
    BY SiteParts DEF SiteOK, Frames
  <2>2. CASE stack = <<>>
    BY <1>2, <2>2 DEF safepoint_frame
  <2>3. CASE stack # <<>>
    BY <1>2, <2>1, <2>3, FrontOfStack, AppendProperties DEF safepoint_frame
  <2> QED BY <2>2, <2>3
<1> QED BY <1>1, <1>2

(* What is asked for keeps to the step in progress, whoever moves.          *)
LEMMA AskedStep ==
  ASSUME StrictClient, IInv, IInv', AskedOK, ArmingInv, RearmInv,
         srv # "arm" => StepIsAsked, Next, Remember
  PROVE  AskedOK' /\ ArmingInv' /\ (srv' # "arm" => StepIsAsked') /\ RearmInv'
<1>t. /\ Len(stack) \in Depths /\ Len(stack') \in Depths
      /\ Depths \subseteq Nat /\ NoStep \in StepValues
      /\ want \in StepValues /\ want' \in StepValues
      /\ step \in StepValues /\ step' \in StepValues
      /\ PlacesOK /\ WorkerInv /\ SiteOK
  BY DEF IInv, TypeOK, StackOK, StepOK, Depths, NoStep, StepValues, Lines
<1>d. \A v \in StepValues : v.depth \in Nat /\ v.kind \in StepKinds \cup {"none"}
  BY <1>t DEF StepValues
<1>m. shallowest' = IF Requested \/ Len(stack') < shallowest
                    THEN Len(stack') ELSE shallowest
  BY DEF Remember
<1>h. asked' = IF Requested THEN want'
               ELSE IF StepTaken \/ Resumed THEN NoStep ELSE asked
  BY DEF Remember
<1>ok. AskedOK'
  BY <1>t, <1>m, <1>h DEF AskedOK
<1>a. srv = "arm" => dbg \in {"park", "waiting"}
  BY ArmingHolds
<1> USE <1>t, <1>d, <1>m, <1>h, <1>ok, <1>a
<1> USE DEF AskedOK, ArmingInv, RearmInv, StepIsAsked, OutPending, OutReturned,
            Leaving, Requested, StepTaken, Resumed, NoStep, StepKinds
<1>1. CASE \/ EnterMain \/ enter_frame \/ safepoint_frame
  <2>1. Len(stack') >= Len(stack) /\ UNCHANGED <<step, srv>> /\ srv # "arm"
    <3>1. UNCHANGED <<step, srv>> /\ dbg \notin {"park", "waiting"}
      BY <1>1 DEF EnterMain, enter_frame, safepoint_frame, Onward, Goto, server
    <3>2. Len(stack') >= Len(stack)
      BY <1>1, StackGrows DEF IInv, TypeOK
    <3> QED BY <3>1, <3>2
  <2>2. dbg \notin Leaving /\ dbg' \notin Leaving /\ ~StepTaken
    BY <1>1 DEF EnterMain, enter_frame, safepoint_frame, Onward, Goto
  <2> QED BY <2>1, <2>2
<1>2. CASE leave_frame
  <2>1. /\ dbg = "pop" /\ dbg' = "popped" /\ UNCHANGED <<step, srv>>
        /\ srv # "arm" /\ Len(stack') <= Len(stack)
    BY <1>2, FrontOfStack DEF leave_frame, Goto, server, IInv, TypeOK, StackOK
  <2> QED BY <2>1
<1>3. CASE leave_reads_step
  <2>1. /\ dbg = "popped" /\ UNCHANGED <<stack, step, srv>> /\ srv # "arm"
        /\ IF step.kind = "out" /\ Len(stack) < step.depth
           THEN dbg' = "rearm" ELSE dbg' = "user"
    BY <1>3 DEF leave_reads_step, Onward, BackToUser, Goto, shared, server
  <2> QED BY <2>1
<1>4. CASE leave_arms_into
  <2>1. /\ dbg = "rearm" /\ dbg' = "user" /\ UNCHANGED <<stack, srv>>
        /\ srv # "arm" /\ step'.kind = "into" /\ step'.line = 0
    BY <1>4 DEF leave_arms_into, BackToUser, Goto, server
  <2> QED BY <2>1
<1>5. CASE step_reached
  <2>1. dbg = "step" /\ UNCHANGED <<stack, srv>> /\ srv # "arm"
    BY <1>5 DEF step_reached, Onward, Goto, server
  <2>2. CASE dbg' = "capture" /\ step' = NoStep
    BY <2>1, <2>2
  <2>3. CASE dbg' = "match" /\ step' = step
    BY <2>1, <2>3
  <2> QED BY <1>5, <2>2, <2>3 DEF step_reached, Onward, Goto
<1>6. CASE resume
  <2>1. /\ srv = "idle" /\ srv' = "wake" /\ UNCHANGED <<stack, dbg>>
        /\ step' = NoStep
    BY <1>6 DEF resume, Controllable, worker
  <2>2. dbg \in {"park", "waiting"}
    BY <1>6 DEF resume, Controllable, IInv, StrictInv, TeardownInv
  <2> QED BY <2>1, <2>2
<1>7. CASE \E kind \in StepKinds : step_request(kind)
  <2>1. /\ srv = "idle" /\ srv' = "arm" /\ UNCHANGED <<stack, step, dbg>>
        /\ want'.depth = Len(stack)
    BY <1>7 DEF step_request, Controllable, Top, shared, worker
  <2> QED BY <2>1
<1>8. CASE arm_step
  <2>1. /\ srv = "arm" /\ srv' = "wake" /\ UNCHANGED <<stack, dbg>>
        /\ step' = want
    BY <1>8 DEF arm_step, worker
  <2> QED BY <2>1
<1>9. CASE Elsewhere
  BY <1>9 DEF Elsewhere
<1> QED BY <1>1, <1>2, <1>3, <1>4, <1>5, <1>6, <1>7, <1>8, <1>9, AskedWriters

(* The history variables change with the session or not at all.             *)
LEMMA AskedInvStep ==
  AskedInv /\ IInv /\ IInv' /\ [Next /\ Remember]_StepVars => AskedInv'
<1> SUFFICES ASSUME StrictClient, AskedInv, IInv, IInv',
                    [Next /\ Remember]_StepVars
             PROVE  AskedInv'
  BY DEF AskedInv
<1>1. CASE Next /\ Remember
  BY <1>1, AskedStep DEF AskedInv
<1>2. CASE UNCHANGED StepVars
  BY <1>2 DEF StepVars, vars, shared, worker, server, client, AskedInv,
              AskedOK, ArmingInv, StepIsAsked, OutPending, OutReturned, RearmInv
<1> QED BY <1>1, <1>2

THEOREM AskedInvariance == StepSpec => [](IInv /\ AskedInv)
<1>1. [Next /\ Remember]_StepVars => [Next]_vars
  BY DEF StepVars
<1> QED BY <1>1, InitIInv, IInvStep, InitAsked, AskedInvStep, PTL DEF StepSpec

(* Only step_reached takes the worker past the place where a step is asked  *)
(* for.                                                                     *)
LEMMA StepAnswered ==
  ASSUME PlacesOK, WorkerInv, Next, dbg = "step", dbg' # "step"
  PROVE  step_reached
<1> USE DEF PlacesOK, WorkerInv, vars, shared, worker, server, client
<1>1. CASE Program
  BY <1>1 DEF Program, EnterMain, enter_frame, raise_runtime_error,
              TrapReturn, fire_leave, fire_safepoint, program_ends, Goto
<1>2. CASE Hook
  BY <1>2 DEF Hook, leave_frame, leave_reads_step, leave_arms_into,
              safepoint_frame, arrived, take_stop_next, take_entry_stop,
              match_breakpoint, stop_capture, stop_claim,
              on_stop, stop_park, worker_clears_hook, worker_reports, Onward,
              BackToUser, Goto
<1>3. CASE Requests
  BY <1>3 DEF Requests, launch, configuration_done, request_pause, resume,
              shutdown, set_breakpoints, step_request
<1>4. CASE Handler
  BY <1>4 DEF Handler, arm_step, wake, detach, stop_clears_hook, stop_joins,
              Release
<1>5. CASE SpuriousWake
  BY <1>5 DEF SpuriousWake, Onward, Goto
<1>6. CASE Over
  BY <1>6 DEF Over
<1> QED BY <1>1, <1>2, <1>3, <1>4, <1>5, <1>6 DEF Next

(* What step_reached goes by, when the step asked for has a kind.           *)
LEMMA StepAnswer ==
  ASSUME StrictClient, IInv, AskedInv, [Next /\ Remember]_StepVars,
         dbg = "step", dbg' # "step"
  PROVE  /\ StepTaken <=> Reached(step, site.line, Len(stack))
         /\ StepIsAsked /\ asked \in StepValues
<1>1. Next
  BY DEF StepVars, vars, worker
<1>2. step_reached
  BY <1>1, StepAnswered DEF IInv, TypeOK
<1>3. StepTaken <=> Reached(step, site.line, Len(stack))
  BY <1>2 DEF step_reached, StepTaken, Onward, Goto
<1>4. srv # "arm"
  BY ArmingHolds
<1> QED BY <1>3, <1>4 DEF AskedInv, AskedOK

(* A step out stops where its frame has returned and nowhere before,        *)
(* however calls, breakpoints and other requests come in between.           *)
THEOREM StepOutStops == StrictClient => (StepSpec => StepOutStopsAfterReturn)
<1> SUFFICES ASSUME StrictClient PROVE StepSpec => StepOutStopsAfterReturn
  OBVIOUS
<1>1. IInv /\ AskedInv /\ [Next /\ Remember]_StepVars
        => (StepAsked("out") /\ site.line # 0
              => (StepTaken <=> shallowest < asked.depth))
  <2> SUFFICES ASSUME IInv, AskedInv, [Next /\ Remember]_StepVars,
                      StepAsked("out"), site.line # 0
               PROVE  StepTaken <=> shallowest < asked.depth
    OBVIOUS
  <2>1. /\ StepTaken <=> Reached(step, site.line, Len(stack))
        /\ StepIsAsked /\ asked \in StepValues
    BY StepAnswer DEF StepAsked
  <2>2. /\ asked.kind = "out" /\ asked.depth \in Nat
        /\ shallowest \in Nat /\ Len(stack) \in Nat /\ dbg = "step"
    BY <2>1 DEF StepAsked, StepValues, Depths, IInv, TypeOK, StackOK,
                AskedInv, AskedOK
  <2>3. CASE OutPending
    BY <2>1, <2>2, <2>3 DEF OutPending, Leaving, Reached
  <2>4. CASE OutReturned
    BY <2>1, <2>2, <2>4 DEF OutReturned, Reached
  <2> QED BY <2>1, <2>2, <2>3, <2>4 DEF StepIsAsked
<1> QED BY <1>1, AskedInvariance, PTL DEF StepSpec, StepOutStopsAfterReturn

(* A step over stops in no callee, and in its own frame on another line.    *)
THEOREM StepOverSkips == StrictClient => (StepSpec => StepOverSkipsCallees)
<1> SUFFICES ASSUME StrictClient PROVE StepSpec => StepOverSkipsCallees
  OBVIOUS
<1>1. IInv /\ AskedInv /\ [Next /\ Remember]_StepVars
        => (StepAsked("over") /\ StepTaken
              => \/ Len(stack) < asked.depth
                 \/ Len(stack) = asked.depth /\ site.line # asked.line)
  BY StepAnswer DEF StepAsked, StepIsAsked, Reached
<1> QED BY <1>1, AskedInvariance, PTL DEF StepSpec, StepOverSkipsCallees
=============================================================================
