---------------------------- MODULE DebugSession ----------------------------
(***************************************************************************)
(* The debug adapter (leek-dap) around one debuggee.                       *)
(*                                                                         *)
(* Two threads share one NativeDebugSession: the request loop, which runs  *)
(* one handler at a time, and the debuggee's worker, which calls the hook  *)
(* (safepoint, enter_frame, leave_frame) from compiled code.  Every lock   *)
(* the code takes is one step here, because a handler that needs two locks *)
(* takes them one after the other and the debuggee may run in between.     *)
(*                                                                         *)
(* The debuggee's program is abstracted to the calls, returns and          *)
(* statement safepoints it makes, chosen freely at each point.             *)
(***************************************************************************)
EXTENDS Integers, Sequences, SequencesExt

CONSTANTS
  Sites,         (* statement safepoints: [source, line, offset] records    *)
  Tables,        (* the breakpoint tables a client may send                 *)
  MaxDepth,      (* bound on the debuggee's call depth                      *)
  Rerun,         (* the program is entered again after main returns, as an  *)
                 (* AI is on each of its turns in a fight                   *)
  Trappable,     (* a run may end on its operation budget or on an error    *)
  StrictClient   (* the client resumes or steps only what it was told is    *)
                 (* stopped                                                 *)

Lines == { s.line : s \in Sites } \cup {0}
Sources == { s.source : s \in Sites } \cup {0}
Depths == 0 .. MaxDepth
Frames == [source : Sources, line : Lines]

ASSUME SitesAssumption == Sites \subseteq [source : Nat, line : Nat, offset : Nat]
ASSUME DepthAssumption == MaxDepth \in Nat \ {0}
ASSUME SwitchAssumption == {Rerun, Trappable, StrictClient} \subseteq BOOLEAN
(* A table gives each line it names what its breakpoint does: stop, or stop *)
(* only if its condition and hit count say so, or print and run on.         *)
ASSUME TableAssumption ==
  \A t \in Tables : \E L \in SUBSET (Sources \X Lines) : t \in [L -> {"stop", "ask", "log"}]

VARIABLES
  (* What the two threads share, each under its own lock or atomic.         *)
  stack,       (* the shadow call stack, bottom first                       *)
  snapshot,    (* frames captured at the most recent stop, top first        *)
  prev,        (* the safepoint executed before this one                    *)
  stop_next,   (* force a stop at the next safepoint                        *)
  entry_stop,  (* the forced stop is program entry                          *)
  step,        (* the step in progress                                      *)
  stopped,     (* Wait.stopped: a stop is claimed and not yet released      *)
  detached,    (* Wait.detached                                             *)
  table,       (* the breakpoint table                                      *)
  hook,        (* the controller is in the backend's hook slot              *)
  (* The debuggee's worker thread.                                          *)
  dbg,         (* where the worker is                                       *)
  site,        (* the safepoint being handled                               *)
  fresh,       (* what arrived() answered for it                            *)
  calls,       (* the real call depth of the compiled program               *)
  aborting,     (* the run has recorded an error: callees return at once    *)
  (* The request loop's thread.                                             *)
  srv,         (* where the request loop is                                 *)
  native_debug,(* the session has a controller                              *)
  want,        (* the step a handler is about to arm                        *)
  (* What the client has been told.                                         *)
  told,        (* a stop was announced and nothing has released it since    *)
  terminated   (* number of terminated events                               *)

shared == <<stack, snapshot, prev, stop_next, entry_stop, step, stopped,
            detached, table, hook>>
worker == <<dbg, site, fresh, calls, aborting>>
server == <<srv, native_debug, want>>
client == <<told, terminated>>
vars == <<shared, worker, server, client>>

NoSite == [source |-> 0, line |-> 0, offset |-> 0]
NoPrev == [depth |-> -1, source |-> 0, line |-> 0, offset |-> 0]
NoStep == [kind |-> "none", line |-> 0, depth |-> 0]
StepKinds == {"into", "over", "out"}
StepValues == [kind : StepKinds \cup {"none"}, line : Lines, depth : Depths]
NoFrame == [source |-> 0, line |-> 0]

StackOK ==
  /\ stack \in Seq(Frames) /\ Len(stack) <= MaxDepth
  /\ snapshot \in Seq(Frames)

SiteOK ==
  /\ prev \in {NoPrev} \cup
       [depth : Depths, source : Sources, line : Lines, offset : Nat]
  /\ site \in Sites \cup {NoSite}
  /\ table \in Tables

StepOK == step \in StepValues /\ want \in StepValues /\ calls \in Depths

FlagsOK ==
  /\ {stop_next, entry_stop, stopped, detached, hook} \subseteq BOOLEAN
  /\ {fresh, aborting, native_debug, told} \subseteq BOOLEAN

PlacesOK ==
  /\ dbg \in {"none", "start", "user", "frame", "arrive", "forced", "entry",
              "step", "match", "capture", "claim", "announce", "park",
              "waiting", "pop", "popped", "rearm", "unhook", "report", "done"}
  /\ srv \in {"new", "pending", "idle", "arm", "wake", "detach", "unhook",
              "poll", "joined", "abandoned"}
  /\ terminated \in 0 .. 1

TypeOK == StackOK /\ SiteOK /\ StepOK /\ FlagsOK /\ PlacesOK

Init ==
  /\ stack = <<>> /\ snapshot = <<>> /\ prev = NoPrev
  /\ stop_next = FALSE /\ entry_stop = FALSE
  /\ step = NoStep
  /\ stopped = FALSE /\ detached = FALSE
  /\ table \in Tables
  /\ hook = FALSE
  /\ dbg = "none" /\ site = NoSite /\ fresh = FALSE
  /\ calls = 0 /\ aborting = FALSE
  /\ srv = "new" /\ native_debug = FALSE /\ want = NoStep
  /\ told = FALSE /\ terminated = 0
-----------------------------------------------------------------------------
(***************************************************************************)
(* The debuggee's worker.  Goto moves it; back in user code it forgets the *)
(* safepoint it was handling.  Variants with a fault, named Bad*, stand    *)
(* before the definition they replace: each breaks one of the properties.  *)
(***************************************************************************)
Goto(from, to) == dbg = from /\ dbg' = to

BackToUser(from) ==
  /\ Goto(from, "user")
  /\ site' = NoSite /\ fresh' = FALSE
  /\ UNCHANGED <<calls, aborting>>

Onward(from, to) ==
  /\ Goto(from, to)
  /\ UNCHANGED <<site, fresh, calls, aborting>>

(* main is entered, by the first run or by a later turn: the run's error    *)
(* flag is reset and, with the hook installed, a shadow frame pushed.       *)
EnterMain ==
  /\ dbg = "start" \/ (Rerun /\ dbg = "user" /\ calls = 0)
  /\ dbg' = "user"
  /\ aborting' = FALSE
  /\ calls' = 1
  /\ IF hook
     THEN Len(stack) < MaxDepth /\ stack' = Append(stack, NoFrame)
     ELSE UNCHANGED stack
  /\ UNCHANGED <<snapshot, prev, stop_next, entry_stop, step, stopped,
                 detached, table, hook, site, fresh, server, client>>

(* A compiled function is called; once the run has failed its prologue      *)
(* returns before anything else happens.                                    *)
enter_frame ==
  /\ dbg = "user" /\ calls > 0 /\ calls < MaxDepth /\ ~aborting
  /\ calls' = calls + 1
  /\ IF hook
     THEN Len(stack) < MaxDepth /\ stack' = Append(stack, NoFrame)
     ELSE UNCHANGED stack
  /\ UNCHANGED <<snapshot, prev, stop_next, entry_stop, step, stopped,
                 detached, table, hook, dbg, site, fresh, aborting, server,
                 client>>

(* An error is recorded: the operation budget spent, the call depth at its  *)
(* limit, or one the program ran into.  The code goes on.                   *)
raise_runtime_error ==
  /\ Trappable
  /\ dbg = "user" /\ calls > 0
  /\ aborting' = TRUE
  /\ UNCHANGED <<shared, dbg, site, fresh, calls, server, client>>

(* A loop's back edge finds the error: the function returns its default     *)
(* value, past the leave hook.                                              *)
TrapReturn ==
  /\ dbg = "user" /\ calls > 0 /\ aborting
  /\ calls' = calls - 1
  /\ UNCHANGED <<shared, dbg, site, fresh, aborting, server, client>>

(* A real return, calling the leave hook first when one is installed.       *)
fire_leave ==
  /\ dbg = "user" /\ calls > 0
  /\ IF hook
     THEN dbg' = "pop" /\ UNCHANGED calls
     ELSE calls' = calls - 1 /\ UNCHANGED dbg
  /\ UNCHANGED <<shared, site, fresh, aborting, server, client>>

leave_frame ==
  /\ Goto("pop", "popped")
  /\ stack' = IF stack = <<>> THEN stack ELSE Front(stack)
  /\ calls' = calls - 1
  /\ UNCHANGED <<snapshot, prev, stop_next, entry_stop, step, stopped,
                 detached, table, hook, site, fresh, aborting, server, client>>

(* The step is copied out under its lock; only then, under the lock taken   *)
(* again, is it overwritten.                                                *)
BadLeaveOfCalleeEndsStep ==
  /\ IF step.kind = "out" /\ Len(stack) <= step.depth
     THEN Onward("popped", "rearm")
     ELSE BackToUser("popped")
  /\ UNCHANGED <<shared, server, client>>

leave_reads_step ==
  /\ IF step.kind = "out" /\ Len(stack) < step.depth
     THEN Onward("popped", "rearm")
     ELSE BackToUser("popped")
  /\ UNCHANGED <<shared, server, client>>

leave_arms_into ==
  /\ BackToUser("rearm")
  /\ step' = [kind |-> "into", line |-> 0, depth |-> Len(stack)]
  /\ UNCHANGED <<stack, snapshot, prev, stop_next, entry_stop, stopped,
                 detached, table, hook, server, client>>

(* A statement is about to run; the hook is looked up and called.           *)
fire_safepoint(s) ==
  /\ Goto("user", "frame") /\ calls > 0 /\ hook
  /\ site' = s
  /\ UNCHANGED <<shared, fresh, calls, aborting, server, client>>

safepoint_frame ==
  /\ Onward("frame", "arrive")
  /\ stack' = IF stack = <<>> THEN stack
              ELSE Append(Front(stack), [source |-> site.source, line |-> site.line])
  /\ UNCHANGED <<snapshot, prev, stop_next, entry_stop, step, stopped,
                 detached, table, hook, server, client>>

(* Whether this safepoint arrives at its line or merely stays on it.        *)
Arrives(p, now) ==
  \/ p = NoPrev
  \/ p.depth # now.depth
  \/ p.source # now.source
  \/ p.line # now.line
  \/ now.offset <= p.offset

arrived ==
  LET now == [depth |-> Len(stack), source |-> site.source,
              line |-> site.line, offset |-> site.offset]
  IN /\ Goto("arrive", "forced")
     /\ fresh' = Arrives(prev, now)
     /\ prev' = now
     /\ UNCHANGED <<stack, snapshot, stop_next, entry_stop, step, stopped,
                    detached, table, hook, site, calls, aborting, server,
                    client>>

take_stop_next ==
  /\ IF stop_next THEN Onward("forced", "entry") ELSE Onward("forced", "step")
  /\ stop_next' = FALSE
  /\ UNCHANGED <<stack, snapshot, prev, entry_stop, step, stopped, detached,
                 table, hook, server, client>>

take_entry_stop ==
  /\ Onward("entry", "capture")
  /\ entry_stop' = FALSE
  /\ UNCHANGED <<stack, snapshot, prev, stop_next, step, stopped, detached,
                 table, hook, server, client>>

BadReachedInCallee(s, line, depth) ==
  s.kind \in {"into", "over"} /\ (depth # s.depth \/ line # s.line)

Reached(s, line, depth) ==
  \/ s.kind = "into" /\ (depth # s.depth \/ line # s.line)
  \/ s.kind = "over" /\ (depth < s.depth \/ (depth = s.depth /\ line # s.line))

step_reached ==
  /\ IF Reached(step, site.line, Len(stack))
     THEN /\ Onward("step", "capture")
          /\ step' = NoStep
     ELSE /\ Onward("step", "match")
          /\ UNCHANGED step
  /\ UNCHANGED <<stack, snapshot, prev, stop_next, entry_stop, stopped,
                 detached, table, hook, server, client>>

(* What the breakpoint on this line does: a condition or a hit count may    *)
(* say either, a log message never stops.                                   *)
Fires(t, s) ==
  IF <<s.source, s.line>> \notin DOMAIN t THEN {"no"}
  ELSE CASE t[<<s.source, s.line>>] = "stop" -> {"yes"}
         [] t[<<s.source, s.line>>] = "ask" -> {"yes", "no"}
         [] OTHER -> {"no"}

match_breakpoint ==
  /\ \E answer \in (IF fresh THEN Fires(table, site) ELSE {"no"}) :
       IF answer = "yes" THEN Onward("match", "capture") ELSE BackToUser("match")
  /\ UNCHANGED <<shared, server, client>>

(* NativeDebugSession::stop: capture, claim, announce, park.                *)
BadCaptureOnce ==
  /\ Onward("capture", "claim")
  /\ snapshot' = IF snapshot = <<>> THEN Reverse(stack) ELSE snapshot
  /\ UNCHANGED <<stack, prev, stop_next, entry_stop, step, stopped, detached,
                 table, hook, server, client>>

stop_capture ==
  /\ Onward("capture", "claim")
  /\ snapshot' = Reverse(stack)
  /\ UNCHANGED <<stack, prev, stop_next, entry_stop, step, stopped, detached,
                 table, hook, server, client>>

BadClaimAfterDetach ==
  /\ Onward("claim", "announce") /\ stopped' = TRUE
  /\ UNCHANGED <<stack, snapshot, prev, stop_next, entry_stop, step, detached,
                 table, hook, server, client>>

stop_claim ==
  /\ IF detached
     THEN BackToUser("claim") /\ UNCHANGED stopped
     ELSE Onward("claim", "announce") /\ stopped' = TRUE
  /\ UNCHANGED <<stack, snapshot, prev, stop_next, entry_stop, step, detached,
                 table, hook, server, client>>

on_stop ==
  /\ Onward("announce", "park")
  /\ told' = TRUE
  /\ UNCHANGED <<shared, server, terminated>>

BadParkUntested ==
  /\ Onward("park", "waiting")
  /\ UNCHANGED <<shared, server, client>>

(* The flag is tested under the lock that waiting gives up, so a release    *)
(* comes before the test or finds this thread waiting.                      *)
stop_park ==
  /\ IF stopped THEN Onward("park", "waiting") ELSE BackToUser("park")
  /\ UNCHANGED <<shared, server, client>>

BadWakeUntested ==
  /\ BackToUser("waiting")
  /\ UNCHANGED <<shared, server, client>>

SpuriousWake ==
  /\ Onward("waiting", "park")
  /\ UNCHANGED <<shared, server, client>>

(* spawn_run after the program returned: give up its own hook, then report. *)
program_ends ==
  /\ Goto("user", "unhook") /\ calls = 0
  /\ UNCHANGED <<shared, site, fresh, calls, aborting, server, client>>

worker_clears_hook ==
  /\ Onward("unhook", "report")
  /\ hook' = FALSE
  /\ UNCHANGED <<stack, snapshot, prev, stop_next, entry_stop, step, stopped,
                 detached, table, server, client>>

worker_reports ==
  /\ Onward("report", "done")
  /\ terminated' = terminated + 1
  /\ UNCHANGED <<shared, server, told>>
-----------------------------------------------------------------------------
(***************************************************************************)
(* The request loop.                                                       *)
(***************************************************************************)
Serving == srv \in {"new", "pending", "idle"}

launch ==
  /\ srv = "new" /\ srv' = "pending"
  /\ UNCHANGED <<shared, worker, native_debug, want, client>>

(* Compile; a program that does not compile ends the session there.  A      *)
(* noDebug launch runs without a controller.                                *)
configuration_done ==
  /\ srv = "pending" /\ srv' = "idle"
  /\ \/ (* compile error *)
        /\ terminated' = terminated + 1
        /\ UNCHANGED <<stop_next, entry_stop, hook, dbg, native_debug>>
     \/ (* noDebug *)
        /\ dbg' = "start"
        /\ UNCHANGED <<stop_next, entry_stop, hook, native_debug, terminated>>
     \/ (* install_debug_hook *)
        /\ \E stop_on_entry \in BOOLEAN :
             stop_next' = stop_on_entry /\ entry_stop' = stop_on_entry
        /\ hook' = TRUE /\ native_debug' = TRUE /\ dbg' = "start"
        /\ UNCHANGED terminated
  /\ UNCHANGED <<stack, snapshot, prev, step, stopped, detached, table, site,
                 fresh, calls, aborting, want, told>>

set_breakpoints(t) ==
  /\ Serving
  /\ table' = t
  /\ UNCHANGED <<stack, snapshot, prev, stop_next, entry_stop, step, stopped,
                 detached, hook, worker, server, client>>

Controllable ==
  /\ srv = "idle" /\ native_debug
  /\ StrictClient => told

resume ==
  /\ Controllable
  /\ step' = NoStep
  /\ srv' = "wake"
  /\ UNCHANGED <<stack, snapshot, prev, stop_next, entry_stop, stopped,
                 detached, table, hook, worker, native_debug, want, client>>

(* stepIn, next and stepOut differ in the kind they arm: each reads the top *)
(* of the stack, writes the step, and wakes the debuggee.                   *)
Top(kind) ==
  [kind |-> kind,
   line |-> IF stack = <<>> \/ kind = "out" THEN 0 ELSE Last(stack).line,
   depth |-> Len(stack)]

step_request(kind) ==
  /\ Controllable
  /\ want' = Top(kind)
  /\ srv' = "arm"
  /\ UNCHANGED <<shared, worker, native_debug, client>>

arm_step ==
  /\ srv = "arm" /\ srv' = "wake"
  /\ step' = want /\ want' = NoStep
  /\ UNCHANGED <<stack, snapshot, prev, stop_next, entry_stop, stopped,
                 detached, table, hook, worker, native_debug, client>>

BadReleaseWithoutNotify ==
  /\ stopped' = FALSE /\ told' = FALSE
  /\ UNCHANGED dbg

(* Clear the flag and notify: a waiting debuggee goes back to test it.      *)
Release ==
  /\ stopped' = FALSE
  /\ dbg' = IF dbg = "waiting" THEN "park" ELSE dbg
  /\ told' = FALSE

wake ==
  /\ srv = "wake" /\ srv' = "idle"
  /\ Release
  /\ UNCHANGED <<stack, snapshot, prev, stop_next, entry_stop, step, detached,
                 table, hook, site, fresh, calls, aborting, native_debug, want,
                 terminated>>

request_pause ==
  /\ srv = "idle" /\ native_debug
  /\ stop_next' = TRUE
  /\ UNCHANGED <<stack, snapshot, prev, entry_stop, step, stopped, detached,
                 table, hook, worker, server, client>>

(* disconnect, terminate, or the client closing the pipe.                   *)
shutdown ==
  /\ Serving
  /\ srv' = IF native_debug THEN "detach" ELSE "poll"
  /\ UNCHANGED <<shared, worker, native_debug, want, client>>

BadDetachKeepsStop ==
  /\ srv = "detach" /\ srv' = "unhook"
  /\ native_debug' = FALSE
  /\ detached' = TRUE
  /\ UNCHANGED <<stack, snapshot, prev, stop_next, entry_stop, step, stopped,
                 table, hook, worker, want, client>>

detach ==
  /\ srv = "detach" /\ srv' = "unhook"
  /\ native_debug' = FALSE
  /\ detached' = TRUE
  /\ Release
  /\ UNCHANGED <<stack, snapshot, prev, stop_next, entry_stop, step, table,
                 hook, site, fresh, calls, aborting, want, terminated>>

BadStopKeepsHook ==
  /\ srv = "unhook" /\ srv' = "poll"
  /\ UNCHANGED <<shared, worker, native_debug, want, client>>

stop_clears_hook ==
  /\ srv = "unhook" /\ srv' = "poll"
  /\ hook' = FALSE
  /\ UNCHANGED <<stack, snapshot, prev, stop_next, entry_stop, step, stopped,
                 detached, table, worker, native_debug, want, client>>

BadJoinTerminatesAgain ==
  /\ srv = "poll"
  /\ srv' = IF dbg \in {"none", "done"} THEN "joined" ELSE "abandoned"
  /\ terminated' = terminated + 1
  /\ UNCHANGED <<shared, worker, native_debug, want, told>>

(* Join the worker, or give up on it after WORKER_EXIT.                     *)
stop_joins ==
  /\ srv = "poll"
  /\ srv' = IF dbg \in {"none", "done"} THEN "joined" ELSE "abandoned"
  /\ UNCHANGED <<shared, worker, native_debug, want, client>>
-----------------------------------------------------------------------------
(* The debuggee's own program and the steps the hook takes on its thread.   *)
Program ==
  \/ EnterMain \/ enter_frame \/ raise_runtime_error \/ TrapReturn
  \/ fire_leave
  \/ \E s \in Sites : fire_safepoint(s)
  \/ program_ends

Hook ==
  \/ leave_frame \/ leave_reads_step \/ leave_arms_into
  \/ safepoint_frame \/ arrived \/ take_stop_next \/ take_entry_stop
  \/ step_reached \/ match_breakpoint
  \/ stop_capture \/ stop_claim \/ on_stop \/ stop_park
  \/ worker_clears_hook \/ worker_reports

Requests ==
  \/ launch \/ configuration_done \/ request_pause \/ resume \/ shutdown
  \/ \E t \in Tables : set_breakpoints(t)
  \/ \E kind \in StepKinds : step_request(kind)

Handler == arm_step \/ wake \/ detach \/ stop_clears_hook \/ stop_joins

(* The session and its worker are both over.                                *)
Over ==
  /\ srv \in {"joined", "abandoned"} /\ dbg \in {"none", "done"}
  /\ UNCHANGED vars

Next == Program \/ Hook \/ SpuriousWake \/ Requests \/ Handler \/ Over

Spec == Init /\ [][Next]_vars

(* Threads keep running: a hook call and a handler, once begun, are carried *)
(* through.  The client owes nothing, and neither does the program.         *)
Fairness == WF_vars(Hook) /\ WF_vars(Handler)

FairSpec == Spec /\ Fairness
-----------------------------------------------------------------------------
(***************************************************************************)
(* Properties.                                                             *)
(***************************************************************************)
(* A debuggee asleep on the condition variable has a claimed stop that was  *)
(* announced and that no request has answered yet: a resume that came       *)
(* between the claim, the stopped event and the wait is never lost.         *)
ParkedIsAnswerable == dbg = "waiting" => stopped /\ told

(* While a client that resumes only what it was told is stopped believes    *)
(* the debuggee stopped, it is, and stackTrace answers with the stack it    *)
(* has at that very moment.                                                 *)
ToldIsStopped ==
  told /\ ~detached =>
    /\ stopped /\ dbg \in {"park", "waiting"}
    /\ snapshot = Reverse(stack)

(* Every frame captured at a stop is a frame of the running program.        *)
CapturedFramesAreLive == told /\ ~detached => Len(snapshot) = calls

(* A session that is over leaves no hook of its own behind, and a worker it *)
(* joined has said the program terminated, once.                            *)
OverLeavesNothing ==
  /\ srv \in {"joined", "abandoned"} => ~hook /\ ~stopped
  /\ srv = "joined" /\ dbg = "done" => terminated = 1

(* Once the session is torn down no stop is claimed again.                  *)
NoClaimAfterDetach == [][detached /\ ~stopped => ~stopped']_vars

(* Detaching frees a debuggee wherever in a stop it is, and it is never     *)
(* parked again.                                                            *)
DetachFreesTheDebuggee == detached ~> [](dbg \notin {"park", "waiting"})

(* A claimed stop is answered with control: once the client's request has   *)
(* released it, the debuggee leaves the stop.                               *)
ReleasedDebuggeeLeaves ==
  (dbg \in {"announce", "park", "waiting"} /\ ~stopped) ~> dbg = "user"
-----------------------------------------------------------------------------
(* The session implements StopProtocol for a client that answers only what  *)
(* it was told; what on_stop still announces after detach reaches no one.   *)
Abstract == INSTANCE StopProtocol WITH
  mode <- IF detached THEN "over" ELSE IF stopped THEN "held" ELSE "running",
  told <- told /\ ~detached,
  at <- IF dbg \in {"announce", "park", "waiting"} THEN "stop" ELSE "program"

ImplementsStopProtocol == Abstract!Spec
=============================================================================
