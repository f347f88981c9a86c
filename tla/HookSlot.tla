------------------------------ MODULE HookSlot ------------------------------
(***************************************************************************)
(* Debug sessions around the one hook slot of their process.               *)
(*                                                                         *)
(* The slot is all that compiled code knows of a debugger: whatever run a  *)
(* safepoint belongs to, it calls the controller that is installed now.    *)
(* An embedder serves several sessions, one after another or at a time,    *)
(* some without debugging; a session may launch again; and a session that  *)
(* ends abandons a debuggee that does not leave in time.  What a stop does *)
(* inside one controller is DebugSession's matter and one step here.       *)
(***************************************************************************)
EXTENDS Integers, FiniteSets

CONSTANTS
  Sessions,      (* the sessions of the process                             *)
  MaxLaunches    (* bound on the launches of each                           *)

ASSUME SlotAssumption == MaxLaunches \in Nat /\ <<>> \notin Sessions \X (1 .. MaxLaunches)

(* A debug run and its controller go by one name.                           *)
Runs == Sessions \X (1 .. MaxLaunches)
None == <<>>
SessionOf(r) == r[1]

VARIABLES
  slot,          (* HOOK: the controller installed                          *)
  srv,           (* each session's request loop: where it is                *)
  launches,      (* how often each session has launched                     *)
  native_debug,  (* the controller each session holds                       *)
  run_thread,    (* the worker each session holds                           *)
  at,            (* where each run's worker is                              *)
  within,        (* the controller it is parked in                          *)
  debug,         (* the run is compiled with safepoints                     *)
  stopped,       (* each controller's Wait: a stop is claimed               *)
  detached,      (* and the session is torn down                            *)
  latest         (* the last controller installed, to speak of it           *)

loops == <<srv, launches, native_debug, run_thread>>
workers == <<at, within, debug>>
waits == <<stopped, detached>>
vars == <<slot, loops, workers, waits, latest>>

TypeOK ==
  /\ slot \in Runs \cup {None} /\ latest \in Runs \cup {None}
  /\ srv \in [Sessions -> {"serving", "spawning", "unhook", "joining", "over"}]
  /\ launches \in [Sessions -> 0 .. MaxLaunches]
  /\ native_debug \in [Sessions -> Runs \cup {None}]
  /\ run_thread \in [Sessions -> Runs \cup {None}]
  /\ at \in [Runs -> {"none", "program", "parked", "unhook", "done"}]
  /\ within \in [Runs -> Runs \cup {None}]
  /\ debug \in [Runs -> BOOLEAN]
  /\ stopped \in [Runs -> BOOLEAN] /\ detached \in [Runs -> BOOLEAN]

Init ==
  /\ slot = None /\ latest = None
  /\ srv = [s \in Sessions |-> "serving"] /\ launches = [s \in Sessions |-> 0]
  /\ native_debug = [s \in Sessions |-> None] /\ run_thread = [s \in Sessions |-> None]
  /\ at = [r \in Runs |-> "none"] /\ within = [r \in Runs |-> None]
  /\ debug = [r \in Runs |-> FALSE]
  /\ stopped = [r \in Runs |-> FALSE] /\ detached = [r \in Runs |-> FALSE]
-----------------------------------------------------------------------------
(***************************************************************************)
(* The request loops.  Launching is two steps, because another session may *)
(* act between the installation of a hook and the start of its debuggee.   *)
(***************************************************************************)
Go(s, from, to) == srv[s] = from /\ srv' = [srv EXCEPT ![s] = to]

(* The run a session has counted last.                                      *)
Launched(s) == <<s, launches[s]>>

(* set_debug_hook overwrites whatever is in the slot, and the session its   *)
(* controller.                                                              *)
install_debug_hook(s) ==
  /\ native_debug' = [native_debug EXCEPT ![s] = <<s, launches[s] + 1>>]
  /\ debug' = [debug EXCEPT ![<<s, launches[s] + 1>>] = TRUE]
  /\ slot' = <<s, launches[s] + 1>> /\ latest' = slot'

configuration_done(s) ==
  /\ Go(s, "serving", "spawning") /\ launches[s] < MaxLaunches
  /\ launches' = [launches EXCEPT ![s] = @ + 1]
  /\ \/ install_debug_hook(s)
     \/ (* noDebug *) UNCHANGED <<slot, native_debug, debug, latest>>
  /\ UNCHANGED <<run_thread, at, within, waits>>

spawn_run(s) ==
  /\ Go(s, "spawning", "serving")
  /\ run_thread' = [run_thread EXCEPT ![s] = Launched(s)]
  /\ at' = [at EXCEPT ![Launched(s)] = "program"]
  /\ UNCHANGED <<slot, launches, native_debug, within, debug, waits, latest>>

(* continue and the steps.                                                  *)
resume(s) ==
  /\ srv[s] = "serving" /\ native_debug[s] # None
  /\ stopped' = [stopped EXCEPT ![native_debug[s]] = FALSE]
  /\ UNCHANGED <<slot, loops, workers, detached, latest>>

BadDetach(s) ==
  /\ Go(s, "serving", IF native_debug[s] = None THEN "joining" ELSE "unhook")
  /\ UNCHANGED stopped
  /\ detached' = [r \in Runs |-> detached[r] \/ r = native_debug[s]]
  /\ UNCHANGED <<slot, launches, native_debug, run_thread, workers, latest>>

(* Session::stop, whatever ended the loop.                                  *)
detach(s) ==
  /\ Go(s, "serving", IF native_debug[s] = None THEN "joining" ELSE "unhook")
  /\ stopped' = [r \in Runs |-> stopped[r] /\ r # native_debug[s]]
  /\ detached' = [r \in Runs |-> detached[r] \/ r = native_debug[s]]
  /\ UNCHANGED <<slot, launches, native_debug, run_thread, workers, latest>>

BadClear(hook) == slot' = None

(* Only the hook it is handed, and only if that is the one installed.       *)
clear_debug_hook(hook) == slot' = IF slot = hook THEN None ELSE slot

BadStopKeepsHook(s) ==
  /\ Go(s, "unhook", "joining")
  /\ native_debug' = [native_debug EXCEPT ![s] = None]
  /\ UNCHANGED <<slot, launches, run_thread, workers, waits, latest>>

stop_clears(s) ==
  /\ Go(s, "unhook", "joining")
  /\ clear_debug_hook(native_debug[s])
  /\ native_debug' = [native_debug EXCEPT ![s] = None]
  /\ UNCHANGED <<launches, run_thread, workers, waits, latest>>

(* Joined, or abandoned after WORKER_EXIT: either way let go of.            *)
stop_joins(s) ==
  /\ Go(s, "joining", "over")
  /\ run_thread' = [run_thread EXCEPT ![s] = None]
  /\ UNCHANGED <<slot, launches, native_debug, workers, waits, latest>>
-----------------------------------------------------------------------------
(***************************************************************************)
(* The debuggees.                                                          *)
(***************************************************************************)
Move(r, from, to) == at[r] = from /\ at' = [at EXCEPT ![r] = to]

(* A safepoint at which the installed controller stops, unless detached.    *)
fire_safepoint(r) ==
  /\ debug[r] /\ slot # None /\ ~detached[slot]
  /\ Move(r, "program", "parked")
  /\ within' = [within EXCEPT ![r] = slot]
  /\ stopped' = [stopped EXCEPT ![slot] = TRUE]
  /\ UNCHANGED <<slot, loops, debug, detached, latest>>

leave_stop(r) ==
  /\ within[r] # None /\ ~stopped[within[r]]
  /\ Move(r, "parked", "program")
  /\ within' = [within EXCEPT ![r] = None]
  /\ UNCHANGED <<slot, loops, debug, waits, latest>>

program_ends(r) ==
  /\ Move(r, "program", "unhook")
  /\ UNCHANGED <<slot, loops, within, debug, waits, latest>>

(* A run removes the hook it installed, and a noDebug run none.             *)
worker_clears(r) ==
  /\ Move(r, "unhook", "done")
  /\ IF debug[r] THEN clear_debug_hook(r) ELSE UNCHANGED slot
  /\ UNCHANGED <<loops, within, debug, waits, latest>>

Next ==
  \/ \E s \in Sessions : \/ configuration_done(s) \/ spawn_run(s) \/ resume(s)
                         \/ detach(s) \/ stop_clears(s) \/ stop_joins(s)
  \/ \E r \in Runs : \/ fire_safepoint(r) \/ leave_stop(r)
                     \/ program_ends(r) \/ worker_clears(r)

Spec == Init /\ [][Next]_vars
-----------------------------------------------------------------------------
(***************************************************************************)
(* Properties.                                                             *)
(***************************************************************************)
(* "Whoever installs a hook removes that hook, and a run that installed     *)
(* none removes nothing": the controller installed last stays, whatever     *)
(* other runs finish and other sessions end, until its own session or its   *)
(* own run is over.                                                         *)
LiveSessionKeepsItsHook ==
  \/ latest = None \/ slot = latest
  \/ srv[SessionOf(latest)] \in {"joining", "over"} \/ at[latest] = "done"

(* A debuggee held in a stop can be answered: some session still holds the  *)
(* controller, unless that session launched again over it.                  *)
HeldIsAnswerable ==
  \A r \in Runs :
    at[r] = "parked" /\ stopped[within[r]] =>
      LET s == SessionOf(within[r])
      IN native_debug[s] = within[r] \/ launches[s] > within[r][2]

(* Sessions that are over leave no controller in the slot for the debuggees *)
(* they abandoned, or for anybody's.                                        *)
OverLeavesNoHook == \A s \in Sessions : srv[s] = "over" => slot = None \/ SessionOf(slot) # s
=============================================================================
