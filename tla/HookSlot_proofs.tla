--------------------------- MODULE HookSlot_proofs ---------------------------
(***************************************************************************)
(* That no session takes another's hook away or leaves its own behind, for *)
(* any number of sessions and launches.                                    *)
(***************************************************************************)
EXTENDS HookSlot, TLAPS

(* A controller belongs to the session that launched it, which counted it.  *)
Owned ==
  \A s \in Sessions :
    native_debug[s] # None => /\ SessionOf(native_debug[s]) = s
                              /\ native_debug[s][2] <= launches[s]

(* The controller in the slot is the one its session holds.                 *)
SlotIsHeld == slot # None => native_debug[SessionOf(slot)] = slot

(* Runs not yet started, the one about to start among them.                 *)
Unstarted ==
  \A s \in Sessions :
    /\ srv[s] = "spawning" => launches[s] > 0 /\ at[<<s, launches[s]>>] = "none"
    /\ \A n \in 1 .. MaxLaunches : n > launches[s] => at[<<s, n>>] = "none"

(* A worker is parked in some controller.                                   *)
Parked == \A r \in Runs : at[r] = "parked" => within[r] # None

(* A session on its way out: its controller is detached, then let go of.    *)
Leaving ==
  \A s \in Sessions :
    /\ srv[s] = "unhook" => /\ native_debug[s] # None
                            /\ detached[native_debug[s]] /\ ~stopped[native_debug[s]]
    /\ srv[s] \in {"joining", "over"} => native_debug[s] = None

IInv == TypeOK /\ Owned /\ SlotIsHeld /\ Unstarted /\ Parked /\ Leaving
        /\ LiveSessionKeepsItsHook /\ HeldIsAnswerable
-----------------------------------------------------------------------------
LEMMA RunsAreRuns ==
  /\ None \notin Runs
  /\ \A r \in Runs : r[1] \in Sessions /\ r[2] \in 1 .. MaxLaunches /\ r = <<r[1], r[2]>>
  /\ \A s \in Sessions, n \in 1 .. MaxLaunches :
       <<s, n>> \in Runs /\ <<s, n>>[1] = s /\ <<s, n>>[2] = n
BY SlotAssumption DEF Runs, None

LEMMA InitIInv == Init => IInv
<1> SUFFICES ASSUME Init PROVE IInv
  OBVIOUS
<1> USE SlotAssumption, RunsAreRuns DEF Init
<1>1. TypeOK
  BY DEF TypeOK
<1>2. Owned /\ SlotIsHeld /\ Unstarted /\ Parked /\ Leaving
  BY DEF Owned, SlotIsHeld, Unstarted, Parked, Leaving
<1>3. LiveSessionKeepsItsHook /\ HeldIsAnswerable
  BY DEF LiveSessionKeepsItsHook, HeldIsAnswerable
<1> QED
  BY <1>1, <1>2, <1>3 DEF IInv

-----------------------------------------------------------------------------
(* One lemma for each step of a request loop.                               *)

LEMMA LaunchKeeps ==
  ASSUME IInv, NEW s \in Sessions, configuration_done(s)
  PROVE  IInv'
<1>1. /\ TypeOK /\ Owned /\ SlotIsHeld /\ Unstarted /\ Parked /\ Leaving
      /\ LiveSessionKeepsItsHook /\ HeldIsAnswerable
  BY DEF IInv
<1>2. /\ srv[s] = "serving" /\ srv' = [srv EXCEPT ![s] = "spawning"]
      /\ launches[s] < MaxLaunches /\ launches' = [launches EXCEPT ![s] = @ + 1]
      /\ UNCHANGED <<run_thread, at, within, stopped, detached>>
  BY DEF configuration_done, Go, waits
<1>3. MaxLaunches \in Nat /\ \A t \in Sessions : launches[t] \in 0 .. MaxLaunches
  BY <1>1, SlotAssumption DEF TypeOK
<1> DEFINE n == launches[s] + 1
           r == <<s, n>>
<1>4. n \in 1 .. MaxLaunches /\ n > 0
  BY <1>2, <1>3
<1>5. r \in Runs /\ r[1] = s /\ r[2] = n
  <2> HIDE DEF n
  <2> QED
    BY <1>4, RunsAreRuns
<1>6. \/ /\ native_debug' = [native_debug EXCEPT ![s] = r]
         /\ debug' = [debug EXCEPT ![r] = TRUE] /\ slot' = r /\ latest' = r
      \/ UNCHANGED <<slot, native_debug, debug, latest>>
  BY DEF configuration_done, install_debug_hook
<1>7. /\ launches' = [launches EXCEPT ![s] = n]
      /\ launches'[s] = n
      /\ \A t \in Sessions \ {s} : launches'[t] = launches[t] /\ srv'[t] = srv[t]
      /\ srv'[s] = "spawning"
  BY <1>1, <1>2 DEF TypeOK
<1>8. r = <<s, n>> /\ launches[s] < n
  BY <1>3
<1> HIDE DEF r
<1>9. at[r] = "none"
  <2>1. \A m \in 1 .. MaxLaunches : m > launches[s] => at[<<s, m>>] = "none"
    BY <1>1 DEF Unstarted
  <2> QED
    BY <2>1, <1>4, <1>8
<1> HIDE DEF n
<1>10. n \in Int /\ \A t \in Sessions : launches[t] \in Int
  BY <1>3, <1>4
<1>11. TypeOK'
  <2>1. launches' \in [Sessions -> 0 .. MaxLaunches]
    BY <1>1, <1>3, <1>4, <1>7 DEF TypeOK
  <2>2. srv' \in [Sessions -> {"serving", "spawning", "unhook", "joining", "over"}]
    BY <1>1, <1>2 DEF TypeOK
  <2>3. /\ slot' \in Runs \cup {None} /\ latest' \in Runs \cup {None}
        /\ native_debug' \in [Sessions -> Runs \cup {None}]
        /\ debug' \in [Runs -> BOOLEAN]
    BY <1>1, <1>5, <1>6 DEF TypeOK
  <2> QED
    BY <1>1, <1>2, <2>1, <2>2, <2>3 DEF TypeOK
<1>12. \A t \in Sessions \ {s} : native_debug'[t] = native_debug[t]
  BY <1>1, <1>6 DEF TypeOK
<1>13. native_debug'[s] = native_debug[s] \/ native_debug'[s] = r
  BY <1>1, <1>6 DEF TypeOK
<1>14. Owned'
  <2> SUFFICES ASSUME NEW t \in Sessions, native_debug'[t] # None
               PROVE  native_debug'[t][1] = t /\ native_debug'[t][2] <= launches'[t]
    BY DEF Owned, SessionOf
  <2>1. native_debug[t] # None =>
          native_debug[t][1] = t /\ native_debug[t][2] <= launches[t]
    BY <1>1 DEF Owned, SessionOf
  <2>2. native_debug[t] # None => native_debug[t][2] \in Int
    BY <1>1, RunsAreRuns DEF TypeOK
  <2>3. CASE t # s
    BY <2>1, <2>3, <1>7, <1>12
  <2>4. CASE native_debug'[s] = native_debug[s] /\ t = s
    BY <2>1, <2>2, <2>4, <1>7, <1>8, <1>10
  <2>5. CASE native_debug'[s] = r /\ t = s
    BY <2>5, <1>5, <1>7, <1>10
  <2> QED
    BY <1>13, <2>3, <2>4, <2>5
<1>15. SlotIsHeld'
  <2>1. CASE slot' = r /\ native_debug' = [native_debug EXCEPT ![s] = r]
    BY <2>1, <1>1, <1>5 DEF SlotIsHeld, SessionOf, TypeOK
  <2>2. CASE UNCHANGED <<slot, native_debug>>
    BY <2>2, <1>1 DEF SlotIsHeld, SessionOf
  <2> QED
    BY <1>6, <2>1, <2>2
<1>16. Unstarted'
  <2> SUFFICES ASSUME NEW t \in Sessions
               PROVE  /\ srv'[t] = "spawning" => /\ launches'[t] > 0
                                                 /\ at[<<t, launches'[t]>>] = "none"
                      /\ \A m \in 1 .. MaxLaunches :
                           m > launches'[t] => at[<<t, m>>] = "none"
    BY <1>2 DEF Unstarted
  <2>1. /\ srv[t] = "spawning" => launches[t] > 0 /\ at[<<t, launches[t]>>] = "none"
        /\ \A m \in 1 .. MaxLaunches : m > launches[t] => at[<<t, m>>] = "none"
    BY <1>1 DEF Unstarted
  <2>2. CASE t # s
    BY <2>1, <2>2, <1>7
  <2>3. CASE t = s
    <3>1. launches'[t] > 0 /\ at[<<t, launches'[t]>>] = "none"
      BY <2>3, <1>4, <1>7, <1>8, <1>9
    <3>2. \A m \in 1 .. MaxLaunches : m > launches'[t] => m > launches[t]
      BY <2>3, <1>7, <1>8, <1>10
    <3> QED
      BY <2>1, <3>1, <3>2
  <2> QED
    BY <2>2, <2>3
<1>17. Leaving'
  BY <1>1, <1>2, <1>7, <1>12 DEF Leaving
<1>18. LiveSessionKeepsItsHook'
  <2>1. CASE slot' = latest'
    BY <2>1 DEF LiveSessionKeepsItsHook
  <2>2. CASE UNCHANGED <<slot, latest>>
    <3>1. latest # None => latest[1] \in Sessions
      BY <1>1, RunsAreRuns DEF TypeOK
    <3> QED
      BY <2>2, <3>1, <1>1, <1>2, <1>7 DEF LiveSessionKeepsItsHook, SessionOf
  <2> QED
    BY <1>6, <2>1, <2>2
<1>19. HeldIsAnswerable'
  <2> SUFFICES ASSUME NEW q \in Runs, at[q] = "parked", stopped[within[q]]
               PROVE  \/ native_debug'[within[q][1]] = within[q]
                      \/ launches'[within[q][1]] > within[q][2]
    BY <1>2 DEF HeldIsAnswerable, SessionOf
  <2>1. \/ native_debug[within[q][1]] = within[q]
        \/ launches[within[q][1]] > within[q][2]
    BY <1>1 DEF HeldIsAnswerable, SessionOf
  <2>2. within[q] \in Runs
    BY <1>1 DEF Parked, TypeOK
  <2> DEFINE t == within[q][1]  m == within[q][2]
  <2>3. t \in Sessions /\ m \in Int
    BY <2>2, RunsAreRuns
  <2>4. native_debug[t] = within[q] => m <= launches[t]
    BY <2>2, <2>3, <1>1, RunsAreRuns DEF Owned
  <2> HIDE DEF t, m
  <2>5. launches'[t] > m \/ native_debug'[t] = within[q]
    <3>1. CASE t # s
      BY <3>1, <2>1, <2>3, <1>7, <1>12 DEF t, m
    <3>2. CASE t = s
      <4>1. launches[s] >= m
        BY <3>2, <2>1, <2>3, <2>4, <1>10 DEF t, m
      <4> QED
        BY <3>2, <4>1, <2>3, <1>7, <1>8, <1>10
    <3> QED
      BY <3>1, <3>2
  <2> QED
    BY <2>5 DEF t, m
<1>20. Parked'
  BY <1>1, <1>2 DEF Parked
<1> QED
  BY <1>11, <1>14, <1>15, <1>16, <1>17, <1>18, <1>19, <1>20 DEF IInv

LEMMA SpawnKeeps ==
  ASSUME IInv, NEW s \in Sessions, spawn_run(s)
  PROVE  IInv'
<1>1. /\ TypeOK /\ Owned /\ SlotIsHeld /\ Unstarted /\ Parked /\ Leaving
      /\ LiveSessionKeepsItsHook /\ HeldIsAnswerable
  BY DEF IInv
<1> DEFINE r == <<s, launches[s]>>
<1>2. /\ srv[s] = "spawning" /\ srv' = [srv EXCEPT ![s] = "serving"]
      /\ run_thread' = [run_thread EXCEPT ![s] = r]
      /\ at' = [at EXCEPT ![r] = "program"]
      /\ UNCHANGED <<slot, launches, native_debug, within, debug, stopped, detached, latest>>
  BY DEF spawn_run, Go, Launched, waits
<1>3. launches[s] \in 1 .. MaxLaunches /\ launches \in [Sessions -> 0 .. MaxLaunches]
  BY <1>1, <1>2, SlotAssumption DEF TypeOK, Unstarted
<1>4. r \in Runs /\ r[1] = s /\ r[2] = launches[s] /\ at[r] = "none"
  BY <1>1, <1>2, <1>3, RunsAreRuns DEF Unstarted
<1>5. \A t \in Sessions, m \in 1 .. MaxLaunches :
        m > launches[t] => <<t, m>> # r /\ <<t, m>> \in Runs
  <2> SUFFICES ASSUME NEW t \in Sessions, NEW m \in 1 .. MaxLaunches, m > launches[t]
               PROVE  <<t, m>> # r /\ <<t, m>> \in Runs
    OBVIOUS
  <2>1. <<t, m>>[1] = t /\ <<t, m>>[2] = m /\ <<t, m>> \in Runs
    BY RunsAreRuns
  <2>2. m # launches[t]
    BY <1>3
  <2> QED
    BY <2>1, <2>2, <1>4
<1> HIDE DEF r
<1>6. TypeOK'
  BY <1>1, <1>2, <1>4 DEF TypeOK
<1>7. /\ srv'[s] = "serving" /\ \A t \in Sessions \ {s} : srv'[t] = srv[t]
      /\ at'[r] = "program" /\ \A q \in Runs \ {r} : at'[q] = at[q]
  BY <1>1, <1>2, <1>4 DEF TypeOK
<1>8. Owned' /\ SlotIsHeld'
  BY <1>1, <1>2 DEF Owned, SlotIsHeld, SessionOf
<1>9. Unstarted'
  <2> SUFFICES ASSUME NEW t \in Sessions
               PROVE  /\ srv'[t] = "spawning" => /\ launches[t] > 0
                                                 /\ at'[<<t, launches[t]>>] = "none"
                      /\ \A m \in 1 .. MaxLaunches :
                           m > launches[t] => at'[<<t, m>>] = "none"
    BY <1>2 DEF Unstarted
  <2>1. /\ srv[t] = "spawning" => launches[t] > 0 /\ at[<<t, launches[t]>>] = "none"
        /\ \A m \in 1 .. MaxLaunches : m > launches[t] => at[<<t, m>>] = "none"
    BY <1>1 DEF Unstarted
  <2>2. \A m \in 1 .. MaxLaunches : m > launches[t] => at'[<<t, m>>] = "none"
    BY <2>1, <1>5, <1>7
  <2>3. ASSUME srv'[t] = "spawning"
        PROVE  launches[t] > 0 /\ at'[<<t, launches[t]>>] = "none"
    <3>1. t # s /\ srv[t] = "spawning"
      BY <2>3, <1>7
    <3>2. launches[t] \in 1 .. MaxLaunches
      BY <3>1, <2>1, <1>3, SlotAssumption
    <3>3. <<t, launches[t]>> \in Runs /\ <<t, launches[t]>>[1] = t
      BY <3>2, RunsAreRuns
    <3> QED
      BY <3>1, <3>3, <2>1, <1>4, <1>7
  <2> QED
    BY <2>2, <2>3
<1>10. Parked' /\ Leaving'
  BY <1>1, <1>2, <1>7 DEF Parked, Leaving
<1>11. LiveSessionKeepsItsHook'
  <2>1. latest # None => latest[1] \in Sessions /\ latest \in Runs
    BY <1>1, RunsAreRuns DEF TypeOK
  <2> QED
    BY <2>1, <1>1, <1>2, <1>4, <1>7 DEF LiveSessionKeepsItsHook, SessionOf
<1>12. HeldIsAnswerable'
  BY <1>1, <1>2, <1>7 DEF HeldIsAnswerable, SessionOf
<1> QED
  BY <1>6, <1>8, <1>9, <1>10, <1>11, <1>12 DEF IInv

LEMMA ResumeKeeps ==
  ASSUME IInv, NEW s \in Sessions, resume(s)
  PROVE  IInv'
<1>1. /\ TypeOK /\ Owned /\ SlotIsHeld /\ Unstarted /\ Parked /\ Leaving
      /\ LiveSessionKeepsItsHook /\ HeldIsAnswerable
  BY DEF IInv
<1>2. /\ native_debug[s] # None
      /\ stopped' = [stopped EXCEPT ![native_debug[s]] = FALSE]
      /\ UNCHANGED <<slot, srv, launches, native_debug, run_thread, at, within, debug,
                     detached, latest>>
  BY DEF resume, loops, workers
<1>3. native_debug[s] \in Runs
  BY <1>1, <1>2 DEF TypeOK
<1>4. TypeOK'
  BY <1>1, <1>2, <1>3 DEF TypeOK
<1>5. \A r \in Runs : stopped'[r] => stopped[r]
  BY <1>1, <1>2, <1>3 DEF TypeOK
<1>6. Owned' /\ SlotIsHeld' /\ Unstarted' /\ Parked' /\ LiveSessionKeepsItsHook'
  BY <1>1, <1>2
     DEF Owned, SlotIsHeld, Unstarted, Parked, LiveSessionKeepsItsHook, SessionOf
<1>7. Leaving'
  BY <1>1, <1>2, <1>5 DEF Leaving, TypeOK
<1>8. HeldIsAnswerable'
  BY <1>1, <1>2, <1>5 DEF HeldIsAnswerable, Parked, TypeOK
<1> QED
  BY <1>4, <1>6, <1>7, <1>8 DEF IInv

LEMMA DetachKeeps ==
  ASSUME IInv, NEW s \in Sessions, detach(s)
  PROVE  IInv'
<1>1. /\ TypeOK /\ Owned /\ SlotIsHeld /\ Unstarted /\ Parked /\ Leaving
      /\ LiveSessionKeepsItsHook /\ HeldIsAnswerable
  BY DEF IInv
<1> DEFINE to == IF native_debug[s] = None THEN "joining" ELSE "unhook"
<1>2. /\ srv[s] = "serving" /\ srv' = [srv EXCEPT ![s] = to]
      /\ stopped' = [r \in Runs |-> stopped[r] /\ r # native_debug[s]]
      /\ detached' = [r \in Runs |-> detached[r] \/ r = native_debug[s]]
      /\ UNCHANGED <<slot, launches, native_debug, run_thread, at, within, debug, latest>>
  BY DEF detach, Go, workers
<1>3. TypeOK'
  <2>1. to \in {"unhook", "joining"}
    OBVIOUS
  <2>2. stopped' \in [Runs -> BOOLEAN] /\ detached' \in [Runs -> BOOLEAN]
    BY <1>1, <1>2 DEF TypeOK
  <2> HIDE DEF to
  <2> QED
    BY <1>1, <1>2, <2>1, <2>2 DEF TypeOK
<1>4. /\ srv'[s] = to /\ \A t \in Sessions \ {s} : srv'[t] = srv[t]
      /\ to = "joining" => native_debug[s] = None
      /\ to = "unhook" => native_debug[s] # None
      /\ to \in {"joining", "unhook"}
  BY <1>1, <1>2 DEF TypeOK
<1> HIDE DEF to
<1>5. /\ \A r \in Runs : stopped'[r] <=> stopped[r] /\ r # native_debug[s]
      /\ \A r \in Runs : detached'[r] <=> detached[r] \/ r = native_debug[s]
  BY <1>2
<1>6. Owned' /\ SlotIsHeld' /\ Parked'
  BY <1>1, <1>2 DEF Owned, SlotIsHeld, Parked, SessionOf
<1>7. Unstarted'
  BY <1>1, <1>2, <1>4 DEF Unstarted
<1>8. Leaving'
  BY <1>1, <1>2, <1>4, <1>5 DEF Leaving, TypeOK
<1>9. LiveSessionKeepsItsHook'
  <2>1. latest # None => latest[1] \in Sessions
    BY <1>1, RunsAreRuns DEF TypeOK
  <2>2. slot = latest \/ srv'[latest[1]] = srv[latest[1]]
             \/ srv'[latest[1]] = "joining" \/ latest = None
             \/ at[latest] = "done"
    BY <2>1, <1>1, <1>2, <1>4 DEF LiveSessionKeepsItsHook, SessionOf
  <2> QED
    BY <2>1, <2>2, <1>1, <1>2, <1>4 DEF LiveSessionKeepsItsHook, SessionOf
<1>10. HeldIsAnswerable'
  BY <1>1, <1>2, <1>5 DEF HeldIsAnswerable, Parked, TypeOK
<1> QED
  BY <1>3, <1>6, <1>7, <1>8, <1>9, <1>10 DEF IInv

LEMMA StopClearsKeeps ==
  ASSUME IInv, NEW s \in Sessions, stop_clears(s)
  PROVE  IInv'
<1>1. /\ TypeOK /\ Owned /\ SlotIsHeld /\ Unstarted /\ Parked /\ Leaving
      /\ LiveSessionKeepsItsHook /\ HeldIsAnswerable
  BY DEF IInv
<1>2. /\ srv[s] = "unhook" /\ srv' = [srv EXCEPT ![s] = "joining"]
      /\ slot' = (IF slot = native_debug[s] THEN None ELSE slot)
      /\ native_debug' = [native_debug EXCEPT ![s] = None]
      /\ UNCHANGED <<launches, run_thread, at, within, debug, stopped, detached, latest>>
  BY DEF stop_clears, Go, clear_debug_hook, workers, waits
<1>3. native_debug[s] \in Runs /\ native_debug[s][1] = s /\ ~stopped[native_debug[s]]
  BY <1>1, <1>2 DEF TypeOK, Leaving, Owned, SessionOf
<1>4. TypeOK'
  BY <1>1, <1>2 DEF TypeOK
<1>5. /\ srv'[s] = "joining" /\ \A t \in Sessions \ {s} : srv'[t] = srv[t]
      /\ native_debug'[s] = None
      /\ \A t \in Sessions \ {s} : native_debug'[t] = native_debug[t]
  BY <1>1, <1>2 DEF TypeOK
<1>6. Owned' /\ Unstarted' /\ Parked' /\ Leaving'
  BY <1>1, <1>2, <1>5 DEF Owned, Unstarted, Parked, Leaving, SessionOf
<1>7. slot # None => slot[1] \in Sessions /\ slot \in Runs
  BY <1>1, RunsAreRuns DEF TypeOK
<1>8. SlotIsHeld'
  BY <1>1, <1>2, <1>5, <1>7 DEF SlotIsHeld, SessionOf
<1>9. LiveSessionKeepsItsHook'
  <2>1. latest # None => latest[1] \in Sessions
    BY <1>1, RunsAreRuns DEF TypeOK
  <2> QED
    BY <2>1, <1>1, <1>2, <1>3, <1>5 DEF LiveSessionKeepsItsHook, SessionOf
<1>10. HeldIsAnswerable'
  <2> SUFFICES ASSUME NEW q \in Runs, at[q] = "parked", stopped[within[q]]
               PROVE  \/ native_debug'[within[q][1]] = within[q]
                      \/ launches[within[q][1]] > within[q][2]
    BY <1>2 DEF HeldIsAnswerable, SessionOf
  <2>1. \/ native_debug[within[q][1]] = within[q]
        \/ launches[within[q][1]] > within[q][2]
    BY <1>1 DEF HeldIsAnswerable, SessionOf
  <2>2. within[q] \in Runs /\ within[q][1] \in Sessions
    BY <1>1, RunsAreRuns DEF Parked, TypeOK
  <2> QED
    BY <2>1, <2>2, <1>3, <1>5
<1> QED
  BY <1>4, <1>6, <1>8, <1>9, <1>10 DEF IInv

LEMMA StopJoinsKeeps ==
  ASSUME IInv, NEW s \in Sessions, stop_joins(s)
  PROVE  IInv'
<1>1. /\ TypeOK /\ Owned /\ SlotIsHeld /\ Unstarted /\ Parked /\ Leaving
      /\ LiveSessionKeepsItsHook /\ HeldIsAnswerable
  BY DEF IInv
<1>2. /\ srv[s] = "joining" /\ srv' = [srv EXCEPT ![s] = "over"]
      /\ run_thread' = [run_thread EXCEPT ![s] = None]
      /\ UNCHANGED <<slot, launches, native_debug, at, within, debug, stopped, detached,
                     latest>>
  BY DEF stop_joins, Go, workers, waits
<1>3. srv'[s] = "over" /\ \A t \in Sessions \ {s} : srv'[t] = srv[t]
  BY <1>1, <1>2 DEF TypeOK
<1>4. TypeOK'
  BY <1>1, <1>2 DEF TypeOK
<1>5. Owned' /\ SlotIsHeld' /\ Unstarted' /\ Parked' /\ Leaving' /\ HeldIsAnswerable'
  BY <1>1, <1>2, <1>3
     DEF Owned, SlotIsHeld, Unstarted, Parked, Leaving, HeldIsAnswerable, SessionOf
<1>6. LiveSessionKeepsItsHook'
  <2>1. latest # None => latest[1] \in Sessions
    BY <1>1, RunsAreRuns DEF TypeOK
  <2> QED
    BY <2>1, <1>1, <1>2, <1>3 DEF LiveSessionKeepsItsHook, SessionOf
<1> QED
  BY <1>4, <1>5, <1>6 DEF IInv

-----------------------------------------------------------------------------
(* One lemma for each step of a debuggee.                                   *)

LEMMA SafepointKeeps ==
  ASSUME IInv, NEW r \in Runs, fire_safepoint(r)
  PROVE  IInv'
<1>1. /\ TypeOK /\ Owned /\ SlotIsHeld /\ Unstarted /\ Parked /\ Leaving
      /\ LiveSessionKeepsItsHook /\ HeldIsAnswerable
  BY DEF IInv
<1>2. /\ debug[r] /\ slot # None /\ ~detached[slot]
      /\ at[r] = "program" /\ at' = [at EXCEPT ![r] = "parked"]
      /\ within' = [within EXCEPT ![r] = slot]
      /\ stopped' = [stopped EXCEPT ![slot] = TRUE]
      /\ UNCHANGED <<slot, srv, launches, native_debug, run_thread, debug, detached, latest>>
  BY DEF fire_safepoint, Move, loops
<1>3. slot \in Runs /\ slot[1] \in Sessions /\ native_debug[slot[1]] = slot
  BY <1>1, <1>2, RunsAreRuns DEF TypeOK, SlotIsHeld, SessionOf
<1>4. TypeOK'
  BY <1>1, <1>2, <1>3 DEF TypeOK
<1>5. /\ at'[r] = "parked" /\ \A q \in Runs \ {r} : at'[q] = at[q]
      /\ within'[r] = slot /\ \A q \in Runs \ {r} : within'[q] = within[q]
      /\ stopped'[slot] /\ \A q \in Runs \ {slot} : stopped'[q] = stopped[q]
  BY <1>1, <1>2, <1>3 DEF TypeOK
<1>6. Owned' /\ SlotIsHeld' /\ Parked' /\ LiveSessionKeepsItsHook'
  BY <1>1, <1>2, <1>5 DEF Owned, SlotIsHeld, Parked, LiveSessionKeepsItsHook, SessionOf, TypeOK
<1>7. Unstarted'
  <2>1. \A q \in Runs : at[q] = "none" => at'[q] = "none"
    BY <1>2, <1>5
  <2>2. \A t \in Sessions, m \in 1 .. MaxLaunches : <<t, m>> \in Runs
    BY RunsAreRuns
  <2>3. \A t \in Sessions : launches[t] > 0 => launches[t] \in 1 .. MaxLaunches
    BY <1>1, SlotAssumption DEF TypeOK
  <2> QED
    BY <2>1, <2>2, <2>3, <1>1, <1>2 DEF Unstarted
<1>8. Leaving'
  BY <1>1, <1>2, <1>5 DEF Leaving, TypeOK
<1>9. HeldIsAnswerable'
  BY <1>1, <1>2, <1>3, <1>5 DEF HeldIsAnswerable, Parked, TypeOK, SessionOf
<1> QED
  BY <1>4, <1>6, <1>7, <1>8, <1>9 DEF IInv

(* The rest of a debuggee's steps only move it on.                          *)
LEMMA MovesKeep ==
  ASSUME IInv, NEW r \in Runs, leave_stop(r) \/ program_ends(r) \/ worker_clears(r)
  PROVE  IInv'
<1>1. /\ TypeOK /\ Owned /\ SlotIsHeld /\ Unstarted /\ Parked /\ Leaving
      /\ LiveSessionKeepsItsHook /\ HeldIsAnswerable
  BY DEF IInv
<1>2. /\ at[r] # "none" /\ at' \in {[at EXCEPT ![r] = "program"], [at EXCEPT ![r] = "unhook"],
                                     [at EXCEPT ![r] = "done"]}
      /\ within' \in {within, [within EXCEPT ![r] = None]}
      /\ UNCHANGED <<srv, launches, native_debug, run_thread, debug, stopped, detached, latest>>
  BY DEF leave_stop, program_ends, worker_clears, Move, loops, waits
<1>4. \/ slot' = slot
      \/ slot = r /\ slot' = None /\ at' = [at EXCEPT ![r] = "done"]
  BY DEF leave_stop, program_ends, worker_clears, Move, clear_debug_hook
<1>5. TypeOK'
  BY <1>1, <1>2, <1>4 DEF TypeOK
<1>6. /\ at'[r] \in {"program", "unhook", "done"}
      /\ \A q \in Runs \ {r} : at'[q] = at[q] /\ within'[q] = within[q]
  BY <1>1, <1>2 DEF TypeOK
<1>7. Owned' /\ SlotIsHeld' /\ Parked' /\ Leaving'
  BY <1>1, <1>2, <1>4, <1>6 DEF Owned, SlotIsHeld, Parked, Leaving, SessionOf
<1>8. Unstarted'
  <2>1. \A q \in Runs : at[q] = "none" => at'[q] = "none"
    BY <1>2, <1>6
  <2>2. \A t \in Sessions, m \in 1 .. MaxLaunches : <<t, m>> \in Runs
    BY RunsAreRuns
  <2>3. \A t \in Sessions : launches[t] > 0 => launches[t] \in 1 .. MaxLaunches
    BY <1>1, SlotAssumption DEF TypeOK
  <2> QED
    BY <2>1, <2>2, <2>3, <1>1, <1>2 DEF Unstarted
<1>9. LiveSessionKeepsItsHook'
  <2>1. at[latest] = "done" /\ latest # None => at'[latest] = "done"
    <3> SUFFICES ASSUME at[latest] = "done", latest # None, latest = r
                 PROVE  at'[latest] = "done"
      BY <1>1, <1>6 DEF TypeOK
    <3> QED
      BY DEF leave_stop, program_ends, worker_clears, Move
  <2>2. slot' = slot \/ (slot = r /\ at'[r] = "done")
    BY <1>1, <1>4 DEF TypeOK
  <2> QED
    BY <2>1, <2>2, <1>1, <1>2 DEF LiveSessionKeepsItsHook, SessionOf
<1>10. HeldIsAnswerable'
  BY <1>1, <1>2, <1>6 DEF HeldIsAnswerable, SessionOf
<1> QED
  BY <1>5, <1>7, <1>8, <1>9, <1>10 DEF IInv

-----------------------------------------------------------------------------
LEMMA IInvHolds == Spec => []IInv
<1>1. IInv /\ [Next]_vars => IInv'
  <2> SUFFICES ASSUME IInv, [Next]_vars PROVE IInv'
    OBVIOUS
  <2>1. CASE \E s \in Sessions : \/ configuration_done(s) \/ spawn_run(s) \/ resume(s)
                                 \/ detach(s) \/ stop_clears(s) \/ stop_joins(s)
    BY <2>1, LaunchKeeps, SpawnKeeps, ResumeKeeps, DetachKeeps, StopClearsKeeps, StopJoinsKeeps
  <2>2. CASE \E r \in Runs : \/ fire_safepoint(r) \/ leave_stop(r)
                             \/ program_ends(r) \/ worker_clears(r)
    BY <2>2, SafepointKeeps, MovesKeep
  <2>3. CASE UNCHANGED vars
    BY <2>3 DEF vars, loops, workers, waits, IInv, TypeOK, Owned, SlotIsHeld, Unstarted,
                Parked, Leaving, LiveSessionKeepsItsHook, HeldIsAnswerable, SessionOf
  <2> QED
    BY <2>1, <2>2, <2>3 DEF Next
<1> QED
  BY InitIInv, <1>1, PTL DEF Spec

(* Every variable stays in its range, whatever order the sessions act in.   *)
THEOREM SlotTypes == Spec => []TypeOK
<1>1. IInv => TypeOK
  BY DEF IInv
<1> QED
  BY IInvHolds, <1>1, PTL

(* clear_debug_hook by its own controller only: no other run's end and no   *)
(* other session's takes away the hook installed last.                      *)
THEOREM HookStaysWithItsSession == Spec => []LiveSessionKeepsItsHook
<1>1. IInv => LiveSessionKeepsItsHook
  BY DEF IInv
<1> QED
  BY IInvHolds, <1>1, PTL

(* detach resumes before the controller is let go of, and a stop is claimed *)
(* only at the controller in the slot: what is held has somebody to answer. *)
THEOREM HeldStaysAnswerable == Spec => []HeldIsAnswerable
<1>1. IInv => HeldIsAnswerable
  BY DEF IInv
<1> QED
  BY IInvHolds, <1>1, PTL

(* Session::stop takes its controller out of the slot before it gives up    *)
(* waiting for the worker.                                                  *)
THEOREM NoHookIsLeftBehind == Spec => []OverLeavesNoHook
<1>1. IInv => OverLeavesNoHook
  BY DEF IInv, SlotIsHeld, Leaving, OverLeavesNoHook
<1> QED
  BY IInvHolds, <1>1, PTL
=============================================================================
