---------------------------- MODULE Breakpoints -----------------------------
(***************************************************************************)
(* Source breakpoints from the client's request to the debuggee's stop.    *)
(*                                                                         *)
(* The session's BreakpointStore keeps what the client asked for; the      *)
(* debug controller holds a derived table, refreshed wholesale, and the    *)
(* hit counts.  The request loop writes both, one lock after the other,    *)
(* while the debuggee's thread reads the first and writes the second.      *)
(* What a stop does is DebugSession; here it is one step.                  *)
(***************************************************************************)
EXTENDS Integers, Sequences, FiniteSets, Functions, FiniteSetsExt

CONSTANTS
  Files,       (* the files a client may set breakpoints in                 *)
  Safepoints,  (* lines carrying a safepoint, per file of the program       *)
  Requests,    (* the breakpoint lists it may send for one file             *)
  MaxId,       (* bound on the ids minted                                   *)
  MaxHits      (* bound on the hits counted for one breakpoint              *)

HitConditions ==
  { [op |-> "all", n |-> 1] } \cup [op : {"==", ">=", ">", "%"}, n : Nat \ {0}]

(* What hangs off a line: whether all of it compiles, whether it has a      *)
(* condition, which hits it selects and whether it only logs.               *)
Specs == [compiles : BOOLEAN, condition : BOOLEAN, hit : HitConditions, log : BOOLEAN]

ASSUME PlacesAssumption ==
  /\ DOMAIN Safepoints \subseteq Files
  /\ \A f \in DOMAIN Safepoints : Safepoints[f] \subseteq Nat
ASSUME RequestsAssumption == Requests \subseteq Seq([line : Int, spec : Specs])
ASSUME BoundsAssumption == MaxId \in Nat /\ MaxHits \in Nat

VARIABLES
  by_path,      (* the store: requested line -> breakpoint, per file        *)
  next_id,      (* the last id minted                                       *)
  program,      (* the program is compiled: places and sources are known    *)
  native_debug, (* there is a controller                                    *)
  breakpoints,  (* the controller's table: <<file, line>> -> breakpoint     *)
  hits,         (* the controller's hit counts, by id                       *)
  srv,          (* how far a setBreakpoints request has got                 *)
  request,      (* the request being served                                 *)
  dbg,          (* where the debuggee is                                    *)
  trigger,      (* the table entry it cloned                                *)
  view,         (* what the client was last told of each breakpoint, by id  *)
  charged       (* history: hits of a breakpoint since its id was minted    *)

server == <<by_path, next_id, program, native_debug, srv, request, view>>
vars == <<server, breakpoints, hits, dbg, trigger, charged>>

Empty == [x \in {} |-> 0]
NoSpec == [compiles |-> FALSE, condition |-> FALSE,
           hit |-> [op |-> "all", n |-> 1], log |-> FALSE]
NoTrigger == [id |-> 0, spec |-> NoSpec]
NoRequest == [file |-> "", answers |-> <<>>]

Keys == UNION { {f} \X Safepoints[f] : f \in DOMAIN Safepoints }
Count(table, id) == IF id \in DOMAIN table THEN table[id] ELSE 0
Ids(table) == { table[k].id : k \in DOMAIN table }

TypeOK ==
  /\ DOMAIN by_path = Files
  /\ \A f \in Files : \A l \in DOMAIN by_path[f] :
       l \in Nat /\ by_path[f][l].id \in 1 .. next_id
  /\ next_id \in 0 .. MaxId
  /\ program \in BOOLEAN /\ native_debug \in BOOLEAN
  /\ DOMAIN breakpoints \subseteq Keys
  /\ Ids(breakpoints) \subseteq 1 .. next_id
  /\ DOMAIN hits \subseteq 1 .. next_id /\ Range(hits) \subseteq 1 .. MaxHits
  /\ srv \in {"idle", "retain", "install", "respond"}
  /\ dbg \in {"none", "user", "fires", "stopped"}
  /\ trigger.id \in 0 .. next_id
  /\ DOMAIN view \subseteq 1 .. next_id
  /\ DOMAIN charged = 1 .. next_id

Init ==
  /\ by_path = [f \in Files |-> Empty] /\ next_id = 0
  /\ program = FALSE /\ native_debug = FALSE
  /\ breakpoints = Empty /\ hits = Empty
  /\ srv = "idle" /\ request = NoRequest
  /\ dbg = "none" /\ trigger = NoTrigger
  /\ view = Empty /\ charged = Empty
-----------------------------------------------------------------------------
(***************************************************************************)
(* The store.  Variants with a fault, named Bad*, stand before the         *)
(* definition they replace: each makes TLC find one property violated.     *)
(***************************************************************************)
(* Lines a breakpoint on this one may land on, nearest first.               *)
Below(f, line) == { l \in Safepoints[f] : l >= line }

Placeable(f, line) == f \in DOMAIN Safepoints /\ Below(f, line) # {}

place(f, line) == Min(Below(f, line))

(* A line number is a u32; the first entry naming a line is the one stored. *)
First(specs, i) ==
  /\ specs[i].line >= 0
  /\ \A j \in 1 .. (i - 1) : specs[j].line # specs[i].line

Firsts(specs) == { i \in DOMAIN specs : First(specs, i) }

Spelling(specs, line) == CHOOSE i \in Firsts(specs) : specs[i].line = line

BadMintedIdCountsAll(specs, line) == next_id + Spelling(specs, line)

MintedId(specs, line) ==
  next_id + Cardinality({ i \in Firsts(specs) : i <= Spelling(specs, line) })

replace(specs) ==
  [line \in { specs[i].line : i \in Firsts(specs) } |->
     [id |-> MintedId(specs, line), spec |-> specs[Spelling(specs, line)].spec]]

(* What the store answers for each entry: no id for what is no line number. *)
Requested(specs) ==
  [i \in DOMAIN specs |->
     [line |-> specs[i].line, spec |-> specs[i].spec,
      id |-> IF specs[i].line < 0 THEN 0 ELSE MintedId(specs, specs[i].line)]]

BadLandingUnsnapped(f, p) ==
  { line \in DOMAIN by_path[f] : line = p /\ by_path[f][line].spec.compiles }

BadLandingUncompiled(f, p) ==
  { line \in DOMAIN by_path[f] : Placeable(f, line) /\ place(f, line) = p }

(* The stored lines that land on a safepoint with all they carry compiled:  *)
(* the lowest of them takes it.                                             *)
Landing(f, p) ==
  { line \in DOMAIN by_path[f] :
      Placeable(f, line) /\ place(f, line) = p /\ by_path[f][line].spec.compiles }

by_source ==
  [k \in { k \in Keys : Landing(k[1], k[2]) # {} } |->
     by_path[k[1]][Min(Landing(k[1], k[2]))]]

(* The verdict on one entry, once a program is there to judge it by.        *)
answer(known, f, line, spec) ==
  IF known /\ Placeable(f, line) /\ spec.compiles
  THEN [file |-> f, verified |-> TRUE, line |-> place(f, line)]
  ELSE [file |-> f, verified |-> FALSE, line |-> line]
-----------------------------------------------------------------------------
(***************************************************************************)
(* setBreakpoints: replace the file's set, hand the whole picture to the   *)
(* controller - the counts under one lock, the table under another - and   *)
(* answer entry by entry.                                                  *)
(***************************************************************************)
set(f, specs) ==
  /\ srv = "idle"
  /\ next_id + Len(specs) <= MaxId
  /\ by_path' = [by_path EXCEPT ![f] = replace(specs)]
  /\ next_id' = next_id + Cardinality(Firsts(specs))
  /\ request' = [file |-> f, answers |-> Requested(specs)]
  /\ srv' = IF native_debug /\ program THEN "retain" ELSE "respond"
  /\ charged' = [id \in 1 .. next_id' |-> IF id > next_id THEN 0 ELSE charged[id]]
  /\ UNCHANGED <<program, native_debug, breakpoints, hits, dbg, trigger, view>>

BadRetainNone ==
  /\ srv = "retain" /\ srv' = "install"
  /\ hits' = Empty
  /\ UNCHANGED <<by_path, next_id, program, native_debug, breakpoints, request,
                 dbg, trigger, view, charged>>

retain_hits ==
  /\ srv = "retain" /\ srv' = "install"
  /\ hits' = Restrict(hits, DOMAIN hits \cap Ids(by_source))
  /\ UNCHANGED <<by_path, next_id, program, native_debug, breakpoints, request,
                 dbg, trigger, view, charged>>

install_table ==
  /\ srv = "install" /\ srv' = "respond"
  /\ breakpoints' = by_source
  /\ UNCHANGED <<by_path, next_id, program, native_debug, hits, request, dbg,
                 trigger, view, charged>>

(* An id named by several entries ends up as the last of them says.         *)
respond ==
  LET named == { request.answers[i].id : i \in DOMAIN request.answers } \ {0}
      last(id) == Max({ i \in DOMAIN request.answers : request.answers[i].id = id })
      kept == { id \in DOMAIN view : view[id].file # request.file }
  IN /\ srv = "respond" /\ srv' = "idle"
     /\ view' = [id \in kept \cup named |->
                   IF id \in named
                   THEN answer(program, request.file,
                               request.answers[last(id)].line,
                               request.answers[last(id)].spec)
                   ELSE view[id]]
     /\ request' = NoRequest
     /\ UNCHANGED <<by_path, next_id, program, native_debug, breakpoints, hits,
                    dbg, trigger, charged>>

(* The program compiles: every stored breakpoint is answered again, and a   *)
(* debug run gets a controller holding them.                                *)
configuration_done ==
  /\ srv = "idle" /\ ~program
  /\ program' = TRUE
  /\ view' = [id \in UNION { Ids(by_path[f]) : f \in Files } |->
                LET f == CHOOSE g \in Files : id \in Ids(by_path[g])
                    line == CHOOSE l \in DOMAIN by_path[f] : by_path[f][l].id = id
                IN answer(TRUE, f, line, by_path[f][line].spec)]
  /\ \/ /\ native_debug' = TRUE /\ breakpoints' = by_source /\ dbg' = "user"
     \/ UNCHANGED <<native_debug, breakpoints, dbg>>
  /\ UNCHANGED <<by_path, next_id, hits, srv, request, trigger, charged>>
-----------------------------------------------------------------------------
(***************************************************************************)
(* The debuggee's thread.                                                  *)
(***************************************************************************)
(* It arrives at a line: the entry is cloned out from under the read lock.  *)
breakpoint_at(key) ==
  /\ dbg = "user" /\ key \in DOMAIN breakpoints
  /\ trigger' = breakpoints[key]
  /\ dbg' = "fires"
  /\ UNCHANGED <<server, breakpoints, hits, charged>>

passes(hit, count) ==
  CASE hit.op = "all" -> TRUE
    [] hit.op = "==" -> count = hit.n
    [] hit.op = ">=" -> count >= hit.n
    [] hit.op = ">" -> count > hit.n
    [] hit.op = "%" -> count % hit.n = 0

Outcome(stops) ==
  /\ dbg' = IF stops THEN "stopped" ELSE "user"
  /\ trigger' = IF stops THEN trigger ELSE NoTrigger

(* A condition that is false passes the line by, and one that cannot be     *)
(* evaluated stops, neither counting a hit.                                 *)
fires_condition ==
  /\ dbg = "fires" /\ trigger.spec.condition
  /\ \E stops \in BOOLEAN : Outcome(stops)
  /\ UNCHANGED <<server, breakpoints, hits, charged>>

fires_hit ==
  LET count == Count(hits, trigger.id) + 1
  IN /\ dbg = "fires" /\ trigger.spec.hit.op # "all"
     /\ count <= MaxHits
     /\ hits' = [id \in DOMAIN hits \cup {trigger.id} |->
                   IF id = trigger.id THEN count ELSE hits[id]]
     /\ charged' = [charged EXCEPT ![trigger.id] = @ + 1]
     /\ Outcome(passes(trigger.spec.hit, count) /\ ~trigger.spec.log)
     /\ UNCHANGED <<server, breakpoints>>

fires_always ==
  /\ dbg = "fires" /\ trigger.spec.hit.op = "all"
  /\ Outcome(~trigger.spec.log)
  /\ UNCHANGED <<server, breakpoints, hits, charged>>

resumed ==
  /\ dbg = "stopped" /\ dbg' = "user" /\ trigger' = NoTrigger
  /\ UNCHANGED <<server, breakpoints, hits, charged>>

Next ==
  \/ \E f \in Files, specs \in Requests : set(f, specs)
  \/ retain_hits \/ install_table \/ respond \/ configuration_done
  \/ \E key \in Keys : breakpoint_at(key)
  \/ fires_condition \/ fires_hit \/ fires_always \/ resumed

Spec == Init /\ [][Next]_vars
-----------------------------------------------------------------------------
(***************************************************************************)
(* Properties.                                                             *)
(***************************************************************************)
Settled == srv = "idle" /\ native_debug

(* A breakpoint shown as verified at a line is one the debuggee tests for   *)
(* there: the controller's table, refreshed at other moments and by other   *)
(* code than the answers, has an entry for that line.  (For requests that   *)
(* name a line once; README.md says what happens to the others.)            *)
VerifiedLineIsArmed ==
  Settled => \A id \in DOMAIN view :
    view[id].verified => <<view[id].file, view[id].line>> \in DOMAIN breakpoints

(* Conversely "a breakpoint the client is told is dead must not fire":      *)
(* every entry of the table is one the client was told is live, there.      *)
ArmedIsVerified ==
  Settled => \A k \in DOMAIN breakpoints :
    LET id == breakpoints[k].id
    IN id \in DOMAIN view /\ view[id] = [file |-> k[1], verified |-> TRUE, line |-> k[2]]

(* Replacing the table never charges a hit to another breakpoint and never  *)
(* loses one of a breakpoint that stays: a count is the hits since its id   *)
(* was minted, however edits of other files come between.                   *)
ArmedCountsEveryHit ==
  Settled => \A id \in Ids(breakpoints) : Count(hits, id) = charged[id]
=============================================================================
