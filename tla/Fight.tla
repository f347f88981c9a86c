------------------------------- MODULE Fight --------------------------------
(***************************************************************************)
(* The official fight: who plays when, and what interrupts a turn.         *)
(*                                                                         *)
(* State (leek-game-runtime) keeps the play order, a cursor into it that   *)
(* every death and revival shifts, and the board; the generator's loop     *)
(* runs one AI per turn and, inside a builtin call, the AI of every plant  *)
(* that the call has woken.  Life is alive or dead, a builtin's cost is    *)
(* left out, and a plant attacks and does nothing else.                    *)
(***************************************************************************)
EXTENDS Integers, Sequences, FiniteSets, SequencesExt

CONSTANTS
  Width, Height,  (* the board                                              *)
  Zone,           (* the radius of a plant's awakening zone                 *)
  Summons,        (* what a leek may summon: <<kind, with an AI>>           *)
  SUMMON_LIMIT,   (* living summons per team                                *)
  MAX_TURNS,      (* rounds of a fight                                      *)
  MaxFighters,    (* bound on the fighters that ever enter                  *)
  MaxPath,        (* bound on the cells of one walk or slide                *)
  MaxCalls        (* bound on the builtins one run of an AI calls           *)

ASSUME BoardAssumption == Width \in Nat \ {0} /\ Height \in Nat \ {0} /\ Zone \in Nat \ {0}
ASSUME SummonsAssumption == Summons \subseteq {"bulb", "plant"} \X BOOLEAN
ASSUME LimitsAssumption ==
  /\ SUMMON_LIMIT \in Nat /\ MAX_TURNS \in Nat \ {0}
  /\ MaxFighters \in Nat \ {0, 1} /\ MaxPath \in Nat \ {0} /\ MaxCalls \in Nat

VARIABLES
  fighters,            (* every fighter that ever entered, by fid           *)
  order,               (* the play order: fids, position (from 0), turn     *)
  initial_order,       (* the order drawn at the start                      *)
  occupancy,           (* the fighter on each cell, 0 for none              *)
  awakened_by,         (* who has woken each plant and not begun a turn since *)
  pending_awakenings,  (* <<plant, trigger>> still to play, in order        *)
  awakening_plant,     (* the plant playing out of turn, 0 for none         *)
  walk,                (* the walk a plant has cut short                    *)
  walk_result,         (* a finished walk's distance waits to be read       *)
  phase,               (* where the generator's loop is                     *)
  actor,               (* whose AI is running                               *)
  call,                (* the builtin whose awakenings are being played     *)
  calls,               (* the builtins its run has called                   *)
  played,              (* history: who has begun a turn this round          *)
  steady,              (* history: who has been in the order all round      *)
  woke                 (* history: awakenings since the trigger's last turn *)

world == <<fighters, order, occupancy>>
loop == <<phase, actor, call, calls>>
plants == <<awakened_by, pending_awakenings, awakening_plant>>
walking == <<walk, walk_result>>
history == <<played, steady, woke>>
vars == <<world, initial_order, loop, plants, walking, history>>

Cells == (1 .. Width) \X (1 .. Height)
NoCell == <<0, 0>>
NoWalk == [fid |-> 0, from |-> NoCell, path |-> <<>>, plants |-> {}]
Teams == {1, 2}
Living(fs) == { f \in DOMAIN fs : fs[f].alive }

Distance(a, b) ==
  LET gap(i) == IF a[i] < b[i] THEN b[i] - a[i] ELSE a[i] - b[i]
  IN gap(1) + gap(2)

Leek(team, cell) ==
  [kind |-> "leek", team |-> team, summoner |-> 0, alive |-> TRUE,
   cell |-> cell, ai |-> TRUE]

(* The fields of the state have their types, and the cursor is on the order *)
(* or, the turn of its first fighter having ended in its death, before it.  *)
TypeOK ==
  /\ \A f \in DOMAIN fighters :
       /\ fighters[f].kind \in {"leek", "bulb", "plant"}
       /\ fighters[f].team \in Teams
       /\ fighters[f].summoner \in 0 .. (f - 1)
       /\ fighters[f].cell \in Cells \cup {NoCell}
       /\ awakened_by[f] \subseteq (DOMAIN fighters) \ {f}
  /\ Len(fighters) \in 2 .. MaxFighters
  /\ order.fids \in Seq(DOMAIN fighters)
  /\ order.position \in -1 .. Len(order.fids) - 1
  /\ order.turn \in 1 .. MAX_TURNS + 1
  /\ occupancy \in [Cells -> {0} \cup DOMAIN fighters]
  /\ pending_awakenings \in Seq((DOMAIN fighters) \X (DOMAIN fighters))
  /\ awakening_plant \in {0} \cup DOMAIN fighters
  /\ walk.fid \in {0} \cup DOMAIN fighters /\ walk_result \in BOOLEAN
  /\ phase \in {"begin", "act", "drain", "plant", "over"}
  /\ actor \in {0} \cup DOMAIN fighters /\ calls \in 0 .. MaxCalls
  /\ call \in {"none", "walk", "other"}

Init ==
  \E draw \in {<<1, 2>>, <<2, 1>>}, a, b \in Cells :
    /\ a # b
    /\ fighters = <<Leek(1, a), Leek(2, b)>>
    /\ occupancy = [c \in Cells |-> IF c = a THEN 1 ELSE IF c = b THEN 2 ELSE 0]
    /\ order = [fids |-> draw, position |-> 0, turn |-> 1] /\ initial_order = draw
    /\ awakened_by = <<{}, {}>> /\ pending_awakenings = <<>> /\ awakening_plant = 0
    /\ walk = NoWalk /\ walk_result = FALSE
    /\ phase = "begin" /\ actor = 0 /\ call = "none" /\ calls = 0
    /\ played = {} /\ steady = {1, 2} /\ woke = {}
-----------------------------------------------------------------------------
(***************************************************************************)
(* The play order.  Variants with a fault, named Bad*, stand before the    *)
(* definition they replace: each makes TLC find one property violated.     *)
(***************************************************************************)
current(o) ==
  IF o.position \in 0 .. Len(o.fids) - 1 THEN o.fids[o.position + 1] ELSE 0

BadNextKeepsPosition(o) ==
  IF o.position + 1 >= Len(o.fids)
  THEN [o EXCEPT !.position = @ + 1, !.turn = @ + 1]
  ELSE [o EXCEPT !.position = @ + 1]

next(o) ==
  IF o.position + 1 >= Len(o.fids)
  THEN [o EXCEPT !.position = (@ + 1) % Len(o.fids), !.turn = @ + 1]
  ELSE [o EXCEPT !.position = @ + 1]

IndexOf(o, f) == CHOOSE i \in DOMAIN o.fids : o.fids[i] = f

Upto(S, i) == Cardinality({ j \in S : j <= i })

(* What a sequence has at some of its positions: at the first of them, at   *)
(* the second and so on.                                                    *)
Picked(s, left) ==
  [n \in 1 .. Cardinality(left) |-> s[CHOOSE i \in left : Upto(left, i) = n]]

(* The sequence without some of its elements.                               *)
Kept(s, gone) == Picked(s, { i \in DOMAIN s : s[i] \notin gone })

BadRemoveKeepsCurrent(o, dead) ==
  [o EXCEPT !.fids = Kept(@, dead),
            !.position = @ - Cardinality({ i \in DOMAIN o.fids :
                                             o.fids[i] \in dead /\ i - 1 < o.position })]

(* Each removal at or before the cursor moves the cursor back by one.       *)
remove_entities(o, dead) ==
  [o EXCEPT !.fids = Kept(@, dead),
            !.position = @ - Cardinality({ i \in DOMAIN o.fids :
                                             o.fids[i] \in dead /\ i - 1 <= o.position })]

BadInsertKeepsPosition(o, index, f) == [o EXCEPT !.fids = InsertAt(@, index, f)]

insert_entity(o, index, f) ==
  [o EXCEPT !.fids = InsertAt(@, index, f),
            !.position = IF index - 1 <= @ THEN @ + 1 ELSE @]

BadAddSummonBefore(o, owner, f) ==
  [o EXCEPT !.fids = InsertAt(@, IndexOf(o, owner), f)]

add_summon(o, owner, f) == [o EXCEPT !.fids = InsertAt(@, IndexOf(o, owner) + 1, f)]

BadRevivedLast(o, f) == [o EXCEPT !.fids = Append(@, f)]

(* Before the first living fighter drawn after this one, or last.           *)
Revived(o, f) ==
  LET drawn == { i \in DOMAIN initial_order : initial_order[i] = f }
      after == { j \in DOMAIN initial_order :
                   fighters[initial_order[j]].alive /\ \E i \in drawn : i < j }
      first == CHOOSE j \in after : \A k \in after : j <= k
  IN IF after = {}
     THEN [o EXCEPT !.fids = Append(@, f)]
     ELSE insert_entity(o, IndexOf(o, initial_order[first]), f)

(* A death takes the living summons of the dead with it, and theirs.        *)
Doomed(fs, victim) ==
  LET Falls(S) == /\ victim \in S
                  /\ \A f \in DOMAIN fs : fs[f].alive /\ fs[f].summoner \in S => f \in S
  IN { f \in DOMAIN fs : \A S \in SUBSET DOMAIN fs : Falls(S) => f \in S }

Slain(fs, dead) ==
  [f \in DOMAIN fs |->
     IF f \in dead THEN [fs[f] EXCEPT !.alive = FALSE, !.cell = NoCell] ELSE fs[f]]

Vacated(occ, fs, dead) ==
  [c \in Cells |-> IF \E f \in dead : fs[f].cell = c THEN 0 ELSE occ[c]]

(* remove_life brings a fighter to zero.                                    *)
Dies(victim) ==
  LET dead == Doomed(fighters, victim)
  IN /\ fighters' = Slain(fighters, dead)
     /\ occupancy' = Vacated(occupancy, fighters, dead)
     /\ order' = remove_entities(order, dead)
     /\ played' = played \ dead /\ steady' = steady \ dead

is_finished(fs) == Cardinality({ fs[f].team : f \in Living(fs) }) < 2

(* The end of a turn, for the fighters and the order it leaves.             *)
end_turn(fs, o, seen) ==
  LET after == IF is_finished(fs) THEN o ELSE next(o)
      wraps == after.turn # o.turn
  IN /\ order' = after
     /\ phase' = IF \/ is_finished(fs)
                    \/ after.turn > MAX_TURNS
                    \/ current(after) = 0
                 THEN "over" ELSE "begin"
     /\ actor' = 0 /\ calls' = 0
     /\ played' = IF wraps THEN {} ELSE seen
     /\ steady' = IF wraps THEN Range(after.fids) ELSE steady \cap Living(fs)
-----------------------------------------------------------------------------
(***************************************************************************)
(* Waking a plant.                                                         *)
(***************************************************************************)
IsPlant(fs, f) == fs[f].kind = "plant"

InZone(fs, plant, cell) ==
  fs[plant].cell # NoCell /\ cell # NoCell /\ Distance(cell, fs[plant].cell) <= Zone

(* Team by team, in the order they joined.                                  *)
TeamOrder(fs) ==
  LET joined == [f \in DOMAIN fs |-> f]
      Team(t) == Picked(joined, { f \in DOMAIN fs : fs[f].team = t })
  IN Team(1) \o Team(2)

BadAwakeAgain(w, pairs) == [w EXCEPT !.queue = @ \o pairs]

(* w holds who has woken whom and the queue of awakenings.  Plants meet     *)
(* their triggers, a pair after the other: one that has not woken for this  *)
(* trigger yet is queued.                                                   *)
awake_plant(w, pairs) ==
  LET First(i) == /\ pairs[i][2] \notin w.by[pairs[i][1]]
                  /\ \A j \in 1 .. i - 1 : pairs[j] # pairs[i]
      by(plant) == { pairs[i][2] : i \in { j \in DOMAIN pairs : pairs[j][1] = plant } }
  IN [by |-> [plant \in DOMAIN w.by |-> w.by[plant] \cup by(plant)],
      queue |-> w.queue \o Picked(pairs, { i \in DOMAIN pairs : First(i) })]

(* A fighter goes along a line: at each cell, it wakes the plants whose     *)
(* zone it enters there.                                                    *)
check_plant_triggers_along(w, fs, f, start, line) ==
  LET met == TeamOrder(fs)
      plant(k) == met[((k - 1) % Len(met)) + 1]
      cell(k) == ((k - 1) \div Len(met)) + 1
      from(i) == IF i = 1 THEN start ELSE line[i - 1]
      Enters(p, i) == /\ p # f /\ IsPlant(fs, p) /\ fs[p].alive
                      /\ InZone(fs, p, line[i]) /\ ~InZone(fs, p, from(i))
      meetings == [k \in 1 .. Len(line) * Len(met) |-> <<plant(k), f>>]
  IN IF awakening_plant # 0 \/ ~fs[f].alive
     THEN w
     ELSE awake_plant(w, Picked(meetings, { k \in DOMAIN meetings : Enters(plant(k), cell(k)) }))

check_plant_triggers(w, fs, f, from, to) ==
  check_plant_triggers_along(w, fs, f, from, <<to>>)

(* A plant comes out of the ground: those in its zone wake it.              *)
check_plant_planted(w, fs, plant) ==
  LET met == TeamOrder(fs)
      Around(f) == f # plant /\ fs[f].alive /\ InZone(fs, plant, fs[f].cell)
      meetings == [k \in DOMAIN met |-> <<plant, met[k]>>]
  IN IF awakening_plant # 0 \/ ~IsPlant(fs, plant)
     THEN w
     ELSE awake_plant(w, Picked(meetings, { k \in DOMAIN met : Around(met[k]) }))

place_entity(fs, f, cell) == [fs EXCEPT ![f].cell = cell]

BadOccupiedKeepsOld(occ, fs, f, cell) == [occ EXCEPT ![cell] = f]

Occupied(occ, fs, f, cell) ==
  [c \in Cells |-> IF c = cell THEN f ELSE IF c = fs[f].cell THEN 0 ELSE occ[c]]

Asleep == [by |-> awakened_by, queue |-> pending_awakenings]

(* What a builtin leaves of the fighters and the awakenings, and where its  *)
(* caller goes next.                                                        *)
Calls(name, fs, w) ==
  /\ fighters' = fs /\ awakened_by' = w.by /\ pending_awakenings' = w.queue
  /\ IF w.queue # <<>> THEN phase' = "drain" /\ call' = name ELSE UNCHANGED <<phase, call>>
  /\ calls' = calls + 1
  /\ UNCHANGED <<actor, awakening_plant>>
-----------------------------------------------------------------------------
(***************************************************************************)
(* A turn.                                                                 *)
(***************************************************************************)
(* The one whose turn it begins may wake every plant again.                 *)
clear_plant_triggers(f) == [g \in DOMAIN awakened_by |-> awakened_by[g] \ {f}]

TurnBegins(f) ==
  /\ phase = "begin" /\ f = current(order)
  /\ awakened_by' = clear_plant_triggers(f)
  /\ woke' = { w \in woke : w[2] # f }
  /\ UNCHANGED <<initial_order, call, pending_awakenings, awakening_plant, walking>>

begin_act(f) ==
  /\ TurnBegins(f) /\ ~IsPlant(fighters, f)
  /\ phase' = "act" /\ actor' = f /\ played' = played \cup {f}
  /\ UNCHANGED <<world, calls, steady>>

(* A plant's own turn is upkeep and no more.                                *)
begin_upkeep(f) ==
  /\ TurnBegins(f) /\ IsPlant(fighters, f)
  /\ end_turn(fighters, order, played \cup {f})
  /\ UNCHANGED <<fighters, occupancy>>

(* A poison kills it before it plays.                                       *)
begin_skip(f) ==
  LET dead == Doomed(fighters, f)
  IN /\ TurnBegins(f)
     /\ fighters' = Slain(fighters, dead)
     /\ occupancy' = Vacated(occupancy, fighters, dead)
     /\ end_turn(Slain(fighters, dead), remove_entities(order, dead), played \ dead)

(* The AI returns, or its operation budget or an error ends it.             *)
end_entity_turn ==
  /\ phase = "act"
  /\ end_turn(fighters, order, played)
  /\ UNCHANGED <<fighters, occupancy, initial_order, call, plants, walking, woke>>
-----------------------------------------------------------------------------
(***************************************************************************)
(* The builtins an AI calls in its turn.                                   *)
(***************************************************************************)
can_act(f) ==
  current(order) = f \/ (awakening_plant = f /\ fighters[f].alive)

(* A summon without an AI idles.                                            *)
Runs == phase = "act" /\ fighters[actor].ai /\ calls < MaxCalls
Acts == Runs /\ can_act(actor)
Free(cell) == occupancy[cell] = 0

(* A weapon or a chip kills a fighter: another, or by what it returns its   *)
(* user.                                                                    *)
attack(victim) ==
  /\ Acts /\ fighters[victim].alive /\ Dies(victim)
  /\ calls' = calls + 1
  /\ UNCHANGED <<initial_order, phase, actor, call, plants, walking, woke>>

Moved(f, line) ==
  LET to == line[Len(line)]
      fs == place_entity(fighters, f, to)
  IN /\ Calls("other", fs, check_plant_triggers_along(Asleep, fs, f, fighters[f].cell, line))
     /\ occupancy' = Occupied(occupancy, fighters, f, to)
     /\ UNCHANGED <<order, initial_order, walking, history>>

Line(cell, way, n) == [i \in 1 .. n |-> <<cell[1] + i * way[1], cell[2] + i * way[2]>>]

Sign(n) == IF n > 0 THEN 1 ELSE IF n < 0 THEN -1 ELSE 0

(* The free lines a fighter is pushed along, away from another, or pulled   *)
(* along towards it.                                                        *)
Lines(by, cell) ==
  LET away == <<Sign(cell[1] - by[1]), Sign(cell[2] - by[2])>>
      ways == { away, <<-away[1], -away[2]>> }
  IN { line \in { Line(cell, way, n) : way \in ways, n \in 1 .. MaxPath } :
         \A i \in DOMAIN line : line[i] \in Cells /\ Free(line[i]) }

(* A rooted plant does not move; the plants another passes answer once it   *)
(* has landed.                                                              *)
slide_entity(f) ==
  /\ Acts /\ f # actor /\ fighters[f].alive /\ ~IsPlant(fighters, f)
  /\ \E line \in Lines(fighters[actor].cell, fighters[f].cell) : Moved(f, line)

teleport_entity ==
  /\ Acts
  /\ \E cell \in Cells : Free(cell) /\ Moved(actor, <<cell>>)

(* The one displacement a plant suffers.                                    *)
invert_entities(target) ==
  LET here == fighters[actor].cell
      there == fighters[target].cell
      swapped == place_entity(place_entity(fighters, actor, there), target, here)
  IN /\ Acts /\ target # actor /\ here # NoCell /\ there # NoCell
     /\ Calls("other", swapped,
              check_plant_triggers(
                check_plant_triggers(Asleep, swapped, actor, here, there),
                swapped, target, there, here))
     /\ occupancy' = [occupancy EXCEPT ![here] = target, ![there] = actor]
     /\ UNCHANGED <<order, initial_order, walking, history>>

summon_count(team) ==
  Cardinality({ f \in Living(fighters) : fighters[f].team = team /\ fighters[f].kind # "leek" })

(* summon() gives it an AI and lets it wake and be woken; useChip() on the  *)
(* same chip does neither.                                                  *)
summon_entity(kind, cell, ai) ==
  LET f == Len(fighters) + 1
      team == fighters[actor].team
      born == Append(fighters, [Leek(team, cell) EXCEPT
                                  !.kind = kind, !.summoner = actor, !.ai = ai])
      w == [Asleep EXCEPT !.by = Append(@, {})]
  IN /\ Acts /\ fighters[actor].kind = "leek"
     /\ f <= MaxFighters /\ Free(cell) /\ summon_count(team) < SUMMON_LIMIT
     /\ Calls("other", born,
              IF ai THEN check_plant_planted(
                           check_plant_triggers(w, born, f, NoCell, cell), born, f)
                    ELSE w)
     /\ order' = add_summon(order, actor, f)
     /\ occupancy' = [occupancy EXCEPT ![cell] = f]
     /\ steady' = steady \cup {f}
     /\ UNCHANGED <<initial_order, walking, played, woke>>

resurrect_entity(f, cell) ==
  /\ Acts /\ fighters[actor].kind = "leek"
  /\ ~fighters[f].alive /\ Free(cell)
  /\ fighters[f].kind # "leek" => summon_count(fighters[f].team) < SUMMON_LIMIT
  /\ Calls("other", [place_entity(fighters, f, cell) EXCEPT ![f].alive = TRUE], Asleep)
  /\ occupancy' = Occupied(occupancy, fighters, f, cell)
  /\ order' = Revived(order, f)
  /\ UNCHANGED <<initial_order, walking, history>>

enters_awakening_zone(wk, from, to) ==
  \E plant \in wk.plants :
    /\ fighters[plant].alive /\ InZone(fighters, plant, to) /\ ~InZone(fighters, plant, from)
    /\ wk.fid \notin awakened_by[plant]

(* One leg of a walk: to its end, or to the first cell that wakes a plant.  *)
(* There it waits for the plant to play.                                    *)
walk_on(wk) ==
  LET from(i) == IF i = 1 THEN wk.from ELSE wk.path[i - 1]
      cuts == { i \in DOMAIN wk.path :
                  i = Len(wk.path) \/ enters_awakening_zone(wk, from(i), wk.path[i]) }
      stop == CHOOSE i \in cuts : \A j \in cuts : i <= j
      to == wk.path[stop]
      fs == place_entity(fighters, wk.fid, to)
      w == check_plant_triggers(Asleep, fs, wk.fid, from(stop), to)
      waits == fighters[wk.fid].alive /\ w.queue # <<>>
  IN /\ fighters' = fs /\ awakened_by' = w.by /\ pending_awakenings' = w.queue
     /\ occupancy' = Occupied(occupancy, fighters, wk.fid, to)
     /\ walk' = IF waits
                THEN [wk EXCEPT !.from = to, !.path = SubSeq(@, stop + 1, Len(@))]
                ELSE NoWalk
     /\ walk_result' = (walk_result \/ ~waits)

Adjacent(a, b) == Distance(a, b) = 1

(* The paths round the fighters in the way.                                 *)
Paths(cell) ==
  { path \in BoundedSeq({ c \in Cells : Free(c) }, MaxPath) :
      /\ path # <<>> /\ IsInjective(path) /\ Adjacent(cell, path[1])
      /\ \A i \in 2 .. Len(path) : Adjacent(path[i - 1], path[i]) }

move_entity ==
  LET here == fighters[actor].cell
      awaits == { p \in Living(fighters) : p # actor /\ IsPlant(fighters, p) }
  IN /\ Runs /\ here # NoCell
     /\ \E path \in Paths(here) :
          walk_on([fid |-> actor, from |-> here, path |-> path, plants |-> awaits])
     /\ IF pending_awakenings' # <<>>
        THEN phase' = "drain" /\ call' = "walk"
        ELSE UNCHANGED <<phase, call>>
     /\ calls' = calls + 1
     /\ UNCHANGED <<order, initial_order, actor, awakening_plant, history>>
-----------------------------------------------------------------------------
(***************************************************************************)
(* play_awakenings, before the builtin returns to its AI: every plant      *)
(* plays, and the walk that woke it goes on between one and the next.      *)
(***************************************************************************)
(* One that died in between does not play.                                  *)
next_awakening ==
  LET first == Head(pending_awakenings)
  IN /\ phase = "drain" /\ pending_awakenings # <<>>
     /\ pending_awakenings' = Tail(pending_awakenings)
     /\ IF fighters[first[1]].alive
        THEN /\ awakening_plant' = first[1] /\ phase' = "plant"
             /\ woke' = woke \cup {first}
        ELSE UNCHANGED <<awakening_plant, phase, woke>>
     /\ UNCHANGED <<world, initial_order, actor, call, calls, awakened_by, walking,
                    played, steady>>

plant_attacks(victim) ==
  /\ phase = "plant" /\ fighters[awakening_plant].ai /\ can_act(awakening_plant)
  /\ fighters[victim].alive /\ Dies(victim)
  /\ UNCHANGED <<initial_order, loop, plants, walking, woke>>

BadFinishReturnsToCaller ==
  /\ phase = "plant" /\ phase' = "act" /\ awakening_plant' = 0
  /\ UNCHANGED <<world, initial_order, actor, call, calls, awakened_by,
                 pending_awakenings, walking, history>>

finish_awakening ==
  /\ phase = "plant" /\ phase' = "drain" /\ awakening_plant' = 0
  /\ UNCHANGED <<world, initial_order, actor, call, calls, awakened_by,
                 pending_awakenings, walking, history>>

resume_walk ==
  /\ phase = "drain" /\ pending_awakenings = <<>> /\ walk # NoWalk
  /\ IF walk.path = <<>>
     THEN /\ walk' = NoWalk /\ walk_result' = TRUE
          /\ UNCHANGED <<fighters, occupancy, awakened_by, pending_awakenings>>
     ELSE walk_on(walk)
  /\ UNCHANGED <<order, initial_order, loop, awakening_plant, history>>

(* Its answer is the distance walked, where a walk has finished.            *)
take_walk_result ==
  /\ phase = "drain" /\ pending_awakenings = <<>> /\ walk = NoWalk
  /\ phase' = "act" /\ walk_result' = FALSE /\ call' = "none"
  /\ UNCHANGED <<world, initial_order, actor, calls, plants, walk, history>>

Over == phase = "over" /\ UNCHANGED vars

Next ==
  \/ \E f \in DOMAIN fighters : begin_act(f) \/ begin_upkeep(f) \/ begin_skip(f)
  \/ end_entity_turn
  \/ \E f \in DOMAIN fighters :
       attack(f) \/ slide_entity(f) \/ invert_entities(f) \/ plant_attacks(f)
  \/ \E f \in DOMAIN fighters, cell \in Cells : resurrect_entity(f, cell)
  \/ \E s \in Summons, cell \in Cells : summon_entity(s[1], cell, s[2])
  \/ teleport_entity \/ move_entity
  \/ next_awakening \/ finish_awakening \/ resume_walk \/ take_walk_result
  \/ Over

Spec == Init /\ [][Next]_vars
-----------------------------------------------------------------------------
(***************************************************************************)
(* Properties.                                                             *)
(***************************************************************************)
(* The order holds the living, each once, through cascades of deaths,       *)
(* summons and revivals; the leeks in it stand as they were drawn.          *)
OrderIsTheLiving ==
  /\ IsInjective(order.fids) /\ Range(order.fids) = Living(fighters)
  /\ \A i, j \in DOMAIN initial_order :
       /\ i < j /\ {initial_order[i], initial_order[j]} \subseteq Range(order.fids)
       => IndexOf(order, initial_order[i]) < IndexOf(order, initial_order[j])

(* Whatever enters or leaves the order during a turn, the cursor stays on   *)
(* the fighter whose turn it is, until that fighter dies.                   *)
CursorFollowsTheActor ==
  actor # 0 /\ fighters[actor].alive => current(order) = actor

(* No round ends before everyone who was in the order all along, or was     *)
(* summoned during it, has had a turn, ...                                  *)
NobodyIsSkipped ==
  [][order'.turn # order.turn =>
       (steady \ played) \cap Living(fighters')
         \subseteq (IF phase = "begin" THEN {current(order)} ELSE {})]_vars

(* ... and nobody has two, short of dying in between.                       *)
NobodyPlaysTwice == phase = "begin" => current(order) \notin played

(* A plant wakes once for a given fighter between two turns of the latter,  *)
(* however often it comes and goes.                                         *)
OneAwakeningPerTurn ==
  [][awakening_plant = 0 /\ awakening_plant' # 0
       => Head(pending_awakenings) \notin woke]_vars

(* An awakening is played before the AI that caused it goes on, and none is *)
(* left over for another turn.                                              *)
AwakeningsAreDrained ==
  phase \in {"begin", "act", "over"} =>
    pending_awakenings = <<>> /\ awakening_plant = 0 /\ walk = NoWalk

(* The board and the fighters agree on who stands where, and the living     *)
(* stand somewhere.                                                         *)
BoardAgrees ==
  /\ \A c \in Cells : occupancy[c] # 0 => fighters[occupancy[c]].cell = c
  /\ \A f \in DOMAIN fighters :
       IF fighters[f].cell = NoCell THEN ~fighters[f].alive
                                    ELSE occupancy[fighters[f].cell] = f

(* "The living entity standing on cell": no corpse holds a cell.            *)
EntityOnIsLiving ==
  \A c \in Cells : occupancy[c] # 0 => fighters[occupancy[c]].alive
=============================================================================
