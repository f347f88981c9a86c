------------------------------ MODULE Effects -------------------------------
(***************************************************************************)
(* The effects fighters carry in an official fight.                        *)
(*                                                                         *)
(* State keeps every effect ever created in one arena; a fighter holds the *)
(* ids of those it suffers and of those it has launched, and a total of    *)
(* what the former add up to.  A use of an item runs its effect lines over *)
(* its targets; a line hurts, heals, carries or drops; a death, a hit, a   *)
(* poison run the passives of weapons, which create effects in turn.       *)
(*                                                                         *)
(* todo is the call stack, innermost call first: each action takes the     *)
(* call on top and puts what it calls in its place.  Ids are handed out in *)
(* order and pushed last, so a list of effects is the set of its ids.  The *)
(* arena never shrinks; the model forgets, when a turn starts, the entries *)
(* in no list, which nothing reads again.  Amounts are drawn: jets, shields *)
(* and erosion are left out.  Whose turn comes next is Fight's business.   *)
(***************************************************************************)
EXTENDS Integers, Sequences, FiniteSets

CONSTANTS
  Fighters,       (* those that may ever enter, numbered                   *)
  Team,           (* the team of each                                      *)
  Summoner,       (* who may summon each, 0 for the leeks                   *)
  Pins,           (* how many states the template of each pins on it       *)
  Armed,          (* those who carry a weapon with a passive line          *)
  Items,          (* the catalog: the effect lines of each item            *)
  Areas,          (* whom one use of an item may find in its area          *)
  MaxLife,        (* total life                                            *)
  MaxAmount,      (* bound on what one line may do                         *)
  MaxValue,       (* bound on what stacking may make of it                 *)
  MaxEffects,     (* bound on the ids: past it, lines come out with no value *)
  MaxTurns,       (* bound on the turns of a fight                         *)
  MaxUses         (* bound on what is used in a fight                      *)

ASSUME FightersAssumption ==
  /\ Fighters \subseteq Nat \ {0} /\ IsFiniteSet(Fighters)
  /\ Team \in [Fighters -> {1, 2}] /\ Summoner \in [Fighters -> Fighters \cup {0}]
  /\ Pins \in [Fighters -> Nat] /\ Armed \subseteq Fighters
ASSUME BoundsAssumption ==
  /\ MaxLife \in Nat \ {0} /\ MaxAmount \in Nat \ {0} /\ MaxEffects \in Nat
  /\ MaxValue \in Nat /\ MaxAmount <= MaxValue /\ MaxTurns \in Nat /\ MaxUses \in Nat

Ids == 1 .. MaxEffects
Carriers == {"buff", "raw_buff"}
Kinds == Carriers \cup {"damage", "heal", "poison", "aftereffect", "add_state",
                        "debuff", "total_debuff", "antidote"}

(* One effect line of an item; one that propagates comes with what the      *)
(* item's propagation line says of it.  In the data, what counts in a total *)
(* lasts at least a turn, and no aftereffect spreads.                       *)
EffectParams ==
  { line \in [effect : Kinds, turns : -1 .. 9, stackable : BOOLEAN, on_caster : BOOLEAN,
              irreductible : BOOLEAN, not_replaceable : BOOLEAN, propagates : BOOLEAN,
              propagation : SUBSET {"stackable", "not_replaceable"},
              targets : SUBSET {"enemies", "allies", "caster"}] :
      /\ line.effect \in Carriers \cup {"add_state"} => line.turns # 0
      /\ line.effect = "aftereffect" => ~line.propagates }

ASSUME CatalogAssumption ==
  /\ \A i \in DOMAIN Items : Items[i] \in Seq(EffectParams)
  /\ Areas \subseteq SUBSET Fighters

(* What a passive line becomes, and the state of a summon's template.       *)
PassiveLine ==
  [effect |-> "raw_buff", turns |-> -1, stackable |-> TRUE, on_caster |-> FALSE,
   irreductible |-> FALSE, not_replaceable |-> FALSE, propagates |-> FALSE,
   propagation |-> {}, targets |-> {"caster"}]

SummonState ==
  [effect |-> "add_state", turns |-> -1, stackable |-> FALSE, on_caster |-> FALSE,
   irreductible |-> TRUE, not_replaceable |-> FALSE, propagates |-> FALSE,
   propagation |-> {}, targets |-> {"enemies", "allies", "caster"}]

Origins == DOMAIN Items \cup {"passive", "innate"}

VARIABLES
  life,        (* of each fighter, 0 for the dead                           *)
  entered,     (* who has entered the fight                                 *)
  effects,     (* the arena                                                 *)
  suffered,    (* fighters[f].effects: the effects on each                  *)
  launched,    (* fighters[f].launched_effects: those each has cast         *)
  buff_stats,  (* the sum of what the effects on each carry                 *)
  states,      (* how many states are pinned on each                        *)
  actor,       (* whose turn it is, 0 between turns                         *)
  spent,       (* the turns begun and the items used                        *)
  todo         (* the calls in progress                                     *)

lists == <<suffered, launched>>
totals == <<buff_stats, states>>
vars == <<life, entered, effects, lists, totals, actor, spent, todo>>

EffectInstance ==
  [line : EffectParams, item : Origins, turns : -1 .. 9, value : Nat,
   caster : Fighters, target : Fighters]

alive(f) == life[f] > 0
Living == { f \in Fighters : alive(f) }
Leeks == { f \in Fighters : Summoner[f] = 0 }

Init ==
  /\ entered = Leeks
  /\ life = [f \in Fighters |-> IF f \in Leeks THEN MaxLife ELSE 0]
  /\ effects = [e \in {} |-> SummonState]
  /\ suffered = [f \in Fighters |-> {}] /\ launched = [f \in Fighters |-> {}]
  /\ buff_stats = [f \in Fighters |-> 0] /\ states = [f \in Fighters |-> 0]
  /\ actor = 0 /\ spent = [turns |-> 0, uses |-> 0] /\ todo = <<>>
-----------------------------------------------------------------------------
(***************************************************************************)
(* Calls.                                                                  *)
(***************************************************************************)
Running(op) == todo # <<>> /\ Head(todo).op = op
Then(calls) == todo' = calls \o Tail(todo)

create_effect(line, item, by, to) ==
  [op |-> "create", line |-> line, item |-> item, by |-> by, to |-> to]

(* A call over a set is over when nothing is left of it.                    *)
While(left, call) == IF left = {} THEN <<>> ELSE <<call>>

fire_passives(who) ==
  While(who \cap Armed, [op |-> "passives", who |-> who \cap Armed])
die(who) == While(who, [op |-> "die", who |-> who])

First(ids) == CHOOSE i \in ids : \A j \in ids : i <= j
Least(a, b) == IF a < b THEN a ELSE b

(* The passives of the teammates of a leek that falls, then its killer's.   *)
on_player_die(f, killer) ==
  fire_passives({ g \in entered : f \in Leeks /\ g # f /\ Team[g] = Team[f] })
    \o fire_passives({killer})

remove_life(f, amount, attacker, after) ==
  /\ life' = [life EXCEPT ![f] = @ - Least(amount, @)]
  /\ Then((IF alive(f) /\ amount >= life[f]
           THEN on_player_die(f, attacker) \o die({f}) ELSE <<>>) \o after)

add_life(f, amount) == life' = [life EXCEPT ![f] = Least(@ + amount, MaxLife)]
-----------------------------------------------------------------------------
(***************************************************************************)
(* The two lists and the totals.  Variants with a fault, named Bad*, stand *)
(* before the definition they replace.                                     *)
(***************************************************************************)
(* What a set of effects adds up to: one pip for each point of each.        *)
Pips(e, fx) == {e} \X (1 .. fx[e].value)
Carried(fx, ids) ==
  Cardinality(UNION { Pips(e, fx) : e \in { i \in ids : fx[i].line.effect \in Carriers } })
Pinned(fx, ids) == Cardinality({ e \in ids : fx[e].line.effect = "add_state" })

BadUpdateBuffStats(who, fx, on) == UNCHANGED totals

(* Rebuilt, for some fighters, from the effects on them.                    *)
update_buff_stats(who, fx, on) ==
  /\ buff_stats' = [f \in Fighters |-> IF f \in who THEN Carried(fx, on[f]) ELSE buff_stats[f]]
  /\ states' = [f \in Fighters |-> IF f \in who THEN Pinned(fx, on[f]) ELSE states[f]]

BadRemoveEffects(f, gone, fx) ==
  /\ suffered' = [suffered EXCEPT ![f] = @ \ gone]
  /\ UNCHANGED launched
  /\ update_buff_stats({f}, fx, suffered')

(* Effects on a fighter go, from its list and from their casters'.          *)
remove_effects(f, gone, fx) ==
  /\ suffered' = [suffered EXCEPT ![f] = @ \ gone]
  /\ launched' = [g \in Fighters |->
                    launched[g] \ { e \in gone : effects[e].caster = g }]
  /\ update_buff_stats({f}, fx, suffered')

has_effect(f, item) == \E e \in suffered[f] : effects[e].item = item

FromTargets(f) ==
  [g \in Fighters |->
     IF g = f THEN {} ELSE suffered[g] \ { e \in launched[f] : effects[e].target = g }]
FromCasters(f) ==
  [g \in Fighters |->
     IF g = f THEN {} ELSE launched[g] \ { e \in suffered[f] : effects[e].caster = g }]

(* Every effect goes, in both directions, and then the living summons.      *)
dies ==
  LET f == First(Head(todo).who)
      summons == { g \in entered \ {f} : alive(g) /\ Summoner[g] = f }
  IN /\ Running("die")
     /\ life' = [life EXCEPT ![f] = 0]
     /\ suffered' = FromTargets(f) /\ launched' = FromCasters(f)
     /\ update_buff_stats({f} \cup { effects[e].target : e \in launched[f] }, effects, suffered')
     /\ Then(die(summons) \o die(Head(todo).who \ {f}))
     /\ UNCHANGED <<entered, effects, actor, spent>>
-----------------------------------------------------------------------------
(***************************************************************************)
(* The creation of one effect: what it replaces, what it does, and what is *)
(* left of it to carry.                                                    *)
(***************************************************************************)
Call == Head(todo)

(* An effect that does not stack replaces the one like it, whoever cast it. *)
create ==
  LET like == { e \in suffered[Call.to] :
                  effects[e].line.effect = Call.line.effect /\ effects[e].item = Call.item }
      stacks == Call.line.stackable /\ Call.line.effect # "add_state"
  IN /\ Running("create")
     /\ IF Call.line.turns # 0 /\ ~stacks /\ like # {}
        THEN remove_effects(Call.to, {First(like)}, effects)
        ELSE UNCHANGED <<lists, totals>>
     /\ Then(<<[Call EXCEPT !.op = "apply"]>>)
     /\ UNCHANGED <<life, entered, effects, actor, spent>>

Applying(kinds) == Running("apply") /\ Call.line.effect \in kinds

(* Those it may merge with: the same, fresh, from the same caster.          *)
Same ==
  { e \in suffered[Call.to] :
      /\ effects[e].item = Call.item /\ effects[e].line.effect = Call.line.effect
      /\ effects[e].turns = Call.line.turns /\ effects[e].caster = Call.by }

NewId == { e \in Ids : /\ e = 1 \/ e - 1 \in DOMAIN effects
                      /\ \A i \in DOMAIN effects : i < e }

(* Within the bounds: of the value of a stack, and of the arena.            *)
Amounts ==
  IF Same # {} THEN { n \in 0 .. MaxAmount : effects[First(Same)].value + n <= MaxValue }
  ELSE IF Call.line.turns # 0 /\ NewId = {} THEN {0}
  ELSE 0 .. MaxAmount

Store(value) ==
  [op |-> "store", line |-> Call.line, item |-> Call.item, by |-> Call.by, to |-> Call.to,
   value |-> value]

(* Direct damage, drained of its kinds: after the blow the target answers   *)
(* it, the caster steals life, and is hurt by what is returned.             *)
apply_damage ==
  /\ Applying({"damage"})
  /\ \E n \in 0 .. Least(MaxAmount, life[Call.to]) :
       remove_life(Call.to, n, Call.by,
         fire_passives({Call.to}) \o
           IF Call.to = Call.by THEN <<>>
           ELSE <<[op |-> "steal", f |-> Call.by, n |-> n],
                  [op |-> "return", f |-> Call.by, by |-> Call.to]>>)
  /\ UNCHANGED <<entered, effects, lists, totals, actor, spent>>

BadLifeSteal ==
  /\ Running("steal")
  /\ \E n \in 0 .. Call.n : add_life(Call.f, n)
  /\ Then(<<>>)
  /\ UNCHANGED <<entered, effects, lists, totals, actor, spent>>

(* The fall of its target takes a summon with it: the dead steal nothing.   *)
life_steal ==
  /\ Running("steal")
  /\ \E n \in 0 .. (IF alive(Call.f) THEN Call.n ELSE 0) : add_life(Call.f, n)
  /\ Then(<<>>)
  /\ UNCHANGED <<entered, effects, lists, totals, actor, spent>>

return_damage ==
  /\ Running("return")
  /\ \E n \in 0 .. Least(MaxAmount, life[Call.f]) :
       remove_life(Call.f, n, Call.by, fire_passives({Call.f}))
  /\ UNCHANGED <<entered, effects, lists, totals, actor, spent>>

apply_effect_poison ==
  /\ Applying({"poison"})
  /\ \E n \in Amounts : Then(<<Store(n)>>)
  /\ UNCHANGED <<life, entered, effects, lists, totals, actor, spent>>

(* At once without turns, turn after turn with them.                        *)
apply_effect_heal ==
  /\ Applying({"heal"})
  /\ \E n \in Amounts :
       IF Call.line.turns = 0 THEN add_life(Call.to, n) /\ Then(<<>>)
                              ELSE Then(<<Store(n)>>) /\ UNCHANGED life
  /\ UNCHANGED <<entered, effects, lists, totals, actor, spent>>

(* It counts at once, before it is stored.                                  *)
apply_effect_stat_carrier ==
  /\ Applying(Carriers)
  /\ \E n \in Amounts :
       /\ buff_stats' = [buff_stats EXCEPT ![Call.to] = @ + n]
       /\ Then(<<Store(n)>>)
  /\ UNCHANGED <<life, entered, effects, lists, states, actor, spent>>

apply_add_state ==
  /\ Applying({"add_state"})
  /\ LET n == IF NewId = {} THEN 0 ELSE 1
     IN /\ states' = [states EXCEPT ![Call.to] = @ + n]
        /\ Then(<<Store(n)>>)
  /\ UNCHANGED <<life, entered, effects, lists, buff_stats, actor, spent>>

(* It hurts at once, and is stored all the same.                            *)
apply_aftereffect ==
  /\ Applying({"aftereffect"})
  /\ \E n \in Amounts :
       LET value == Least(n, life[Call.to])
       IN remove_life(Call.to, value, Call.by, fire_passives({Call.to}) \o <<Store(value)>>)
  /\ UNCHANGED <<entered, effects, lists, totals, actor, spent>>

(* Half of an effect, or all of it; a state goes whole or not at all.  A    *)
(* total debuff does not spare the irreductible.                            *)
reduce_effect(e, total) ==
  IF total THEN [e EXCEPT !.value = 0]
  ELSE IF e.line.effect = "add_state" THEN e
  ELSE [e EXCEPT !.value = (@ + 1) \div 2]

reduce_effects ==
  /\ Applying({"debuff", "total_debuff"})
  /\ \E total \in BOOLEAN :
       LET reduced == { e \in suffered[Call.to] :
                          effects[e].line.irreductible => Call.line.effect = "total_debuff" }
           fx == [e \in DOMAIN effects |->
                    IF e \in reduced THEN reduce_effect(effects[e], total) ELSE effects[e]]
       IN /\ effects' = fx
          /\ remove_effects(Call.to, { e \in reduced : fx[e].value = 0 }, fx)
  /\ Then(<<>>)
  /\ UNCHANGED <<life, entered, actor, spent>>

clear_poisons ==
  /\ Applying({"antidote"})
  /\ remove_effects(Call.to,
       { e \in suffered[Call.to] : effects[e].line.effect = "poison" }, effects)
  /\ Then(<<>>)
  /\ UNCHANGED <<life, entered, effects, actor, spent>>

merges == Call.value > 0 /\ Call.line.effect # "add_state" /\ Same # {}

store_merged ==
  /\ Running("store") /\ merges
  /\ effects' = [effects EXCEPT ![First(Same)].value = @ + Call.value]
  /\ Then(<<>>)
  /\ UNCHANGED <<life, entered, lists, totals, actor, spent>>

store_new ==
  /\ Running("store") /\ ~merges
  /\ Call.line.turns # 0 /\ Call.value > 0
  /\ \E e \in NewId :
       /\ effects' = [i \in DOMAIN effects \cup {e} |->
                        IF i = e
                        THEN [line |-> Call.line, item |-> Call.item, turns |-> Call.line.turns,
                              value |-> Call.value, caster |-> Call.by, target |-> Call.to]
                        ELSE effects[i]]
       /\ suffered' = [suffered EXCEPT ![Call.to] = @ \cup {e}]
       /\ launched' = [launched EXCEPT ![Call.by] = @ \cup {e}]
  /\ Then(<<>>)
  /\ UNCHANGED <<life, entered, totals, actor, spent>>

(* The last case is the bound on ids: calls of an aftereffect took the last. *)
store_nothing ==
  /\ Running("store") /\ ~merges
  /\ Call.line.turns = 0 \/ Call.value = 0 \/ NewId = {}
  /\ Then(<<>>)
  /\ UNCHANGED <<life, entered, effects, lists, totals, actor, spent>>

(* A weapon's passive lines answer what happens to its carrier, if alive.   *)
activate_passive ==
  LET f == First(Call.who)
  IN /\ Running("passives")
     /\ Then((IF alive(f) THEN <<create_effect(PassiveLine, "passive", f, f)>> ELSE <<>>)
               \o fire_passives(Call.who \ {f}))
     /\ UNCHANGED <<life, entered, effects, lists, totals, actor, spent>>
-----------------------------------------------------------------------------
(***************************************************************************)
(* A use of an item: its lines in turn, each over those it may reach.      *)
(***************************************************************************)
filter_target(line, by, to) ==
  /\ Team[by] # Team[to] => "enemies" \in line.targets
  /\ Team[by] = Team[to] => "allies" \in line.targets
  /\ by = to => "caster" \in line.targets

lines(by, item, rest, area) ==
  While({ i \in DOMAIN rest : TRUE },
        [op |-> "lines", by |-> by, item |-> item, rest |-> rest, area |-> area])
over_targets(line, item, by, who) ==
  While(who, [op |-> "targets", line |-> line, item |-> item, by |-> by, who |-> who])

Reached(line) ==
  IF line.on_caster THEN {Call.by}
  ELSE { f \in Call.area :
           /\ alive(f) /\ filter_target(line, Call.by, f)
           /\ line.not_replaceable => ~has_effect(f, Call.item) }

BadNextLine ==
  LET line == Head(Call.rest)
  IN /\ Running("lines")
     /\ Then(over_targets(line, Call.item, Call.by, Reached(line))
               \o lines(Call.by, Call.item, Tail(Call.rest), Call.area))
     /\ UNCHANGED <<life, entered, effects, lists, totals, actor, spent>>

(* A caster that an earlier line has killed casts no more.                  *)
next_line ==
  LET line == Head(Call.rest)
  IN /\ Running("lines")
     /\ Then(over_targets(line, Call.item, Call.by, IF alive(Call.by) THEN Reached(line) ELSE {})
               \o lines(Call.by, Call.item, Tail(Call.rest), Call.area))
     /\ UNCHANGED <<life, entered, effects, lists, totals, actor, spent>>

(* Ascending, where the code takes them cell by cell of the area.           *)
next_target ==
  LET f == First(Call.who)
  IN /\ Running("targets")
     /\ Then(<<create_effect(Call.line, Call.item, Call.by, f)>>
               \o over_targets(Call.line, Call.item, Call.by, Call.who \ {f}))
     /\ UNCHANGED <<life, entered, effects, lists, totals, actor, spent>>

Acts == todo = <<>> /\ actor # 0 /\ alive(actor)

(* A weapon or a chip, on whoever stands in its area.                       *)
use_item(item, area) ==
  /\ Acts /\ spent.uses < MaxUses
  /\ todo' = lines(actor, item, Items[item], area \cap Living)
  /\ spent' = [spent EXCEPT !.uses = @ + 1]
  /\ UNCHANGED <<life, entered, effects, lists, totals, actor>>

(* It enters, or comes back, with its states pinned on it anew, one by one. *)
Appears(f) ==
  /\ \E n \in 1 .. MaxLife : life' = [life EXCEPT ![f] = n]
  /\ todo' = lines(f, "innate", [n \in 1 .. Pins[f] |-> SummonState], {f})
  /\ spent.uses < MaxUses /\ spent' = [spent EXCEPT !.uses = @ + 1]
  /\ UNCHANGED <<effects, lists, totals, actor>>

summon(f) ==
  /\ Acts /\ Summoner[f] = actor /\ f \notin entered
  /\ entered' = entered \cup {f} /\ Appears(f)

resurrect(f) ==
  /\ Acts /\ f \in entered /\ ~alive(f)
  /\ Appears(f) /\ UNCHANGED entered
-----------------------------------------------------------------------------
(***************************************************************************)
(* A turn.                                                                 *)
(***************************************************************************)
is_finished == Cardinality({ Team[f] : f \in Living }) < 2

tick(f, ids) == [op |-> "tick", f |-> f, ids |-> ids]

(* The effects on it act, as they are listed now; then those it has         *)
(* launched lose a turn.                                                    *)
start_turn(f) ==
  /\ todo = <<>> /\ actor = 0 /\ alive(f) /\ ~is_finished
  /\ spent.turns < MaxTurns /\ spent' = [spent EXCEPT !.turns = @ + 1]
  /\ actor' = f /\ todo' = <<tick(f, suffered[f])>>
  /\ effects' = [e \in UNION { suffered[g] \cup launched[g] : g \in Fighters } |-> effects[e]]
  /\ UNCHANGED <<life, entered, lists, totals>>

Ticking(kinds) ==
  /\ Running("tick") /\ alive(Call.f) /\ Call.ids # {}
  /\ effects[First(Call.ids)].line.effect \in kinds
Ticked == effects[First(Call.ids)]
Rest == <<tick(Call.f, Call.ids \ {First(Call.ids)})>>

(* One of its states may make it invincible.                                *)
tick_poison ==
  /\ Ticking({"poison"})
  /\ \E n \in {Least(Ticked.value, life[Call.f])} \cup (IF states[Call.f] > 0 THEN {0} ELSE {}) :
       remove_life(Call.f, n, Ticked.caster, fire_passives({Call.f}) \o Rest)
  /\ UNCHANGED <<entered, effects, lists, totals, actor, spent>>

(* ... or unhealable.                                                       *)
tick_heal ==
  /\ Ticking({"heal"})
  /\ \E n \in {Ticked.value} \cup (IF states[Call.f] > 0 THEN {0} ELSE {}) : add_life(Call.f, n)
  /\ Then(Rest)
  /\ UNCHANGED <<entered, effects, lists, totals, actor, spent>>

(* It keeps what it could take.                                             *)
tick_aftereffect ==
  LET n == Least(Ticked.value, life[Call.f])
  IN /\ Ticking({"aftereffect"})
     /\ effects' = [effects EXCEPT ![First(Call.ids)].value = n]
     /\ remove_life(Call.f, n, Ticked.caster, fire_passives({Call.f}) \o Rest)
     /\ UNCHANGED <<entered, lists, totals, actor, spent>>

tick_other ==
  /\ Ticking(Kinds \ {"poison", "heal", "aftereffect"})
  /\ Then(Rest)
  /\ UNCHANGED <<life, entered, effects, lists, totals, actor, spent>>

(* It died of one: the rest do not act, and nothing ages.                   *)
dies_ticking ==
  /\ Running("tick") /\ ~alive(Call.f) /\ Then(<<>>)
  /\ UNCHANGED <<life, entered, effects, lists, totals, actor, spent>>

Aged(e) == IF e.turns = -1 THEN e ELSE [e EXCEPT !.turns = @ - 1]

BadExpire ==
  LET f == Call.f
      fx == [e \in DOMAIN effects |->
               IF e \in launched[f] THEN [effects[e] EXCEPT !.turns = @ - 1] ELSE effects[e]]
      gone == { e \in launched[f] : fx[e].turns = 0 }
  IN /\ Running("tick") /\ alive(f) /\ Call.ids = {}
     /\ effects' = fx
     /\ launched' = [launched EXCEPT ![f] = @ \ gone]
     /\ suffered' = [g \in Fighters |-> suffered[g] \ { e \in gone : fx[e].target = g }]
     /\ update_buff_stats({ fx[e].target : e \in gone }, fx, suffered')
     /\ Then(<<>>)
     /\ UNCHANGED <<life, entered, actor, spent>>

expire ==
  LET f == Call.f
      fx == [e \in DOMAIN effects |->
               IF e \in launched[f] THEN Aged(effects[e]) ELSE effects[e]]
      gone == { e \in launched[f] : fx[e].turns = 0 }
  IN /\ Running("tick") /\ alive(f) /\ Call.ids = {}
     /\ effects' = fx
     /\ launched' = [launched EXCEPT ![f] = @ \ gone]
     /\ suffered' = [g \in Fighters |-> suffered[g] \ { e \in gone : fx[e].target = g }]
     /\ update_buff_stats({ fx[e].target : e \in gone }, fx, suffered')
     /\ Then(<<>>)
     /\ UNCHANGED <<life, entered, actor, spent>>

spread(f, ids) == While(ids, [op |-> "spread", f |-> f, ids |-> ids])
infect(ei, who) == While(who, [op |-> "infect", ei |-> ei, who |-> who])

(* What propagates spreads, from the fighter whose turn ends, to those      *)
(* around it.                                                               *)
end_entity_turn ==
  /\ todo = <<>> /\ actor # 0 /\ actor' = 0
  /\ todo' = IF alive(actor)
             THEN spread(actor, { e \in suffered[actor] : effects[e].line.propagates })
             ELSE <<>>
  /\ UNCHANGED <<life, entered, effects, lists, totals, spent>>

propagate_effects ==
  LET e == First(Call.ids)
  IN /\ Running("spread")
     /\ \E around \in SUBSET (Living \ {Call.f}) :
          Then(infect(e, around) \o spread(Call.f, Call.ids \ {e}))
     /\ UNCHANGED <<life, entered, effects, lists, totals, actor, spent>>

(* It stacks where it spreads if the propagation line says so.              *)
SpreadLine(line) == [line EXCEPT !.stackable = "stackable" \in line.propagation]

(* One that has it, from whomever, may be passed over.                      *)
infect_next ==
  LET f == First(Call.who)
      e == effects[Call.ei]
  IN /\ Running("infect")
     /\ Then((IF "not_replaceable" \in e.line.propagation /\ has_effect(f, e.item) THEN <<>>
              ELSE <<create_effect(SpreadLine(e.line), e.item, e.caster, f)>>)
               \o infect(Call.ei, Call.who \ {f}))
     /\ UNCHANGED <<life, entered, effects, lists, totals, actor, spent>>

finished ==
  /\ todo = <<>> /\ actor = 0 /\ (is_finished \/ spent.turns = MaxTurns)
  /\ UNCHANGED vars

Next ==
  \/ create \/ store_merged \/ store_new \/ store_nothing
  \/ apply_damage \/ apply_effect_poison \/ apply_effect_heal \/ apply_aftereffect
  \/ apply_effect_stat_carrier \/ apply_add_state \/ reduce_effects \/ clear_poisons
  \/ life_steal \/ return_damage \/ activate_passive \/ dies
  \/ next_line \/ next_target
  \/ \E f \in Fighters : start_turn(f) \/ summon(f) \/ resurrect(f)
  \/ \E item \in DOMAIN Items, area \in Areas : use_item(item, area)
  \/ tick_poison \/ tick_heal \/ tick_aftereffect \/ tick_other \/ dies_ticking \/ expire
  \/ end_entity_turn \/ propagate_effects \/ infect_next
  \/ finished

Spec == Init /\ [][Next]_vars
-----------------------------------------------------------------------------
(***************************************************************************)
(* Properties.                                                             *)
(***************************************************************************)
TypeOK ==
  /\ life \in [Fighters -> 0 .. MaxLife] /\ entered \subseteq Fighters
  /\ DOMAIN effects \subseteq Ids /\ \A e \in DOMAIN effects : effects[e] \in EffectInstance
  /\ suffered \in [Fighters -> SUBSET (DOMAIN effects)]
  /\ launched \in [Fighters -> SUBSET (DOMAIN effects)]
  /\ buff_stats \in [Fighters -> Nat] /\ states \in [Fighters -> Nat]
  /\ actor \in Fighters \cup {0}
  /\ spent \in [turns : 0 .. MaxTurns, uses : 0 .. MaxUses]

(* An effect is listed by its target exactly when its caster lists it:      *)
(* replaced, reduced to nothing, cured, expired or dropped by a death, it   *)
(* leaves both lists.                                                       *)
ListsAgree ==
  \A e \in DOMAIN effects, f, g \in Fighters :
    /\ e \in suffered[f] => f = effects[e].target /\ e \in launched[effects[e].caster]
    /\ e \in launched[g] => g = effects[e].caster /\ e \in suffered[effects[e].target]

(* Between calls, the totals are what the live effects add up to, however   *)
(* they were merged, halved, replaced or dropped.                           *)
TotalsAreTheEffects ==
  todo = <<>> =>
    \A f \in Fighters : /\ buff_stats[f] = Carried(effects, suffered[f])
                        /\ states[f] = Pinned(effects, suffered[f])

(* Nobody suffers from an effect whose caster is dead, but for the          *)
(* aftereffect that killed a summoner and its summon, the caster, with it.  *)
TheDeadLaunchNothing ==
  todo = <<>> =>
    \A f \in Fighters : ~alive(f) =>
      \A e \in launched[f] : effects[e].line.effect = "aftereffect"

(* The dead come back by a resurrection and by nothing else, whatever was   *)
(* still to tick or to heal when they fell.                                 *)
DeadStayDead ==
  [][\A f \in Fighters : f \in entered /\ ~alive(f) /\ life'[f] > 0 => todo = <<>>]_vars

(* "Death purged every effect".                                             *)
TheDeadCarryNothing ==
  todo = <<>> => \A f \in Fighters : ~alive(f) => suffered[f] = {}
=============================================================================
