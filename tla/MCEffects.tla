----------------------------- MODULE MCEffects ------------------------------
EXTENDS Effects

MCTeam == [f \in Fighters |-> IF f = 2 THEN 2 ELSE 1]
MCSummoner == [f \in Fighters |-> IF f = 3 THEN 1 ELSE 0]
MCPins == [f \in Fighters |-> IF f = 3 THEN 2 ELSE 0]

Line(effect, turns, targets, flags) ==
  [effect |-> effect, turns |-> turns, targets |-> targets,
   stackable |-> "stackable" \in flags, on_caster |-> "on_caster" \in flags,
   irreductible |-> "irreductible" \in flags, not_replaceable |-> "not_replaceable" \in flags,
   propagates |-> "propagates" \in flags,
   propagation |-> IF "spreads_once" \in flags THEN {"not_replaceable"} ELSE {}]
All == {"enemies", "allies", "caster"}

(* A use finds the first leek, or everyone. *)
MCAreas == {{1}, Fighters}

(* One item per way effects meet, put together from the lines of several: a  *)
(* blow then a poison that spreads once, one that stacks and spreads at will, *)
(* a buff that is replaced then halved, a cure then a heal that lasts, a      *)
(* debuff of everything, and a stimulant that hurts.                          *)
MCItems ==
  [covid |-> <<Line("damage", 0, All, {}),
               Line("poison", 2, All, {"not_replaceable", "propagates", "spreads_once"})>>,
   plague |-> <<Line("poison", 2, All, {"stackable", "propagates"})>>,
   prism |-> <<Line("buff", 1, All, {}), Line("debuff", 0, All, {})>>,
   exasperation |-> <<Line("total_debuff", 0, All, {})>>,
   vaccine |-> <<Line("antidote", 0, All, {}), Line("heal", 0, All, {}),
                 Line("heal", 2, All, {})>>,
   doping |-> <<Line("aftereffect", 1, {"allies"}, {})>>]

MCDoping ==
  [doping |-> <<Line("buff", 2, {"allies"}, {}), Line("aftereffect", 2, {"allies"}, {})>>,
   excalibur |-> <<Line("damage", 0, All, {})>>]
=============================================================================
